---------------------------- MODULE PollerProofs ----------------------------
(* Theorems about module Poller, for any servers, databases and capacities. *)
EXTENDS Poller, TLAPS

(* Type correctness.                                                       *)

LEMMA FreshTypes ==
  /\ FreshShared \in SharedType
  /\ \A points \in SUBSET Target : FreshLocal(points) \in LocalType
  /\ Idle \in [main : Servers \cup Target \cup {None}, tel : Target \cup {None}]
  /\ Connecting \in Snapshot
BY DEF FreshShared, FreshLocal, Idle, Connecting, Snapshot, LocalType, SharedType

LEMMA InitType == Init => TypeOK
<1> SUFFICES ASSUME Init PROVE TypeOK
  OBVIOUS
<1>1. ControlType
  BY FreshTypes, BackoffType DEF Init, ControlType, PcSet
<1>2. FlagType
  BY DEF Init, FlagType
<1>3. DataType
  <2>1. files \in [Files -> SUBSET Target]
    BY DEF Init
  <2>2. store \in Files
    BY FileOfType DEF Init
  <2>3. local \in LocalType
    BY <2>1, <2>2, FreshTypes DEF Init
  <2>4. QED
    BY <2>1, <2>2, <2>3, FreshTypes DEF Init, DataType
<1>4. QueueType
  BY DEF Init, QueueType
<1>5. QED
  BY <1>1, <1>2, <1>3, <1>4 DEF TypeOK

(* Queues: what arrives keeps the type of the channel, and so does what    *)
(* remains after the head is taken.                                        *)
LEMMA QueueSteps ==
  ASSUME NEW S, NEW q \in Seq(S)
  PROVE  /\ \A e \in S : Append(q, e) \in Seq(S)
         /\ q # <<>> => Head(q) \in S /\ Tail(q) \in Seq(S)
OBVIOUS

LEMMA EndSessionType == TypeOK /\ EndSession => 
    /\ mode' = "none" /\ tel' = "off"
    /\ held' \in [main : Servers \cup Target \cup {None}, tel : Target \cup {None}]
    /\ wake' \in BOOLEAN
BY FreshTypes DEF EndSession

LEMMA FrontendType == TypeOK /\ Frontend => TypeOK'
<1> SUFFICES ASSUME TypeOK, Frontend PROVE TypeOK'
  OBVIOUS
<1> USE DEF TypeOK
<1>1. UNCHANGED <<target, published, pc, mode, tel, memory, disk, held,
                  backoff, polledOk, wake, unseen>>
  BY DEF Frontend, AskDatabase, AskServer, AskAdmin, AskDetail,
         RequestShutdown, DropReceivers, QueueFrame
<1>2. ControlType'
  BY <1>1 DEF ControlType
<1>3. DataType'
  BY <1>1 DEF DataType, memory, disk
<1>4. QueueType' /\ FlagType'
  <2>1. CASE \E d \in Databases : AskDatabase(d)
    BY <1>1, <2>1, QueueSteps DEF AskDatabase, QueueType, FlagType
  <2>2. CASE \E t \in Target : AskServer(t)
    BY <1>1, <2>2, QueueSteps DEF AskServer, QueueType, FlagType
  <2>3. CASE AskAdmin
    <3>1. published.of \in Target
      BY <2>3 DEF AskAdmin, DataType, Snapshot
    <3>2. published.of.server \in Servers
      BY <3>1 DEF Target
    <3>3. QED
      BY <1>1, <2>3, <3>2, QueueSteps DEF AskAdmin, QueueType, FlagType
  <2>4. CASE AskDetail
    <3>1. {published.of, None} \subseteq DetailRequest
      BY <2>4 DEF AskDetail, DataType, Snapshot, DetailRequest
    <3>2. QED
      BY <1>1, <2>4, <3>1, QueueSteps DEF AskDetail, QueueType, FlagType
  <2>5. CASE RequestShutdown
    BY <1>1, <2>5 DEF RequestShutdown, QueueType, FlagType, queues
  <2>6. CASE DropReceivers
    BY <1>1, <2>6 DEF DropReceivers, QueueType, FlagType, queues
  <2>7. QED
    BY <2>1, <2>2, <2>3, <2>4, <2>5, <2>6 DEF Frontend
<1>5. QED
  BY <1>2, <1>3, <1>4

LEMMA StopType == TypeOK /\ Stop => TypeOK'
BY EndSessionType DEF TypeOK, Stop, ControlType, FlagType, DataType, QueueType,
   PcSet, memory, disk, outside, queues

LEMMA FailType == TypeOK /\ FailSession => TypeOK'
<1> SUFFICES ASSUME TypeOK, FailSession PROVE TypeOK'
  OBVIOUS
<1> USE DEF TypeOK
<1>1. Errored(published) \in Snapshot
  BY DEF DataType, Errored, Snapshot
<1>2. DataType'
  BY <1>1 DEF FailSession, DataType, memory, disk
<1>3. ControlType' /\ FlagType'
  BY EndSessionType, BackoffType
  DEF FailSession, ControlType, FlagType, PcSet, outside
<1>4. QED
  BY <1>2, <1>3 DEF FailSession, QueueType, outside, queues

LEMMA RunType == TypeOK /\ (Run \/ Connect) => TypeOK'
<1> SUFFICES ASSUME TypeOK, Run \/ Connect PROVE TypeOK'
  OBVIOUS
<1> USE DEF TypeOK
<1>3. ASSUME NEW t \in Target, Reset(t), UNCHANGED <<shutdown, open>>, QueueType'
      PROVE TypeOK'
  <2>1. FileOf[t] \in Files /\ files[FileOf[t]] \in SUBSET Target
    BY FileOfType DEF DataType
  <2>2. local' \in LocalType /\ shared' \in SharedType
    BY <1>3, <2>1, FreshTypes DEF Reset
  <2>3. DataType'
    BY <1>3, <2>1, <2>2 DEF Reset, DataType
  <2>4. ControlType' /\ FlagType'
    BY <1>3, EndSessionType DEF Reset, ControlType, FlagType, PcSet
  <2>5. QED
    BY <1>3, <2>3, <2>4
<1>4. CASE TopStops \/ BackoffInterrupted \/ SessionStops
  BY <1>4, StopType DEF TopStops, BackoffInterrupted, SessionStops
<1>5. CASE StartSession
  BY <1>5 DEF StartSession, ControlType, FlagType, DataType, QueueType,
     PcSet, memory, disk, outside, queues
<1>6. CASE BackoffElapsed
  <2>1. Doubled(backoff) \in BackoffInitial..BackoffMax
    BY BackoffType DEF Doubled, ControlType
  <2>2. QED
    BY <1>6, <2>1 DEF BackoffElapsed, ControlType, FlagType, DataType,
       QueueType, PcSet, memory, disk, outside, queues
<1>7. CASE TakeDatabase
  <2>1. [target EXCEPT !.db = Head(dbQ)] \in Target
    BY <1>7, QueueSteps DEF TakeDatabase, DataType, QueueType, Target
  <2>2. QueueType'
    BY <1>7, QueueSteps DEF TakeDatabase, QueueType
  <2>3. QED
    BY <1>3, <1>7, <2>1, <2>2 DEF TakeDatabase
<1>8. CASE TakeServer
  <2>1. Head(serverQ) \in Target /\ QueueType'
    BY <1>8, QueueSteps DEF TakeServer, QueueType
  <2>2. QED
    BY <1>3, <1>8, <2>1 DEF TakeServer
<1>9. CASE ConnectFails
  BY <1>9, FailType DEF ConnectFails
<1>10. CASE \E m \in Modes : Connected(m)
  BY <1>10, ModesType DEF Connected, ControlType, FlagType, DataType, QueueType,
     PcSet, SessionPc, memory, disk, outside, queues
<1>11. QED
  BY <1>4, <1>5, <1>6, <1>7, <1>8, <1>9, <1>10 DEF Run, Connect

(* The stretch of code that publishes keeps every type, given well-typed   *)
(* telemetry and own state.                                                *)
LEMMA PublishType ==
  ASSUME TypeOK, NEW sh \in SharedType, NEW own \in LocalType,
         Publish(sh, own), shared' = sh
  PROVE  TypeOK'
<1> DEFINE ring == [own EXCEPT !.history = @ \cup {target}]
<1>1. target \in Target
  BY DEF TypeOK, DataType
<1>2. ring \in LocalType
  BY <1>1 DEF LocalType
<1>3. Envelope(sh, ring) \in Snapshot
  BY <1>1, <1>2 DEF Envelope, Snapshot, LocalType, SharedType
<1>4. files' \in [Files -> SUBSET Target]
  <2>1. files \in [Files -> SUBSET Target] /\ store \in Files
    BY DEF TypeOK, DataType
  <2>2. ring.history \in SUBSET Target
    BY <1>2 DEF LocalType
  <2>3. QED
    BY <1>1, <2>1, <2>2 DEF Publish
<1>5. DataType'
  BY <1>2, <1>3, <1>4 DEF Publish, TypeOK, DataType
<1>6. ControlType' /\ FlagType'
  BY DEF Publish, TypeOK, ControlType, FlagType, PcSet, SessionPc, outside
<1>7. QueueType'
  BY DEF Publish, TypeOK, QueueType, outside, queues
<1>8. QED
  BY <1>5, <1>6, <1>7 DEF TypeOK

LEMMA DefinitionType ==
  TypeOK => \A t \in Target : Definition(t) \in Detail
BY DEF TypeOK, DataType, Definition, Detail

LEMMA FastLaneType == TypeOK /\ FastLane => TypeOK'
<1> SUFFICES ASSUME TypeOK, FastLane PROVE TypeOK'
  OBVIOUS
<1> USE DEF TypeOK
<1>1. CASE PollFails \/ PollClosed
  BY <1>1, FailType, StopType DEF PollFails, PollClosed
<1>2. CASE PublishDual
  BY <1>2, PublishType DEF PublishDual, DataType
<1>3. CASE PublishSingle
  <2>1. PICK tiers \in {shared.tiers, {target}},
             slow \in {local.slow, local.slow \cup {target}},
             keep \in {TRUE, FALSE} :
          /\ shared' = IF keep THEN [shared EXCEPT !.tiers = tiers]
                       ELSE [shared EXCEPT !.tiers = tiers, !.slow = slow]
          /\ Publish(shared', IF keep THEN local ELSE [local EXCEPT !.slow = slow])
    BY <1>3 DEF PublishSingle
  <2>2. slow \in SUBSET Target /\ tiers \in SUBSET Target
    BY DEF DataType, LocalType, SharedType
  <2>3. shared' \in SharedType
    BY <2>1, <2>2 DEF DataType, SharedType
  <2>4. (IF keep THEN local ELSE [local EXCEPT !.slow = slow]) \in LocalType
    BY <2>2 DEF DataType, LocalType
  <2>5. QED
    BY <2>1, <2>3, <2>4, PublishType
<1>4. ASSUME pc' \in PcSet, WaitFrame, FlagType', QueueType',
             held' \in [main : Servers \cup Target \cup {None},
                        tel : Target \cup {None}],
             held'.tel = held.tel,
             pc' = "admin" => held'.main \in Servers,
             pc' = "detail" => held'.main \in Target,
             local' \in LocalType, shared' \in SharedType,
             fetched' \in Detail \cup {None}
      PROVE  TypeOK'
  BY <1>4 DEF WaitFrame, ControlType, DataType, disk
<1>5. CASE Tick \/ Woken
  BY <1>4, <1>5 DEF Tick, Woken, Resume, WaitFrame, PcSet, SessionPc, FlagType,
     QueueType, ControlType, DataType, memory, outside, queues
<1>6. CASE TakeAdmin
  <2>1. Head(adminQ) \in Servers /\ QueueType'
    BY <1>6, QueueSteps DEF TakeAdmin, QueueType
  <2>2. QED
    BY <1>4, <1>6, <2>1 DEF TakeAdmin, WaitFrame, PcSet, SessionPc, FlagType,
       ControlType, DataType, memory
<1>7. CASE AdminDone
  <2>1. [asked |-> held.main, on |-> target.server] \in AdminResult
    BY <1>7 DEF AdminDone, ControlType, DataType, AdminResult, Target
  <2>2. local' \in LocalType
    BY <1>7, <2>1 DEF AdminDone, DataType, LocalType
  <2>3. QED
    BY <1>4, <1>7, <2>2 DEF AdminDone, Resume, WaitFrame, PcSet, SessionPc,
       FlagType, QueueType, ControlType, DataType, outside, queues
<1>8. CASE TakeDetail
  <2>1. QueueType' /\ Head(detailQ) \in DetailRequest
    BY <1>8, QueueSteps DEF TakeDetail, QueueType
  <2>2. local' \in LocalType /\ shared' \in SharedType /\ fetched' \in Detail \cup {None}
    BY <1>8 DEF TakeDetail, DataType, LocalType, SharedType, memory
  <2>3. /\ held' \in [main : Servers \cup Target \cup {None}, tel : Target \cup {None}]
        /\ held'.tel = held.tel /\ (pc' = "detail" => held'.main \in Target)
    BY <1>8, <2>1 DEF TakeDetail, Resume, ControlType, DetailRequest
  <2>4. pc' \in PcSet /\ pc' # "admin" /\ FlagType'
    BY <1>8 DEF TakeDetail, Resume, PcSet, SessionPc, FlagType, WaitFrame
  <2>5. QED
    BY <1>4, <1>8, <2>1, <2>2, <2>3, <2>4 DEF TakeDetail
<1>9. CASE DetailDone
  <2>1. Definition(held.main) \in Detail
    BY <1>9, DefinitionType DEF DetailDone, ControlType
  <2>2. local' \in LocalType /\ shared' \in SharedType /\ fetched' \in Detail
    BY <1>9, <2>1 DEF DetailDone, DataType, LocalType, SharedType
  <2>3. QED
    BY <1>4, <1>9, <2>2 DEF DetailDone, Resume, WaitFrame, PcSet, SessionPc,
       FlagType, QueueType, ControlType, outside, queues
<1>10. QED
  BY <1>1, <1>2, <1>3, <1>5, <1>6, <1>7, <1>8, <1>9 DEF FastLane

LEMMA TelemetryType == TypeOK /\ TelemetryLoop => TypeOK'
<1> SUFFICES ASSUME TypeOK, TelemetryLoop PROVE TypeOK'
  OBVIOUS
<1> USE DEF TypeOK
<1>1. CASE TelemetryClosed
  BY <1>1, FailType DEF TelemetryClosed
<1>2. ASSUME TelFrame, tel' \in {"off", "idle", "schema", "storing", "detail"},
             held' \in [main : Servers \cup Target \cup {None},
                        tel : Target \cup {None}],
             held'.main = held.main,
             tel' = "detail" => held'.tel \in Target,
             wake' \in BOOLEAN, unseen' \in BOOLEAN,
             local' \in LocalType, shared' \in SharedType,
             fetched' \in Detail \cup {None}, detailQ' \in Seq(DetailRequest)
      PROVE  TypeOK'
  <2>1. ControlType' /\ FlagType'
    BY <1>2 DEF TelFrame, ControlType, FlagType
  <2>2. DataType' /\ QueueType'
    BY <1>2 DEF TelFrame, DataType, QueueType, disk
  <2>3. QED
    BY <2>1, <2>2
<1>3. CASE CollectTier \/ CollectSlow \/ ShareSlow
  <2>1. local' \in LocalType /\ shared' \in SharedType
    BY <1>3 DEF CollectTier, CollectSlow, ShareSlow, DataType, LocalType, SharedType
  <2>2. QED
    BY <1>2, <1>3, <2>1 DEF CollectTier, CollectSlow, ShareSlow, Notify,
       ControlType, FlagType, DataType, QueueType
<1>4. CASE TelTakeDetail
  <2>1. detailQ' \in Seq(DetailRequest) /\ Head(detailQ) \in DetailRequest
    BY <1>4, QueueSteps DEF TelTakeDetail, QueueType
  <2>2. shared' \in SharedType /\ fetched' \in Detail \cup {None}
    BY <1>4 DEF TelTakeDetail, DataType, SharedType
  <2>3. /\ held' \in [main : Servers \cup Target \cup {None}, tel : Target \cup {None}]
        /\ held'.main = held.main /\ (tel' = "detail" => held'.tel \in Target)
    BY <1>4, <2>1 DEF TelTakeDetail, ControlType, DetailRequest
  <2>4. QED
    BY <1>2, <1>4, <2>1, <2>2, <2>3 DEF TelTakeDetail, Notify, ControlType,
       FlagType, DataType
<1>5. CASE TelDetailDone
  <2>1. Definition(held.tel) \in Detail
    BY <1>5, DefinitionType DEF TelDetailDone, ControlType
  <2>2. shared' \in SharedType /\ fetched' \in Detail
    BY <1>5, <2>1 DEF TelDetailDone, DataType, SharedType
  <2>3. held' \in [main : Servers \cup Target \cup {None}, tel : Target \cup {None}]
    BY <1>5 DEF TelDetailDone, ControlType
  <2>4. QED
    BY <1>2, <1>5, <2>2, <2>3 DEF TelDetailDone, Notify, ControlType, FlagType,
       DataType, QueueType
<1>6. QED
  BY <1>1, <1>3, <1>4, <1>5 DEF TelemetryLoop

LEMMA StutterType == TypeOK /\ UNCHANGED vars => TypeOK'
BY DEF TypeOK, vars, ControlType, FlagType, DataType, QueueType,
   memory, disk, outside, queues

\* Every variable of the poller keeps its type, for any number of servers,
\* databases, requests and failures.
THEOREM TypeCorrect == Spec => []TypeOK
<1>1. TypeOK /\ [Next]_vars => TypeOK'
  BY FrontendType, RunType, FastLaneType, TelemetryType, StutterType
  DEF Next, Terminated
<1>2. QED
  BY <1>1, InitType, PTL DEF Spec

-----------------------------------------------------------------------------
(* Data of one target never meets another's.                               *)

LEMMA InitOneTarget == Init => OneTarget
<1> SUFFICES ASSUME Init PROVE OneTarget
  OBVIOUS
<1>1. FilesOwn /\ target \in Target
  BY FileOfType DEF Init, FilesOwn, HistoryFilesApart
<1>2. SameFile(files[FileOf[target]], target)
  BY <1>1, FileOfType DEF FilesOwn, HistoryFilesApart, SameFile
<1>3. LocalOwn /\ SharedOwn
  BY <1>2 DEF Init, LocalOwn, SharedOwn, OwnLocal, OwnShared, FreshLocal, FreshShared
<1>4. NoMixedSnapshot
  BY DEF Init, NoMixedSnapshot, Connecting
<1>5. QED
  BY <1>1, <1>3, <1>4 DEF OneTarget

\* A step that leaves the screen and the disk alone.
LEMMA OwnStep ==
  ASSUME OneTarget, LocalOwn', SharedOwn',
         UNCHANGED <<target, published, store, files>>
  PROVE  OneTarget'
BY DEF OneTarget, FilesOwn, HistoryFilesApart, NoMixedSnapshot

LEMMA QuietStep ==
  ASSUME OneTarget, UNCHANGED <<target, published, memory, disk>>
  PROVE  OneTarget'
BY DEF OneTarget, FilesOwn, HistoryFilesApart, NoMixedSnapshot, LocalOwn, SharedOwn, OwnLocal,
   OwnShared, memory, disk

LEMMA StopOwn == OneTarget /\ Stop => OneTarget'
BY QuietStep DEF Stop

LEMMA FailOwn == TypeOK /\ OneTarget /\ FailSession => OneTarget'
<1> SUFFICES ASSUME TypeOK, OneTarget, FailSession PROVE OneTarget'
  OBVIOUS
<1>1. published \in [status : {"connecting", "ok", "error"}, of : Target \cup {None},
                    history : SUBSET Target, data : SUBSET Target, detail : Detail \cup {None},
                    admin : AdminResult \cup {None}]
  BY DEF TypeOK, DataType, Snapshot
<1>2. NoMixedSnapshot'
  BY <1>1 DEF FailSession, Errored, OneTarget, NoMixedSnapshot, OnlyAbout
<1>3. (FilesOwn /\ LocalOwn /\ SharedOwn)'
  BY DEF FailSession, OneTarget, FilesOwn, HistoryFilesApart, LocalOwn, SharedOwn, OwnLocal,
     OwnShared, memory, disk
<1>4. QED
  BY <1>2, <1>3 DEF OneTarget

\* A switch reads the history of the new target from that target's own file.
LEMMA ResetOwn ==
  ASSUME TypeOK, OneTarget, NEW t \in Target, Reset(t)
  PROVE  OneTarget'
<1>1. files \in [Files -> SUBSET Target] /\ FileOf[t] \in Files
  BY FileOfType DEF TypeOK, DataType
<1>2. FilesOwn'
  BY <1>1 DEF Reset, OneTarget, FilesOwn, HistoryFilesApart
<1>3. SameFile(files[FileOf[t]], t)
  BY <1>1 DEF OneTarget, FilesOwn, HistoryFilesApart, SameFile
<1>4. LocalOwn' /\ SharedOwn'
  BY <1>3 DEF Reset, LocalOwn, SharedOwn, OwnLocal, OwnShared, FreshLocal, FreshShared
<1>5. NoMixedSnapshot'
  BY DEF Reset, OneTarget, NoMixedSnapshot
<1>6. QED
  BY <1>2, <1>4, <1>5 DEF OneTarget

LEMMA RunOwn == TypeOK /\ OneTarget /\ (Run \/ Connect) => OneTarget'
<1> SUFFICES ASSUME TypeOK, OneTarget, Run \/ Connect PROVE OneTarget'
  OBVIOUS
<1>1. CASE TopStops \/ BackoffInterrupted \/ SessionStops
  BY <1>1, StopOwn DEF TopStops, BackoffInterrupted, SessionStops
<1>2. CASE StartSession \/ BackoffElapsed \/ \E m \in Modes : Connected(m)
  BY <1>2, QuietStep DEF StartSession, BackoffElapsed, Connected
<1>3. CASE TakeDatabase
  <2>1. [target EXCEPT !.db = Head(dbQ)] \in Target
    BY <1>3, QueueSteps DEF TakeDatabase, TypeOK, DataType, QueueType, Target
  <2>2. QED
    BY <1>3, <2>1, ResetOwn DEF TakeDatabase
<1>4. CASE TakeServer
  BY <1>4, QueueSteps, ResetOwn DEF TakeServer, TypeOK, QueueType
<1>5. CASE ConnectFails
  BY <1>5, FailOwn DEF ConnectFails
<1>6. QED
  BY <1>1, <1>2, <1>3, <1>4, <1>5 DEF Run, Connect

\* Publishing own data, with telemetry of the same target.
LEMMA PublishOwn ==
  ASSUME TypeOK, OneTarget,
         NEW sh \in SharedType, NEW own \in LocalType,
         OwnShared(sh), OwnLocal(own), Publish(sh, own), shared' = sh
  PROVE  OneTarget' /\ OnlyAbout(published', target) /\ published'.status = "ok"
<1> DEFINE ring == [own EXCEPT !.history = @ \cup {target}]
<1>1. /\ ring \in LocalType /\ SameFile(ring.history, target)
      /\ ring.slow = own.slow /\ ring.detail = own.detail /\ ring.admin = own.admin
  BY DEF LocalType, OwnLocal, SameFile, TypeOK, DataType
<1>2. /\ local' = ring /\ published' = Envelope(sh, ring)
      /\ target' = target /\ store' = store
  BY DEF Publish
<1>3. OnlyAbout(Envelope(sh, ring), target)
  BY <1>1 DEF Envelope, OnlyAbout, OwnShared, OwnLocal
<1>4. LocalOwn' /\ SharedOwn'
  BY <1>1, <1>2 DEF LocalOwn, SharedOwn, OwnLocal, OwnShared
<1>5. FilesOwn'
  <2>1. files \in [Files -> SUBSET Target] /\ store \in Files
        /\ store = FileOf[target]
    BY DEF TypeOK, DataType, OneTarget, FilesOwn
  <2>2. \/ files' = [files EXCEPT ![store] = @ \cup {target}]
        \/ files' = [files EXCEPT ![store] = ring.history]
    BY DEF Publish
  <2>3. QED
    BY <1>1, <1>2, <2>1, <2>2 DEF OneTarget, FilesOwn, HistoryFilesApart, SameFile
<1>6. NoMixedSnapshot' /\ published'.status = "ok" /\ OnlyAbout(published', target)
  BY <1>2, <1>3 DEF NoMixedSnapshot, Envelope, OnlyAbout
<1>7. QED
  BY <1>4, <1>5, <1>6 DEF OneTarget

\* What a single-connection publication publishes.
LEMMA SinglePublication ==
  ASSUME TypeOK, OneTarget, PublishSingle
  PROVE  \E sh \in SharedType, own \in LocalType :
           OwnShared(sh) /\ OwnLocal(own) /\ Publish(sh, own) /\ shared' = sh
<1>1. PICK tiers \in {shared.tiers, {target}},
           slow \in {local.slow, local.slow \cup {target}},
           keep \in {TRUE, FALSE} :
        /\ shared' = IF keep THEN [shared EXCEPT !.tiers = tiers]
                     ELSE [shared EXCEPT !.tiers = tiers, !.slow = slow]
        /\ Publish(shared', IF keep THEN local ELSE [local EXCEPT !.slow = slow])
  BY DEF PublishSingle
<1>2. /\ local \in LocalType /\ shared \in SharedType /\ target \in Target
      /\ OwnLocal(local) /\ OwnShared(shared)
  BY DEF TypeOK, DataType, OneTarget, LocalOwn, SharedOwn
<1>3. /\ slow \in SUBSET Target /\ tiers \in SUBSET Target
      /\ slow \subseteq {target} /\ tiers \subseteq {target}
  BY <1>2 DEF LocalType, SharedType, OwnLocal, OwnShared
<1>4. shared' \in SharedType /\ OwnShared(shared')
  BY <1>1, <1>2, <1>3 DEF SharedType, OwnShared
<1>5. DEFINE own == IF keep THEN local ELSE [local EXCEPT !.slow = slow]
<1>6. own \in LocalType /\ OwnLocal(own)
  BY <1>2, <1>3 DEF LocalType, OwnLocal
<1>7. QED
  BY <1>1, <1>4, <1>6

LEMMA FastLaneOwn == TypeOK /\ OneTarget /\ FastLane => OneTarget'
<1> SUFFICES ASSUME TypeOK, OneTarget, FastLane PROVE OneTarget'
  OBVIOUS
<1>0. LocalOwn /\ SharedOwn /\ local \in LocalType /\ shared \in SharedType
      /\ target \in Target
  BY DEF TypeOK, DataType, OneTarget
<1>1. CASE PollFails \/ PollClosed
  BY <1>1, FailOwn, StopOwn DEF PollFails, PollClosed
<1>2. CASE PublishDual
  BY <1>0, <1>2, PublishOwn DEF PublishDual, LocalOwn, SharedOwn
<1>3. CASE PublishSingle
  BY <1>0, <1>3, SinglePublication, PublishOwn
<1>4. CASE Tick \/ Woken \/ TakeAdmin
  BY <1>4, QuietStep DEF Tick, Woken, TakeAdmin, WaitFrame, memory
<1>5. CASE AdminDone
  <2>1. LocalOwn' /\ SharedOwn'
    BY <1>0, <1>5 DEF AdminDone, WaitFrame, LocalOwn, SharedOwn, OwnLocal,
       OwnShared, LocalType
  <2>2. QED
    BY <1>5, <2>1, OwnStep DEF AdminDone, WaitFrame, disk
<1>6. CASE TakeDetail
  <2>1. LocalOwn' /\ SharedOwn'
    BY <1>0, <1>6 DEF TakeDetail, WaitFrame, memory, LocalOwn, SharedOwn,
       OwnLocal, OwnShared, LocalType, SharedType
  <2>2. QED
    BY <1>6, <2>1, OwnStep DEF TakeDetail, WaitFrame, disk
<1>7. CASE DetailDone
  <2>1. LocalOwn' /\ SharedOwn'
    BY <1>0, <1>7 DEF DetailDone, WaitFrame, Definition, LocalOwn, SharedOwn,
       OwnLocal, OwnShared, LocalType, SharedType
  <2>2. QED
    BY <1>7, <2>1, OwnStep DEF DetailDone, WaitFrame, disk
<1>8. QED
  BY <1>1, <1>2, <1>3, <1>4, <1>5, <1>6, <1>7 DEF FastLane

LEMMA TelemetryOwn == TypeOK /\ OneTarget /\ TelemetryLoop => OneTarget'
<1> SUFFICES ASSUME TypeOK, OneTarget, TelemetryLoop PROVE OneTarget'
  OBVIOUS
<1>0. LocalOwn /\ SharedOwn /\ local \in LocalType /\ shared \in SharedType
  BY DEF TypeOK, DataType, OneTarget
<1>1. CASE TelemetryClosed
  BY <1>1, FailOwn DEF TelemetryClosed
<1>2. CASE CollectTier \/ CollectSlow \/ ShareSlow
  <2>1. LocalOwn' /\ SharedOwn'
    BY <1>0, <1>2 DEF CollectTier, CollectSlow, ShareSlow, TelFrame, LocalOwn,
       SharedOwn, OwnLocal, OwnShared, LocalType, SharedType
  <2>2. QED
    BY <1>2, <2>1, OwnStep DEF CollectTier, CollectSlow, ShareSlow, TelFrame, disk
<1>3. CASE TelTakeDetail
  <2>1. LocalOwn' /\ SharedOwn'
    BY <1>0, <1>3 DEF TelTakeDetail, TelFrame, LocalOwn, SharedOwn, OwnLocal,
       OwnShared, SharedType
  <2>2. QED
    BY <1>3, <2>1, OwnStep DEF TelTakeDetail, TelFrame, disk
<1>4. CASE TelDetailDone
  <2>1. LocalOwn' /\ SharedOwn'
    BY <1>0, <1>4 DEF TelDetailDone, TelFrame, Definition, LocalOwn, SharedOwn,
       OwnLocal, OwnShared, SharedType
  <2>2. QED
    BY <1>4, <2>1, OwnStep DEF TelDetailDone, TelFrame, disk
<1>5. QED
  BY <1>1, <1>2, <1>3, <1>4 DEF TelemetryLoop

LEMMA FrontendOwn == OneTarget /\ Frontend => OneTarget'
BY QuietStep DEF Frontend, AskDatabase, AskServer, AskAdmin, AskDetail,
   RequestShutdown, DropReceivers, QueueFrame

\* Every step keeps the data of every target apart.
LEMMA OneTargetStep ==
  TypeOK /\ OneTarget /\ [Next]_vars => OneTarget'
<1> SUFFICES ASSUME TypeOK, OneTarget, [Next]_vars PROVE OneTarget'
  OBVIOUS
<1>1. CASE UNCHANGED vars
  BY <1>1, QuietStep DEF vars
<1>2. QED
  BY <1>1, FrontendOwn, RunOwn, FastLaneOwn, TelemetryOwn DEF Next, Terminated

LEMMA OneTargetAlways == Spec => []OneTarget
<1>1. OneTarget /\ TypeOK /\ [Next]_vars => OneTarget'
  BY OneTargetStep
<1>2. QED
  BY <1>1, InitOneTarget, TypeCorrect, PTL DEF Spec

\* No snapshot ever mixes rows of two targets, through every switch, outage and
\* lost connection; the targets that share a history file share its points.
THEOREM SnapshotsNeverMix == Spec => []NoMixedSnapshot
<1>1. OneTarget => NoMixedSnapshot
  BY DEF OneTarget
<1>2. QED
  BY <1>1, OneTargetAlways, PTL

\* Every history file holds points only of the targets whose key names it,
\* through every switch, append and compaction.
THEOREM HistoriesStayApart == Spec => []HistoryFilesApart
<1>1. OneTarget => HistoryFilesApart
  BY DEF OneTarget, FilesOwn
<1>2. QED
  BY <1>1, OneTargetAlways, PTL

-----------------------------------------------------------------------------
(* Refinement: the poller implements the feed its frontends rely on.       *)

\* A publication is a Refresh of the feed.
LEMMA PublishRefreshes ==
  ASSUME TypeOK, OneTarget, PublishDual \/ PublishSingle
  PROVE  Refresh
<1>1. LocalOwn /\ SharedOwn /\ local \in LocalType /\ shared \in SharedType
  BY DEF TypeOK, DataType, OneTarget
<1>2. PICK sh \in SharedType, own \in LocalType :
        OwnShared(sh) /\ OwnLocal(own) /\ Publish(sh, own) /\ shared' = sh
  <2>1. CASE PublishDual
    BY <1>1, <2>1 DEF PublishDual, LocalOwn, SharedOwn
  <2>2. CASE PublishSingle
    BY <1>1, <2>2, SinglePublication
  <2>3. QED
    BY <2>1, <2>2
<1>3. OnlyAbout(published', target) /\ published'.status = "ok"
  BY <1>2, PublishOwn
<1>4. published' \in Snapshot
  BY <1>2, PublishType DEF TypeOK, DataType
<1>5. target' = target
  BY <1>2 DEF Publish
<1>6. QED
  BY <1>3, <1>4, <1>5 DEF Refresh

LEMMA FeedStep ==
  TypeOK /\ TypeOK' /\ OneTarget /\ [Next]_vars
    => [FeedNext]_<<target, published>>
<1> SUFFICES ASSUME TypeOK, TypeOK', OneTarget, [Next]_vars
             PROVE [FeedNext]_<<target, published>>
  OBVIOUS
<1>1. CASE Frontend \/ UNCHANGED vars
  BY <1>1 DEF Frontend, AskDatabase, AskServer, AskAdmin, AskDetail,
     RequestShutdown, DropReceivers, QueueFrame, vars
<1>2. CASE Stop
  BY <1>2 DEF Stop
<1>3. CASE FailSession
  BY <1>3 DEF FailSession, Errored, FeedNext, Degrade
<1>4. CASE Run \/ Connect
  <2>1. CASE TakeDatabase \/ TakeServer
    BY <2>1 DEF TakeDatabase, TakeServer, Reset, FeedNext, Retarget, TypeOK, DataType
  <2>2. CASE StartSession \/ BackoffElapsed \/ \E m \in Modes : Connected(m)
    BY <2>2 DEF StartSession, BackoffElapsed, Connected
  <2>3. QED
    BY <1>2, <1>3, <1>4, <2>1, <2>2 DEF Run, Connect, TopStops,
       BackoffInterrupted, SessionStops, ConnectFails
<1>5. CASE FastLane
  <2>1. CASE PublishDual \/ PublishSingle
    BY <2>1, PublishRefreshes DEF FeedNext
  <2>2. CASE Tick \/ Woken \/ TakeAdmin \/ AdminDone \/ TakeDetail \/ DetailDone
    BY <2>2 DEF Tick, Woken, TakeAdmin, AdminDone, TakeDetail, DetailDone, WaitFrame
  <2>3. QED
    BY <1>2, <1>3, <1>5, <2>1, <2>2 DEF FastLane, PollFails, PollClosed
<1>6. CASE TelemetryLoop
  BY <1>3, <1>6 DEF TelemetryLoop, TelemetryClosed, CollectTier, CollectSlow,
     ShareSlow, TelTakeDetail, TelDetailDone, TelFrame
<1>7. QED
  BY <1>1, <1>4, <1>5, <1>6 DEF Next, Terminated

\* Nothing of one target is taken for another's, on screen or on disk, whatever
\* history_key makes of their names; what targets of one key share is history.
THEOREM TargetsStayApart == Spec => []TargetsApart
<1>1. NoMixedSnapshot /\ HistoryFilesApart => TargetsApart
  BY DEF TargetsApart
<1>2. QED
  BY <1>1, SnapshotsNeverMix, HistoriesStayApart, PTL

\* What frontends see is a feed: every published snapshot is a fresh picture
\* of one target, with the history of its file, or the last picture marked as an
\* error.
THEOREM PollerImplementsFeed == Spec => FeedSpec
<1>1. Init => FeedInit
  BY DEF Init, FeedInit
<1>2. QED
  BY <1>1, OneTargetAlways, FeedStep, TypeCorrect, PTL DEF Spec, FeedSpec

-----------------------------------------------------------------------------
(* What passes between the lanes, and from one session to the next.        *)

\* What an action of the frontends, of `run` or of the connection phase may do
\* to the fast lane: leave it alone, or take it out of its sleep.
LEMMA OtherSteps ==
  Frontend \/ Run \/ Connect \/ UNCHANGED vars
    => \/ UNCHANGED <<published, pc, mode, tel, local, wake, unseen, polledOk>>
       \/ pc' \in {"top", "connecting", "backoff", "done", "polling"}
BY DEF Frontend, AskDatabase, AskServer, AskAdmin, AskDetail, RequestShutdown,
   DropReceivers, QueueFrame, Run, TopStops, StartSession, BackoffElapsed,
   BackoffInterrupted, SessionStops, TakeDatabase, TakeServer, Reset, Stop,
   Connect, ConnectFails, Connected, FailSession, vars, memory

\* The fast lane sleeps on telemetry no snapshot has carried only with a wake-up
\* pending or with one to come at the end of the slow tier.
THEOREM WakesAreKept == Spec => []NoLostWake
<1>1. Init => NoLostWake
  BY DEF Init, NoLostWake
<1>2. ASSUME NoLostWake, [Next]_vars PROVE NoLostWake'
  <2>1. CASE Frontend \/ Run \/ Connect \/ UNCHANGED vars
    <3>1. CASE UNCHANGED <<published, pc, mode, tel, local, wake, unseen, polledOk>>
      <4>1. pc' = pc /\ mode' = mode /\ tel' = tel /\ wake' = wake /\ unseen' = unseen
        BY <3>1
      <4>2. QED
        BY <1>2, <4>1, Zenon DEF NoLostWake
    <3>2. CASE pc' # "waiting"
      BY <3>2 DEF NoLostWake
    <3>3. QED
      BY <2>1, <3>1, <3>2, OtherSteps
  <2>2. CASE FastLane
    <3>1. CASE PublishDual \/ PublishSingle
      BY <3>1 DEF PublishDual, PublishSingle, Publish, NoLostWake
    <3>2. CASE PollFails \/ PollClosed
      BY <3>2 DEF PollFails, PollClosed, FailSession, Stop, NoLostWake
    <3>3. CASE Tick \/ Woken \/ TakeAdmin \/ AdminDone \/ TakeDetail \/ DetailDone
      BY <3>3 DEF Tick, Woken, TakeAdmin, AdminDone, TakeDetail, DetailDone,
         Resume, NoLostWake
    <3>4. QED
      BY <2>2, <3>1, <3>2, <3>3 DEF FastLane
  <2>3. CASE TelemetryLoop
    <3>1. CASE TelemetryClosed
      BY <3>1 DEF TelemetryClosed, FailSession, NoLostWake
    <3>2. CASE CollectTier \/ CollectSlow \/ ShareSlow \/ TelTakeDetail \/ TelDetailDone
      BY <1>2, <3>2 DEF CollectTier, CollectSlow, ShareSlow, TelTakeDetail,
         TelDetailDone, Notify, TelFrame, NoLostWake
    <3>3. QED
      BY <2>3, <3>1, <3>2 DEF TelemetryLoop
  <2>4. QED
    BY <1>2, <2>1, <2>2, <2>3 DEF Next, Terminated
<1>3. QED
  BY <1>1, <1>2, PTL DEF Spec

\* The result at hand is on screen whenever a command may be taken, which is
\* what makes "admin" safe: a lane falls asleep only by publishing.
ResultShown == pc \in {"waiting", "admin"} => published.admin = local.admin

LEMMA PublishShowsResult ==
  ASSUME TypeOK, PublishDual \/ PublishSingle
  PROVE  published'.admin = local'.admin
<1>1. PICK sh : \E own \in LocalType : Publish(sh, own)
  <2>1. local \in LocalType /\ target \in Target
    BY DEF TypeOK, DataType
  <2>2. \A slow \in {local.slow, local.slow \cup {target}} :
          [local EXCEPT !.slow = slow] \in LocalType
    BY <2>1 DEF LocalType
  <2>3. CASE PublishDual
    BY <2>1, <2>3 DEF PublishDual
  <2>4. CASE PublishSingle
    BY <2>1, <2>2, <2>4 DEF PublishSingle
  <2>5. QED
    BY <2>3, <2>4
<1>2. QED
  BY <1>1 DEF Publish, Envelope, LocalType

LEMMA ResultShownStep ==
  ASSUME TypeOK, ResultShown, [Next]_vars PROVE ResultShown'
<1>1. CASE Frontend \/ Run \/ Connect \/ UNCHANGED vars
  BY <1>1, OtherSteps DEF ResultShown
<1>2. CASE FastLane
  <2>1. CASE PublishDual \/ PublishSingle
    BY <2>1, PublishShowsResult DEF ResultShown
  <2>2. CASE PollFails \/ PollClosed
    BY <2>2 DEF PollFails, PollClosed, FailSession, Stop, ResultShown
  <2>3. CASE Tick \/ Woken \/ AdminDone \/ DetailDone
    BY <2>3 DEF Tick, Woken, AdminDone, DetailDone, Resume, ResultShown
  <2>4. CASE TakeAdmin \/ TakeDetail
    BY <2>4 DEF TakeAdmin, TakeDetail, Resume, WaitFrame, memory, ResultShown
  <2>5. QED
    BY <1>2, <2>1, <2>2, <2>3, <2>4 DEF FastLane
<1>3. CASE TelemetryLoop
  <2>1. CASE TelemetryClosed
    BY <2>1 DEF TelemetryClosed, FailSession, ResultShown
  <2>2. CASE CollectSlow
    BY <2>2 DEF CollectSlow, TelFrame, ResultShown, TypeOK, DataType, LocalType
  <2>3. CASE CollectTier \/ ShareSlow \/ TelTakeDetail \/ TelDetailDone
    BY <2>3 DEF CollectTier, ShareSlow, TelTakeDetail, TelDetailDone, TelFrame,
       ResultShown
  <2>4. QED
    BY <1>3, <2>1, <2>2, <2>3 DEF TelemetryLoop
<1>4. QED
  BY <1>1, <1>2, <1>3 DEF Next, Terminated

\* No result of a command is overwritten before a snapshot carried it.
THEOREM ResultsAreSeen == Spec => []ResultSeenBeforeNextCommand
<1>1. Init => ResultShown
  BY DEF Init, ResultShown
<1>2. TypeOK /\ ResultShown /\ [Next]_vars => ResultShown'
  BY ResultShownStep
<1>3. ResultShown => ResultSeenBeforeNextCommand
  BY DEF ResultShown, ResultSeenBeforeNextCommand
<1>4. QED
  BY <1>1, <1>2, <1>3, TypeCorrect, PTL DEF Spec

\* polled_ok is false while connecting, and true in a session only with a
\* snapshot of that session on screen.
PolledMeansShown ==
  /\ pc = "connecting" => ~polledOk
  /\ pc \in SessionPc /\ polledOk => published.status = "ok"

LEMMA PolledStep ==
  ASSUME TypeOK, PolledMeansShown, [Next]_vars PROVE PolledMeansShown'
<1> USE DEF PolledMeansShown, SessionPc
<1>1. CASE Frontend \/ UNCHANGED vars
  BY <1>1 DEF Frontend, AskDatabase, AskServer, AskAdmin, AskDetail,
     RequestShutdown, DropReceivers, QueueFrame, vars
<1>2. CASE Stop \/ FailSession
  BY <1>2 DEF Stop, FailSession
<1>3. CASE Run \/ Connect
  BY <1>2, <1>3 DEF Run, TopStops, StartSession, BackoffElapsed,
     BackoffInterrupted, SessionStops, TakeDatabase, TakeServer, Reset, Connect,
     ConnectFails, Connected
<1>4. CASE FastLane
  <2>1. CASE PublishDual \/ PublishSingle
    BY <2>1 DEF PublishDual, PublishSingle, Publish, Envelope
  <2>2. CASE Tick \/ Woken \/ TakeAdmin \/ AdminDone \/ TakeDetail \/ DetailDone
    BY <2>2 DEF Tick, Woken, TakeAdmin, AdminDone, TakeDetail, DetailDone,
       Resume, WaitFrame
  <2>3. QED
    BY <1>2, <1>4, <2>1, <2>2 DEF FastLane, PollFails, PollClosed
<1>5. CASE TelemetryLoop
  BY <1>2, <1>5 DEF TelemetryLoop, TelemetryClosed, CollectTier, CollectSlow,
     ShareSlow, TelTakeDetail, TelDetailDone, TelFrame
<1>6. QED
  BY <1>1, <1>3, <1>4, <1>5 DEF Next, Terminated

ShrinksAfterData == backoff' < backoff => polledOk /\ published.status = "ok"

LEMMA ShrinkStep ==
  ASSUME TypeOK, PolledMeansShown, [Next]_vars PROVE ShrinksAfterData
<1> USE DEF ShrinksAfterData
<1>1. backoff \in Nat /\ backoff <= BackoffMax
  BY BackoffType DEF TypeOK, ControlType
<1>2. CASE backoff' = backoff
  BY <1>1, <1>2
<1>3. CASE BackoffElapsed
  BY <1>1, <1>3, BackoffType DEF BackoffElapsed, Doubled
<1>4. CASE FailSession /\ pc \in SessionPc \cup {"connecting"}
  BY <1>1, <1>4 DEF FailSession, PolledMeansShown
<1>5. CASE Frontend \/ UNCHANGED vars
  BY <1>2, <1>5 DEF Frontend, AskDatabase, AskServer, AskAdmin, AskDetail,
     RequestShutdown, DropReceivers, QueueFrame, vars
<1>6. CASE Run \/ Connect
  BY <1>2, <1>3, <1>4, <1>6 DEF Run, TopStops, StartSession, BackoffInterrupted,
     SessionStops, TakeDatabase, TakeServer, Reset, Stop, Connect, ConnectFails,
     Connected
<1>7. CASE FastLane
  BY <1>2, <1>4, <1>7 DEF FastLane, PollFails, PollClosed, Stop, Quiet, InSession,
     PublishDual, PublishSingle, Publish, Tick, Woken, TakeAdmin, AdminDone,
     TakeDetail, DetailDone, WaitFrame
<1>8. CASE TelemetryLoop
  BY <1>2, <1>4, <1>8 DEF TelemetryLoop, TelemetryClosed, Quiet, InSession,
     CollectTier, CollectSlow, ShareSlow, TelTakeDetail, TelDetailDone, TelFrame
<1>9. QED
  BY <1>5, <1>6, <1>7, <1>8 DEF Next, Terminated

\* The reconnect delay shrinks only after a session that had published.
THEOREM BackoffGrows == Spec => BackoffShrinksOnlyAfterData
<1>1. Init => PolledMeansShown
  BY DEF Init, PolledMeansShown, SessionPc
<1>2. TypeOK /\ PolledMeansShown /\ [Next]_vars => PolledMeansShown'
  BY PolledStep
<1>3. TypeOK /\ PolledMeansShown /\ [Next]_vars => ShrinksAfterData
  BY ShrinkStep
<1>4. QED
  BY <1>1, <1>2, <1>3, TypeCorrect, PTL
  DEF Spec, BackoffShrinksOnlyAfterData, ShrinksAfterData
=============================================================================
