------------------------------- MODULE Poller -------------------------------
(***************************************************************************)
(* The background poller of pg_lens_core: the reconnect loop `run`, one    *)
(* `session` per connection, the two lanes of a dual-connection session    *)
(* (`fast_loop`, `telemetry_loop`) and the fallback                        *)
(* `single_conn_poll_loop`.                                                *)
(*                                                                         *)
(* Everything the poller stores is abstracted to the TARGET (server and    *)
(* database) its rows were read from; the properties ask whether the data, *)
(* the history file, the definitions and the administrative commands of    *)
(* one target ever meet another.  One action is one stretch of code        *)
(* between two awaits.  Elapsed time is a nondeterministic choice here     *)
(* (module TelemetryLane keeps the clock).                                 *)
(***************************************************************************)
EXTENDS Naturals, Sequences, SnapshotFeed

CONSTANTS Modes,           \* session modes that may occur: "dual", "single"
          Unreachable,     \* targets that refuse every connection
          BackoffInitial, BackoffMax,
          SwitchCap,       \* capacity of the two switch channels
          CommandCap       \* capacity of the admin and definition channels

ASSUME ModesType == Modes \in SUBSET {"dual", "single"} /\ Modes # {}
ASSUME UnreachableType == Unreachable \subseteq Target
ASSUME BackoffType == /\ BackoffInitial \in Nat \ {0}
                      /\ BackoffMax \in Nat /\ BackoffInitial <= BackoffMax
ASSUME CapacityType == SwitchCap \in Nat /\ CommandCap \in Nat

VARIABLES
  pc,         \* where the `run` task is
  mode,       \* the current session's connections, "none" between sessions
  tel,        \* where the telemetry lane is, "off" without one
  local,      \* state owned by `run`: history, schema/statements/io, detail, admin
  shared,     \* SharedTelemetry, written by whichever lane collects
  store,      \* the history file of the current HistoryStore
  files,      \* targets whose points each history file holds
  held,       \* the command each lane has received and not finished
  backoff, polledOk,
  wake,       \* the permit of fast_wake (tokio Notify)
  unseen,     \* shared telemetry written since the last fresh snapshot
  fetched,    \* the last definition fetched and not cleared since
  dbQ, serverQ, adminQ, detailQ,   \* the frontends' control channels
  shutdown,   \* the shutdown watch
  open        \* some frontend still holds a snapshot receiver

queues == <<dbQ, serverQ, adminQ, detailQ>>
outside == <<queues, shutdown, open>>
memory == <<local, shared, fetched>>
disk == <<store, files>>
vars == <<target, published, pc, mode, tel, memory, disk, held,
          backoff, polledOk, wake, unseen, outside>>

SessionPc == {"polling", "waiting", "admin", "detail"}
PcSet == {"top", "connecting", "backoff", "done"} \cup SessionPc
\* TableDetailRequest: Fetch for a table of a target, or (None) Clear.
DetailRequest == Target \cup {None}

ControlType ==
  /\ pc \in PcSet
  /\ mode \in {"none", "dual", "single"}
  /\ tel \in {"off", "idle", "schema", "storing", "detail"}
  /\ backoff \in BackoffInitial..BackoffMax
  /\ held \in [main : Servers \cup Target \cup {None}, tel : Target \cup {None}]
  /\ pc = "admin" => held.main \in Servers
  /\ pc = "detail" => held.main \in Target
  /\ tel = "detail" => held.tel \in Target
FlagType == /\ polledOk \in BOOLEAN /\ wake \in BOOLEAN /\ unseen \in BOOLEAN
            /\ shutdown \in BOOLEAN /\ open \in BOOLEAN
LocalType == [history : SUBSET Target, slow : SUBSET Target,
              detail : Detail \cup {None}, admin : AdminResult \cup {None}]
SharedType == [tiers : SUBSET Target, slow : SUBSET Target,
               detail : Detail \cup {None}]
DataType ==
  /\ target \in Target /\ published \in Snapshot
  /\ local \in LocalType /\ shared \in SharedType
  /\ store \in Files /\ files \in [Files -> SUBSET Target]
  /\ fetched \in Detail \cup {None}
QueueType == /\ dbQ \in Seq(Databases) /\ serverQ \in Seq(Target)
             /\ adminQ \in Seq(Servers) /\ detailQ \in Seq(DetailRequest)

TypeOK == ControlType /\ FlagType /\ DataType /\ QueueType

-----------------------------------------------------------------------------
(* The state `run` starts a target with.                                   *)

FreshShared == [tiers |-> {}, slow |-> {}, detail |-> None]
\* `history` is seeded from the target's own file.
FreshLocal(points) == [history |-> points, slow |-> {}, detail |-> None, admin |-> None]
Idle == [main |-> None, tel |-> None]

Init ==
  /\ target \in Target /\ published = Connecting
  /\ pc = "top" /\ mode = "none" /\ tel = "off"
  \* What earlier runs of the program left on disk.
  /\ \E past \in SUBSET Target :
       files = [f \in Files |-> {t \in past : FileOf[t] = f}]
  /\ store = FileOf[target]
  /\ local = FreshLocal(files[store]) /\ shared = FreshShared /\ fetched = None
  /\ held = Idle
  /\ backoff = BackoffInitial /\ polledOk = FALSE
  /\ wake = FALSE /\ unseen = FALSE
  /\ dbQ = <<>> /\ serverQ = <<>> /\ adminQ = <<>> /\ detailQ = <<>>
  /\ shutdown = FALSE /\ open = TRUE

-----------------------------------------------------------------------------
(* The frontends.  A request is about what is on screen.                   *)

Alive == pc # "done"
\* Whoever sends requests also holds a snapshot receiver.
Watching == Alive /\ open
QueueFrame == UNCHANGED <<target, published, pc, mode, tel, memory, disk, held,
                          backoff, polledOk, wake, unseen>>

\* The picker lists the databases of the snapshot.
AskDatabase(d) ==
  /\ Watching /\ published.of # None /\ Len(dbQ) < SwitchCap
  /\ dbQ' = Append(dbQ, d)
  /\ UNCHANGED <<serverQ, adminQ, detailQ, shutdown, open>> /\ QueueFrame

AskServer(t) ==
  /\ Watching /\ Len(serverQ) < SwitchCap
  /\ serverQ' = Append(serverQ, t)
  /\ UNCHANGED <<dbQ, adminQ, detailQ, shutdown, open>> /\ QueueFrame

\* `c`/`K` confirmed on a row of the snapshot: a PID of that server.
AskAdmin ==
  /\ Watching /\ published.of # None /\ Len(adminQ) < CommandCap
  /\ adminQ' = Append(adminQ, published.of.server)
  /\ UNCHANGED <<dbQ, serverQ, detailQ, shutdown, open>> /\ QueueFrame

\* The `\d` overlay opened on a table of the snapshot, or closed.
AskDetail ==
  /\ Watching /\ published.of # None /\ Len(detailQ) < CommandCap
  /\ \E r \in {published.of, None} : detailQ' = Append(detailQ, r)
  /\ UNCHANGED <<dbQ, serverQ, adminQ, shutdown, open>> /\ QueueFrame

RequestShutdown ==
  /\ Alive /\ ~shutdown /\ shutdown' = TRUE
  /\ UNCHANGED <<queues, open>> /\ QueueFrame

DropReceivers ==
  /\ Alive /\ open /\ open' = FALSE
  /\ UNCHANGED <<queues, shutdown>> /\ QueueFrame

-----------------------------------------------------------------------------
(* run: the reconnect loop.                                                *)

\* Both connections are aborted and the futures of both lanes dropped.
EndSession == mode' = "none" /\ tel' = "off" /\ held' = Idle /\ wake' = FALSE

\* Mutant: SessionEnd::Closed is retried like the other ends.
StopReconnects ==
  /\ pc' = "top" /\ EndSession
  /\ UNCHANGED <<target, published, memory, disk, backoff, polledOk, unseen, outside>>

Stop ==
  /\ pc' = "done" /\ EndSession
  /\ UNCHANGED <<target, published, memory, disk, backoff, polledOk, unseen, outside>>

TopStops == pc = "top" /\ shutdown /\ Stop

\* Mutant: polled_ok outlives the session that set it.
StartRemembering ==
  /\ pc = "top" /\ ~shutdown /\ pc' = "connecting"
  /\ UNCHANGED <<target, published, mode, tel, memory, disk, held, backoff,
                 polledOk, wake, unseen, outside>>

StartSession ==
  /\ pc = "top" /\ ~shutdown
  /\ pc' = "connecting" /\ polledOk' = FALSE
  /\ UNCHANGED <<target, published, mode, tel, memory, disk, held, backoff,
                 wake, unseen, outside>>

\* Mutant: an error blanks the screen.
ErroredBlank(s) == [Connecting EXCEPT !.status = "error"]
Errored(s) == [s EXCEPT !.status = "error"]
\* SessionEnd::Error: publish_error over the last snapshot, then back off.  A
\* send without receivers leaves the channel's value as it was.
FailSession ==
  /\ backoff' = IF polledOk THEN BackoffInitial ELSE backoff
  /\ published' = IF open THEN Errored(published) ELSE published
  /\ pc' = "backoff" /\ EndSession
  /\ UNCHANGED <<target, memory, disk, polledOk, unseen, outside>>

Doubled(b) == IF 2 * b <= BackoffMax THEN 2 * b ELSE BackoffMax
\* Mutant: one error ends the task.
BackoffElapsedGivesUp ==
  /\ pc = "backoff" /\ pc' = "done" /\ backoff' = Doubled(backoff)
  /\ UNCHANGED <<target, published, mode, tel, memory, disk, held, polledOk,
                 wake, unseen, outside>>
BackoffElapsed ==
  /\ pc = "backoff"
  /\ backoff' = Doubled(backoff)
  /\ pc' = IF open THEN "top" ELSE "done"
  /\ UNCHANGED <<target, published, mode, tel, memory, disk, held, polledOk,
                 wake, unseen, outside>>

BackoffInterrupted == pc = "backoff" /\ shutdown /\ Stop

\* Mutant: the shared telemetry of the old target stays.
ResetKeepingTelemetry(t) ==
  /\ target' = t /\ store' = FileOf[t] /\ local' = FreshLocal(files[FileOf[t]])
  /\ pc' = "top" /\ EndSession
  /\ UNCHANGED <<shared, fetched, published, files, backoff, polledOk, unseen>>

\* SessionEnd::SwitchDatabase and SwitchServer: new coordinates, every piece
\* of per-database state dropped, history reloaded from the new target's file.
\* The snapshot on the channel and the backoff stay.
Reset(t) ==
  /\ target' = t
  /\ store' = FileOf[t]
  /\ local' = FreshLocal(files[FileOf[t]])
  /\ shared' = FreshShared /\ fetched' = None
  /\ pc' = "top" /\ EndSession
  /\ UNCHANGED <<published, files, backoff, polledOk, unseen>>

-----------------------------------------------------------------------------
(* session: password command, connection, version probe, then the lanes.   *)
(* No control channel is watched until the connection is up.               *)

ConnectFails == pc = "connecting" /\ FailSession

Connected(m) ==
  /\ pc = "connecting" /\ target \notin Unreachable
  /\ m \in Modes
  /\ pc' = "polling" /\ mode' = m
  /\ tel' = IF m = "dual" THEN "idle" ELSE "off"
  /\ UNCHANGED <<target, published, memory, disk, held, backoff, polledOk,
                 wake, unseen, outside>>

InSession == pc \in SessionPc

\* The outer select is biased: shutdown, then database, then server.
SessionStops == InSession /\ shutdown /\ Stop

TakeDatabase ==
  /\ InSession /\ ~shutdown /\ dbQ # <<>>
  /\ dbQ' = Tail(dbQ)
  /\ Reset([target EXCEPT !.db = Head(dbQ)])
  /\ UNCHANGED <<serverQ, adminQ, detailQ, shutdown, open>>

TakeServer ==
  /\ InSession /\ ~shutdown /\ dbQ = <<>> /\ serverQ # <<>>
  /\ serverQ' = Tail(serverQ)
  /\ Reset(Head(serverQ))
  /\ UNCHANGED <<dbQ, adminQ, detailQ, shutdown, open>>

\* Mutant: the outer select is not biased.
QuietUnbiased == InSession /\ ~shutdown
\* The lanes run only while no branch above them is ready.
Quiet == InSession /\ ~shutdown /\ dbQ = <<>> /\ serverQ = <<>>

-----------------------------------------------------------------------------
(* fast_loop and the polling part of single_conn_poll_loop.                *)

PollFails == Quiet /\ pc = "polling" /\ FailSession

\* The receiver check before a poll and the failed send after it.
PollClosed == Quiet /\ pc = "polling" /\ ~open /\ Stop

\* The envelope assembled from this poll and the telemetry at hand.
Envelope(sh, own) ==
  [status |-> "ok", of |-> target,
   history |-> own.history,
   data |-> sh.tiers \cup sh.slow,
   detail |-> IF mode = "dual" THEN sh.detail ELSE own.detail,
   admin |-> own.admin]

\* history.push, send, then append to the history file; a full window
\* rewrites the file with the ring.
Publish(sh, own) ==
  /\ open
  /\ LET ring == [own EXCEPT !.history = @ \cup {target}]
     IN /\ local' = ring
        /\ published' = Envelope(sh, ring)
        /\ \/ files' = [files EXCEPT ![store] = @ \cup {target}]
           \/ files' = [files EXCEPT ![store] = ring.history]
  /\ polledOk' = TRUE /\ unseen' = FALSE /\ pc' = "waiting"
  /\ UNCHANGED <<target, mode, tel, fetched, store, held, backoff, wake, outside>>

PublishDual ==
  /\ Quiet /\ pc = "polling" /\ mode = "dual"
  /\ Publish(shared, local) /\ shared' = shared

\* With one connection the due tiers are collected between the poll and the
\* publication; any of them may be skipped (not due) or fail.
PublishSingle ==
  /\ Quiet /\ pc = "polling" /\ mode = "single"
  /\ \E tiers \in {shared.tiers, {target}} :
       \/ /\ shared' = [shared EXCEPT !.tiers = tiers]
          /\ Publish(shared', local)
       \/ \E slow \in {local.slow, local.slow \cup {target}} :
            /\ shared' = [shared EXCEPT !.tiers = tiers, !.slow = slow]
            /\ Publish(shared', [local EXCEPT !.slow = slow])

\* Mutant: the loop goes back to sleep instead of polling after a command.
ResumeSleeping == pc' = "waiting"
Resume == pc' = "polling"
WaitFrame == UNCHANGED <<target, published, mode, tel, disk, backoff, polledOk, unseen>>

\* The interval elapsed, or was changed.
Tick ==
  /\ Quiet /\ pc = "waiting" /\ Resume
  /\ UNCHANGED <<memory, held, wake, outside>> /\ WaitFrame

\* fast_wake.notified(): the telemetry lane has news.
Woken ==
  /\ Quiet /\ pc = "waiting" /\ wake /\ Resume
  /\ wake' = FALSE
  /\ UNCHANGED <<memory, held, outside>> /\ WaitFrame

TakeAdmin ==
  /\ Quiet /\ pc = "waiting" /\ adminQ # <<>>
  /\ held' = [held EXCEPT !.main = Head(adminQ)]
  /\ adminQ' = Tail(adminQ) /\ pc' = "admin"
  /\ UNCHANGED <<memory, wake, dbQ, serverQ, detailQ, shutdown, open>> /\ WaitFrame

\* execute_admin answered (with a boolean or an error, both recorded).
AdminDone ==
  /\ Quiet /\ pc = "admin" /\ Resume
  /\ local' = [local EXCEPT !.admin = [asked |-> held.main, on |-> target.server]]
  /\ held' = [held EXCEPT !.main = None]
  /\ UNCHANGED <<shared, fetched, wake, outside>> /\ WaitFrame

TakeDetail ==
  /\ Quiet /\ pc = "waiting" /\ mode = "single" /\ detailQ # <<>>
  /\ detailQ' = Tail(detailQ)
  /\ \/ /\ Head(detailQ) = None /\ Resume
        /\ local' = [local EXCEPT !.detail = None]
        /\ shared' = [shared EXCEPT !.detail = None]
        /\ fetched' = None /\ UNCHANGED held
     \/ /\ Head(detailQ) # None /\ pc' = "detail"
        /\ held' = [held EXCEPT !.main = Head(detailQ)]
        /\ UNCHANGED memory
  /\ UNCHANGED <<wake, dbQ, serverQ, adminQ, shutdown, open>> /\ WaitFrame

Definition(t) == [asked |-> t, from |-> target]

DetailDone ==
  /\ Quiet /\ pc = "detail" /\ Resume
  /\ local' = [local EXCEPT !.detail = Definition(held.main)]
  /\ shared' = [shared EXCEPT !.detail = Definition(held.main)]
  /\ fetched' = Definition(held.main)
  /\ held' = [held EXCEPT !.main = None]
  /\ UNCHANGED <<wake, outside>> /\ WaitFrame

-----------------------------------------------------------------------------
(* telemetry_loop, on its own connection beside fast_loop.                 *)

TelFrame == UNCHANGED <<target, published, pc, mode, disk, backoff, polledOk,
                        shutdown, open, dbQ, serverQ, adminQ>>
\* Mutant: the write is not followed by notify_one.
NotifyForgotten == wake' = wake /\ unseen' = TRUE
\* A write of the shared telemetry followed by fast_wake.notify_one().
Notify == wake' = TRUE /\ unseen' = TRUE

TelemetryClosed == Quiet /\ tel = "idle" /\ FailSession

CollectTier ==
  /\ Quiet /\ tel = "idle"
  /\ shared' = [shared EXCEPT !.tiers = {target}] /\ Notify
  /\ UNCHANGED <<local, fetched, tel, held, detailQ>> /\ TelFrame

\* schema.store and statements.store run as their queries return, and at once
\* an error is put on the status line, or its own one taken off, which nobody is
\* told of yet; the rows are shared after the last query, that of io_stats.
CollectSlow ==
  /\ Quiet /\ tel \in {"idle", "schema"}
  /\ tel' = IF tel = "idle" THEN "schema" ELSE "storing"
  /\ \E slow \in {local.slow, local.slow \cup {target}} :
       local' = [local EXCEPT !.slow = slow]
  /\ \/ UNCHANGED <<shared, unseen>>
     \/ \E tiers \in {shared.tiers, {target}} :
          shared' = [shared EXCEPT !.tiers = tiers] /\ unseen' = TRUE
  /\ UNCHANGED <<fetched, held, wake, detailQ>> /\ TelFrame

ShareSlow ==
  /\ Quiet /\ tel = "storing" /\ tel' = "idle"
  /\ shared' = [shared EXCEPT !.slow = local.slow] /\ Notify
  /\ UNCHANGED <<local, fetched, held, detailQ>> /\ TelFrame

TelTakeDetail ==
  /\ Quiet /\ tel = "idle" /\ detailQ # <<>>
  /\ detailQ' = Tail(detailQ)
  /\ \/ /\ Head(detailQ) = None /\ Notify
        /\ shared' = [shared EXCEPT !.detail = None]
        /\ fetched' = None /\ UNCHANGED <<tel, held>>
     \/ /\ Head(detailQ) # None /\ tel' = "detail"
        /\ held' = [held EXCEPT !.tel = Head(detailQ)]
        /\ UNCHANGED <<shared, fetched, wake, unseen>>
  /\ UNCHANGED local /\ TelFrame

TelDetailDone ==
  /\ Quiet /\ tel = "detail" /\ tel' = "idle"
  /\ shared' = [shared EXCEPT !.detail = Definition(held.tel)] /\ Notify
  /\ fetched' = Definition(held.tel)
  /\ held' = [held EXCEPT !.tel = None]
  /\ UNCHANGED <<local, detailQ>> /\ TelFrame

-----------------------------------------------------------------------------
Frontend ==
  \/ \E d \in Databases : AskDatabase(d)
  \/ \E t \in Target : AskServer(t)
  \/ AskAdmin \/ AskDetail \/ RequestShutdown \/ DropReceivers

Run == \/ TopStops \/ StartSession \/ BackoffElapsed \/ BackoffInterrupted
       \/ SessionStops \/ TakeDatabase \/ TakeServer

Connect == ConnectFails \/ \E m \in Modes : Connected(m)

FastLane == \/ PollFails \/ PollClosed \/ PublishDual \/ PublishSingle
            \/ Tick \/ Woken \/ TakeAdmin \/ AdminDone \/ TakeDetail \/ DetailDone

TelemetryLoop == \/ TelemetryClosed \/ CollectTier \/ CollectSlow \/ ShareSlow
                 \/ TelTakeDetail \/ TelDetailDone

\* The task has returned.
Terminated == pc = "done" /\ UNCHANGED vars

Next == Frontend \/ Run \/ Connect \/ FastLane \/ TelemetryLoop \/ Terminated

Spec == Init /\ [][Next]_vars

-----------------------------------------------------------------------------
(* Safety.                                                                 *)

\* Whatever is on screen, during an outage and across switches too, was read
\* from one database: no part of a snapshot (telemetry, schema, definition,
\* administrative result) survives from another one, and its history ring holds
\* no point of a target with another file.
NoMixedSnapshot == published.of # None => OnlyAbout(published, published.of)

\* However switches, reloads and compactions interleave, a history file holds
\* points only of the targets whose key names it.
HistoryFilesApart == \A f \in Files : \A t \in files[f] : FileOf[t] = f

\* Nothing of one target is ever taken for another's, in memory, on screen or on
\* disk (run's reset on a switch), except that targets with one history_key,
\* which is lossy, have one history (HistoriesOfOneTarget).
TargetsApart == NoMixedSnapshot /\ HistoryFilesApart

\* The fast lane never sleeps for good on telemetry no snapshot has carried:
\* a wake-up is pending, or the telemetry lane is between the queries of its
\* slow tier (an error of the schema's waits there for those of the statements
\* and of io_stats), at whose end it notifies.
NoLostWake == pc = "waiting" /\ mode = "dual" /\ unseen => wake \/ tel \in {"schema", "storing"}

\* The result of a command has reached the frontends before the next command
\* starts, so no result is overwritten unseen, even across reconnects.
ResultSeenBeforeNextCommand == pc = "admin" => published.admin = local.admin

\* The reconnect delay shrinks only when the session that just failed had
\* published; a reachable server that never answers a poll keeps backing off.
BackoffShrinksOnlyAfterData ==
  [][backoff' < backoff => polledOk /\ published.status = "ok"]_vars

\* The inductive invariant behind TargetsApart: everything the task holds or has
\* stored was read from the target it belongs to, or is its file's.
OwnLocal(l) == /\ SameFile(l.history, target) /\ l.slow \subseteq {target}
               /\ l.detail # None => l.detail.from = target
               /\ l.admin # None => l.admin.on = target.server
OwnShared(sh) == /\ sh.tiers \subseteq {target} /\ sh.slow \subseteq {target}
                 /\ sh.detail # None => sh.detail.from = target
LocalOwn == OwnLocal(local)
SharedOwn == OwnShared(shared)
FilesOwn == store = FileOf[target] /\ HistoryFilesApart
OneTarget == LocalOwn /\ SharedOwn /\ FilesOwn /\ NoMixedSnapshot

-----------------------------------------------------------------------------
(* Statements of the documentation that the code does not meet.            *)

\* A history file is one target's (history_key: "so pg_lens against different
\* servers/databases doesn't cross-contaminate history").
HistoriesOfOneTarget == \A f \in Files : \A t, u \in files[f] : t = u

\* Administrative commands run on the server whose row the user picked.
CommandHitsItsServer == local.admin # None => local.admin.asked = local.admin.on

\* TableDetailState "survives reconnects": a fresh snapshot carries the last
\* definition fetched and not cleared, in either session mode.
DefinitionSurvivesReconnect ==
  [][published' # published /\ published'.status = "ok"
       => published'.detail = fetched]_vars

-----------------------------------------------------------------------------
(* Liveness.                                                               *)

Publication == PublishDual \/ PublishSingle
Connection == \E m \in Modes : Connected(m)

\* Every await of the task returns: sleeps elapse, password commands, queries
\* and connection attempts end (with an error if need be), and a target that
\* accepts connections does not fail for ever.
Fairness == /\ WF_vars(Run) /\ WF_vars(Connect) /\ WF_vars(FastLane)
            /\ SF_vars(Connection) /\ SF_vars(Publication)

LiveSpec == Spec /\ Fairness

\* A shutdown ends the task wherever it is: in a query, between sessions, or
\* in a backoff sleep.
ShutdownStops == shutdown ~> pc = "done"

\* So does the loss of the last receiver.
AbandonedStops == ~open ~> pc = "done"

\* The task ends when nobody wants it any more (session, run).
SessionsStop == ShutdownStops /\ AbandonedStops

\* Requests for another database are consumed as long as there are any.
DatabaseSwitchTaken ==
  []<>(dbQ = <<>> \/ pc = "done") \/ []<><<TakeDatabase>>_vars

\* Requests for another server are too, unless database requests (polled
\* first by the biased select) keep coming.
ServerSwitchTaken ==
  \/ []<>(serverQ = <<>> \/ pc = "done")
  \/ []<><<TakeServer>>_vars
  \/ []<><<TakeDatabase>>_vars

\* What the user asks the poller to switch to is taken from the channel (session).
SwitchesTaken == DatabaseSwitchTaken /\ ServerSwitchTaken

\* The screen comes to show the poller's target unless the poller is asked to
\* leave it or to stop.
TargetEventuallyShown ==
  \A t \in Target :
    target = t ~> \/ published.of = t /\ published.status = "ok"
                  \/ target # t \/ dbQ # <<>> \/ serverQ # <<>>
                  \/ shutdown \/ ~open
=============================================================================
