--------------------------- MODULE BackgroundProofs --------------------------
(* Theorems about what runs behind a frontend: module TelemetryLane, for any *)
(* cadences, ways of failing and catalog changes, and module WebServer, for *)
(* any browsers, databases, services and channels.                         *)
EXTENDS TelemetryLane, WebServer, TLAPS

LEMMA LeastBound ==
  ASSUME NEW a \in Nat, NEW b \in Nat
  PROVE  Least(a, b) \in Nat /\ Least(a, b) <= b
BY DEF Least

LEMMA TurnType == NoTurn \in Turn
BY CadenceType DEF NoTurn, Turn, Tiers

LEMMA NothingShownType == NothingShown \in [schema : SchemaType, statements : StatementsType]
<1>1. NoSchema \in SchemaType /\ NoStatements \in StatementsType
  BY EpochType DEF NoSchema, NoStatements, SchemaType, StatementsType, Rows
<1>2. QED
  BY <1>1 DEF NothingShown

LEMMA InitType == Init => TypeOK
<1> SUFFICES ASSUME Init PROVE TypeOK
  OBVIOUS
<1>1. schema \in SchemaType /\ statements \in StatementsType
  BY EpochType DEF Init, NoSchema, NoStatements, SchemaType, StatementsType, Rows
<1>2. good \in [rows : Rows, bloat : Rows, statements : Rows]
  BY EpochType DEF Init, NothingGood, Rows
<1>3. latest \in [Subsystems -> {"ok", "failed", "denied", "preload"}]
  BY DEF Init, NoOutcome
<1>4. age \in [Tiers -> Nat] /\ \A t \in Tiers : age[t] <= Cadence[t]
  BY CadenceType DEF Init
<1>5. epoch \in 1..MaxEpoch
  BY EpochType DEF Init
<1>6. turn \in Turn
  BY TurnType DEF Init
<1>7. shown \in [schema : SchemaType, statements : StatementsType] /\ unshared \in BOOLEAN
  BY NothingShownType DEF Init
<1>8. QED
  BY <1>1, <1>2, <1>3, <1>4, <1>5, <1>6, <1>7 DEF Init, TypeOK

\* The parts of the type invariant the collections change.
Collected ==
  /\ schema \in SchemaType /\ statements \in StatementsType
  /\ shown \in [schema : SchemaType, statements : StatementsType] /\ unshared \in BOOLEAN
  /\ lastError \in Subsystems \cup {None}
  /\ latest \in [Subsystems -> {"ok", "failed", "denied", "preload"}]
  /\ good \in [rows : Rows, bloat : Rows, statements : Rows]

LEMMA BadgeType ==
  ASSUME TypeOK, NEW reported \in Subsystems \cup {None}, NEW mine
  PROVE  Badge(reported, mine) \in Subsystems \cup {None}
BY DEF TypeOK, Badge

LEMMA CollectedType ==
  ASSUME TypeOK, Tier2 \/ Tier3 \/ CollectSchema \/ CollectStatements
  PROVE  Collected'
<1> USE DEF TypeOK
<1>0. /\ epoch \in Rows /\ epoch # 0 /\ 0 \in Rows
      /\ "replication_slots" \in Subsystems /\ "publications" \in Subsystems
      /\ "subscriptions" \in Subsystems /\ "schema" \in Subsystems
      /\ "statements" \in Subsystems
  BY EpochType DEF Rows, Subsystems
<1>1. CASE Tier2
  <2>1. PICK slots \in Outcomes("replication_slots") :
          /\ latest' = [latest EXCEPT !["replication_slots"] = slots]
          /\ lastError' = Badge(IF slots = "failed" THEN "replication_slots" ELSE None,
                                Tier2Names)
    BY <1>1 DEF Tier2
  <2>2. slots \in {"ok", "failed", "denied", "preload"}
    BY <1>0, FailuresType DEF Outcomes
  <2>3. QED
    BY <1>0, <1>1, <2>1, <2>2, BadgeType DEF Tier2, Collected, lenses
<1>2. CASE Tier3
  <2>1. PICK pub \in Outcomes("publications"), sub \in Outcomes("subscriptions") :
          /\ latest' = [latest EXCEPT !["publications"] = pub, !["subscriptions"] = sub]
          /\ lastError' = Badge(Tier3Report(pub, sub), Tier3Names)
    BY <1>2 DEF Tier3
  <2>2. /\ pub \in {"ok", "failed", "denied", "preload"}
        /\ sub \in {"ok", "failed", "denied", "preload"}
    BY <1>0, FailuresType DEF Outcomes
  <2>3. Tier3Report(pub, sub) \in Subsystems \cup {None}
    BY <1>0 DEF Tier3Report
  <2>4. QED
    BY <1>2, <2>1, <2>2, <2>3, BadgeType DEF Tier3, Collected, lenses
<1>3. CASE CollectSchema
  <2>1. ASSUME NEW bloat \in {"none", "ok", "failed"}, SchemaStored(bloat)
        PROVE  Collected'
    <3>1. schema' \in SchemaType
      BY <1>0, <2>1 DEF SchemaStored, SchemaType
    <3>2. good' \in [rows : Rows, bloat : Rows, statements : Rows]
      BY <1>0, <2>1 DEF SchemaStored
    <3>3. lastError' \in Subsystems \cup {None}
      BY <2>1, BadgeType DEF SchemaStored
    <3>4. latest' \in [Subsystems -> {"ok", "failed", "denied", "preload"}]
      BY <2>1 DEF SchemaStored
    <3>5. statements' \in StatementsType /\ unshared' \in BOOLEAN
          /\ shown' \in [schema : SchemaType, statements : StatementsType]
      BY <1>3 DEF CollectSchema
    <3>6. QED
      BY <3>1, <3>2, <3>3, <3>4, <3>5 DEF Collected
  <2>2. CASE \E outcome \in Failures["schema"] : SchemaError(outcome)
    <3>1. schema' \in SchemaType
      BY <1>0, <2>2 DEF SchemaError, KeptAfterError, SchemaType
    <3>2. \A outcome \in Failures["schema"] : outcome \in {"failed", "denied", "preload"}
      BY <1>0, FailuresType
    <3>3. QED
      BY <1>0, <1>3, <2>2, <3>1, <3>2 DEF CollectSchema, SchemaError, Collected
  <2>3. QED
    BY <1>3, <2>1, <2>2 DEF CollectSchema
<1>4. CASE CollectStatements
  <2>0. Unavailable \in StatementsType
    BY <1>0 DEF Unavailable, StatementsType
  <2>1. CASE StatementsStored
    <3>1. statements' \in StatementsType
          /\ good' \in [rows : Rows, bloat : Rows, statements : Rows]
      BY <1>0, <2>1 DEF StatementsStored, StatementsType
    <3>2. QED
      BY <1>4, <2>1, <3>1, BadgeType DEF CollectStatements, StatementsStored, Collected, lenses
  <2>2. CASE \E outcome \in Failures["statements"] : StatementsError(outcome)
    <3>1. KeptAfterError(statements) \in StatementsType
      BY <1>0 DEF KeptAfterError, StatementsType
    <3>2. \A outcome \in Failures["statements"] : outcome \in {"failed", "denied", "preload"}
      BY <1>0, FailuresType
    <3>3. QED
      BY <1>0, <1>4, <2>0, <2>2, <3>1, <3>2 DEF CollectStatements, StatementsError, Collected, lenses
  <2>3. CASE ~available
    BY <1>0, <1>4, <2>0, <2>1, <2>2, <2>3 DEF CollectStatements, Collected, lenses
  <2>4. QED
    BY <1>4, <2>1, <2>2, <2>3 DEF CollectStatements
<1>5. QED
  BY <1>1, <1>2, <1>3, <1>4

\* The parts of the type invariant the loop and its clocks change.
Scheduled ==
  /\ lane \in {"off", "poll", "top", "tier2", "tier3", "decide", "schema",
               "statements", "io", "rest"}
  /\ turn \in Turn
  /\ age \in [Tiers -> Nat] /\ \A t \in Tiers : age[t] <= Cadence[t]
  /\ refresh \in BOOLEAN /\ wanted \in BOOLEAN
  /\ epoch \in 1..MaxEpoch

LEMMA ElapseType == ASSUME TypeOK, Elapse PROVE Scheduled'
<1>1. \A t \in Tiers : age[t] + 1 \in Nat /\ Cadence[t] \in Nat
  BY CadenceType DEF TypeOK
<1>2. /\ age' \in [Tiers -> Nat]
      /\ \A t \in Tiers : age'[t] <= Cadence[t]
  BY <1>1, LeastBound DEF Elapse
<1>3. turn' \in Turn
  <2>1. 4 \in Tiers /\ turn.since + 1 \in Nat /\ Cadence[4] \in Nat
    BY CadenceType DEF TypeOK, Turn, Tiers
  <2>2. Least(turn.since + 1, Cadence[4]) \in 0..Cadence[4]
    BY <2>1 DEF Least
  <2>3. QED
    BY <2>2 DEF Elapse, TypeOK, Turn
<1>4. QED
  BY <1>2, <1>3 DEF Elapse, TypeOK, Scheduled, signal

LEMMA TopType == ASSUME TypeOK, Top PROVE Scheduled'
<1> DEFINE due == {t \in Tiers : age[t] >= Cadence[t]}
<1>1. turn' \in Turn
  <2>1. due \in SUBSET Tiers /\ seenRole \in {"primary", "standby"}
    BY DEF TypeOK
  <2>2. turn' = [due |-> due, since |-> 0, bloat |-> FALSE,
                 role |-> IF 2 \in due THEN seenRole ELSE None]
    BY DEF Top, NoTurn
  <2>3. 0 \in 0..Cadence[4]
    BY CadenceType DEF Tiers
  <2> HIDE DEF due
  <2>4. QED
    BY <2>1, <2>2, <2>3 DEF Turn
<1>2. age' \in [Tiers -> Nat] /\ \A t \in Tiers : age'[t] <= Cadence[t]
  BY CadenceType DEF Top, TypeOK
<1>3. QED
  BY <1>1, <1>2 DEF Top, TypeOK, Scheduled, signal

LEMMA DecideType == ASSUME TypeOK, Decide PROVE Scheduled'
<1>1. turn' \in Turn
  BY TurnType DEF Decide, TypeOK, Turn
<1>2. turn.since \in Nat /\ turn.since <= Cadence[4]
  BY CadenceType DEF TypeOK, Turn, Tiers
<1>3. age' \in [Tiers -> Nat] /\ \A t \in Tiers : age'[t] <= Cadence[t]
  BY <1>2 DEF Decide, Attempted, TypeOK, Tiers
<1>4. QED
  BY <1>1, <1>3 DEF Decide, TypeOK, Scheduled, signal
LEMMA NextType == TypeOK /\ [Next]_vars => TypeOK'
<1> SUFFICES ASSUME TypeOK, [Next]_vars PROVE TypeOK'
  OBVIOUS
<1>1. CASE Elapse
  <2>1. Scheduled'
    BY <1>1, ElapseType
  <2>2. QED
    BY <1>1, <2>1 DEF Elapse, TypeOK, Scheduled, session, signal, data, lenses
<1>2. CASE ServerChanges
  <2>0. PICK rows \in {epoch, epoch + 1} \cap Rows, as \in {role, "primary"} \cap Roles :
          epoch' = rows /\ role' = as
    BY <1>2 DEF ServerChanges
  <2>1. epoch' \in 1..MaxEpoch /\ role' \in Roles
    <3>1. epoch \in 1..MaxEpoch /\ MaxEpoch \in Nat
      BY EpochType DEF TypeOK
    <3>2. rows \in 0..MaxEpoch /\ (rows = epoch \/ rows = epoch + 1)
      BY <2>0 DEF Rows
    <3>3. rows \in 1..MaxEpoch
      BY <3>1, <3>2
    <3>4. QED
      BY <2>0, <3>3
  <2>2. QED
    BY <1>2, <2>1 DEF ServerChanges, TypeOK, signal, data, lenses
<1>3. CASE AskRefresh
  BY <1>3 DEF AskRefresh, TypeOK, session, data, lenses
<1>4. CASE SessionStarts
  <2>1. /\ age' \in [Tiers -> Nat]
        /\ \A t \in Tiers : age'[t] <= Cadence[t]
    BY <1>4, CadenceType DEF SessionStarts, TypeOK, Tiers
  <2>2. mode' \in {"none", "dual", "single"}
    BY <1>4, ModesType DEF SessionStarts
  <2>3. QED
    BY <1>4, <2>1, <2>2 DEF SessionStarts, TypeOK, signal, data, lenses
<1>5. CASE SessionEnds
  BY <1>5, TurnType DEF SessionEnds, Closed, TypeOK, signal, data, lenses
<1>6. CASE DatabaseSwitched
  <2>1. /\ age' \in [Tiers -> Nat]
        /\ \A t \in Tiers : age'[t] <= Cadence[t]
    BY <1>6, CadenceType DEF DatabaseSwitched, TypeOK, Tiers
  <2>2. Collected'
    <3>1. /\ schema' = NoSchema /\ statements' = NoStatements /\ lastError' = None
          /\ latest' = NoOutcome /\ good' = NothingGood /\ 0 \in Rows
          /\ shown' = NothingShown /\ unshared' = FALSE
      BY <1>6, EpochType DEF DatabaseSwitched, Rows
    <3>2. schema' \in SchemaType /\ statements' \in StatementsType
      BY <3>1 DEF NoSchema, NoStatements, SchemaType, StatementsType
    <3>3. good' \in [rows : Rows, bloat : Rows, statements : Rows]
      BY <3>1 DEF NothingGood
    <3>4. latest' \in [Subsystems -> {"ok", "failed", "denied", "preload"}]
      BY <3>1 DEF NoOutcome
    <3>5. QED
      BY <3>1, <3>2, <3>3, <3>4, NothingShownType DEF Collected
  <2>3. QED
    BY <1>6, <2>1, <2>2, TurnType DEF DatabaseSwitched, Closed, TypeOK, Collected, signal
<1>7. CASE FastPoll \/ Poll
  BY <1>7, RolesType DEF FastPoll, Poll, TypeOK, session, signal, data, lenses
<1>8. CASE Top
  <2>1. Scheduled'
    BY <1>8, TopType
  <2>2. QED
    BY <1>8, <2>1 DEF Top, TypeOK, Scheduled, session, signal, data, lenses
<1>9. CASE Decide
  <2>1. Scheduled'
    BY <1>9, DecideType
  <2>2. QED
    BY <1>9, <2>1 DEF Decide, TypeOK, Scheduled, session, signal, data, lenses
<1>10. CASE Tier2 \/ Tier3 \/ CollectSchema \/ CollectStatements
  <2>1. Collected'
    BY <1>10, CollectedType
  <2>2. /\ UNCHANGED <<session, age, signal, epoch>>
        /\ turn' \in {turn, NoTurn}
        /\ lane' \in {"tier3", "decide", "statements", "io", "rest"}
    BY <1>10 DEF Tier2, Tier3, CollectSchema, CollectStatements
  <2>3. QED
    BY <2>1, <2>2, TurnType DEF TypeOK, Collected, session, signal
<1>11. CASE Rest \/ RefreshWakes
  BY <1>11 DEF Rest, RefreshWakes, TypeOK, session, signal, data, lenses
<1>12. CASE Share
  BY <1>12 DEF Share, TypeOK, session, signal
<1>13. CASE UNCHANGED vars
  BY <1>13 DEF TypeOK, vars, session, signal, data, lenses
<1>14. QED
  BY <1>1, <1>2, <1>3, <1>4, <1>5, <1>6, <1>7, <1>8, <1>9, <1>10, <1>11, <1>12, <1>13
     DEF Next, Outside, Session, Loop

-----------------------------------------------------------------------------
\* Every variable keeps its type, the ages stay within their cadences.
THEOREM TypeCorrect == Spec => []TypeOK
<1>1. QED
  BY InitType, NextType, PTL DEF Spec
-----------------------------------------------------------------------------
(* The badge.                                                              *)

\* Every collection leaves no error of a subsystem that just succeeded; the
\* error of another subsystem stays with that subsystem's outcome.
LEMMA BadgeStep ==
  ASSUME TypeOK, NoStaleError, Tier2 \/ Tier3 \/ CollectSchema \/ CollectStatements
  PROVE  NoStaleError'
<1> USE DEF NoStaleError
<1>0. /\ lastError \in Subsystems \cup {None} /\ None \notin Subsystems
      /\ latest \in [Subsystems -> {"ok", "failed", "denied", "preload"}]
      /\ {"replication_slots", "publications", "subscriptions", "schema",
          "statements"} \subseteq Subsystems
      /\ \A s \in {"schema", "statements"} : "ok" \notin Failures[s]
  BY NoneType, FailuresType DEF TypeOK, Subsystems
<1>1. CASE Tier2
  <2>1. PICK slots \in Outcomes("replication_slots") :
          /\ latest' = [latest EXCEPT !["replication_slots"] = slots]
          /\ lastError' = Badge(IF slots = "failed" THEN "replication_slots" ELSE None,
                                Tier2Names)
    BY <1>1 DEF Tier2
  <2>2. CASE slots = "failed"
    BY <1>0, <2>1, <2>2 DEF Badge
  <2>3. CASE slots # "failed"
    <3>1. lastError' \in {lastError, None} /\ lastError' # "replication_slots"
      BY <1>0, <2>1, <2>3 DEF Badge, Tier2Names
    <3>2. QED
      BY <1>0, <2>1, <3>1
  <2>4. QED
    BY <2>2, <2>3
<1>2. CASE Tier3
  <2>1. PICK pub \in Outcomes("publications"), sub \in Outcomes("subscriptions") :
          /\ latest' = [latest EXCEPT !["publications"] = pub, !["subscriptions"] = sub]
          /\ lastError' = Badge(Tier3Report(pub, sub), Tier3Names)
    BY <1>2 DEF Tier3
  <2>2. CASE pub = "failed"
    BY <1>0, <2>1, <2>2 DEF Badge, Tier3Report
  <2>3. CASE pub # "failed" /\ sub = "failed"
    BY <1>0, <2>1, <2>3 DEF Badge, Tier3Report
  <2>4. CASE pub # "failed" /\ sub # "failed"
    <3>1. lastError' \in {lastError, None} /\ lastError' \notin {"publications", "subscriptions"}
      BY <1>0, <2>1, <2>4 DEF Badge, Tier3Report, Tier3Names
    <3>2. QED
      BY <1>0, <2>1, <3>1
  <2>5. QED
    BY <2>2, <2>3, <2>4
<1>3. CASE CollectSchema
  <2>1. ASSUME NEW bloat, SchemaStored(bloat) PROVE NoStaleError'
    BY <1>0, <2>1 DEF SchemaStored, Badge
  <2>2. ASSUME NEW outcome \in Failures["schema"], SchemaError(outcome)
        PROVE  NoStaleError'
    BY <1>0, <2>2 DEF SchemaError
  <2>3. QED
    BY <1>3, <2>1, <2>2 DEF CollectSchema
<1>4. CASE CollectStatements
  <2>1. CASE StatementsStored
    BY <1>0, <2>1 DEF StatementsStored, Badge
  <2>2. ASSUME NEW outcome \in Failures["statements"], StatementsError(outcome)
        PROVE  NoStaleError'
    BY <1>0, <2>2 DEF StatementsError
  <2>3. CASE UNCHANGED <<lastError, latest>>
    BY <2>3
  <2>4. QED
    BY <1>4, <2>1, <2>2, <2>3 DEF CollectStatements
<1>5. QED
  BY <1>1, <1>2, <1>3, <1>4

\* A step that is not a collection keeps the data, or resets all of it.
LEMMA OtherSteps ==
  ASSUME [Next]_vars, ~(Tier2 \/ Tier3 \/ CollectSchema \/ CollectStatements \/ Share)
  PROVE  UNCHANGED data \/ DatabaseSwitched
<1>1. ASSUME \/ Elapse \/ ServerChanges \/ AskRefresh \/ SessionStarts \/ SessionEnds
             \/ FastPoll \/ Poll \/ Top \/ Decide \/ Rest \/ RefreshWakes
             \/ UNCHANGED vars
      PROVE  UNCHANGED data
  BY <1>1 DEF Elapse, ServerChanges, AskRefresh, SessionStarts, SessionEnds, FastPoll,
              Poll, Top, Decide, Rest, RefreshWakes, vars
<1>2. QED
  BY <1>1 DEF Next, Outside, Session, Loop

\* Whatever fails in whichever order, the badge never names a subsystem whose
\* latest attempt succeeded.
THEOREM BadgeNeverStale == Spec => []NoStaleError
<1>1. Init => NoStaleError
  BY DEF Init, NoStaleError
<1>2. TypeOK /\ NoStaleError /\ [Next]_vars => NoStaleError'
  <2> SUFFICES ASSUME TypeOK, NoStaleError, [Next]_vars PROVE NoStaleError'
    OBVIOUS
  <2>1. CASE Tier2 \/ Tier3 \/ CollectSchema \/ CollectStatements
    BY <2>1, BadgeStep
  <2>2. CASE UNCHANGED data
    BY <2>2 DEF NoStaleError, data
  <2>3. CASE DatabaseSwitched
    BY <2>3 DEF DatabaseSwitched, NoStaleError
  <2>4. CASE Share
    BY <2>4 DEF Share, NoStaleError
  <2>5. QED
    BY <2>1, <2>2, <2>3, <2>4, OtherSteps
<1>3. QED
  BY <1>1, <1>2, TypeCorrect, PTL DEF Spec

-----------------------------------------------------------------------------
(* The data.  A lens that was never collected has no rows: without this    *)
(* the first error would give rows a stamp of their own.                   *)

NothingCollected == /\ schema.status = "none" => schema.rows = 0
                    /\ statements.status = "none" => statements.rows = 0
DataInv == HoldsLastGood /\ AgeIsHonest /\ NothingCollected /\ LensesShared

LEMMA KeptStep ==
  ASSUME TypeOK, DataInv, CollectSchema \/ CollectStatements
  PROVE  /\ HoldsLastGood' /\ NothingCollected'
         /\ schema'.rows # 0 => schema'.stamp = schema'.rows
         /\ statements'.rows # 0 => statements'.stamp = statements'.rows
<1> USE DEF DataInv, HoldsLastGood, AgeIsHonest, NothingCollected
<1>0. /\ schema \in SchemaType /\ statements \in StatementsType
      /\ good \in [rows : Rows, bloat : Rows, statements : Rows]
  BY DEF TypeOK
<1> DEFINE Kept == /\ HoldsLastGood' /\ NothingCollected'
                   /\ schema'.rows # 0 => schema'.stamp = schema'.rows
                   /\ statements'.rows # 0 => statements'.stamp = statements'.rows
<1>1. CASE CollectSchema
  <2>1. ASSUME NEW bloat, SchemaStored(bloat) PROVE Kept
    BY <1>0, <1>1, <2>1 DEF SchemaStored, SchemaType, CollectSchema
  <2>2. ASSUME NEW outcome, SchemaError(outcome) PROVE Kept
    BY <1>0, <1>1, <2>2 DEF SchemaError, KeptAfterError, SchemaType, CollectSchema
  <2>3. QED
    BY <1>1, <2>1, <2>2 DEF CollectSchema
<1>2. CASE CollectStatements
  <2>1. CASE StatementsStored
    BY <1>0, <1>2, <2>1 DEF StatementsStored, CollectStatements
  <2>2. ASSUME NEW outcome, StatementsError(outcome) PROVE Kept
    BY <1>0, <1>2, <2>2 DEF StatementsError, KeptAfterError, Unavailable,
                            StatementsType, CollectStatements
  <2>3. CASE statements' = Unavailable /\ good' = [good EXCEPT !.statements = 0]
    BY <1>0, <1>2, <2>3 DEF Unavailable, CollectStatements
  <2>4. QED
    BY <1>2, <2>1, <2>2, <2>3 DEF CollectStatements
<1>3. QED
  BY <1>1, <1>2

\* The results of the tier wait for the copy while they are collected.
Waiting == lane \in {"statements", "io"} => unshared

LEMMA DataStep ==
  ASSUME TypeOK, DataInv, Waiting, CollectSchema \/ CollectStatements
  PROVE  DataInv'
<1>1. /\ HoldsLastGood' /\ NothingCollected'
      /\ schema'.rows # 0 => schema'.stamp = schema'.rows
      /\ statements'.rows # 0 => statements'.stamp = statements'.rows
  BY KeptStep
<1>2. shown' = shown /\ unshared'
  BY DEF CollectSchema, CollectStatements, lenses, Waiting
<1>3. AgeIsHonest'
  BY <1>1, <1>2 DEF AgeIsHonest, DataInv
<1>4. QED
  BY <1>1, <1>2, <1>3 DEF DataInv, LensesShared

LEMMA ShareStep ==
  ASSUME TypeOK, DataInv, Share PROVE DataInv'
<1>1. /\ UNCHANGED <<schema, statements, good>>
      /\ shown' = [schema |-> schema, statements |-> statements]
  BY DEF Share
<1>2. shown'.schema = schema' /\ shown'.statements = statements'
  BY <1>1
<1>3. AgeIsHonest'
  BY <1>1, <1>2 DEF DataInv, AgeIsHonest
<1>4. QED
  BY <1>1, <1>3 DEF DataInv, HoldsLastGood, NothingCollected, LensesShared

LEMMA WaitingStep ==
  ASSUME Waiting, [Next]_vars PROVE Waiting'
<1> USE DEF Waiting
<1>1. CASE CollectSchema
  BY <1>1 DEF CollectSchema
<1>2. CASE CollectStatements
  BY <1>2 DEF CollectStatements, lenses
<1>3. CASE Share
  BY <1>3 DEF Share
<1>4. CASE Tier2 \/ Tier3
  BY <1>4 DEF Tier2, Tier3
<1>5. CASE SessionStarts \/ SessionEnds \/ DatabaseSwitched
  BY <1>5, ModesType DEF SessionStarts, SessionEnds, DatabaseSwitched, Closed
<1>6. CASE Top \/ Decide \/ Poll \/ Rest \/ RefreshWakes
  BY <1>6 DEF Top, Decide, Poll, Rest, RefreshWakes
<1>7. CASE Elapse \/ ServerChanges \/ AskRefresh \/ FastPoll \/ UNCHANGED vars
  BY <1>7 DEF Elapse, ServerChanges, AskRefresh, FastPoll, data, lenses, vars
<1>8. QED
  BY <1>1, <1>2, <1>3, <1>4, <1>5, <1>6, <1>7 DEF Next, Outside, Session, Loop

LEMMA DataInductive == Spec => []DataInv
<1>1. Init => DataInv /\ Waiting
  BY DEF Init, DataInv, HoldsLastGood, AgeIsHonest, NothingCollected, LensesShared,
         NothingShown, NoSchema, NoStatements, NothingGood, Waiting
<1>2. TypeOK /\ DataInv /\ Waiting /\ [Next]_vars => DataInv' /\ Waiting'
  <2> SUFFICES ASSUME TypeOK, DataInv, Waiting, [Next]_vars PROVE DataInv'
    BY WaitingStep
  <2>1. CASE CollectSchema \/ CollectStatements
    BY <2>1, DataStep
  <2>2. CASE UNCHANGED <<schema, statements, shown, unshared, good>>
    BY <2>2 DEF DataInv, HoldsLastGood, AgeIsHonest, NothingCollected, LensesShared
  <2>3. CASE DatabaseSwitched
    BY <2>3 DEF DatabaseSwitched, DataInv, HoldsLastGood, AgeIsHonest, NothingCollected,
                LensesShared, NothingShown, NoSchema, NoStatements, NothingGood
  <2>4. Tier2 \/ Tier3 => UNCHANGED <<schema, statements, shown, unshared, good>>
    BY DEF Tier2, Tier3, lenses
  <2>5. UNCHANGED data => UNCHANGED <<schema, statements, shown, unshared, good>>
    BY DEF data, lenses
  <2>6. QED
    BY <2>1, <2>2, <2>3, <2>4, <2>5, ShareStep, OtherSteps
<1>3. QED
  BY <1>1, <1>2, TypeCorrect, PTL DEF Spec

\* Errors, unavailability and reconnects never lose or invent rows: what is
\* kept for a lens is what the latest successful collection of this database
\* returned, what the lens shows is that once the tier's results were copied to
\* the shared state and an earlier answer before (also after a session dropped
\* between the two), and the age shown with rows is the age of those rows
\* (store, store_error, and the copy at the end of the tier).
THEOREM LastGoodAlways == Spec => []LastGoodShown
<1>1. DataInv => LastGoodShown
  BY DEF DataInv, LastGoodShown
<1>2. QED
  BY <1>1, DataInductive, PTL

-----------------------------------------------------------------------------
(* Module WebServer.                                                      *)

WebTypeOK ==
  /\ snapshot \in [version : Nat \ {0}, databases : SUBSET Databases]
  /\ poller \in BOOLEAN
  /\ stream \in [Clients -> {"none", "open", "over"}]
  /\ seen \in [Clients -> Nat]
  /\ stage \in {"serving", "stopping", "draining", "ended"}

\* A stream is only ended once nothing can be published any more.
OverWhenSilent == \A c \in Clients : stream[c] = "over" => ~poller /\ seen[c] = snapshot.version

WebInv == WebTypeOK /\ OverWhenSilent

\* The requests, and the poller's answer to them, touch the channels only.
Asking ==
  \/ \E k \in Channels : Take(k)
  \/ \E token \in BOOLEAN :
       \/ \E pid \in Pids : Admin(pid, token)
       \/ \E d \in Databases : SwitchDatabase(d, token)
       \/ \E s \in Servers : SwitchServer(s, token)
       \/ RequestDetail(token)

LEMMA RequestsTouchChannels == Asking => UNCHANGED serving
BY DEF Asking, Take, Admin, SwitchDatabase, SwitchServer, RequestDetail, TrySend

LEMMA ServingKeeps ==
  ASSUME WebInv, UNCHANGED <<snapshot, poller, stream, seen>>,
         stage' \in {"serving", "stopping", "draining", "ended"}
  PROVE  WebInv'
BY DEF WebInv, WebTypeOK, OverWhenSilent

LEMMA WebInitInv == WebInit => WebInv
BY DEF WebInit, WebInv, WebTypeOK, OverWhenSilent

LEMMA WebNextInv == WebInv /\ [WebNext]_webVars => WebInv'
<1> SUFFICES ASSUME WebInv, [WebNext]_webVars PROVE WebInv'
  OBVIOUS
<1> USE DEF WebInv
<1>1. CASE Publish
  <2>1. /\ poller /\ UNCHANGED <<poller, stream, seen, stage>>
        /\ snapshot' \in [version : Nat \ {0}, databases : SUBSET Databases]
    BY <1>1 DEF Publish, WebTypeOK
  <2>2. QED
    BY <2>1 DEF WebTypeOK, OverWhenSilent
<1>2. CASE PollerStops
  BY <1>2 DEF PollerStops, WebTypeOK, OverWhenSilent
<1>3. ASSUME NEW c \in Clients, Subscribe(c) PROVE WebInv'
  BY <1>3 DEF Subscribe, WebTypeOK, OverWhenSilent
<1>4. ASSUME NEW c \in Clients, Deliver(c) PROVE WebInv'
  BY <1>4 DEF Deliver, WebTypeOK, OverWhenSilent
<1>5. ASSUME NEW c \in Clients, EndStream(c) PROVE WebInv'
  BY <1>5 DEF EndStream, Unseen, WebTypeOK, OverWhenSilent
<1>6. ASSUME NEW c \in Clients, Disconnect(c) PROVE WebInv'
  BY <1>6 DEF Disconnect, WebTypeOK, OverWhenSilent
<1>7. CASE Asking
  BY <1>7, RequestsTouchChannels, ServingKeeps DEF serving, WebTypeOK
<1>8. CASE CtrlC \/ StopAccepting \/ ServerEnds
  BY <1>8, ServingKeeps DEF CtrlC, StopAccepting, ServerEnds
<1>9. CASE UNCHANGED webVars
  BY <1>9, ServingKeeps DEF webVars, WebTypeOK
<1>10. QED
  BY <1>1, <1>2, <1>3, <1>4, <1>5, <1>6, <1>7, <1>8, <1>9 DEF WebNext, Asking

(* A stream the server ends has sent the last snapshot there was, because  *)
(* it sees to what is unseen before it sees that the poller is gone.       *)
THEOREM LastWordAlwaysSent == WebSpec => []LastWordSent
<1>1. WebInv => LastWordSent
  BY DEF WebInv, OverWhenSilent, LastWordSent
<1>2. QED
  BY <1>1, WebInitInv, WebNextInv, PTL DEF WebSpec
=============================================================================
