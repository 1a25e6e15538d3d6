---------------------------- MODULE TelemetryLane ----------------------------
(***************************************************************************)
(* The slow collections of a poller session: which tier is due when, the   *)
(* force-refresh signal, the schema and statements state kept between      *)
(* collections, and the one-slot error badge.  The same code runs on a     *)
(* connection of its own (telemetry_loop, "dual") or between two polls     *)
(* (single_conn_poll_loop, "single").                                      *)
(*                                                                         *)
(* Collected rows are abstracted to the epoch of the catalog they were     *)
(* read in (0: no rows), a clock value to the time since then, counted up  *)
(* to the interval it is compared with.                                    *)
(***************************************************************************)
EXTENDS Naturals

CONSTANTS Cadence,    \* interval of each tier
          Modes,      \* session modes that may occur
          Roles,      \* roles of the server: "primary", "standby"
          Failures,   \* how the attempts of each subsystem may fail
          MaxEpoch,   \* bound on catalog changes
          None

Tiers == 2..4
ASSUME CadenceType == Cadence \in [Tiers -> Nat \ {0}]
ASSUME ModesType == Modes \subseteq {"dual", "single"}
ASSUME RolesType == Roles \subseteq {"primary", "standby"} /\ Roles # {}
ASSUME EpochType == MaxEpoch \in Nat \ {0}

Subsystems == {"replication_slots", "publications", "subscriptions",
               "schema", "statements"}
ASSUME FailuresType ==
  /\ Failures \in [Subsystems -> SUBSET {"failed", "denied", "preload"}]
  /\ \A s \in Subsystems \ {"statements"} : "preload" \notin Failures[s]
ASSUME NoneType == None \notin Subsystems

VARIABLES
  mode, lane,      \* the session's mode and where the collecting loop is
  turn,            \* locals of the current iteration (type Turn)
  age,             \* time since last_tier2, last_tier3, schema.last_attempt
  refresh,         \* refresh_rx.has_changed()
  role,            \* the server's role
  seenRole,        \* is_in_recovery as the poll lane last stored it
  available,       \* pg_stat_statements was detected at session start
  epoch,           \* the catalog as it is now
  schema, statements,   \* SchemaState.current, StatementsState.current
  shown,           \* shared.schema, shared.statements: what the lenses show
  unshared,        \* something was collected since they were last copied
  lastError,       \* subsystem named by shared.last_error
  latest,          \* outcome of each subsystem's latest attempt
  good,            \* what the latest successful collections returned
  wanted           \* a refresh was asked for and no collection began since

session == <<mode, role, seenRole, available>>
signal == <<refresh, wanted>>
lenses == <<shown, unshared>>
data == <<schema, statements, lenses, lastError, latest, good>>
vars == <<session, lane, turn, age, signal, epoch, data>>

\* An attempt succeeds or fails in one of the ways its subsystem may.
Outcomes(s) == {"ok"} \cup Failures[s]
Rows == 0..MaxEpoch
SchemaType == [rows : Rows, bloat : Rows, stamp : Rows,
               status : {"none", "ok", "error"}]
StatementsType == [rows : Rows, stamp : Rows,
                   status : {"none", "ok", "error", "unavailable"}]

\* The tiers due when the clock was read, the time since, the role whose
\* replication view is read, and whether the schema collection has bloat.
Turn == [due : SUBSET Tiers, since : 0..Cadence[4],
         role : {"primary", "standby", None}, bloat : BOOLEAN]
NoTurn == [due |-> {}, since |-> 0, role |-> None, bloat |-> FALSE]

TypeOK ==
  /\ mode \in {"none", "dual", "single"}
  /\ lane \in {"off", "poll", "top", "tier2", "tier3", "decide", "schema",
               "statements", "io", "rest"}
  /\ turn \in Turn
  /\ age \in [Tiers -> Nat] /\ \A t \in Tiers : age[t] <= Cadence[t]
  /\ refresh \in BOOLEAN /\ wanted \in BOOLEAN
  /\ role \in Roles /\ seenRole \in {"primary", "standby"} /\ available \in BOOLEAN
  /\ epoch \in 1..MaxEpoch
  /\ schema \in SchemaType /\ statements \in StatementsType
  /\ shown \in [schema : SchemaType, statements : StatementsType] /\ unshared \in BOOLEAN
  /\ lastError \in Subsystems \cup {None}
  /\ latest \in [Subsystems -> {"ok", "failed", "denied", "preload"}]
  /\ good \in [rows : Rows, bloat : Rows, statements : Rows]

NoSchema == [rows |-> 0, bloat |-> 0, stamp |-> 0, status |-> "none"]
NoStatements == [rows |-> 0, stamp |-> 0, status |-> "none"]
NothingShown == [schema |-> NoSchema, statements |-> NoStatements]
NothingGood == [rows |-> 0, bloat |-> 0, statements |-> 0]
NoOutcome == [s \in Subsystems |-> "ok"]

Init ==
  /\ mode = "none" /\ lane = "off" /\ turn = NoTurn
  /\ age = Cadence
  /\ refresh = FALSE /\ wanted = FALSE
  /\ role \in Roles /\ seenRole = "primary" /\ available = FALSE
  /\ epoch = 1
  /\ schema = NoSchema /\ statements = NoStatements
  /\ shown = NothingShown /\ unshared = FALSE
  /\ lastError = None /\ latest = NoOutcome /\ good = NothingGood

-----------------------------------------------------------------------------
(* The outside: time, the monitored server, the refresh key.               *)

Least(a, b) == IF a <= b THEN a ELSE b

Elapse ==
  /\ age' = [t \in Tiers |-> Least(age[t] + 1, Cadence[t])]
  /\ turn' = IF lane \in {"tier2", "tier3", "decide"}
             THEN [turn EXCEPT !.since = Least(@ + 1, Cadence[4])] ELSE turn
  /\ UNCHANGED <<session, lane, signal, epoch, data>>

\* The catalog changes, a standby is made the primary with its connections open,
\* or both.
ServerChanges ==
  /\ \E rows \in {epoch, epoch + 1} \cap Rows, as \in {role, "primary"} \cap Roles :
       /\ rows # epoch \/ as # role
       /\ epoch' = rows /\ role' = as
  /\ UNCHANGED <<mode, seenRole, available, lane, turn, age, signal, data>>

AskRefresh ==
  /\ refresh' = TRUE /\ wanted' = TRUE
  /\ UNCHANGED <<session, lane, turn, age, epoch, data>>

-----------------------------------------------------------------------------
(* Session start and end.  Tier clocks and the recovery flag belong to the *)
(* session; schema, statements, error badge and the schema clock do not.   *)

SessionStarts ==
  /\ lane = "off"
  /\ mode' \in Modes
  /\ lane' = IF mode' = "dual" THEN "top" ELSE "poll"
  /\ age' = [age EXCEPT ![2] = Cadence[2], ![3] = Cadence[3]]
  /\ seenRole' = "primary" /\ available' \in BOOLEAN
  /\ UNCHANGED <<role, turn, signal, epoch, data>>

Closed == lane # "off" /\ lane' = "off" /\ mode' = "none" /\ turn' = NoTurn

\* The other connection's end drops the telemetry loop at whatever it awaits;
\* with one connection only a failed poll ends a session that is retried.
SessionEnds ==
  /\ mode = "single" => lane = "poll"
  /\ Closed
  /\ UNCHANGED <<role, seenRole, available, age, signal, epoch, data>>

\* schema.reset(), a new StatementsState and a default SharedTelemetry; the
\* refresh channel is kept.
DatabaseSwitched ==
  /\ Closed
  /\ age' = [age EXCEPT ![4] = Cadence[4]]
  /\ schema' = NoSchema /\ statements' = NoStatements
  /\ shown' = NothingShown /\ unshared' = FALSE
  /\ lastError' = None /\ latest' = NoOutcome /\ good' = NothingGood
  /\ UNCHANGED <<role, seenRole, available, signal, epoch>>

\* The fast lane stores the role it just read; it polls beside the other lane.
FastPoll ==
  /\ mode = "dual" /\ seenRole' = role
  /\ UNCHANGED <<mode, role, available, lane, turn, age, signal, epoch, data>>

\* Mutant: the single-connection loop keeps the flag of the session start.
PollIgnoringRole ==
  /\ lane = "poll" /\ lane' = "top"
  /\ UNCHANGED <<session, turn, age, signal, epoch, data>>

\* With one connection the tiers run between a poll and its publication.
Poll ==
  /\ lane = "poll" /\ lane' = "top" /\ seenRole' = role
  /\ UNCHANGED <<mode, role, available, turn, age, signal, epoch, data>>

-----------------------------------------------------------------------------
(* One iteration: tier 2, tier 3, then the slow tier if it is due.         *)

\* `now` is read, and with it the role the replication query of tier 2 is for.
Top ==
  /\ lane = "top"
  /\ LET due == {t \in Tiers : age[t] >= Cadence[t]}
     IN /\ turn' = [NoTurn EXCEPT !.due = due,
                                  !.role = IF 2 \in due THEN seenRole ELSE None]
        /\ age' = [t \in Tiers |-> IF t \in due \ {4} THEN 0 ELSE age[t]]
        /\ lane' = IF 2 \in due THEN "tier2" ELSE IF 3 \in due THEN "tier3" ELSE "decide"
  /\ UNCHANGED <<session, signal, epoch, data>>

\* The badge after an attempt: a reported failure takes the slot, success
\* empties it when it names one of `mine`.
Badge(reported, mine) ==
  IF reported # None THEN reported
  ELSE IF lastError \in mine THEN None ELSE lastError

Tier2Names == {"replication_slots", "replication", "wal_receiver"}
\* Mutant: a name is missing from the list tier 3 clears.
Tier3NamesShort == {"publications", "databases"}
Tier3Names == {"subscriptions", "publications", "databases"}

Tier2 ==
  /\ lane = "tier2" /\ lane' = IF 3 \in turn.due THEN "tier3" ELSE "decide"
  /\ \E slots \in Outcomes("replication_slots") :
       /\ latest' = [latest EXCEPT !["replication_slots"] = slots]
       /\ lastError' = Badge(IF slots = "failed" THEN "replication_slots" ELSE None,
                             Tier2Names)
  /\ UNCHANGED <<session, turn, age, signal, epoch, schema, statements, lenses, good>>

\* A denied view is logged and not reported.
Tier3Report(pub, sub) == IF pub = "failed" THEN "publications"
                         ELSE IF sub = "failed" THEN "subscriptions" ELSE None

Tier3 ==
  /\ lane = "tier3" /\ lane' = "decide"
  /\ \E pub \in Outcomes("publications"), sub \in Outcomes("subscriptions") :
       /\ latest' = [latest EXCEPT !["publications"] = pub, !["subscriptions"] = sub]
       /\ lastError' = Badge(Tier3Report(pub, sub), Tier3Names)
  /\ UNCHANGED <<session, turn, age, signal, epoch, schema, statements, lenses, good>>

SlowDue == 4 \in turn.due
Attempted == age' = [age EXCEPT ![4] = turn.since]
\* Mutant: the attempt clock restarts on every iteration.
DecideRearming ==
  /\ lane = "decide" /\ Attempted
  /\ \/ /\ refresh \/ SlowDue
        /\ lane' = "schema" /\ turn' = [NoTurn EXCEPT !.bloat = refresh]
        /\ refresh' = FALSE /\ wanted' = (wanted /\ ~refresh)
     \/ /\ ~refresh /\ ~SlowDue
        /\ lane' = "rest" /\ turn' = NoTurn /\ UNCHANGED signal
  /\ UNCHANGED <<session, epoch, data>>

\* Mutant: the signal is consumed before it is tested.
DecideConsuming ==
  /\ lane = "decide" /\ turn' = NoTurn /\ refresh' = FALSE
  /\ \/ SlowDue /\ lane' = "schema" /\ Attempted
     \/ ~SlowDue /\ lane' = "rest" /\ UNCHANGED age
  /\ UNCHANGED <<session, wanted, epoch, data>>

\* SchemaState::due.
Decide ==
  /\ lane = "decide"
  /\ \/ /\ refresh \/ SlowDue
        /\ lane' = "schema" /\ turn' = [NoTurn EXCEPT !.bloat = refresh]
        /\ refresh' = FALSE /\ wanted' = (wanted /\ ~refresh)
        /\ Attempted
     \/ /\ ~refresh /\ ~SlowDue
        /\ lane' = "rest" /\ turn' = NoTurn /\ UNCHANGED <<signal, age>>
  /\ UNCHANGED <<session, epoch, data>>

\* SchemaState::store, with the outcome of the bloat estimate if one was run.
SchemaStored(bloat) ==
  /\ schema' = [rows |-> epoch, stamp |-> epoch,
                bloat |-> IF bloat = "ok" THEN epoch ELSE schema.bloat,
                status |-> IF bloat = "failed" THEN "error" ELSE "ok"]
  /\ good' = [good EXCEPT !.rows = epoch,
                          !.bloat = IF bloat = "ok" THEN epoch ELSE @]
  /\ lastError' = Badge(None, {"schema"})
  /\ latest' = [latest EXCEPT !["schema"] = "ok"]

\* Mutant: an error drops the collected rows.
KeptAfterErrorEmptied(s) == [s EXCEPT !.rows = 0, !.status = "error"]
\* store_error: the last good rows stay with the time they were collected.
KeptAfterError(s) ==
  [s EXCEPT !.status = "error", !.stamp = IF s.status = "none" THEN epoch ELSE s.stamp]

SchemaError(outcome) ==
  /\ schema' = KeptAfterError(schema)
  /\ lastError' = "schema"
  /\ latest' = [latest EXCEPT !["schema"] = outcome]
  /\ UNCHANGED good

CollectSchema ==
  /\ lane = "schema" /\ lane' = "statements"
  /\ \/ ~turn.bloat /\ SchemaStored("none")
     \/ turn.bloat /\ \E bloat \in {"ok", "failed"} : SchemaStored(bloat)
     \/ \E outcome \in Failures["schema"] : SchemaError(outcome)
  /\ turn' = NoTurn /\ unshared' = TRUE
  /\ UNCHANGED <<session, age, signal, epoch, statements, shown>>

\* store_unavailable: no rows are kept.
Unavailable == [rows |-> 0, stamp |-> epoch, status |-> "unavailable"]

StatementsStored ==
  /\ statements' = [rows |-> epoch, stamp |-> epoch, status |-> "ok"]
  /\ good' = [good EXCEPT !.statements = epoch]
  /\ lastError' = Badge(None, {"statements"})
  /\ latest' = [latest EXCEPT !["statements"] = "ok"]

\* "preload": the extension is created but its library is not loaded.
StatementsError(outcome) ==
  /\ statements' = IF outcome = "preload" THEN Unavailable ELSE KeptAfterError(statements)
  /\ good' = IF outcome = "preload" THEN [good EXCEPT !.statements = 0] ELSE good
  /\ lastError' = "statements"
  /\ latest' = [latest EXCEPT !["statements"] = outcome]

CollectStatements ==
  /\ lane = "statements" /\ lane' = "io"
  /\ \/ available /\ StatementsStored
     \/ available /\ \E outcome \in Failures["statements"] : StatementsError(outcome)
     \/ /\ ~available /\ statements' = Unavailable
        /\ good' = [good EXCEPT !.statements = 0]
        /\ UNCHANGED <<lastError, latest>>
  /\ UNCHANGED <<session, turn, age, signal, epoch, schema, lenses>>

\* After the I/O statistics the tier's results are copied to the shared state,
\* all together.
Share ==
  /\ lane = "io" /\ lane' = "rest"
  /\ shown' = [schema |-> schema, statements |-> statements] /\ unshared' = FALSE
  /\ UNCHANGED <<session, turn, age, signal, epoch, schema, statements, lastError, latest, good>>

\* The sleep of at most half a second (dual), or publication and the interval
\* (single).
Rest ==
  /\ lane = "rest"
  /\ lane' = IF mode = "dual" THEN "top" ELSE "poll"
  /\ UNCHANGED <<session, turn, age, signal, epoch, data>>

\* refresh_rx.changed() ends the sleep, and marks the request as seen.
RefreshWakes ==
  /\ lane = "rest" /\ mode = "dual" /\ refresh
  /\ refresh' = FALSE /\ lane' = "top"
  /\ UNCHANGED <<session, turn, age, wanted, epoch, data>>

-----------------------------------------------------------------------------
Loop == \/ Poll \/ Top \/ Tier2 \/ Tier3 \/ Decide \/ CollectSchema
        \/ CollectStatements \/ Share \/ Rest \/ RefreshWakes
Outside == Elapse \/ ServerChanges \/ AskRefresh
Session == SessionStarts \/ SessionEnds \/ DatabaseSwitched

Next == Outside \/ Session \/ FastPoll \/ Loop

Spec == Init /\ [][Next]_vars

\* Queries return and sleeps end on both connections, time passes, a lost
\* connection is retried.
LiveSpec == /\ Spec /\ WF_vars(Loop) /\ WF_vars(FastPoll)
            /\ WF_vars(Elapse) /\ WF_vars(SessionStarts)

-----------------------------------------------------------------------------
(* Safety.                                                                 *)

\* An error on the status bar names a subsystem whose latest attempt failed
\* ("resolved subsystem errors immediately clear last_error"), although four
\* places write the one slot and each clears only names it knows.
NoStaleError == lastError # None => latest[lastError] # "ok"

\* Whatever errors, unavailability, partial failures and reconnects came in
\* between, the rows kept are exactly what the latest successful collection of
\* this database returned, bloat estimates included.
HoldsLastGood == /\ schema.rows = good.rows /\ schema.bloat = good.bloat
                 /\ statements.rows = good.statements

\* The age shown beside rows is the age of those rows, never that of a failed
\* attempt to replace them.
AgeIsHonest ==
  /\ \A s \in {schema, shown.schema} : s.rows # 0 => s.stamp = s.rows
  /\ \A s \in {statements, shown.statements} : s.rows # 0 => s.stamp = s.rows

\* The lenses show what is kept, both halves, unless the tier is still being
\* collected or its connection was dropped before the results were copied.
LensesShared == unshared \/ shown = [schema |-> schema, statements |-> statements]

\* What is kept for a lens is the last good answer and what the lens shows is
\* that answer, or an earlier one until the next copy, always under its own age
\* (store, store_error, store_unavailable, and the copy to the shared state).
LastGoodShown == HoldsLastGood /\ AgeIsHonest /\ LensesShared

-----------------------------------------------------------------------------
(* Liveness.                                                               *)

\* A forced refresh starts a collection with bloat, unless the session ends.
RefreshHonoured == wanted ~> (~wanted \/ lane = "off")

\* On a single connection it does, wherever in the loop the key is pressed and
\* whatever an earlier session left in the channel.
RefreshHonouredSingle ==
  (mode = "single" /\ refresh /\ wanted) ~> (~wanted \/ lane = "off")

\* In a session that lasts, the slow tier is collected again and again, even
\* though every iteration may be woken early and every attempt may fail.
SlowTierRecurs == []<>(lane = "off") \/ []<>(lane = "schema")

\* In a session that lasts, the replication view queried is in the end the one
\* of the server's role, although the role is read on one connection, kept in a
\* flag that starts each session as "primary", used on the other, and may
\* change at any moment.
RoleCaughtUp == []<>(lane = "off") \/ <>[](lane = "tier2" => turn.role = role)
=============================================================================
