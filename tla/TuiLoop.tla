-------------------------------- MODULE TuiLoop --------------------------------
(***************************************************************************)
(* The main loop of the terminal frontend (`run' in main.rs): what the     *)
(* user decided, handed over to the poller.                                *)
(*                                                                         *)
(* A pass of the loop handles one event and then tries every slot once.    *)
(* The channels to the poller are bounded and the loop never waits for     *)
(* room: commands queue up, a database and a table structure wait in a     *)
(* slot where the next choice replaces them, a server is refused aloud.    *)
(* The receivers exist before the poller does, so that all of this also    *)
(* goes on behind the startup picker.                                      *)
(***************************************************************************)
EXTENDS Integers, Sequences, Absent

CONSTANTS AdminRoom,     \* capacity of the command channel
          SwitchRoom,    \* capacity of the switch channels and of the detail one
          Servers, Databases,
          MaxConfirmed,  \* bound on the commands
          MaxChoices     \* bound on the databases and structures asked for

ASSUME LoopBounds ==
  /\ AdminRoom \in Nat \ {0} /\ SwitchRoom \in Nat \ {0}
  /\ MaxConfirmed \in Nat /\ MaxChoices \in Nat
  /\ None \notin Servers \cup Databases

VARIABLES connected,   \* the poller has been spawned
          admins,      \* commands confirmed, each by its number
          dbs,         \* databases chosen
          servers,     \* servers chosen
          details,     \* structures asked for, each by its number
          refusals,    \* servers refused, which the user is told
          psql,        \* psql_target
          target,      \* where the poller was last told to connect
          looping

\* Each of admins, dbs, servers, details: what the poller took last (all it
\* took for commands), what is in the channel, what waits in the app, and
\* for the properties what was asked for, last or in number.
Idle == [taken |-> <<>>, queue |-> <<>>, pending |-> <<>>, asked |-> 0]
loopVars == <<connected, admins, dbs, servers, details, refusals, psql, target, looping>>

Connection(s, d) == [server |-> s, database |-> d]
DefaultDb == CHOOSE d \in Databases : TRUE   \* what a service resolves to

LoopInit ==
  /\ admins = Idle /\ details = Idle /\ dbs = Idle /\ servers = Idle
  /\ refusals = 0 /\ looping = TRUE
  /\ \/ connected = FALSE /\ psql = None /\ target = None
     \/ /\ connected = TRUE
        /\ \E s \in Servers : psql = Connection(s, DefaultDb) /\ target = psql

\* Mutant: commands without room are dropped.
DrainAllOnce(ch) ==
  LET n == IF Len(ch.pending) < AdminRoom - Len(ch.queue) THEN Len(ch.pending)
           ELSE AdminRoom - Len(ch.queue)
  IN  [ch EXCEPT !.queue = @ \o SubSeq(ch.pending, 1, n), !.pending = <<>>]

\* drain_admin: as many as there is room for, in their order.
DrainAll(ch) ==
  LET n == IF Len(ch.pending) < AdminRoom - Len(ch.queue) THEN Len(ch.pending)
           ELSE AdminRoom - Len(ch.queue)
  IN  [ch EXCEPT !.queue = @ \o SubSeq(ch.pending, 1, n),
                 !.pending = SubSeq(@, n + 1, Len(@))]

\* try_send of a slot; without room it is put back.
DrainSlot(ch) ==
  IF ch.pending # <<>> /\ Len(ch.queue) < SwitchRoom
  THEN [ch EXCEPT !.queue = @ \o ch.pending, !.pending = <<>>] ELSE ch

\* The end of every pass, on the slots as the event left them.
Drained(a, d, t) ==
  /\ admins' = DrainAll(a)
  /\ dbs' = DrainSlot(d)
  /\ details' = DrainSlot(t)
  /\ target' = IF Len(dbs'.queue) > Len(dbs.queue) /\ target # None
               THEN Connection(target.server, dbs'.queue[Len(dbs'.queue)]) ELSE target

\* An event that asks for nothing: a tick, a snapshot, a resize, other keys.
QuietPass ==
  /\ looping /\ Drained(admins, dbs, details)
  /\ UNCHANGED <<connected, servers, refusals, psql, looping>>

\* `y' in the confirmation.
ConfirmedPass ==
  /\ looping /\ connected /\ admins.asked < MaxConfirmed
  /\ LET n == admins.asked + 1
     IN  Drained([admins EXCEPT !.pending = Append(@, n), !.asked = n], dbs, details)
  /\ UNCHANGED <<connected, servers, refusals, psql, looping>>

\* Enter in the database picker: one choice waits, the last.
DatabasePass(d) ==
  /\ looping /\ connected
  /\ Drained(admins, [dbs EXCEPT !.pending = <<d>>, !.asked = d], details)
  /\ UNCHANGED <<connected, servers, refusals, psql, looping>>

\* Enter in the server picker: resolved and handed over at once, or not; the
\* user is told either way.
ServerPass(s, resolves) ==
  /\ looping /\ connected
  /\ IF resolves /\ Len(servers.queue) < SwitchRoom
     THEN /\ servers' = [servers EXCEPT !.queue = Append(@, s), !.asked = @ + 1]
          /\ psql' = Connection(s, DefaultDb) /\ UNCHANGED refusals
          /\ admins' = DrainAll(admins) /\ details' = DrainSlot(details)
          /\ dbs' = DrainSlot(dbs) /\ target' = Connection(s, DefaultDb)
     ELSE /\ servers' = [servers EXCEPT !.asked = @ + 1] /\ refusals' = refusals + 1
          /\ UNCHANGED psql /\ Drained(admins, dbs, details)
  /\ servers.asked < MaxChoices
  /\ UNCHANGED <<connected, looping>>

\* Enter or a move on an open table structure.
DetailPass ==
  /\ looping /\ connected /\ details.asked < MaxChoices
  /\ LET n == details.asked + 1
     IN  Drained(admins, dbs, [details EXCEPT !.pending = <<n>>, !.asked = n])
  /\ UNCHANGED <<connected, servers, refusals, psql, looping>>

\* Enter in the startup picker spawns the poller on the parked receivers.
PickedPass(s) ==
  /\ looping /\ ~connected /\ connected' = TRUE
  /\ psql' = Connection(s, DefaultDb) /\ target' = psql'
  /\ admins' = DrainAll(admins) /\ dbs' = DrainSlot(dbs) /\ details' = DrainSlot(details)
  /\ UNCHANGED <<servers, refusals, looping>>

LeaveLoop ==
  /\ looping /\ looping' = FALSE
  /\ UNCHANGED <<connected, admins, dbs, servers, details, refusals, psql, target>>

\* The poller receives, from any channel.
Took(ch, keepAll) ==
  [ch EXCEPT !.taken = IF keepAll THEN Append(@, Head(ch.queue)) ELSE <<Head(ch.queue)>>,
             !.queue = Tail(@)]
PollerTakes ==
  /\ connected /\ looping
  /\ \/ admins.queue # <<>> /\ admins' = Took(admins, TRUE) /\ UNCHANGED <<dbs, servers, details>>
     \/ dbs.queue # <<>> /\ dbs' = Took(dbs, FALSE) /\ UNCHANGED <<admins, servers, details>>
     \/ servers.queue # <<>> /\ servers' = Took(servers, FALSE) /\ UNCHANGED <<admins, dbs, details>>
     \/ details.queue # <<>> /\ details' = Took(details, FALSE) /\ UNCHANGED <<admins, dbs, servers>>
  /\ UNCHANGED <<connected, refusals, psql, target, looping>>

LoopNext ==
  \/ QuietPass \/ ConfirmedPass \/ DetailPass \/ LeaveLoop \/ PollerTakes
  \/ \E d \in Databases : DatabasePass(d)
  \/ \E s \in Servers : PickedPass(s) \/ \E resolves \in BOOLEAN : ServerPass(s, resolves)

LoopSpec == LoopInit /\ [][LoopNext]_loopVars

------------------------------------------------------------------------------
Way(ch) == ch.taken \o ch.queue \o ch.pending
LastOf(s) == IF s = <<>> THEN 0 ELSE s[Len(s)]

\* Every confirmed command is on its way or taken: none lost, none twice, none
\* out of order, however full the channel is.
CommandsInOrder ==
  Way(admins) = [i \in 1..admins.asked |-> i] /\ Len(admins.queue) <= AdminRoom

\* Of databases and structures the last one asked for is the last to come:
\* a choice that waits is only ever replaced by a later one.
LastChoiceWins == LastOf(Way(dbs)) = dbs.asked /\ LastOf(Way(details)) = details.asked

\* What the user decided reaches the poller (run).
HandedOver == CommandsInOrder /\ LastChoiceWins

------------------------------------------------------------------------------
\* "dials the EXACT same target the poller connects to" (main.rs:832): what
\* `!' would open is where the poller was last told to connect.
PsqlSameTarget == psql = target
=============================================================================
