------------------------------ MODULE WebServer ------------------------------
(***************************************************************************)
(* `pg_lens serve' (pg_lens_web/src/lib.rs and run_serve in main.rs): the  *)
(* event streams of its clients, the requests that reach the poller, and   *)
(* the end of the server.                                                  *)
(*                                                                         *)
(* The poller is behind a watched snapshot, which a stream reads at its    *)
(* own pace, and four bounded channels, which a handler never waits for.   *)
(* Axum serves until Ctrl+C, then runs on_shutdown, and then waits for     *)
(* every open connection; a stream is one, and it ends when the poller has *)
(* dropped its end of the watch.                                           *)
(***************************************************************************)
EXTENDS Integers, Sequences

CONSTANTS Clients,       \* browsers with an event stream
          Databases,     \* names a client may ask for
          Servers,       \* services the resolver finds
          Pids,          \* backends a client may ask to be signalled
          Room,          \* capacity of a channel into the poller
          Mock,          \* --mock
          MaxVersions,   \* bound on the snapshots published
          MaxRequests    \* bound on the requests accepted

ASSUME WebBounds ==
  /\ Room \in Nat \ {0} /\ Mock \in BOOLEAN
  /\ MaxVersions \in Nat \ {0} /\ MaxRequests \in Nat

Channels == {"admin", "database", "server", "detail"}

VARIABLES snapshot,   \* version of the watched snapshot, and the databases in it
          poller,     \* the poller runs, and holds its ends of all channels
          stream,     \* per client: "none", "open", or "over" ended by the server
          seen,       \* per client, the version its stream sent last; 0 is none
          stage,      \* "serving", "stopping" (on_shutdown), "draining", "ended"
          secured,    \* PG_LENS_AUTH_TOKEN is set
          readOnly,   \* --read-only
          queue,      \* per channel, what waits for the poller
          answers     \* requests accepted so far, for the bound

webVars == <<snapshot, poller, stream, seen, stage, secured, readOnly, queue, answers>>
serving == <<snapshot, poller, stream, seen, stage, secured, readOnly>>

------------------------------------------------------------------------------
WebInit ==
  /\ \E live \in SUBSET Databases : snapshot = [version |-> 1, databases |-> live]
  /\ poller = TRUE
  /\ stream = [c \in Clients |-> "none"] /\ seen = [c \in Clients |-> 0]
  /\ stage = "serving"
  /\ secured \in BOOLEAN /\ readOnly \in BOOLEAN
  /\ queue = [k \in Channels |-> <<>>]
  /\ answers = 0

\* The poller publishes; the databases of the server may have changed.
Publish ==
  /\ poller /\ snapshot.version < MaxVersions
  /\ \E live \in SUBSET Databases :
       snapshot' = [version |-> snapshot.version + 1, databases |-> live]
  /\ UNCHANGED <<poller, stream, seen, stage, secured, readOnly, queue, answers>>

\* The poller takes the next of a channel; the mock has dropped the channels of
\* the two switches.
Take(k) ==
  /\ poller /\ queue[k] # <<>>
  /\ queue' = [queue EXCEPT ![k] = Tail(@)]
  /\ UNCHANGED serving /\ UNCHANGED answers

\* Mutant: the poller is stopped after serve returned.
PollerStopsAfterwards ==
  /\ poller /\ ~Mock /\ stage = "ended"
  /\ poller' = FALSE
  /\ queue' = [k \in Channels |-> <<>>]
  /\ UNCHANGED <<snapshot, stream, seen, stage, secured, readOnly, answers>>

\* The end of the poller drops the watch's sender and all receivers.  The
\* real one watches for the shutdown; the mock ends when nobody watches, and
\* the router does for as long as the server is there.
PollerStops ==
  /\ poller /\ ~Mock /\ stage # "serving"
  /\ poller' = FALSE
  /\ queue' = [k \in Channels |-> <<>>]
  /\ UNCHANGED <<snapshot, stream, seen, stage, secured, readOnly, answers>>

------------------------------------------------------------------------------
\* Streams (stream).

Accepting == stage \in {"serving", "stopping"}

\* mark_changed: whatever is there counts as unseen.
Subscribe(c) ==
  /\ Accepting /\ stream[c] # "open"
  /\ stream' = [stream EXCEPT ![c] = "open"]
  /\ seen' = [seen EXCEPT ![c] = 0]
  /\ UNCHANGED <<snapshot, poller, stage, secured, readOnly, queue, answers>>

Unseen(c) == seen[c] # snapshot.version

\* Mutant: nothing is sent any more once the sender is gone.
DeliverWhilePolled(c) ==
  /\ stream[c] = "open" /\ poller /\ Unseen(c)
  /\ seen' = [seen EXCEPT ![c] = snapshot.version]
  /\ UNCHANGED <<snapshot, poller, stream, stage, secured, readOnly, queue, answers>>

\* changed() returns at an unseen version, and the newest is sent; also when
\* the sender is gone.
Deliver(c) ==
  /\ stream[c] = "open" /\ Unseen(c)
  /\ seen' = [seen EXCEPT ![c] = snapshot.version]
  /\ UNCHANGED <<snapshot, poller, stream, stage, secured, readOnly, queue, answers>>

\* Mutant: the stream ends with the poller.
EndStreamAtOnce(c) ==
  /\ stream[c] = "open" /\ ~poller
  /\ stream' = [stream EXCEPT ![c] = "over"]
  /\ UNCHANGED <<snapshot, poller, seen, stage, secured, readOnly, queue, answers>>

\* changed() fails: the sender is gone and nothing is unseen.
EndStream(c) ==
  /\ stream[c] = "open" /\ ~poller /\ ~Unseen(c)
  /\ stream' = [stream EXCEPT ![c] = "over"]
  /\ UNCHANGED <<snapshot, poller, seen, stage, secured, readOnly, queue, answers>>

\* The browser goes away.
Disconnect(c) ==
  /\ stream[c] = "open"
  /\ stream' = [stream EXCEPT ![c] = "none"]
  /\ UNCHANGED <<snapshot, poller, seen, stage, secured, readOnly, queue, answers>>

------------------------------------------------------------------------------
\* Requests.  An answer that changes nothing, 400, 401, 403 or 503, is no step.

\* require_auth, before every handler.
Authorized(token) == secured => token

\* try_send: never waits, and fails on a full or closed channel.
TrySend(k, what) ==
  /\ poller /\ Len(queue[k]) < Room
  /\ queue' = [queue EXCEPT ![k] = Append(@, what)]
  /\ answers < MaxRequests /\ answers' = answers + 1
  /\ UNCHANGED serving

Admin(pid, token) ==
  /\ Accepting /\ Authorized(token)
  /\ ~readOnly /\ secured
  /\ TrySend("admin", pid)

SwitchDatabase(d, token) ==
  /\ Accepting /\ Authorized(token)
  /\ d \in snapshot.databases
  /\ ~Mock
  /\ TrySend("database", d)

SwitchServer(s, token) ==
  /\ Accepting /\ Authorized(token)
  /\ ~Mock
  /\ TrySend("server", s)

RequestDetail(token) ==
  /\ Accepting /\ Authorized(token)
  /\ TrySend("detail", "table")

------------------------------------------------------------------------------
\* The end (serve, shutdown_poller).

CtrlC ==
  /\ stage = "serving" /\ stage' = "stopping"
  /\ UNCHANGED <<snapshot, poller, stream, seen, secured, readOnly, queue, answers>>

\* on_shutdown has told the poller and waited for its task: the mock's handle
\* is of a task that is over already, the real one's may take longer than
\* SHUTDOWN_GRACE.  Then no connection is accepted any more.
StopAccepting ==
  /\ stage = "stopping" /\ stage' = "draining"
  /\ UNCHANGED <<snapshot, poller, stream, seen, secured, readOnly, queue, answers>>

ServerEnds ==
  /\ stage = "draining" /\ \A c \in Clients : stream[c] # "open"
  /\ stage' = "ended"
  /\ UNCHANGED <<snapshot, poller, stream, seen, secured, readOnly, queue, answers>>

------------------------------------------------------------------------------
WebNext ==
  \/ Publish
  \/ PollerStops
  \/ \E k \in Channels : Take(k)
  \/ \E c \in Clients : Subscribe(c) \/ Deliver(c) \/ EndStream(c) \/ Disconnect(c)
  \/ \E token \in BOOLEAN :
       \/ \E pid \in Pids : Admin(pid, token)
       \/ \E d \in Databases : SwitchDatabase(d, token)
       \/ \E s \in Servers : SwitchServer(s, token)
       \/ RequestDetail(token)
  \/ CtrlC
  \/ StopAccepting
  \/ ServerEnds

\* The runtime runs every task that can go on, and the poller ends once told
\* to (the runs of Poller show it).  Nobody has to press Ctrl+C, to publish or
\* to close a browser.
WebFairness ==
  /\ WF_webVars(PollerStops) /\ WF_webVars(StopAccepting) /\ WF_webVars(ServerEnds)
  /\ \A c \in Clients : WF_webVars(Deliver(c)) /\ WF_webVars(EndStream(c))

WebSpec == WebInit /\ [][WebNext]_webVars /\ WebFairness

------------------------------------------------------------------------------
\* After Ctrl+C the server ends, whatever browsers are attached and none of
\* them closing: the order of stopping the poller inside the shutdown and of
\* waiting for connections outside does not deadlock ("Runs the server on an
\* already-bound listener until Ctrl+C", lib.rs:111).  The mock breaks it.
StopEnds == (stage = "stopping") ~> (stage = "ended")

\* A stream that stays open shows the newest snapshot sooner or later,
\* however many it skips.
NewestArrives ==
  \A c \in Clients :
    (stream[c] = "open") ~> (stream[c] # "open" \/ seen[c] = snapshot.version)

\* A stream the server ends has sent the last snapshot there was, also the
\* one published just before the poller ended.
LastWordSent ==
  \A c \in Clients : stream[c] = "over" => seen[c] = snapshot.version
=============================================================================
