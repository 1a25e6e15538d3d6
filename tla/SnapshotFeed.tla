---------------------------- MODULE SnapshotFeed ----------------------------
(***************************************************************************)
(* What the poller promises its frontends, whatever happens inside it.     *)
(*                                                                         *)
(* The poller publishes whole snapshots on a `watch` channel.  A snapshot  *)
(* is either the "connecting" placeholder, a fresh picture of exactly one  *)
(* database (the one the poller is configured for when it publishes), or   *)
(* an earlier snapshot re-published with an error status.  The contents of *)
(* a snapshot are abstracted to the targets their rows were read from.     *)
(***************************************************************************)
CONSTANTS Servers,    \* PostgreSQL servers (resolved service definitions)
          Databases,  \* database names
          Files,      \* history files of the state directory
          FileOf,     \* the file history_file_path derives for a target
          None        \* absence of a value

Target == [server : Servers, db : Databases]

ASSUME NoneIsNotData == None \notin Target /\ None \notin Servers

\* history_key replaces every character but letters, digits, `-' and `_' by `_',
\* so targets may share a file, and with it their history.
ASSUME FileOfType == FileOf \in [Target -> Files]
SameFile(points, t) == \A u \in points : FileOf[u] = FileOf[t]

VARIABLES target,     \* the connection coordinates the poller holds
          published   \* the snapshot held by the watch channel

\* One on-demand table definition: which target the user was looking at when
\* asking for it, and which target's catalog answered.
Detail == [asked : Target, from : Target]
\* The last administrative result: the server whose PID the user picked, and
\* the server the command ran on.
AdminResult == [asked : Servers, on : Servers]

Snapshot ==
  [status  : {"connecting", "ok", "error"},
   of      : Target \cup {None},        \* whose vitals, activity and locks
   history : SUBSET Target,             \* whose history points
   data    : SUBSET Target,             \* whose telemetry and schema
   detail  : Detail \cup {None},
   admin   : AdminResult \cup {None}]

Connecting == [status |-> "connecting", of |-> None, history |-> {}, data |-> {},
               detail |-> None, admin |-> None]

\* A snapshot whose every part was read from t, but for the history, which is
\* that of the targets t shares its file with.
OnlyAbout(s, t) ==
  /\ s.of = t
  /\ SameFile(s.history, t)
  /\ s.data \subseteq {t}
  /\ s.detail # None => s.detail.from = t
  /\ s.admin # None => s.admin.on = t.server

FeedInit == target \in Target /\ published = Connecting

\* A fresh poll of the current target.
Refresh ==
  /\ published' \in Snapshot
  /\ published'.status = "ok"
  /\ OnlyAbout(published', target)
  /\ target' = target

\* An outage: the last picture stays, marked as an error.
Degrade ==
  /\ published' = [published EXCEPT !.status = "error"]
  /\ target' = target

\* A switch of database or server changes what will be polled, never what
\* has been published.
Retarget == target' \in Target /\ published' = published

FeedNext == Refresh \/ Degrade \/ Retarget

FeedSpec == FeedInit /\ [][FeedNext]_<<target, published>>
=============================================================================
