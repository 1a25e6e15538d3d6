------------------------------ MODULE Collections ------------------------------
(***************************************************************************)
(* The collections of the poller, statement by statement (`collect_*',     *)
(* `poll_once_fast' in poller.rs, db.rs, queries.rs): which query each     *)
(* version of the server is sent, how the queries share read-only          *)
(* transactions, and what one that fails takes with it.                    *)
(*                                                                         *)
(* One connection is modelled, with one collection at a time.  The world   *)
(* changes between any two statements: a role loses or regains a view,     *)
(* the extension is created, altered or dropped, the connection is lost.   *)
(* Views that the code treats alike are represented by one of them.        *)
(***************************************************************************)
EXTENDS Integers, Sequences, FiniteSets, Absent

CONSTANTS Versions,     \* major versions a server may have
          Extensions,   \* minor versions of pg_stat_statements 1.x, 0 for none
          Kinds,        \* the collections looked at
          MaxCollections   \* bound: how many collections are begun

AllKinds == {"fast", "tier2", "tier3", "schema", "bloat", "statements", "io", "detail"}

ASSUME CollectionBounds == Versions \subseteq Nat /\ Extensions \subseteq Nat /\ Kinds \subseteq AllKinds

VARIABLES version, extension,   \* of the server
          session,   \* what was found out when the session began, None before
          conn,      \* "none", "idle", in an "open" or "aborted" transaction,
                     \* or "cut" off within one
          run,       \* the collection under way: its kind, its transactions (each
                     \* a sequence of views), and where it is; None between
          got,       \* views read in this collection
          failed,    \* views that failed of themselves: <<view, how>>
          badge,     \* the view the collection reports an error of, or None
          shown,     \* views with data on display
          begun      \* collections so far

serverVars == <<version, extension>>
runVars == <<run, got, failed, badge>>
collectionVars == <<serverVars, session, conn, runVars, shown, begun>>

------------------------------------------------------------------------------
(* What is sent (for_version, statements_availability).                    *)

\* pg_stat_wal came with 14 and pg_stat_io with 16.
SentTo(v, view) ==
  CASE view = "wal" -> v >= 14
    [] view = "io"  -> v >= 16
    [] OTHER        -> v >= 13

\* The variant of the statements query, by the extension's version.
SqlFor(ext) == IF ext >= 11 THEN 11 ELSE IF ext >= 9 THEN 9 ELSE 8
StatementsAvailable(ext) == ext >= 8

\* A variant runs on an extension that has its columns; 1.11 renamed some.
Runs(sql, ext) == ext >= sql /\ (ext >= 11 => sql = 11)

Fast == {"activity", "server_info", "locks_by_relation"}
Backbone == {"tables", "indexes"}
BloatViews == {"bloat_tables", "bloat_indexes"}
Relations == {"columns", "constraints"}
BestEffort == {"wal_senders", "slots", "wal", "databases", "publications", "subscriptions"}
\* Rows that cannot be decoded are left out of these, and fail the others.
Tolerant == {"wal_senders", "locks_by_relation"}
\* A failure of these is reported, but for a denied one.
Reported == {"slots", "publications", "subscriptions"}

Views == Fast \cup Backbone \cup BloatViews \cup Relations \cup BestEffort \cup {"size", "statements", "io"}
Underway == [kind : Kinds, plan : Seq(Seq(Views)), tx : Nat \ {0}, next : Nat \ {0}, error : BOOLEAN]

ASSUME NoRun == None \notin Underway /\ None \notin Views

\* The transactions of a collection.
Plan(kind) ==
  LET sent(view) == IF SentTo(session.version, view) THEN <<view>> ELSE <<>>
  IN  CASE kind = "fast"       -> << <<"activity", "server_info", "locks_by_relation">> >>
        [] kind = "tier2"      -> << <<"wal_senders">>, <<"slots">>, sent("wal") >>
        [] kind = "tier3"      -> << <<"databases">>, <<"publications">>, <<"subscriptions">> >>
        [] kind = "schema"     -> << <<"tables", "indexes">> >>
        [] kind = "bloat"      -> << <<"tables", "indexes", "bloat_tables", "bloat_indexes">> >>
        [] kind = "statements" -> << IF session.available THEN <<"statements">> ELSE <<>> >>
        [] kind = "io"         -> << sent("io") >>
        [] kind = "detail"     -> << <<"columns", "constraints", "size">> >>

\* Views whose failure ends their collection at once.
Essential == Fast \cup Backbone \cup Relations \cup {"statements", "io"}

------------------------------------------------------------------------------
CollectionInit ==
  /\ version \in Versions /\ extension \in Extensions
  /\ session = None /\ conn = "none"
  /\ run = None /\ got = {} /\ failed = {} /\ badge = None
  /\ shown = {} /\ begun = 0

\* The session's first transaction finds out the versions.  A server below 13
\* is refused; an extension that cannot be looked up counts as absent.
Connect ==
  /\ conn = "none" /\ run = None /\ version >= 13
  /\ conn' = "idle"
  /\ \E detected \in BOOLEAN :
       session' = [version |-> version, detected |-> detected, sql |-> SqlFor(extension),
                   available |-> detected /\ StatementsAvailable(extension)]
  /\ UNCHANGED <<serverVars, runVars, shown, begun>>

\* The world.
ConnectionLost ==
  /\ conn \notin {"none", "cut"} /\ conn' = IF conn = "idle" THEN "none" ELSE "cut"
  /\ UNCHANGED <<serverVars, session, runVars, shown, begun>>
ServerReplaced ==
  /\ conn = "none" /\ run = None /\ version' \in Versions
  /\ UNCHANGED <<extension, session, conn, runVars, shown, begun>>
ExtensionChanged ==
  /\ extension' \in Extensions
  /\ UNCHANGED <<version, session, conn, runVars, shown, begun>>

StartCollection(kind) ==
  /\ run = None /\ conn = "idle" /\ begun < MaxCollections /\ begun' = begun + 1
  /\ run' = [kind |-> kind, plan |-> Plan(kind), tx |-> 1, next |-> 1, error |-> FALSE]
  /\ got' = {} /\ failed' = {} /\ badge' = None /\ shown' = shown
  /\ UNCHANGED <<serverVars, session, conn>>

------------------------------------------------------------------------------
Running == run # None /\ run.tx <= Len(run.plan)
ThisTx == run.plan[run.tx]
InTx == conn \in {"open", "aborted", "cut"}
NextTx == [run EXCEPT !.tx = @ + 1, !.next = 1]
GivenUp == [run EXCEPT !.tx = Len(run.plan) + 1, !.error = TRUE]
OutOfTx == IF conn = "cut" THEN "none" ELSE "idle"

\* begin_read.  A transaction that cannot begin leaves its views unread and
\* says nothing; those that follow are tried all the same.
Begin ==
  /\ Running /\ conn = "idle" /\ ThisTx # <<>> /\ conn' = "open"
  /\ UNCHANGED <<serverVars, session, runVars, shown, begun>>
BeginFails ==
  /\ Running /\ conn = "none" /\ ThisTx # <<>>
  /\ run' = [NextTx EXCEPT !.error = TRUE]
  /\ failed' = failed \cup {<<ThisTx[i], "unbegun">> : i \in DOMAIN ThisTx}
  /\ UNCHANGED <<serverVars, session, conn, got, badge, shown, begun>>
NothingSent ==
  /\ Running /\ ThisTx = <<>> /\ run' = NextTx
  /\ UNCHANGED <<serverVars, session, conn, got, failed, badge, shown, begun>>

\* What a query can come to: the server's answer, which in an aborted
\* transaction is always the same error, or none when the connection is gone.
Outcomes(view) ==
  CASE conn = "open"    -> {"denied", "broken", "garbled"}
                           \cup IF view # "statements" THEN {"rows"}
                                ELSE {"unloaded"} \cup IF Runs(session.sql, extension) THEN {"rows"} ELSE {}
    [] conn = "aborted" -> {"skipped"}
    [] conn = "cut"     -> {"lost"}

Fails(view, outcome) == ~(outcome = "rows" \/ (outcome = "garbled" /\ view \in Tolerant))

\* Mutant: a denied view is reported like a broken one.
ReportAnything(view, outcome) ==
  IF badge = None /\ view \in Reported /\ outcome # "rows" THEN view ELSE badge

\* The first subsystem that fails is the one reported.
Report(view, outcome) ==
  IF badge = None /\ view \in Reported /\ outcome \notin {"rows", "denied"} THEN view ELSE badge

\* Mutant: a failed estimate fails the tables with it.
GivesUpOnAny(view, outcome) == Fails(view, outcome) /\ view \notin BestEffort

\* An essential view that fails ends the collection, and its transaction is
\* rolled back as it is dropped; after any other view the rest goes on.
GivesUp(view, outcome) == Fails(view, outcome) /\ view \in Essential

Query ==
  /\ Running /\ InTx /\ run.next <= Len(ThisTx)
  /\ LET view == ThisTx[run.next]
     IN  \E outcome \in Outcomes(view) :
           /\ got' = IF Fails(view, outcome) THEN got ELSE got \cup {view}
           /\ failed' = IF Fails(view, outcome) /\ outcome # "skipped"
                        THEN failed \cup {<<view, outcome>>} ELSE failed
           /\ badge' = Report(view, outcome)
           /\ IF GivesUp(view, outcome) THEN run' = GivenUp /\ conn' = OutOfTx
              ELSE /\ run' = [run EXCEPT !.next = @ + 1]
                   /\ conn' = IF outcome \in {"denied", "broken", "unloaded"} THEN "aborted" ELSE conn
  /\ UNCHANGED <<serverVars, session, shown, begun>>

\* Commit: rolls an aborted transaction back without complaint, and fails on a
\* cut one.  It is not tried after a failed estimate, and makes no difference
\* to senders, slots, publications and subscriptions.
CommitMatters ==
  /\ \A i \in DOMAIN ThisTx : ThisTx[i] \notin {"wal_senders"} \cup Reported
  /\ run.kind = "bloat" => BloatViews \subseteq got
EndTransaction ==
  /\ Running /\ InTx /\ run.next > Len(ThisTx)
  /\ conn' = OutOfTx
  /\ LET lost == IF conn = "cut" /\ CommitMatters THEN {ThisTx[i] : i \in DOMAIN ThisTx} ELSE {}
     IN  /\ run' = IF lost = {} THEN NextTx ELSE [NextTx EXCEPT !.error = TRUE]
         /\ got' = got \ lost /\ failed' = failed \cup {<<view, "lost">> : view \in lost}
  /\ UNCHANGED <<serverVars, session, badge, shown, begun>>

------------------------------------------------------------------------------
(* What a collection leaves on display.                                    *)

Tiers == {"tier2", "tier3"}
Panels(kind) == IF kind = "tier2" THEN {"wal_senders", "slots", "wal"}
                ELSE {"databases", "publications", "subscriptions"}
Detail == Relations \cup {"size"}
Slow == Backbone \cup BloatViews \cup {"statements", "io"}

\* store, store_error: what was once read stays through an error, and the
\* estimate, both parts of it, is stored apart from the tables.
Store(kind) ==
  IF run.error THEN shown
  ELSE shown \cup (IF BloatViews \subseteq got THEN got ELSE got \ BloatViews)

\* store_unavailable: unless the statements cannot be read at all.
Unavailable == ~session.available \/ <<"statements", "unloaded">> \in failed

\* The panels of a tier are replaced one by one; a detail is replaced as a
\* whole, by its error if need be; a failed fast poll ends the session.
Finish ==
  /\ run # None /\ ~Running
  /\ run' = None /\ got' = {} /\ failed' = {} /\ badge' = None
  /\ shown' = CASE run.kind \in Tiers   -> (shown \ Panels(run.kind)) \cup got
                [] run.kind = "detail"  -> (shown \ Detail) \cup (IF run.error THEN {} ELSE got)
                [] run.kind = "statements" /\ Unavailable -> shown \ {"statements"}
                [] OTHER                -> Store(run.kind)
  /\ conn' = IF run.kind = "fast" /\ run.error THEN "none" ELSE conn
  /\ UNCHANGED <<serverVars, session, begun>>

CollectionNext ==
  \/ Connect \/ ConnectionLost \/ ServerReplaced \/ ExtensionChanged
  \/ \E kind \in Kinds : StartCollection(kind)
  \/ Begin \/ BeginFails \/ NothingSent \/ Query \/ EndTransaction \/ Finish

CollectionSpec == CollectionInit /\ [][CollectionNext]_collectionVars

------------------------------------------------------------------------------
(* Properties.                                                             *)

Ended == run # None /\ run' = None
FailedOfItself(view) == \E how \in {"denied", "broken", "garbled", "lost", "unbegun", "unloaded"} :
                          <<view, how>> \in failed

\* A panel goes blank only because its own query failed, or is not for this
\* server: a failing view takes no other with it (collect_tier2, collect_tier3
\* and collect_table_detail's sizes), and a failed estimate does not keep the
\* tables from being shown (SchemaState::store).
FailsAlone == [][
  Ended =>
    /\ run.kind \in Tiers =>
         \A view \in Panels(run.kind) :
           view \in shown' \/ FailedOfItself(view) \/ ~SentTo(version, view)
    /\ run.kind \in {"schema", "bloat"} =>
         Backbone \subseteq shown' \/ \E view \in Backbone : FailedOfItself(view)
  ]_collectionVars

\* Slow data once read is lost by no error, only when the statements turn out
\* to be unavailable (store_error, store_unavailable).
KeptThroughErrors == [][
  \A view \in Slow : view \in shown /\ view \notin shown' =>
    view = "statements" /\ Unavailable /\ run.kind = "statements"
  ]_collectionVars

\* Nothing goes blank for another's error (collect_*, store_error).
ErrorsContained == FailsAlone /\ KeptThroughErrors

\* The error badge names a panel that failed for another reason than a missing
\* privilege, and one such failure is never passed over
\* (collect_replication_tier2, collect_logical_replication).
BadgeHonest ==
  LET faults == {view \in Reported : \E how \in {"broken", "garbled", "lost"} : <<view, how>> \in failed}
  IN  run # None => (IF faults = {} THEN badge = None ELSE badge \in faults)

\* A query is sent to no server without its view, whatever servers came before
\* (session, for_version).
VersionFits ==
  Running /\ InTx => \A i \in DOMAIN ThisTx : SentTo(version, ThisTx[i])

\* The queries fit the server, and their errors are told of
\* (statements_availability, Reported).
CollectionSound == BadgeHonest /\ VersionFits

\* What a comment promises of a lens shown as unavailable: the decision was
\* made for this collection (store_unavailable).
UnavailableIsCurrent == [][
  run = None /\ run' # None /\ run'.kind = "statements" /\ ~session.available =>
    ~StatementsAvailable(extension)
  ]_collectionVars
=============================================================================
