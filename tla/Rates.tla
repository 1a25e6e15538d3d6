-------------------------------- MODULE Rates --------------------------------
(***************************************************************************)
(* Rates the poller derives from cumulative statistics views.              *)
(*                                                                         *)
(* PostgreSQL's counters only grow, until somebody resets a view or the    *)
(* server restarts.  A collection reads them raw and derives rates against *)
(* the previous collection, which is all the poller remembers.  The module *)
(* has one family of counters in motion, and keeps next to it what really  *)
(* happened since the previous collection, to compare a rate with.         *)
(*                                                                         *)
(* A rate is kept as the pair of its delta and the seconds it is over; a   *)
(* ratio as the pair of its part and its whole.  Counters that the code    *)
(* treats alike are represented by one of them.                            *)
(***************************************************************************)
EXTENDS Integers, Absent

CONSTANTS MaxWork,    \* bound on a counter and on the work between collections
          MaxGap      \* bound on the seconds between collections

ASSUME RateBounds == MaxWork \in Nat /\ MaxGap \in Nat

Families == {"vitals", "checkpointer", "wal", "slru", "conflicts", "io"}

\* The raw row of a family: pg_stat_database, pg_stat_checkpointer and
\* pg_stat_bgwriter, pg_stat_wal, pg_stat_slru, pg_stat_database_conflicts
\* and pg_stat_io.
Names(f) ==
  CASE f = "vitals"       -> {"xact", "hit", "read"}
    [] f = "checkpointer" -> {"timed", "req", "buffers"}
    [] f = "wal"          -> {"records", "bytes", "full"}
    [] f = "slru"         -> {"hit", "read", "written"}
    [] f = "conflicts"    -> {"lock", "snapshot"}
    [] f = "io"           -> {"reads", "writes", "hits"}

VARIABLES family,     \* the family of counters, the same in a whole behaviour
          gap,        \* seconds since the previous collection
          counter,    \* what the view shows
          prev,       \* the previous collection, None before the first
          since,      \* work really done since the previous collection
          disturbed   \* whether the view was reset since then

rateVars == <<family, gap, counter, prev, since, disturbed>>

------------------------------------------------------------------------------
\* The derivations.  p is the previous collection, dt the seconds since.

Per(d, dt) == [by |-> d, over |-> dt]
Ratio(part, whole) == [part |-> part, whole |-> whole]
HitRatio(hit, read) == IF hit + read > 0 THEN Ratio(hit, hit + read) ELSE None

\* Mutant: a window is discarded when every counter went back.
AllWentBack(raw, p, S) == \A n \in S : raw[n] < p.raw[n]

WentBack(raw, p, S) == \E n \in S : raw[n] < p.raw[n]

\* A rate for every counter of S, where the window is usable.
RatesOver(raw, p, dt, S) ==
  [n \in S |-> IF dt > 0 THEN Per(raw[n] - p.raw[n], dt) ELSE None]
NoRates(S) == [n \in S |-> None]

\* Any counter going back discards the window of the whole view.
WalStats(raw, p, dt) ==
  IF p = None \/ (p # None /\ WentBack(raw, p, {"records", "bytes", "full"}))
  THEN [rates |-> NoRates({"records", "bytes"}), ratio |-> None]
  ELSE [rates |-> RatesOver(raw, p, dt, {"records", "bytes"}), ratio |-> None]

ConflictStats(raw, p, dt) ==
  IF p = None \/ (p # None /\ WentBack(raw, p, {"lock", "snapshot"}))
  THEN [rates |-> NoRates({"lock", "snapshot"}), ratio |-> None]
  ELSE [rates |-> RatesOver(raw, p, dt, {"lock", "snapshot"}), ratio |-> None]

\* One subsystem; its ratio is over the life of the view.
SlruStats(raw, p, dt) ==
  LET usable == p # None /\ dt > 0 /\ ~WentBack(raw, p, {"read", "written"})
  IN  [rates |-> IF usable THEN RatesOver(raw, p, dt, {"read", "written"})
                           ELSE NoRates({"read", "written"}),
       ratio |-> HitRatio(raw["hit"], raw["read"])]

\* One backend type and context; the ratio is the window's where it saw any
\* read, else the one over the life of the view.
IoStats(raw, p, dt) ==
  LET life == HitRatio(raw["hits"], raw["reads"])
      usable == p # None /\ dt > 0 /\ ~WentBack(raw, p, {"reads", "writes", "hits"})
      hits == raw["hits"] - p.raw["hits"]
      reads == raw["reads"] - p.raw["reads"]
  IN  IF usable
      THEN [rates |-> RatesOver(raw, p, dt, {"reads", "writes"}),
            ratio |-> IF hits + reads > 0 THEN HitRatio(hits, reads) ELSE life]
      ELSE [rates |-> NoRates({"reads", "writes"}), ratio |-> life]

\* Going back of a checkpoint count discards the window and the session's
\* baseline; the buffer counts belong to another view and are looked at one
\* by one.  The ratio is the share of requested checkpoints in the session.
Baseline(raw, p) ==
  IF p = None \/ (p # None /\ WentBack(raw, p, {"timed", "req"})) THEN raw ELSE p.base

CheckpointerStats(raw, p, dt) ==
  LET S == {"timed", "req", "buffers"}
      base == Baseline(raw, p)
      usable == p # None /\ dt > 0 /\ ~WentBack(raw, p, {"timed", "req"})
      timed == raw["timed"] - base["timed"]
      req == raw["req"] - base["req"]
  IN  [rates |-> [n \in S |-> IF usable /\ raw[n] >= p.raw[n]
                              THEN Per(raw[n] - p.raw[n], dt) ELSE None],
       ratio |-> IF timed >= 0 /\ req >= 0 /\ timed + req > 0
                 THEN Ratio(req, timed + req) ELSE None]

\* Transactions per second read 0 where they are unknown, and the cache hit
\* ratio stays where it was while nothing is read.
VitalsStats(raw, p, dt) ==
  LET life == HitRatio(raw["hit"], raw["read"])
      hit == raw["hit"] - p.raw["hit"]
      read == raw["read"] - p.raw["read"]
  IN  [rates |-> [n \in {"xact"} |->
                    IF p # None /\ dt > 0 /\ raw[n] >= p.raw[n]
                    THEN Per(raw[n] - p.raw[n], dt) ELSE Per(0, 1)],
       ratio |-> CASE p = None -> life
                   [] p # None /\ (hit < 0 \/ read < 0) -> life
                   [] p # None /\ hit >= 0 /\ read >= 0 /\ hit + read > 0 -> Ratio(hit, hit + read)
                   [] OTHER -> p.ratio]

Derived(raw, p, dt) ==
  CASE family = "vitals"       -> VitalsStats(raw, p, dt)
    [] family = "checkpointer" -> CheckpointerStats(raw, p, dt)
    [] family = "wal"          -> WalStats(raw, p, dt)
    [] family = "slru"         -> SlruStats(raw, p, dt)
    [] family = "conflicts"    -> ConflictStats(raw, p, dt)
    [] family = "io"           -> IoStats(raw, p, dt)

------------------------------------------------------------------------------
\* What a collection at this moment shows.
Shown == Derived(counter, prev, gap)

Zero == [n \in Names(family) |-> 0]

RatesInit ==
  /\ family \in Families
  /\ gap = 0
  /\ counter = [n \in Names(family) |-> 0]
  /\ prev = None
  /\ since = [n \in Names(family) |-> 0]
  /\ disturbed = FALSE

\* The server does something that is counted.
Work(n) ==
  /\ n \in Names(family) /\ since[n] < MaxWork /\ counter[n] < MaxWork
  /\ counter' = [counter EXCEPT ![n] = @ + 1]
  /\ since' = [since EXCEPT ![n] = @ + 1]
  /\ UNCHANGED <<family, gap, prev, disturbed>>

Elapse ==
  /\ gap < MaxGap /\ gap' = gap + 1
  /\ UNCHANGED <<family, counter, prev, since, disturbed>>

\* pg_stat_reset and its kin, or a restart; the checkpoint and the buffer
\* counters are reset apart.
ResetOf == IF family = "checkpointer" THEN {{"timed", "req"}, {"buffers"}}
                                      ELSE {Names(family)}

ResetView(S) ==
  /\ S \in ResetOf
  /\ counter' = [n \in Names(family) |-> IF n \in S THEN 0 ELSE counter[n]]
  /\ disturbed' = TRUE
  /\ UNCHANGED <<family, gap, prev, since>>

\* A successful collection closes the window and opens the next; one that
\* fails shows nothing and leaves the window open, which changes nothing here.
Collect ==
  /\ prev' = [raw |-> counter,
              ratio |-> IF family = "vitals" THEN Shown.ratio ELSE None,
              base |-> IF family = "checkpointer" THEN Baseline(counter, prev) ELSE None]
  /\ since' = Zero /\ disturbed' = FALSE /\ gap' = 0
  /\ UNCHANGED <<family, counter>>

\* A new session starts its windows again, except that of pg_stat_io.
NewSession ==
  /\ prev' = IF family = "io" THEN prev ELSE None
  /\ UNCHANGED <<family, gap, counter, since, disturbed>>

RatesNext ==
  \/ \E n \in {"xact", "hit", "read", "timed", "req", "buffers", "records", "bytes",
               "full", "written", "lock", "snapshot", "reads", "writes", "hits"} : Work(n)
  \/ Elapse
  \/ \E S \in ResetOf : ResetView(S)
  \/ Collect
  \/ NewSession

RatesSpec == RatesInit /\ [][RatesNext]_rateVars

------------------------------------------------------------------------------
\* What is read by the next collection is in step with what really happened:
\* either the view was not touched, and grew by exactly the work done, or it
\* was, and shows no more than the work done since.
InStep ==
  \A n \in Names(family) :
    /\ prev # None /\ ~disturbed => counter[n] = prev.raw[n] + since[n]
    /\ prev # None /\ disturbed => counter[n] <= prev.raw[n] + since[n]

\* A rate is never negative and never more than what happened over its
\* window, whatever was reset within, also when a counter has grown past its
\* old value since; over an undisturbed window it is exact.
RatesHonest ==
  \A n \in DOMAIN Shown.rates : Shown.rates[n] # None =>
    /\ Shown.rates[n].over > 0
    /\ 0 <= Shown.rates[n].by
    /\ Shown.rates[n].by <= since[n]
    /\ prev # None /\ ~disturbed /\ gap > 0 => Shown.rates[n] = Per(since[n], gap)

\* A ratio lies between 0 and 1 and is defined: no division by zero, and no
\* part larger than its whole, across resets of either half of the counters.
RatiosHonest ==
  Shown.ratio # None =>
    /\ 0 <= Shown.ratio.part
    /\ Shown.ratio.part <= Shown.ratio.whole
    /\ 0 < Shown.ratio.whole

\* Nothing the poller derives from counters (derive_* in poller.rs) tells of
\* more than what happened.
DerivedHonest == RatesHonest /\ RatiosHonest
=============================================================================
