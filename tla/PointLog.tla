------------------------------- MODULE PointLog -------------------------------
(***************************************************************************)
(* What a history file promises to whoever reads it: the points in it are  *)
(* in the order they were recorded, each once.  A point arrives at the end *)
(* or not at all, faults take points only from the end, and a rewrite      *)
(* drops a point only for Cap newer ones.                                  *)
(***************************************************************************)
EXTENDS Integers, Sequences

CONSTANT Cap   \* points kept by the ring and by a rewrite, DEFAULT_CAP

VARIABLE log   \* the points a reader finds

Ascending(s) == \A i, j \in DOMAIN s : i < j => s[i] < s[j]
Elements(s) == {s[i] : i \in DOMAIN s}

Arrive ==
  /\ log' \in Seq(Nat) /\ Len(log') = Len(log) + 1 /\ Ascending(log')
  /\ \A i \in DOMAIN log : log'[i] = log[i]

\* The last point shares its line with what was written after it.
Spoil == log # <<>> /\ log' = SubSeq(log, 1, Len(log) - 1)

\* A rewrite may also bring back what faults had taken; what it leaves out is
\* older than the Cap points it keeps.
Rewrite ==
  /\ log' \in Seq(Nat) /\ Len(log') <= Cap /\ Ascending(log')
  /\ \A p \in Elements(log) \ Elements(log') :
       Len(log') = Cap /\ \A q \in Elements(log') : p < q

LogSpec == log = <<>> /\ [][Arrive \/ Spoil \/ Rewrite]_log
=============================================================================
