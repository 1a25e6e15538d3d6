---------------------------- MODULE ReplicationView ----------------------------
(***************************************************************************)
(* What the terminal shows of replication: the panel of the Macro Lens     *)
(* (macro_lens.rs), capped in rows, and the Replication Lens               *)
(* (replication_lens.rs), over the severities both share (replication.rs,  *)
(* slot_severity_rank in app.rs).                                          *)
(*                                                                         *)
(* A snapshot is a number of senders and the slots in the order of the     *)
(* query; bytes and ages are steps between the thresholds of the code.     *)
(***************************************************************************)
EXTENDS Integers, Sequences, FiniteSets, FiniteSetsExt, SequencesExt, Absent

CONSTANTS Slots,         \* names of slots, numbers in the order of the alphabet
          SlotKinds,     \* what a slot may be: records of retained (None, or 0, 1
                         \* for some and 2 for over 10 GB), active, lost, xmin
                         \* (0, or 1 over 10 and 2 over 50 million)
          MaxSenders,    \* bound: connected replicas
          SendersShown, SlotsShown,   \* caps of the panel (SENDERS_SHOWN, SLOTS_SHOWN)
          Heights        \* rows below the charts of the Macro Lens

ASSUME ReplicationBounds ==
  /\ Slots \subseteq Nat /\ IsFiniteSet(Slots)
  /\ {MaxSenders, SendersShown, SlotsShown} \cup Heights \subseteq Nat
  /\ \A kind \in SlotKinds : kind.retained # None => kind.retained \in Nat

VARIABLES senders,   \* how many replicas are connected
          slots,     \* slots by name
          listed,    \* names in the order of the query
          height
replicationVars == <<senders, slots, listed, height>>

------------------------------------------------------------------------------
(* Severities, 0 the worst (slot_severity_rank).                           *)

Bytes(slot) == IF slot.retained = None THEN 0 ELSE slot.retained

Rank(slot) ==
  CASE slot.lost \/ slot.xmin = 2                -> 0
    [] ~slot.active /\ Bytes(slot) = 2           -> 0
    [] ~slot.active /\ Bytes(slot) = 1           -> 1
    [] slot.xmin = 1                             -> 1
    [] OTHER                                     -> 2

\* What the query orders by: the most retained first, the unknown last.
Retained(name) == IF slots[name].retained = None THEN -1 ELSE slots[name].retained
InQueryOrder(names) == \A i, j \in DOMAIN names : i < j => Retained(names[i]) >= Retained(names[j])

\* The elements of S, each after those ahead of it.
Sorted(S, ahead) == [p \in 1..Cardinality(S) |-> CHOOSE x \in S : Cardinality(ahead[x]) = p - 1]

------------------------------------------------------------------------------
(* The panel of the Macro Lens (replication_lines).                        *)

\* Mutant: slots stay in the order of the query.
RankedAsListed == listed

\* Worst first, and then by what they retain, as listed.
Ranked ==
  LET rank == [i \in DOMAIN listed |-> Rank(slots[listed[i]])]
      order == Sorted(DOMAIN listed,
                      [i \in DOMAIN listed |->
                         {j \in DOMAIN listed : rank[j] < rank[i] \/ (rank[j] = rank[i] /\ j < i)}])
  IN  [p \in DOMAIN order |-> listed[order[p]]]

Line(kind, of) == [kind |-> kind, of |-> of]
Capped(names, cap, kind, more) ==
  [i \in 1..Min({Len(names), cap}) |-> Line(kind, names[i])]
    \o IF Len(names) > cap THEN << Line(more, Len(names) - cap) >> ELSE <<>>

Lines ==
  LET rows == Capped([i \in 1..senders |-> i], SendersShown, "sender", "more sender")
                \o Capped(Ranked, SlotsShown, "slot", "more slot")
  IN  rows \o IF senders > SendersShown \/ Len(listed) > SlotsShown THEN << Line("hint", None) >> ELSE <<>>

\* The panel asks for its lines and a border, at most 15 rows, and gets what
\* there is; what does not fit is cut off below.
PanelRows == Min({Len(Lines) + 2, 15, height})
DrawnLines == SubSeq(Lines, 1, Min({Len(Lines), Max({PanelRows - 2, 0})}))

(* The table of the Replication Lens (resort_replication).                 *)

\* The worst first, then the most retained, then by name.
LensBefore(m, n) ==
  LET a == slots[m]  b == slots[n]
  IN  \/ Rank(a) < Rank(b)
      \/ Rank(a) = Rank(b) /\ (Bytes(a) > Bytes(b) \/ (Bytes(a) = Bytes(b) /\ m < n))
LensOrder == Sorted(DOMAIN slots, [n \in DOMAIN slots |-> {m \in DOMAIN slots : LensBefore(m, n)}])

------------------------------------------------------------------------------
ReplicationInit == senders = 0 /\ slots = <<>> /\ listed = <<>> /\ height \in Heights

NewSnapshot ==
  /\ senders' \in 0..MaxSenders
  /\ \E shown \in SUBSET Slots : slots' \in [shown -> SlotKinds]
  /\ listed' \in SetToSeqs(DOMAIN slots') /\ InQueryOrder(listed)'
  /\ UNCHANGED height

Resize == height' \in Heights /\ UNCHANGED <<senders, slots, listed>>

ReplicationNext == NewSnapshot \/ Resize
ReplicationSpec == ReplicationInit /\ [][ReplicationNext]_replicationVars

------------------------------------------------------------------------------
(* Properties.                                                             *)

InPanel == {Lines[i].of : i \in {k \in DOMAIN Lines : Lines[k].kind = "slot"}}

\* What the cap of the panel leaves out is the calm tail: no slot left out is
\* worse than one shown, or as bad and retains more (replication_lines).
CalmTailClipped ==
  \A shown \in InPanel, clipped \in DOMAIN slots \ InPanel :
    \/ Rank(slots[shown]) < Rank(slots[clipped])
    \/ Rank(slots[shown]) = Rank(slots[clipped]) /\ Retained(shown) >= Retained(clipped)

\* The two views judge alike: the panel shows the first rows of the table, up
\* to slots that are as bad and retain as much (slot_severity_rank).
ViewsAgree ==
  \A i \in 1..Min({Len(listed), SlotsShown}) :
    LET here == slots[Ranked[i]]  there == slots[LensOrder[i]]
    IN  Rank(here) = Rank(there) /\ Bytes(here) = Bytes(there)

\* Both views put the worst slots where they are seen (replication_lines,
\* resort_replication).
WorstFirst == CalmTailClipped /\ ViewsAgree

\* What a comment promises: rows are clipped with a line that says so, never
\* silently (replication_lines).
ClipsOpenly ==
  \/ \E i \in DOMAIN DrawnLines : DrawnLines[i].kind = "more slot"
  \/ \A name \in DOMAIN slots : \E i \in DOMAIN DrawnLines : DrawnLines[i] = Line("slot", name)
=============================================================================
