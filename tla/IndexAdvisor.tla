----------------------------- MODULE IndexAdvisor -----------------------------
(***************************************************************************)
(* The verdicts on the indexes of one table (`classify' in                 *)
(* index_advisor.rs), while indexes are created, built, read and dropped.  *)
(*                                                                         *)
(* A key column carries its operator class and collation, 0 is an          *)
(* expression.  Verdicts never cross tables, so one table is enough.       *)
(***************************************************************************)
EXTENDS Integers, Sequences, FiniteSets, Absent

CONSTANTS IndexNames,      \* names of indexes; the catalog lists them in this order
          KeyLists,   \* the column lists indexes may have
          Predicates  \* of partial indexes, one of them "" for the others

ASSUME AdvisorBounds ==
  IndexNames \subseteq Nat /\ None \notin IndexNames /\ IsFiniteSet(IndexNames) /\ KeyLists \subseteq Seq(Nat)

VARIABLE indexes      \* the index rows of the table, by name

IndexKinds == {"plain", "unique", "exclusion"}

AdvisorInit == indexes = [i \in {} |-> None]

\* CREATE INDEX; a concurrent one is not valid while it builds and stays so
\* when the build is interrupted.
CreateIndex(i, keys, kind, pred, valid) ==
  /\ i \notin DOMAIN indexes
  /\ indexes' = [j \in DOMAIN indexes \cup {i} |->
                   IF j = i THEN [keys |-> keys, kind |-> kind, pred |-> pred,
                                  valid |-> valid, scanned |-> FALSE]
                   ELSE indexes[j]]
FinishBuild(i) == ~indexes[i].valid /\ indexes' = [indexes EXCEPT ![i].valid = TRUE]
ReadIndex(i) == indexes[i].valid /\ ~indexes[i].scanned /\ indexes' = [indexes EXCEPT ![i].scanned = TRUE]
DropIndex(i) == indexes' = [j \in DOMAIN indexes \ {i} |-> indexes[j]]

AdvisorNext ==
  \/ \E i \in IndexNames, keys \in KeyLists, kind \in IndexKinds, pred \in Predicates, valid \in BOOLEAN :
       CreateIndex(i, keys, kind, pred, valid)
  \/ \E i \in DOMAIN indexes : FinishBuild(i) \/ ReadIndex(i) \/ DropIndex(i)

AdvisorSpec == AdvisorInit /\ [][AdvisorNext]_indexes

------------------------------------------------------------------------------
ServesConstraint(x) == x.kind # "plain"
StrictPrefix(a, b) == Len(a) < Len(b) /\ a = SubSeq(b, 1, Len(a))

\* exact_signature: the columns with their classes and collations, the
\* predicate and the uniqueness.
SameSignature(x, y) ==
  x.keys = y.keys /\ x.pred = y.pred /\ ((x.kind = "unique") <=> (y.kind = "unique"))
Narrower(x, y) == x.pred = y.pred /\ StrictPrefix(x.keys, y.keys)

\* The first other index of the catalog that is as asked.
FirstOther(i, S) ==
  IF S \ {i} = {} THEN None ELSE CHOOSE j \in S \ {i} : \A k \in S \ {i} : j <= k
ExactPartner(i) == FirstOther(i, {j \in DOMAIN indexes : SameSignature(indexes[i], indexes[j])})
WiderPartner(i) == FirstOther(i, {j \in DOMAIN indexes : Narrower(indexes[i], indexes[j])})

Verdict(finding, partner) == [finding |-> finding, partner |-> partner]

\* Mutant: constraints are looked at for scans only.
ClassifyWithoutConstraints(i) ==
  CASE ~indexes[i].valid -> Verdict("Invalid", None)
    [] indexes[i].valid /\ ~indexes[i].scanned /\ ~ServesConstraint(indexes[i]) -> Verdict("Unused", None)
    [] OTHER -> IF ExactPartner(i) # None THEN Verdict("DuplicateExact", ExactPartner(i))
                ELSE IF WiderPartner(i) # None THEN Verdict("DuplicatePrefix", WiderPartner(i))
                ELSE Verdict("Nothing", None)

\* classify: of the claims that apply, the strongest.
Classify(i) ==
  LET x == indexes[i]
  IN  CASE ~x.valid -> Verdict("Invalid", None)
        [] x.valid /\ ~x.scanned /\ ~ServesConstraint(x) -> Verdict("Unused", None)
        [] OTHER -> IF ExactPartner(i) # None THEN Verdict("DuplicateExact", ExactPartner(i))
                    ELSE IF WiderPartner(i) # None /\ ~ServesConstraint(x)
                         THEN Verdict("DuplicatePrefix", WiderPartner(i))
                    ELSE Verdict("Nothing", None)

------------------------------------------------------------------------------
\* Following the advice on duplicates: an index called redundant to a wider one
\* goes, and of those called interchangeable at least one stays.
WithoutDuplicates(kept) ==
  \A i \in DOMAIN indexes :
    CASE Classify(i).finding = "DuplicateExact" -> \E k \in kept : SameSignature(indexes[i], indexes[k])
      [] Classify(i).finding = "DuplicatePrefix" -> TRUE
      [] OTHER -> i \in kept

StandsIn(x, y) == x.pred = y.pred /\ (x.keys = y.keys \/ StrictPrefix(x.keys, y.keys))

\* The advice on duplicates can be followed for every index at once, whichever
\* of the interchangeable ones stays: however the chains of narrower and wider
\* indexes and of equal ones run into each other, each index leaves behind
\* itself, an equal or a wider one with its predicate, never only a partner
\* that was dropped for another, and what is unique stays so.  An index that
\* enforces a constraint is called neither unused nor redundant to a wider one.
AdviceCoherent ==
  /\ \A i \in DOMAIN indexes :
       Classify(i).finding \in {"Unused", "DuplicatePrefix"} => ~ServesConstraint(indexes[i])
  /\ \A kept \in SUBSET DOMAIN indexes : WithoutDuplicates(kept) =>
       \A i \in DOMAIN indexes : \E k \in kept :
         /\ StandsIn(indexes[i], indexes[k])
         /\ indexes[i].kind = "unique" => indexes[k].kind = "unique"

\* "`partner` alone could serve every query this index serves"
\* (models.rs:629): the wider index is fit for use.
PartnerServes ==
  \A i \in DOMAIN indexes :
    Classify(i).finding = "DuplicatePrefix" => indexes[Classify(i).partner].valid

\* An index that is read is not called redundant to one that is called unused:
\* who follows both verdicts drops the last index these queries had.
AdviceOnAllSafe ==
  \A i \in DOMAIN indexes :
    Classify(i).finding \in {"DuplicateExact", "DuplicatePrefix"} =>
      Classify(Classify(i).partner).finding # "Unused"

\* "interchangeable, one is pure overhead" (models.rs:627): a row called
\* a duplicate has a partner that can replace it.
DuplicatesInterchangeable ==
  \A i \in DOMAIN indexes :
    Classify(i).finding = "DuplicateExact" =>
      /\ indexes[Classify(i).partner].valid /\ indexes[Classify(i).partner].kind = indexes[i].kind
      /\ \A n \in DOMAIN indexes[i].keys : indexes[i].keys[n] # 0
=============================================================================
