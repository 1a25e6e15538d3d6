----------------------------- MODULE SchemaGrowth -----------------------------
(***************************************************************************)
(* Growth of tables over the last hour (schema_growth.rs).                 *)
(*                                                                         *)
(* Every slow collection reads a page of the catalog, at most RowLimit     *)
(* tables and as many partition parents after them, and pushes the size of *)
(* each, in that order and up to a cap, on a ring kept by oid.  The growth *)
(* shown is the newest size against the oldest one within the lookback.    *)
(* The catalog changes in between: tables grow, are dropped and recreated  *)
(* under a new oid, and a switch to another database replaces it by one in *)
(* which the same oids mean other tables.                                  *)
(*                                                                         *)
(* `sizes' records what the catalog said when, for the properties.         *)
(***************************************************************************)
EXTENDS Integers, Sequences, FiniteSets, Absent

CONSTANTS Oids, Parents,     \* tables, and those that are partition parents
          TableSizes,        \* possible sizes
          RowLimit,          \* schema_table_limit
          CapFloor,          \* MAX_TRACKED_TABLES
          RingCap,           \* RING_CAP
          Lookback,          \* GROWTH_LOOKBACK_MS
          Deadband,          \* GROWTH_DEADBAND_BYTES
          MaxClock           \* bound on the time

ASSUME GrowthBounds ==
  /\ Parents \subseteq Oids /\ TableSizes \subseteq Nat
  /\ RowLimit \in Nat \ {0} /\ CapFloor \in Nat /\ RingCap \in Nat \ {0}
  /\ Lookback \in Nat /\ Deadband \in Nat /\ MaxClock \in Nat

ASSUME NoRows == \A S \in SUBSET Oids : None \notin [S -> [size : Nat, growth : Int \cup {None}]]

VARIABLES catalog,   \* live tables and their sizes
          unused,    \* oids not given to a table yet
          clock,
          rings,     \* per tracked oid, its samples, oldest first
          rows,      \* the rows of the last collection with their growth
          sizes      \* per table of this database, its size at each collection,
                     \* and whether it was tracked

growthVars == <<catalog, unused, clock, rings, rows, sizes>>

------------------------------------------------------------------------------
Push(ring, sample) ==
  Append(IF Len(ring) = RingCap THEN Tail(ring) ELSE ring, sample)

\* The cap follows the limit up, never below the floor.
TableCap == IF RowLimit > CapFloor THEN RowLimit ELSE CapFloor

\* The page: the largest tables, then the largest parents, each up to the limit.
Largest(S, n) ==
  {s \in {s \in UNION {[1..k -> S] : k \in 0..n} : \A i, j \in DOMAIN s : i # j => s[i] # s[j]} :
     /\ Len(s) = n \/ S = {s[i] : i \in DOMAIN s}
     /\ \A i, j \in DOMAIN s : i < j => catalog[s[i]] >= catalog[s[j]]
     /\ \A o \in S : (\A i \in DOMAIN s : s[i] # o) =>
          \A i \in DOMAIN s : catalog[s[i]] >= catalog[o]}
PagesOfTables == Largest(DOMAIN catalog \ Parents, RowLimit)
PagesOfParents == Largest(DOMAIN catalog \cap Parents, RowLimit)
Pages == {t \o p : t \in PagesOfTables, p \in PagesOfParents}

Tracked(page) == {page[i] : i \in {i \in DOMAIN page : i <= TableCap}}

\* update: one sample on each tracked ring, and no ring for anything else.
Updated(page) ==
  [o \in Tracked(page) |->
     Push(IF o \in DOMAIN rings THEN rings[o] ELSE <<>>,
          [at |-> clock, size |-> catalog[o]])]

\* growth: the newest sample against the first within the lookback.
GrowthOf(ring) ==
  LET recent == {i \in DOMAIN ring : ring[i].at >= clock - Lookback}
      first == IF recent = {} THEN ring[1]
               ELSE ring[CHOOSE i \in recent : \A j \in recent : i <= j]
      last == ring[Len(ring)]
      delta == last.size - first.size
  IN  IF Len(ring) < 2 \/ first.at = last.at THEN None
      ELSE IF delta < Deadband /\ -delta < Deadband THEN 0 ELSE delta

\* apply: a row without a ring shows no growth.
Rendered(page, r) ==
  [o \in {page[i] : i \in DOMAIN page} |->
     [size |-> catalog[o],
      growth |-> IF o \in DOMAIN r THEN GrowthOf(r[o]) ELSE None]]

------------------------------------------------------------------------------
GrowthInit ==
  /\ \E live \in SUBSET Oids : catalog \in [live -> TableSizes] /\ unused = Oids \ live
  /\ clock = 0
  /\ rings = [o \in {} |-> <<>>]
  /\ rows = None
  /\ sizes = [o \in {} |-> <<>>]

TableGrows(o, s) ==
  /\ o \in DOMAIN catalog /\ catalog' = [catalog EXCEPT ![o] = s]
  /\ UNCHANGED <<unused, clock, rings, rows, sizes>>

\* A table created, or created again: its oid is new.
TableCreated(o, s) ==
  /\ o \in unused /\ unused' = unused \ {o}
  /\ catalog' = [p \in DOMAIN catalog \cup {o} |-> IF p = o THEN s ELSE catalog[p]]
  /\ UNCHANGED <<clock, rings, rows, sizes>>

TableDropped(o) ==
  /\ o \in DOMAIN catalog
  /\ catalog' = [p \in DOMAIN catalog \ {o} |-> catalog[p]]
  /\ UNCHANGED <<unused, clock, rings, rows, sizes>>

GrowthTick ==
  /\ clock < MaxClock /\ clock' = clock + 1
  /\ UNCHANGED <<catalog, unused, rings, rows, sizes>>

\* SchemaState::store; collections are at least an instant apart.
CollectSizes ==
  /\ rows = None \/ \A o \in DOMAIN rings : rings[o][Len(rings[o])].at < clock
  /\ \E page \in Pages :
       /\ rings' = Updated(page)
       /\ rows' = Rendered(page, Updated(page))
       /\ sizes' = [o \in DOMAIN catalog |->
                      Append(IF o \in DOMAIN sizes THEN sizes[o] ELSE <<>>,
                             [at |-> clock, size |-> catalog[o],
                              tracked |-> o \in Tracked(page)])]
  /\ UNCHANGED <<catalog, unused, clock>>

\* Mutant: the rings survive the switch.
SwitchKeepsRings ==
  /\ \E live \in SUBSET Oids :
       catalog' \in [live -> TableSizes] /\ unused' = Oids \ live
  /\ rows' = None
  /\ sizes' = [o \in {} |-> <<>>]
  /\ UNCHANGED <<clock, rings>>

\* SchemaState::reset, on a switch: other tables, perhaps with the same oids.
DatabaseSwitched ==
  /\ \E live \in SUBSET Oids :
       catalog' \in [live -> TableSizes] /\ unused' = Oids \ live
  /\ rings' = [o \in {} |-> <<>>]
  /\ rows' = None
  /\ sizes' = [o \in {} |-> <<>>]
  /\ clock' = clock

GrowthNext ==
  \/ \E o \in Oids, s \in TableSizes : TableGrows(o, s) \/ TableCreated(o, s)
  \/ \E o \in Oids : TableDropped(o)
  \/ GrowthTick
  \/ CollectSizes
  \/ DatabaseSwitched

GrowthSpec == GrowthInit /\ [][GrowthNext]_growthVars

------------------------------------------------------------------------------
Rounded(d) == IF d < Deadband /\ -d < Deadband THEN 0 ELSE d

\* The growth shown for a table is the difference between its size and what
\* was read of the SAME table, no table of another database or of another
\* oid, at an earlier collection within the lookback; and where the table
\* was tracked all along and the ring is deep enough, at the earliest one.
GrowthHonest ==
  rows # None => \A o \in DOMAIN rows :
    LET read == sizes[o]
        last == Len(read)
        recent == {i \in 1..(last - 1) : read[i].at >= read[last].at - Lookback}
        steady == \A i \in recent \cup {last} : read[i].tracked
    IN  /\ rows[o].growth # None =>
             \E i \in recent : rows[o].growth = Rounded(read[last].size - read[i].size)
        /\ steady /\ recent # {} /\ Cardinality(recent) < RingCap =>
             \E i \in recent :
               /\ \A j \in recent : i <= j
               /\ rows[o].growth = Rounded(read[last].size - read[i].size)

\* The rings are bounded in number and depth, every table of the page's part
\* that fits the cap has one, and nothing that left the page keeps one.
RingsBounded ==
  /\ Cardinality(DOMAIN rings) <= TableCap
  /\ \A o \in DOMAIN rings : Len(rings[o]) \in 1..RingCap
  /\ rows # None => DOMAIN rings \subseteq DOMAIN rows

\* GrowthTracker shows the growth of the tables it names, in bounded memory.
GrowthSound == GrowthHonest /\ RingsBounded
=============================================================================
