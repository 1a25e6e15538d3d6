------------------------------ MODULE MCReadings ------------------------------
(***************************************************************************)
(* What is made of the answers of a server, from the queries to the        *)
(* verdicts on screen, each in behaviours of its own: `part' says whose,   *)
(* and the others stay as they are.                                        *)
(***************************************************************************)
EXTENDS Collections, Rates, LockTree, IndexAdvisor, SequenceGauge, AgeAlarms,
        MCReplicationView

\* Lists of index columns, one inside the other.
MCKeyLists == {<<1>>, <<1, 2>>, <<1, 2, 3>>}

VARIABLE part     \* whose behaviour this is

Others(p) ==
  /\ p = "queries" \/ UNCHANGED collectionVars
  /\ p = "rates" \/ UNCHANGED rateVars
  /\ p = "locks" \/ UNCHANGED locks
  /\ p = "indexes" \/ UNCHANGED indexes
  /\ p = "sequence" \/ UNCHANGED sequenceVars
  /\ p = "ages" \/ UNCHANGED xacts
  /\ p = "replication" \/ UNCHANGED replicationVars

ReadingsInit ==
  /\ part \in {"queries", "rates", "locks", "indexes", "sequence", "ages", "replication"}
  /\ CollectionInit /\ (part # "queries" => version = 13 /\ extension = 0)
  /\ RatesInit /\ (part # "rates" => family = "vitals")
  /\ TreeInit
  /\ AdvisorInit
  /\ SequenceInit /\ (part # "sequence" => minValue = Low /\ maxValue = High /\ increment = 1 /\ startValue = Low)
  /\ AgesInit
  /\ ReplicationInit /\ (part # "replication" => height = 15)

ReadingsNext ==
  /\ part' = part
  /\ Others(part)
  /\ \/ part = "queries" /\ CollectionNext
     \/ part = "rates" /\ RatesNext
     \/ part = "locks" /\ TreeNext
     \/ part = "indexes" /\ AdvisorNext
     \/ part = "sequence" /\ SequenceNext
     \/ part = "ages" /\ AgesNext
     \/ part = "replication" /\ ReplicationNext

readingsVars == <<part, collectionVars, rateVars, locks, indexes, sequenceVars, xacts, replicationVars>>
ReadingsSpec == ReadingsInit /\ [][ReadingsNext]_readingsVars
=============================================================================
