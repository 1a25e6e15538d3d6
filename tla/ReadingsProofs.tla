---------------------------- MODULE ReadingsProofs ----------------------------
(* Theorems about what is read of a server and what is made of it: module  *)
(* Collections, for any servers and any number of collections; Rates, for  *)
(* any work, gaps and resets; SequenceGauge, for machine integers of any   *)
(* width; AgeAlarms, for any sessions and times; IndexAdvisor, for any     *)
(* finite set of indexes; ReplicationView, for any slots and caps; and     *)
(* LockTree, for any finite set of sessions.                               *)
EXTENDS Collections, Rates, IndexAdvisor, SequenceGauge, AgeAlarms,
        ReplicationView, LockTree, DataLemmas

-----------------------------------------------------------------------------
(* Rates and derived vitals.                                               *)

\* A ratio that is one.
Sound(ratio) ==
  ratio # None => /\ ratio.part \in Nat /\ ratio.whole \in Nat \ {0}
                  /\ ratio.part <= ratio.whole

RatesTypeOK ==
  /\ family \in Families /\ gap \in Nat /\ disturbed \in BOOLEAN
  /\ counter \in [Names(family) -> Nat] /\ since \in [Names(family) -> Nat]
  /\ prev # None =>
       /\ prev.raw \in [Names(family) -> Nat]
       /\ family = "checkpointer" => prev.base \in [Names(family) -> Nat]

\* The cache hit ratio is carried over from collection to collection.
CarriedSound == prev # None => Sound(prev.ratio)

RatesInv == RatesTypeOK /\ InStep /\ CarriedSound

-----------------------------------------------------------------------------
(* The derivations.                                                        *)

LEMMA HitRatioSound ==
  ASSUME NEW hit \in Nat, NEW read \in Nat
  PROVE  Sound(HitRatio(hit, read))
BY DEF HitRatio, Ratio, Sound

\* A difference of two readings that has not gone back is no more than the
\* work done, and exactly that on an undisturbed view.
LEMMA DeltaHonest ==
  ASSUME RatesInv, prev # None, NEW n \in Names(family), counter[n] >= prev.raw[n]
  PROVE  /\ counter[n] - prev.raw[n] \in Nat
         /\ counter[n] - prev.raw[n] <= since[n]
         /\ ~disturbed => counter[n] - prev.raw[n] = since[n]
<1>1. counter[n] \in Nat /\ prev.raw[n] \in Nat /\ since[n] \in Nat
  BY DEF RatesInv, RatesTypeOK
<1>2. /\ ~disturbed => counter[n] = prev.raw[n] + since[n]
      /\ disturbed => counter[n] <= prev.raw[n] + since[n]
  BY DEF RatesInv, InStep
<1>3. QED
  BY <1>1, <1>2

\* What RatesHonest asks of one rate.
Honest(rate, n) ==
  rate # None =>
    /\ rate.over > 0 /\ 0 <= rate.by /\ rate.by <= since[n]
    /\ prev # None /\ ~disturbed /\ gap > 0 => rate = Per(since[n], gap)

LEMMA RateHonest ==
  ASSUME RatesInv, prev # None, NEW n \in Names(family), counter[n] >= prev.raw[n], gap > 0
  PROVE  Honest(Per(counter[n] - prev.raw[n], gap), n)
<1>1. gap \in Nat /\ disturbed \in BOOLEAN
  BY DEF RatesInv, RatesTypeOK
<1>2. QED
  BY <1>1, DeltaHonest DEF Honest, Per

\* A table of rates over counters that did not go back.
LEMMA TableHonest ==
  ASSUME RatesInv, prev # None, NEW S \in SUBSET Names(family),
         ~WentBack(counter, prev, S), NEW n \in S
  PROVE  Honest(RatesOver(counter, prev, gap, S)[n], n)
<1>1. n \in Names(family) /\ counter[n] \in Nat /\ prev.raw[n] \in Nat
  BY DEF RatesInv, RatesTypeOK
<1>2. counter[n] >= prev.raw[n]
  BY <1>1 DEF WentBack
<1>3. RatesOver(counter, prev, gap, S)[n] = IF gap > 0 THEN Per(counter[n] - prev.raw[n], gap) ELSE None
  BY DEF RatesOver
<1>4. CASE gap > 0
  BY <1>1, <1>2, <1>3, <1>4, RateHonest
<1>5. CASE ~(gap > 0)
  BY <1>3, <1>5 DEF Honest
<1>6. QED
  BY <1>4, <1>5

LEMMA NoneHonest ==
  ASSUME NEW S, NEW n \in S
  PROVE  Honest(NoRates(S)[n], n)
BY DEF NoRates, Honest

\* What a family's derivation must deliver.
Delivers(stats) ==
  /\ DOMAIN stats.rates \subseteq Names(family)
  /\ \A n \in DOMAIN stats.rates : Honest(stats.rates[n], n)
  /\ Sound(stats.ratio)

LEMMA WalHonest ==
  ASSUME RatesInv, family = "wal"
  PROVE  Delivers(WalStats(counter, prev, gap))
<1> DEFINE S == {"records", "bytes"}
<1>1. S \in SUBSET Names(family)
  BY DEF Names
<1>2. CASE prev = None \/ (prev # None /\ WentBack(counter, prev, {"records", "bytes", "full"}))
  <2>1. WalStats(counter, prev, gap) = [rates |-> NoRates(S), ratio |-> None]
    BY <1>2 DEF WalStats
  <2>2. DOMAIN NoRates(S) = S
    BY DEF NoRates
  <2>3. QED
    BY <1>1, <2>1, <2>2, NoneHonest DEF Delivers, Sound
<1>3. CASE ~(prev = None \/ (prev # None /\ WentBack(counter, prev, {"records", "bytes", "full"})))
  <2>1. WalStats(counter, prev, gap) = [rates |-> RatesOver(counter, prev, gap, S), ratio |-> None]
    BY <1>3 DEF WalStats
  <2>2. DOMAIN RatesOver(counter, prev, gap, S) = S
    BY DEF RatesOver
  <2>3. ~WentBack(counter, prev, S)
    BY <1>3 DEF WentBack
  <2>4. QED
    BY <1>1, <1>3, <2>1, <2>2, <2>3, TableHonest DEF Delivers, Sound
<1>4. QED
  BY <1>2, <1>3

LEMMA ConflictsHonest ==
  ASSUME RatesInv, family = "conflicts"
  PROVE  Delivers(ConflictStats(counter, prev, gap))
<1> DEFINE S == {"lock", "snapshot"}
<1>1. S \in SUBSET Names(family)
  BY DEF Names
<1>2. CASE prev = None \/ (prev # None /\ WentBack(counter, prev, S))
  <2>1. ConflictStats(counter, prev, gap) = [rates |-> NoRates(S), ratio |-> None]
    BY <1>2 DEF ConflictStats
  <2>2. DOMAIN NoRates(S) = S
    BY DEF NoRates
  <2>3. QED
    BY <1>1, <2>1, <2>2, NoneHonest DEF Delivers, Sound
<1>3. CASE ~(prev = None \/ (prev # None /\ WentBack(counter, prev, S)))
  <2>1. ConflictStats(counter, prev, gap) = [rates |-> RatesOver(counter, prev, gap, S), ratio |-> None]
    BY <1>3 DEF ConflictStats
  <2>2. DOMAIN RatesOver(counter, prev, gap, S) = S
    BY DEF RatesOver
  <2>3. QED
    BY <1>1, <1>3, <2>1, <2>2, TableHonest DEF Delivers, Sound
<1>4. QED
  BY <1>2, <1>3

LEMMA SlruHonest ==
  ASSUME RatesInv, family = "slru"
  PROVE  Delivers(SlruStats(counter, prev, gap))
<1> DEFINE S == {"read", "written"}
           usable == prev # None /\ gap > 0 /\ ~WentBack(counter, prev, S)
           rates == IF usable THEN RatesOver(counter, prev, gap, S) ELSE NoRates(S)
<1>1. Names(family) = {"hit", "read", "written"}
  BY DEF Names
<1>2. counter["hit"] \in Nat /\ counter["read"] \in Nat
  BY <1>1 DEF RatesInv, RatesTypeOK
<1>3. SlruStats(counter, prev, gap) =
        [rates |-> rates, ratio |-> HitRatio(counter["hit"], counter["read"])]
  BY DEF SlruStats
<1>4. DOMAIN rates = S
  BY DEF RatesOver, NoRates
<1>5. ASSUME NEW n \in S PROVE Honest(rates[n], n)
  <2>1. CASE usable
    BY <1>1, <2>1, TableHonest
  <2>2. CASE ~usable
    BY <2>2, NoneHonest
  <2>3. QED
    BY <2>1, <2>2
<1> HIDE DEF rates
<1>6. QED
  BY <1>1, <1>2, <1>3, <1>4, <1>5, HitRatioSound DEF Delivers

LEMMA IoHonest ==
  ASSUME RatesInv, family = "io"
  PROVE  Delivers(IoStats(counter, prev, gap))
<1> DEFINE S == {"reads", "writes"}
           usable == prev # None /\ gap > 0 /\ ~WentBack(counter, prev, {"reads", "writes", "hits"})
           life == HitRatio(counter["hits"], counter["reads"])
           hits == counter["hits"] - prev.raw["hits"]
           reads == counter["reads"] - prev.raw["reads"]
<1>1. Names(family) = {"reads", "writes", "hits"}
  BY DEF Names
<1>2. counter["hits"] \in Nat /\ counter["reads"] \in Nat
  BY <1>1 DEF RatesInv, RatesTypeOK
<1>3. Sound(life)
  BY <1>2, HitRatioSound
<1>4. CASE usable
  <2>1. IoStats(counter, prev, gap) =
          [rates |-> RatesOver(counter, prev, gap, S),
           ratio |-> IF hits + reads > 0 THEN HitRatio(hits, reads) ELSE life]
    BY <1>4 DEF IoStats
  <2>2. ~WentBack(counter, prev, S)
    BY <1>4 DEF WentBack
  <2>3. \A n \in S : Honest(RatesOver(counter, prev, gap, S)[n], n)
    BY <1>1, <1>4, <2>2, TableHonest
  <2>4. prev.raw["hits"] \in Nat /\ prev.raw["reads"] \in Nat
    BY <1>1, <1>4 DEF RatesInv, RatesTypeOK
  <2>5. counter["hits"] >= prev.raw["hits"] /\ counter["reads"] >= prev.raw["reads"]
    BY <1>2, <1>4, <2>4 DEF WentBack
  <2>6. hits \in Nat /\ reads \in Nat
    BY <1>2, <2>4, <2>5
  <2>7. Sound(HitRatio(hits, reads))
    BY <2>6, HitRatioSound
  <2>8. DOMAIN RatesOver(counter, prev, gap, S) = S
    BY DEF RatesOver
  <2>9. QED
    BY <1>1, <1>3, <2>1, <2>3, <2>7, <2>8 DEF Delivers
<1>5. CASE ~usable
  <2>1. IoStats(counter, prev, gap) = [rates |-> NoRates(S), ratio |-> life]
    BY <1>5 DEF IoStats
  <2>2. DOMAIN NoRates(S) = S
    BY DEF NoRates
  <2>3. QED
    BY <1>1, <1>3, <2>1, <2>2, NoneHonest DEF Delivers
<1>6. QED
  BY <1>4, <1>5

LEMMA BaselineType ==
  ASSUME RatesInv, family = "checkpointer"
  PROVE  Baseline(counter, prev) \in [Names(family) -> Nat]
BY DEF RatesInv, RatesTypeOK, Baseline

\* The ratio is guarded where it is computed, whatever the baseline holds.
LEMMA CheckpointsHonest ==
  ASSUME RatesInv, family = "checkpointer"
  PROVE  Delivers(CheckpointerStats(counter, prev, gap))
<1> DEFINE base == Baseline(counter, prev)
           S == {"timed", "req", "buffers"}
           usable == prev # None /\ gap > 0 /\ ~WentBack(counter, prev, {"timed", "req"})
           rates == [n \in S |-> IF usable /\ counter[n] >= prev.raw[n]
                                 THEN Per(counter[n] - prev.raw[n], gap) ELSE None]
           timed == counter["timed"] - base["timed"]
           req == counter["req"] - base["req"]
           ratio == IF timed >= 0 /\ req >= 0 /\ timed + req > 0
                    THEN Ratio(req, timed + req) ELSE None
<1>1. Names(family) = S
  BY DEF Names
<1>2. CheckpointerStats(counter, prev, gap) = [rates |-> rates, ratio |-> ratio]
  BY DEF CheckpointerStats
<1>3. ASSUME NEW n \in S PROVE Honest(rates[n], n)
  <2>1. CASE usable /\ counter[n] >= prev.raw[n]
    BY <1>1, <2>1, RateHonest
  <2>2. CASE ~(usable /\ counter[n] >= prev.raw[n])
    BY <2>2 DEF Honest
  <2>3. QED
    BY <2>1, <2>2
<1>4. timed \in Int /\ req \in Int
  BY <1>1, BaselineType DEF RatesInv, RatesTypeOK
<1>5. Sound(ratio)
  BY <1>4 DEF Ratio, Sound
<1>6. DOMAIN rates = S
  OBVIOUS
<1> HIDE DEF rates, ratio
<1>7. QED
  BY <1>1, <1>2, <1>3, <1>5, <1>6 DEF Delivers

LEMMA VitalsHonest ==
  ASSUME RatesInv, family = "vitals"
  PROVE  Delivers(VitalsStats(counter, prev, gap))
<1> DEFINE life == HitRatio(counter["hit"], counter["read"])
           hit == counter["hit"] - prev.raw["hit"]
           read == counter["read"] - prev.raw["read"]
           rates == [n \in {"xact"} |->
                       IF prev # None /\ gap > 0 /\ counter[n] >= prev.raw[n]
                       THEN Per(counter[n] - prev.raw[n], gap) ELSE Per(0, 1)]
           ratio == VitalsStats(counter, prev, gap).ratio
<1>1. Names(family) = {"xact", "hit", "read"}
  BY DEF Names
<1>2. counter["hit"] \in Nat /\ counter["read"] \in Nat /\ gap \in Nat
  BY <1>1 DEF RatesInv, RatesTypeOK
<1>3. Sound(life)
  BY <1>2, HitRatioSound
<1>4. VitalsStats(counter, prev, gap).rates = rates
  BY DEF VitalsStats
<1>5. Honest(rates["xact"], "xact")
  <2>1. CASE prev # None /\ gap > 0 /\ counter["xact"] >= prev.raw["xact"]
    BY <1>1, <2>1, RateHonest
  <2>2. CASE ~(prev # None /\ gap > 0 /\ counter["xact"] >= prev.raw["xact"])
    <3>1. rates["xact"] = Per(0, 1)
      BY <2>2
    <3>2. since["xact"] \in Nat /\ counter["xact"] \in Nat /\ disturbed \in BOOLEAN
      BY <1>1 DEF RatesInv, RatesTypeOK
    <3>3. ~(prev # None /\ ~disturbed /\ gap > 0)
      BY <1>1, <2>2, <3>2 DEF RatesInv, RatesTypeOK, InStep
    <3>4. QED
      BY <3>1, <3>2, <3>3 DEF Honest, Per
  <2>3. QED
    BY <2>1, <2>2
<1>6. Sound(ratio)
  <2>1. CASE prev = None
    BY <1>3, <2>1 DEF VitalsStats
  <2>2. CASE prev # None
    <3>1. prev.raw["hit"] \in Nat /\ prev.raw["read"] \in Nat
      BY <1>1, <2>2 DEF RatesInv, RatesTypeOK
    <3>2. hit \in Int /\ read \in Int
      BY <1>2, <3>1
    <3>3. CASE hit < 0 \/ read < 0
      BY <1>3, <2>2, <3>2, <3>3 DEF VitalsStats
    <3>4. CASE hit >= 0 /\ read >= 0 /\ hit + read > 0
      <4>1. ratio = Ratio(hit, hit + read)
        BY <2>2, <3>2, <3>4 DEF VitalsStats
      <4>2. QED
        BY <3>2, <3>4, <4>1 DEF Ratio, Sound
    <3>5. CASE hit >= 0 /\ read >= 0 /\ ~(hit + read > 0)
      <4>1. ratio = prev.ratio
        BY <2>2, <3>2, <3>5 DEF VitalsStats
      <4>2. QED
        BY <2>2, <4>1 DEF RatesInv, CarriedSound
    <3>6. QED
      BY <3>2, <3>3, <3>4, <3>5
  <2>3. QED
    BY <2>1, <2>2
<1>7. DOMAIN rates = {"xact"}
  OBVIOUS
<1> HIDE DEF rates, ratio
<1>8. QED
  BY <1>1, <1>4, <1>5, <1>6, <1>7 DEF Delivers, ratio

LEMMA DerivedDelivers ==
  ASSUME RatesInv
  PROVE  Delivers(Shown)
<1>1. family \in Families
  BY DEF RatesInv, RatesTypeOK
<1>2. CASE family = "vitals"
  BY <1>2, VitalsHonest DEF Shown, Derived
<1>3. CASE family = "checkpointer"
  BY <1>3, CheckpointsHonest DEF Shown, Derived
<1>4. CASE family = "wal"
  BY <1>4, WalHonest DEF Shown, Derived
<1>5. CASE family = "slru"
  BY <1>5, SlruHonest DEF Shown, Derived
<1>6. CASE family = "conflicts"
  BY <1>6, ConflictsHonest DEF Shown, Derived
<1>7. CASE family = "io"
  BY <1>7, IoHonest DEF Shown, Derived
<1>8. QED
  BY <1>1, <1>2, <1>3, <1>4, <1>5, <1>6, <1>7 DEF Families

LEMMA InStepSuffices ==
  ASSUME RatesInv
  PROVE  DerivedHonest
<1>1. Delivers(Shown)
  BY DerivedDelivers
<1>2. RatesHonest
  BY <1>1 DEF Delivers, RatesHonest, Honest
<1>3. RatiosHonest
  BY <1>1 DEF Delivers, RatiosHonest, Sound
<1>4. QED
  BY <1>2, <1>3 DEF DerivedHonest

-----------------------------------------------------------------------------
(* The steps.                                                              *)

\* What the server and the clock do between two collections.
LEMMA WorkKeeps ==
  ASSUME RatesInv, NEW n, Work(n)
  PROVE  RatesInv'
<1>1. n \in Names(family) /\ counter[n] \in Nat /\ since[n] \in Nat
  BY DEF Work, RatesInv, RatesTypeOK
<1>2. UNCHANGED <<family, gap, prev, disturbed>>
  BY DEF Work
<1>3. /\ counter' = [counter EXCEPT ![n] = @ + 1]
      /\ since' = [since EXCEPT ![n] = @ + 1]
  BY DEF Work
<1>4. Names(family)' = Names(family)
  BY <1>2 DEF Names
<1>5. RatesTypeOK'
  BY <1>1, <1>2, <1>3, <1>4 DEF RatesInv, RatesTypeOK
<1>6. InStep'
  <2>1. ASSUME NEW k \in Names(family), prev # None
        PROVE  /\ ~disturbed => counter'[k] = prev.raw[k] + since'[k]
               /\ disturbed => counter'[k] <= prev.raw[k] + since'[k]
    <3>1. counter[k] \in Nat /\ since[k] \in Nat /\ prev.raw[k] \in Nat
      BY <2>1 DEF RatesInv, RatesTypeOK
    <3>2. /\ ~disturbed => counter[k] = prev.raw[k] + since[k]
          /\ disturbed => counter[k] <= prev.raw[k] + since[k]
      BY <2>1 DEF RatesInv, InStep
    <3>3. \/ counter'[k] = counter[k] /\ since'[k] = since[k]
          \/ counter'[k] = counter[k] + 1 /\ since'[k] = since[k] + 1
      BY <1>3 DEF RatesInv, RatesTypeOK
    <3>4. QED
      BY <3>1, <3>2, <3>3
  <2>2. QED
    BY <1>2, <1>4, <2>1 DEF InStep
<1>7. CarriedSound'
  BY <1>2 DEF RatesInv, CarriedSound, Sound
<1>8. QED
  BY <1>5, <1>6, <1>7 DEF RatesInv

LEMMA ElapseKeeps ==
  ASSUME RatesInv, Elapse
  PROVE  RatesInv'
<1>1. UNCHANGED <<family, counter, prev, since, disturbed>> /\ gap' \in Nat
  BY DEF Elapse, RatesInv, RatesTypeOK
<1>2. Names(family)' = Names(family)
  BY <1>1 DEF Names
<1>3. QED
  BY <1>1, <1>2 DEF RatesInv, RatesTypeOK, InStep, CarriedSound, Sound

\* A reset leaves each counter at zero or where it was: not above the work.
LEMMA ResetKeeps ==
  ASSUME RatesInv, NEW S, ResetView(S)
  PROVE  RatesInv'
<1>1. UNCHANGED <<family, gap, prev, since>> /\ disturbed' = TRUE
  BY DEF ResetView
<1>2. counter' = [n \in Names(family) |-> IF n \in S THEN 0 ELSE counter[n]]
  BY DEF ResetView
<1>3. Names(family)' = Names(family)
  BY <1>1 DEF Names
<1>4. RatesTypeOK'
  BY <1>1, <1>2, <1>3 DEF RatesInv, RatesTypeOK
<1>5. InStep'
  <2>1. ASSUME NEW k \in Names(family), prev # None
        PROVE  counter'[k] <= prev.raw[k] + since[k]
    <3>1. counter[k] \in Nat /\ since[k] \in Nat /\ prev.raw[k] \in Nat /\ disturbed \in BOOLEAN
      BY <2>1 DEF RatesInv, RatesTypeOK
    <3>2. counter[k] <= prev.raw[k] + since[k]
      BY <2>1, <3>1 DEF RatesInv, InStep
    <3>3. counter'[k] = 0 \/ counter'[k] = counter[k]
      BY <1>2
    <3>4. QED
      BY <3>1, <3>2, <3>3
  <2>2. QED
    BY <1>1, <1>3, <2>1 DEF InStep
<1>6. CarriedSound'
  BY <1>1 DEF RatesInv, CarriedSound, Sound
<1>7. QED
  BY <1>4, <1>5, <1>6 DEF RatesInv

\* A collection begins the next window at what it read.
LEMMA CollectKeeps ==
  ASSUME RatesInv, Collect
  PROVE  RatesInv'
<1> DEFINE ratio == IF family = "vitals" THEN Shown.ratio ELSE None
           base == IF family = "checkpointer" THEN Baseline(counter, prev) ELSE None
<1>1. prev' = [raw |-> counter, ratio |-> ratio, base |-> base]
  BY DEF Collect
<1>2. /\ since' = [n \in Names(family) |-> 0] /\ disturbed' = FALSE /\ gap' = 0
      /\ UNCHANGED <<family, counter>>
  BY DEF Collect, Zero
<1>3. Names(family)' = Names(family)
  BY <1>2 DEF Names
<1>4. prev'.raw = counter /\ prev'.ratio = ratio /\ prev'.base = base
  BY <1>1
<1>5. family = "checkpointer" => base \in [Names(family) -> Nat]
  BY BaselineType
<1>6. RatesTypeOK'
  BY <1>2, <1>3, <1>4, <1>5 DEF RatesInv, RatesTypeOK
<1>7. InStep'
  <2>1. \A n \in Names(family) : counter[n] \in Nat
    BY DEF RatesInv, RatesTypeOK
  <2>2. QED
    BY <1>2, <1>3, <1>4, <2>1 DEF InStep
<1>8. Sound(ratio)
  BY DerivedDelivers DEF Delivers, Sound
<1>9. CarriedSound'
  BY <1>4, <1>8 DEF CarriedSound, Sound
<1>10. QED
  BY <1>6, <1>7, <1>9 DEF RatesInv

LEMMA SessionKeeps ==
  ASSUME RatesInv, NewSession
  PROVE  RatesInv'
<1>1. UNCHANGED <<family, gap, counter, since, disturbed>> /\ (prev' = prev \/ prev' = None)
  BY DEF NewSession
<1>2. Names(family)' = Names(family)
  BY <1>1 DEF Names
<1>3. QED
  BY <1>1, <1>2 DEF RatesInv, RatesTypeOK, InStep, CarriedSound, Sound

LEMMA RatesInitInv == RatesInit => RatesInv
<1> SUFFICES ASSUME RatesInit PROVE RatesInv
  OBVIOUS
<1>1. RatesTypeOK
  BY DEF RatesInit, RatesTypeOK
<1>2. QED
  BY <1>1 DEF RatesInit, RatesInv, InStep, CarriedSound

LEMMA RatesNextInv == RatesInv /\ [RatesNext]_rateVars => RatesInv'
<1> SUFFICES ASSUME RatesInv, [RatesNext]_rateVars PROVE RatesInv'
  OBVIOUS
<1>1. ASSUME NEW n, Work(n) PROVE RatesInv'
  BY <1>1, WorkKeeps
<1>2. CASE Elapse
  BY <1>2, ElapseKeeps
<1>3. ASSUME NEW S, ResetView(S) PROVE RatesInv'
  BY <1>3, ResetKeeps
<1>4. CASE Collect
  BY <1>4, CollectKeeps
<1>5. CASE NewSession
  BY <1>5, SessionKeeps
<1>6. CASE UNCHANGED rateVars
  <2>1. UNCHANGED <<family, gap, counter, prev, since, disturbed>>
    BY <1>6 DEF rateVars
  <2>2. Names(family)' = Names(family)
    BY <2>1 DEF Names
  <2>3. QED
    BY <2>1, <2>2 DEF RatesInv, RatesTypeOK, InStep, CarriedSound, Sound
<1>7. QED
  BY <1>1, <1>2, <1>3, <1>4, <1>5, <1>6 DEF RatesNext

(* The counters, the window and what the poller remembers of the last      *)
(* collection stay in step with what the server really did, through any    *)
(* resets and restarts of the session.                                     *)
THEOREM WindowsInStep == RatesSpec => []RatesInv
BY RatesInitInv, RatesNextInv, PTL DEF RatesSpec

(* No rate tells of more than what happened over its window, and no ratio  *)
(* leaves 0..1 or divides by zero.                                         *)
THEOREM RatesAlwaysHonest == RatesSpec => []DerivedHonest
<1>1. RatesInv => DerivedHonest
  BY InStepSuffices
<1>2. QED
  BY <1>1, WindowsInStep, PTL

-----------------------------------------------------------------------------
(* Module SequenceGauge. *)

\* A value handed out stays within the bounds.
Bounds ==
  /\ minValue \in Words /\ maxValue \in Words /\ minValue < maxValue
  /\ increment \in {1, 2, -1, -2}
  /\ startValue \in {minValue, maxValue}
  /\ lastValue # None => lastValue \in minValue..maxValue

LEMMA BoundsAlways == SequenceSpec => []Bounds
<1> USE DEF Bounds
<1>1. SequenceInit => Bounds
  BY DEF SequenceInit
<1>2. ASSUME Bounds, [SequenceNext]_sequenceVars PROVE Bounds'
  <2>1. CASE NextValue
    BY <1>2, <2>1, HighType DEF NextValue, Available, Following, Words, Low
  <2>2. CASE SetValue
    BY <1>2, <2>2 DEF SetValue
  <2>3. CASE AlterIncrement
    BY <1>2, <2>3 DEF AlterIncrement
  <2>4. CASE UNCHANGED sequenceVars
    BY <1>2, <2>4 DEF sequenceVars
  <2>5. QED
    BY <1>2, <2>1, <2>2, <2>3, <2>4 DEF SequenceNext
<1>3. QED
  BY <1>1, <1>2, PTL DEF SequenceSpec

LEMMA OneTurn ==
  ASSUME NEW w \in Nat \ {0}, NEW a \in Nat
  PROVE  /\ a < w => a % w = a
         /\ w <= a /\ a < 2 * w => a % w = a - w
OBVIOUS

\* What a difference of two machine integers comes to.
LEMMA Differences ==
  ASSUME NEW x \in 0..(2 * High + 1)
  PROVE  /\ x <= High => Saturated(x) = x /\ Wrapped(x) = x
         /\ x > High => Saturated(x) = High /\ Wrapped(x) = x - (2 * High + 2)
<1> DEFINE w == 2 * High + 2
           a == x - Low
<1>0. High \in Nat /\ High > 0 /\ x \in Nat /\ x <= 2 * High + 1
  BY HighType
<1>1. Saturated(x) = IF x > High THEN High ELSE x
  BY <1>0 DEF Saturated, Low
<1>2. /\ w \in Nat \ {0} /\ a \in Nat /\ a < 2 * w
      /\ a + Low = x /\ (a < w <=> x <= High)
  BY <1>0 DEF Low
<1>3. Wrapped(x) = (a % w) + Low
  BY DEF Wrapped
<1>4. w = 2 * High + 2 /\ Low = -High - 1
  BY DEF Low
<1> HIDE DEF w, a
<1>5. a % w = IF x <= High THEN a ELSE a - w
  <2>1. CASE a < w
    BY <1>2, <2>1, OneTurn
  <2>2. CASE ~(a < w)
    <3>1. w <= a
      BY <1>2, <2>2
    <3>2. QED
      BY <1>2, <2>2, <3>1, OneTurn
  <2>3. QED
    BY <2>1, <2>2
<1>6. QED
  BY <1>0, <1>1, <1>2, <1>3, <1>4, <1>5

\* The distance to the bound the sequence runs to, and the step.
LEMMA Distance ==
  ASSUME Bounds
  PROVE  /\ minValue \in Int /\ maxValue \in Int
         /\ Current \in minValue..maxValue
         /\ maxValue - minValue \in 1..(2 * High + 1)
         /\ maxValue - Current \in 0..(maxValue - minValue)
         /\ Current - minValue \in 0..(maxValue - minValue)
         /\ Up => increment \in {1, 2}
         /\ ~Up => -increment \in {1, 2}
<1>1. High \in Nat /\ minValue \in Int /\ maxValue \in Int /\ minValue < maxValue
      /\ -High - 1 <= minValue /\ maxValue <= High
  BY HighType DEF Bounds, Words, Low
<1>2. Current \in minValue..maxValue
  BY <1>1 DEF Bounds, Current
<1>3. /\ Up => increment \in {1, 2}
      /\ ~Up => -increment \in {1, 2}
  BY DEF Bounds, Up
<1>4. QED
  BY <1>1, <1>2, <1>3

LEMMA Halves ==
  ASSUME NEW a \in Nat, NEW b \in Nat, NEW k \in {1, 2}, a <= b
  PROVE  0 <= a \div k /\ a \div k <= b \div k /\ (k = 1 => a \div k = a)
         /\ a \div k \in Nat /\ b \div k \in Nat
OBVIOUS

\* The gauge never promises a value the sequence does not have, is exact where
\* the range fits a machine integer, and is critical when nothing is left.
THEOREM SequenceAlwaysHonest == SequenceSpec => []SequenceHonest
<1>1. ASSUME Bounds PROVE SequenceHonest
  <2> DEFINE range == maxValue - minValue
             left == IF Up THEN maxValue - Current ELSE Current - minValue
             used == IF Up THEN Current - minValue ELSE maxValue - Current
             step == IF Up THEN increment ELSE -increment
  <2>0. High \in Nat /\ High > 0
    BY HighType
  <2>1. /\ range \in 1..(2 * High + 1) /\ left \in 0..range /\ used \in 0..range
        /\ left + used = range /\ step \in {1, 2} /\ (increment \in {1, -1} => step = 1)
    <3>1. CASE Up
      BY <1>1, <2>0, <3>1, Distance
    <3>2. CASE ~Up
      BY <1>1, <2>0, <3>2, Distance
    <3>3. QED
      BY <3>1, <3>2
  <2> HIDE DEF range, left, used, step
  <2>2. Saturated(left) \in 0..left /\ (range <= High => Saturated(left) = left)
    BY <2>0, <2>1, Differences
  <2>3. Remaining = Saturated(left) \div step
    BY <2>0, <2>2 DEF Remaining, AtLeast, left, step
  <2>4. Truly = left \div step + IF lastValue = None THEN 1 ELSE 0
    BY DEF Truly, left, step
  <2>5. 0 <= Remaining /\ Remaining <= Truly
    BY <2>1, <2>2, <2>3, <2>4, Halves
  <2>6. range \in Words => Truly - Remaining <= 1
    BY <2>0, <2>1, <2>2, <2>3, <2>4, Halves DEF Words, Low
  <2>7. Truly = 0 /\ increment \in {1, -1} => Exhaustion = 2
    <3>1. SUFFICES ASSUME Truly = 0, increment \in {1, -1} PROVE Exhaustion = 2
      OBVIOUS
    <3>2. left = 0 /\ used = range
      BY <2>1, <2>4, <3>1, Halves
    <3>3. CASE range <= High
      <4>1. UsedUp = range /\ Range0 = range
        BY <2>0, <2>1, <3>2, <3>3, Differences
        DEF UsedUp, Range0, AtLeast, range, used
      <4>2. QED
        BY <2>1, <4>1 DEF Exhaustion, Reaches, AtMost
    <3>4. CASE range > High
      <4>1. UsedUp = High /\ Range0 = 1
        BY <2>0, <2>1, <3>2, <3>4, Differences
        DEF UsedUp, Range0, AtLeast, range, used
      <4>2. QED
        BY <2>0, <4>1 DEF Exhaustion, Reaches, AtMost
    <3>5. QED
      BY <2>0, <2>1, <3>3, <3>4
  <2>8. QED
    BY <2>5, <2>6, <2>7 DEF SequenceHonest, range
<1>2. QED
  BY <1>1, BoundsAlways, PTL

-----------------------------------------------------------------------------
(* The ages of transactions and locks.                                     *)

\* The last of the oldest.
Ages(x) == \E S \in SUBSET Sessions : x \in [S -> [age : Nat, idle : BOOLEAN]]
Eldest(x, s) ==
  /\ s \in DOMAIN x
  /\ \A t \in DOMAIN x : x[t].age < x[s].age \/ (x[t].age = x[s].age /\ t <= s)

LEMMA AgesAre ==
  ASSUME NEW x, Ages(x)
  PROVE  /\ DOMAIN x \subseteq Sessions /\ DOMAIN x \subseteq Nat /\ IsFiniteSet(DOMAIN x)
         /\ \A s \in DOMAIN x : x[s].age \in Nat /\ x[s].idle \in BOOLEAN
<1>1. PICK S \in SUBSET Sessions : x \in [S -> [age : Nat, idle : BOOLEAN]]
  BY DEF Ages
<1>2. IsFiniteSet(S) /\ DOMAIN x = S
  BY <1>1, AgeBounds, FS_Subset
<1>3. QED
  BY <1>1, <1>2, AgeBounds

LEMMA EldestIs ==
  ASSUME NEW x, Ages(x), DOMAIN x # {}
  PROVE  \E s : Eldest(x, s)
<1> DEFINE A == {x[s].age : s \in DOMAIN x}
<1>1. A \in SUBSET Int /\ IsFiniteSet(A) /\ A # {}
  <2>1. A \in SUBSET Int /\ A # {}
    BY AgesAre
  <2> DEFINE f == [s \in DOMAIN x |-> x[s].age]
  <2>2. f \in Surjection(DOMAIN x, A)
    BY DEF Surjection
  <2>3. IsFiniteSet(A)
    BY <2>2, AgesAre, FS_Surjection
  <2>4. QED
    BY <2>1, <2>3
<1>2. PICK a \in A : \A b \in A : b <= a
  <2> HIDE DEF A
  <2>1. QED
    BY <1>1, LastNumber
<1> DEFINE T == {s \in DOMAIN x : x[s].age = a}
<1>3. T \in SUBSET Int /\ IsFiniteSet(T) /\ T # {}
  <2>1. T \subseteq DOMAIN x /\ T # {}
    BY <1>2
  <2>2. QED
    BY <2>1, AgesAre, FS_Subset
<1>4. PICK s \in T : \A t \in T : t <= s
  <2> HIDE DEF T
  <2>1. QED
    BY <1>3, LastNumber
<1>5. s \in DOMAIN x /\ x[s].age = a /\ a \in Nat
  BY <1>4, AgesAre
<1>6. ASSUME NEW t \in DOMAIN x PROVE x[t].age < x[s].age \/ (x[t].age = x[s].age /\ t <= s)
  <2>1. x[t].age \in A /\ x[t].age <= a /\ x[t].age \in Nat
    BY <1>2, AgesAre
  <2>2. CASE x[t].age = a
    BY <1>4, <1>5, <2>2
  <2>3. QED
    BY <1>5, <2>1, <2>2
<1>7. QED
  BY <1>5, <1>6 DEF Eldest

LEMMA OneEldest ==
  ASSUME NEW x, Ages(x), NEW s, Eldest(x, s), NEW t, Eldest(x, t)
  PROVE  s = t
<1>1. s \in Nat /\ t \in Nat /\ x[s].age \in Nat /\ x[t].age \in Nat
  BY AgesAre DEF Eldest
<1>2. QED
  BY <1>1 DEF Eldest

LEMMA OldestIs ==
  ASSUME Ages(xacts), DOMAIN xacts # {}
  PROVE  Eldest(xacts, OldestXact)
BY EldestIs DEF Eldest, OldestXact

\* Severities rise with age, and of two the older warns where the other is bad.
LEMMA SeverityRises ==
  ASSUME NEW x \in [age : Nat, idle : BOOLEAN], NEW y \in [age : Nat, idle : BOOLEAN]
  PROVE  /\ XactSeverity(x) \in 0..2
         /\ x.age <= y.age /\ x.idle = y.idle => XactSeverity(x) <= XactSeverity(y)
         /\ x.age <= y.age /\ XactSeverity(x) = 2 => XactSeverity(y) > 0
<1>1. WarnAge = 2 /\ BadAge = 12 /\ WarnAge \div 2 = 1 /\ BadAge \div 2 = 6
  BY DEF WarnAge, BadAge
<1>2. x.age \in Nat /\ y.age \in Nat
  OBVIOUS
<1>3. /\ XactSeverity(x) = IF x.idle THEN SeverityOf(x.age, 1, 6) ELSE SeverityOf(x.age, 2, 12)
      /\ XactSeverity(y) = IF y.idle THEN SeverityOf(y.age, 1, 6) ELSE SeverityOf(y.age, 2, 12)
  BY <1>1 DEF XactSeverity
<1>4. CASE x.idle /\ y.idle
  BY <1>2, <1>3, <1>4 DEF SeverityOf
<1>5. CASE x.idle /\ ~y.idle
  <2>1. x.idle # y.idle
    BY <1>5
  <2>2. XactSeverity(x) = SeverityOf(x.age, 1, 6) /\ XactSeverity(y) = SeverityOf(y.age, 2, 12)
    BY <1>3, <1>5
  <2>3. QED
    BY <1>2, <2>1, <2>2 DEF SeverityOf
<1>6. CASE ~x.idle /\ y.idle
  <2>1. x.idle # y.idle
    BY <1>6
  <2>2. XactSeverity(x) = SeverityOf(x.age, 2, 12) /\ XactSeverity(y) = SeverityOf(y.age, 1, 6)
    BY <1>3, <1>6
  <2>3. QED
    BY <1>2, <2>1, <2>2 DEF SeverityOf
<1>7. CASE ~x.idle /\ ~y.idle
  BY <1>2, <1>3, <1>7 DEF SeverityOf
<1>8. QED
  BY <1>4, <1>5, <1>6, <1>7

LEMMA BadAnnounced == ASSUME Ages(xacts) PROVE BadIsAnnounced
<1> SUFFICES ASSUME NEW s \in DOMAIN xacts, XactSeverity(xacts[s]) = 2 PROVE Headline > 0
  BY DEF BadIsAnnounced
<1>1. Eldest(xacts, OldestXact)
  BY OldestIs
<1>2. xacts[s] \in [age : Nat, idle : BOOLEAN] /\ xacts[OldestXact] \in [age : Nat, idle : BOOLEAN]
  BY <1>1 DEF Eldest, Ages
<1>3. xacts[s].age <= xacts[OldestXact].age
  BY <1>1, <1>2 DEF Eldest
<1>4. Headline = XactSeverity(xacts[OldestXact])
  BY DEF Headline
<1>5. QED
  BY <1>2, <1>3, <1>4, SeverityRises

LEMMA AgeingRises ==
  ASSUME Ages(xacts), Ages(xacts'), Ageing
  PROVE  /\ Headline' >= Headline
         /\ \A s \in DOMAIN xacts : XactSeverity(xacts'[s]) >= XactSeverity(xacts[s])
<1>1. /\ DOMAIN xacts' = DOMAIN xacts
      /\ \A s \in DOMAIN xacts : xacts'[s].age = xacts[s].age + 1 /\ xacts'[s].idle = xacts[s].idle
  BY DEF Ageing, Seen
<1>2. ASSUME NEW s \in DOMAIN xacts
      PROVE  /\ XactSeverity(xacts'[s]) >= XactSeverity(xacts[s])
             /\ XactSeverity(xacts'[s]) \in 0..2 /\ XactSeverity(xacts[s]) \in 0..2
  <2>1. xacts[s] \in [age : Nat, idle : BOOLEAN] /\ xacts'[s] \in [age : Nat, idle : BOOLEAN]
    BY <1>1 DEF Ages
  <2>2. xacts[s].age <= xacts'[s].age
    BY <1>1, <2>1
  <2>3. QED
    BY <1>1, <2>1, <2>2, SeverityRises
<1>3. CASE DOMAIN xacts = {}
  BY <1>1, <1>3 DEF Headline
<1>4. CASE DOMAIN xacts # {}
  <2>1. Eldest(xacts, OldestXact) /\ Eldest(xacts', OldestXact')
    <3>1. Eldest(xacts, OldestXact)
      BY <1>4, OldestIs
    <3>2. Eldest(xacts', OldestXact')
      BY <1>1, <1>4, EldestIs DEF Eldest, OldestXact
    <3>3. QED
      BY <3>1, <3>2
  <2>2. Eldest(xacts', OldestXact)
    <3>1. \A s \in DOMAIN xacts : xacts[s].age \in Nat
      BY AgesAre
    <3>2. QED
      BY <1>1, <2>1, <3>1 DEF Eldest
  <2>3. OldestXact' = OldestXact
    BY <2>1, <2>2, OneEldest
  <2>4. OldestXact \in DOMAIN xacts
    BY <2>1 DEF Eldest
  <2>5. Headline = XactSeverity(xacts[OldestXact]) /\ Headline' = XactSeverity(xacts'[OldestXact])
    BY <1>1, <1>4, <2>3 DEF Headline
  <2>6. QED
    BY <1>2, <2>4, <2>5
<1>5. QED
  BY <1>2, <1>3, <1>4

LEMMA AgesStay == Ages(xacts) /\ [AgesNext]_xacts => Ages(xacts')
<1> SUFFICES ASSUME Ages(xacts), AgesNext PROVE Ages(xacts')
  OBVIOUS
<1>1. PICK S \in SUBSET Sessions : xacts \in [S -> [age : Nat, idle : BOOLEAN]]
  BY DEF Ages
<1>2. Seen(0, FALSE) \in [age : Nat, idle : BOOLEAN]
  BY DEF Seen
<1>3. ASSUME NEW s \in Sessions, BeginXact(s) PROVE Ages(xacts')
  <2>1. xacts' \in [S \cup {s} -> [age : Nat, idle : BOOLEAN]]
    BY <1>1, <1>2, <1>3 DEF BeginXact
  <2>2. QED
    BY <2>1 DEF Ages
<1>4. ASSUME NEW s \in DOMAIN xacts, EndXact(s) PROVE Ages(xacts')
  <2>1. xacts' \in [S \ {s} -> [age : Nat, idle : BOOLEAN]]
    BY <1>1, <1>4 DEF EndXact
  <2>2. QED
    BY <2>1 DEF Ages
<1>5. ASSUME NEW s \in DOMAIN xacts, TurnIdle(s) \/ TurnActive(s) PROVE Ages(xacts')
  <2>1. xacts' \in [S -> [age : Nat, idle : BOOLEAN]]
    BY <1>1, <1>5 DEF TurnIdle, TurnActive
  <2>2. QED
    BY <2>1 DEF Ages
<1>6. CASE Ageing
  <2>1. \A s \in S : Seen(xacts[s].age + 1, xacts[s].idle) \in [age : Nat, idle : BOOLEAN]
    BY <1>1 DEF Seen
  <2>2. xacts' \in [S -> [age : Nat, idle : BOOLEAN]]
    BY <1>1, <1>6, <2>1 DEF Ageing
  <2>3. QED
    BY <2>2 DEF Ages
<1>7. QED
  BY <1>3, <1>4, <1>5, <1>6 DEF AgesNext

LEMMA AgesStart == AgesInit => Ages(xacts)
BY DEF AgesInit, Ages

(* Waiting calms no alarm, and no bad transaction goes unannounced, for    *)
(* any sessions and ages (xact_age.rs, oldest_xact_headline): the headline *)
(* names one transaction, which stays the oldest while all of them age.    *)
THEOREM AlarmsAlwaysSound == AgesSpec => AlarmsSound
<1>1. Ages(xacts) /\ [AgesNext]_xacts => Ages(xacts)'
  BY AgesStay
<1>2. Ages(xacts) /\ Ages(xacts)' =>
        (Ageing => /\ Headline' >= Headline
                   /\ \A s \in DOMAIN xacts : XactSeverity(xacts'[s]) >= XactSeverity(xacts[s]))
  BY AgeingRises
<1>3. Ages(xacts) => BadIsAnnounced
  BY BadAnnounced
<1>4. QED
  BY <1>1, <1>2, <1>3, AgesStart, PTL DEF AgesSpec, AlarmsSound, AlarmsOnlyRise

-----------------------------------------------------------------------------
(* The index advisor.                                                      *)

\* The rows are of finitely many indexes, each with its columns.
Rows == [keys : Seq(Nat), kind : IndexKinds, pred : Predicates, valid : BOOLEAN, scanned : BOOLEAN]
IndexesTyped ==
  /\ DOMAIN indexes \subseteq IndexNames
  /\ \A i \in DOMAIN indexes : indexes[i] \in Rows

LEMMA FirstOtherIs ==
  ASSUME NEW i, NEW S \in SUBSET IndexNames
  PROVE  /\ S \ {i} = {} => FirstOther(i, S) = None
         /\ S \ {i} # {} => FirstOther(i, S) \in S \ {i} /\ FirstOther(i, S) # None
<1>1. CASE S \ {i} = {}
  BY <1>1 DEF FirstOther
<1>2. CASE S \ {i} # {}
  <2>1. S \ {i} \in SUBSET Nat
    BY AdvisorBounds
  <2>2. \E j \in S \ {i} : \A k \in S \ {i} : j <= k
    BY <1>2, <2>1, LeastNumber
  <2>3. FirstOther(i, S) \in S \ {i}
    BY <1>2, <2>2 DEF FirstOther
  <2>4. QED
    BY <1>2, <2>3, AdvisorBounds
<1>3. QED
  BY <1>1, <1>2

\* The partner of an index that is redundant to it, any other index itself.
Onward(at) == IF Classify(at).finding = "DuplicatePrefix" THEN Classify(at).partner ELSE at

\* What is redundant to another leads to that one, which is wider.
LEMMA PrefixLeads ==
  ASSUME IndexesTyped, NEW i \in DOMAIN indexes, Classify(i).finding = "DuplicatePrefix"
  PROVE  /\ ~ServesConstraint(indexes[i])
         /\ Onward(i) \in DOMAIN indexes
         /\ Narrower(indexes[i], indexes[Onward(i)])
         /\ StrictPrefix(indexes[i].keys, indexes[Onward(i)].keys)
<1> DEFINE W == {j \in DOMAIN indexes : Narrower(indexes[i], indexes[j])}
<1>1. /\ Classify(i) = Verdict("DuplicatePrefix", WiderPartner(i))
      /\ WiderPartner(i) # None /\ ~ServesConstraint(indexes[i])
  BY DEF Classify, Verdict
<1>2. Onward(i) = WiderPartner(i)
  BY <1>1 DEF Onward, Verdict
<1>3. WiderPartner(i) \in W
  <2>1. W \in SUBSET IndexNames
    BY DEF IndexesTyped
  <2> HIDE DEF W
  <2>2. WiderPartner(i) = FirstOther(i, W)
    BY DEF WiderPartner, W
  <2>3. QED
    BY <1>1, <2>1, <2>2, FirstOtherIs
<1>4. QED
  BY <1>1, <1>2, <1>3 DEF Narrower

LEMMA Elsewhere ==
  ASSUME NEW i \in DOMAIN indexes, Classify(i).finding # "DuplicatePrefix"
  PROVE  Onward(i) = i
BY DEF Onward

-----------------------------------------------------------------------------
(* Following the advice.                                                   *)

Steps(n) == [k \in 1..n |-> [j \in DOMAIN indexes |-> Onward(j)]]

LEMMA StepsAre ==
  ASSUME IndexesTyped, NEW n \in Nat
  PROVE  /\ Steps(n) \in [1..n -> [DOMAIN indexes -> DOMAIN indexes]]
         /\ \A k \in 1..n : \A j \in DOMAIN indexes : Steps(n)[k][j] = Onward(j)
<1>1. \A j \in DOMAIN indexes : Onward(j) \in DOMAIN indexes
  BY PrefixLeads, Elsewhere
<1>2. QED
  BY <1>1 DEF Steps

LEMMA SizeIs ==
  ASSUME IndexesTyped
  PROVE  IsFiniteSet(DOMAIN indexes) /\ Cardinality(DOMAIN indexes) \in Nat
BY AdvisorBounds, FS_Subset, FS_CardinalityType DEF IndexesTyped

\* The walk from an index to the partner of each that is redundant.
LEMMA FollowedIs ==
  ASSUME IndexesTyped, NEW i \in DOMAIN indexes
  PROVE  LET n == Cardinality(DOMAIN indexes)
         IN  \E f : Recurs(f, n, DOMAIN indexes, i, Steps(n))
<1> DEFINE n == Cardinality(DOMAIN indexes)
           T == DOMAIN indexes
           rule == Steps(n)
<1>1. n \in Nat /\ i \in T /\ rule \in [1..n -> [T -> T]]
  BY SizeIs, StepsAre
<1> HIDE DEF n, T, rule
<1>2. \E f : Recurs(f, n, T, i, rule)
  BY <1>1, Recursion
<1>3. QED
  BY <1>2 DEF n, T, rule

LEMMA PrefixJoins ==
  ASSUME NEW a \in Seq(Nat), NEW b \in Seq(Nat), NEW c \in Seq(Nat),
         StrictPrefix(a, b), StrictPrefix(b, c)
  PROVE  StrictPrefix(a, c)
<1>1. /\ Len(a) \in Nat /\ Len(b) \in Nat /\ Len(c) \in Nat
      /\ Len(a) < Len(b) /\ Len(b) < Len(c)
      /\ a = SubSeq(b, 1, Len(a)) /\ b = SubSeq(c, 1, Len(b))
  BY DEF StrictPrefix
<1>2. SubSeq(c, 1, Len(a)) \in Seq(Nat) /\ Len(SubSeq(c, 1, Len(a))) = Len(a)
  BY <1>1
<1>3. ASSUME NEW j \in 1..Len(a) PROVE a[j] = SubSeq(c, 1, Len(a))[j]
  <2>1. a[j] = b[j]
    BY <1>1
  <2>2. b[j] = c[j]
    BY <1>1
  <2>3. SubSeq(c, 1, Len(a))[j] = c[j]
    BY <1>1
  <2>4. QED
    BY <2>1, <2>2, <2>3
<1>4. a = SubSeq(c, 1, Len(a))
  BY <1>2, <1>3
<1>5. QED
  BY <1>1, <1>4 DEF StrictPrefix

Prefixed(j) == Classify(j).finding = "DuplicatePrefix"
Columns(j) == Len(indexes[j].keys)

\* A walk that is still told to go on was told so all along, and has met only
\* wider and wider indexes.
LEMMA WalkWidens ==
  ASSUME IndexesTyped, NEW i \in DOMAIN indexes, NEW n \in Nat,
         NEW f, Recurs(f, n, DOMAIN indexes, i, Steps(n))
  PROVE  \A m \in 0..n : Prefixed(f[m]) =>
           \A k \in 0..n : k < m => Prefixed(f[k]) /\ Columns(f[k]) < Columns(f[m])
<1> DEFINE Wide(m) == \A k \in 0..n : k < m => Prefixed(f[k]) /\ Columns(f[k]) < Columns(f[m])
           S == {m \in Nat : m <= n => (Prefixed(f[m]) => Wide(m))}
<1>1. /\ \A k \in 0..n : f[k] \in DOMAIN indexes
      /\ \A k \in 1..n : f[k] = Onward(f[k - 1])
  <2>1. /\ \A k \in 0..n : f[k] \in DOMAIN indexes
        /\ \A k \in 1..n : f[k] = Steps(n)[k][f[k - 1]]
    BY DEF Recurs
  <2>2. \A k \in 1..n : k - 1 \in 0..n
    OBVIOUS
  <2>3. QED
    BY <2>1, <2>2, StepsAre
<1>2. 0 \in S
  OBVIOUS
<1>3. ASSUME NEW m \in Nat, m \in S PROVE m + 1 \in S
  <2>1. SUFFICES ASSUME m + 1 <= n, Prefixed(f[m + 1]) PROVE Wide(m + 1)
    OBVIOUS
  <2>2. m \in 0..n /\ m + 1 \in 1..n /\ m + 1 \in 0..n /\ (m + 1) - 1 = m
    BY <2>1
  <2>3. f[m + 1] = Onward(f[m]) /\ f[m] \in DOMAIN indexes /\ f[m + 1] \in DOMAIN indexes
    BY <1>1, <2>2
  <2>4. Prefixed(f[m])
    BY <2>1, <2>3, Elsewhere DEF Prefixed
  <2>5. Wide(m)
    BY <1>3, <2>2, <2>4
  <2>6. Columns(f[m]) < Columns(f[m + 1])
    BY <2>3, <2>4, PrefixLeads DEF Prefixed, StrictPrefix, Columns
  <2>7. \A k \in 0..n : Columns(f[k]) \in Nat
    BY <1>1 DEF IndexesTyped, Rows, Columns
  <2>8. ASSUME NEW k \in 0..n, k < m + 1
        PROVE  Prefixed(f[k]) /\ Columns(f[k]) < Columns(f[m + 1])
    <3>1. CASE k = m
      BY <2>4, <2>6, <3>1
    <3>2. CASE k < m
      <4>1. Prefixed(f[k]) /\ Columns(f[k]) < Columns(f[m])
        BY <2>5, <3>2
      <4>2. Columns(f[k]) \in Nat /\ Columns(f[m]) \in Nat /\ Columns(f[m + 1]) \in Nat
        BY <2>2, <2>7
      <4>3. QED
        BY <2>6, <4>1, <4>2
    <3>3. QED
      BY <2>8, <3>1, <3>2
  <2>9. QED
    BY <2>8
<1> HIDE DEF S
<1>4. Nat \subseteq S
  BY <1>2, <1>3, Induction
<1>5. QED
  BY <1>4 DEF S

\* There are not indexes enough for a walk that never arrives.
LEMMA WalkArrives ==
  ASSUME IndexesTyped, NEW i \in DOMAIN indexes,
         NEW n, n = Cardinality(DOMAIN indexes),
         NEW f, Recurs(f, n, DOMAIN indexes, i, Steps(n))
  PROVE  ~Prefixed(f[n])
<1> SUFFICES ASSUME Prefixed(f[n]) PROVE FALSE
  OBVIOUS
<1>1. n \in Nat /\ IsFiniteSet(DOMAIN indexes)
  BY SizeIs
<1>2. f \in [0..n -> DOMAIN indexes]
  BY DEF Recurs
<1>3. \A m \in 0..n : Prefixed(f[m]) =>
        \A k \in 0..n : k < m => Prefixed(f[k]) /\ Columns(f[k]) < Columns(f[m])
  BY <1>1, WalkWidens
<1>4. \A m \in 0..n : Prefixed(f[m])
  BY <1>1, <1>3
<1>5. \A k, m \in 0..n : k < m => Columns(f[k]) < Columns(f[m])
  BY <1>3, <1>4
<1>6. \A k \in 0..n : Columns(f[k]) \in Nat
  BY <1>2 DEF IndexesTyped, Rows, Columns
<1>7. IsFiniteSet(0..n) /\ Cardinality(0..n) = n + 1
  BY <1>1, FS_Interval
<1>8. PICK k \in 0..n, m \in 0..n : k # m /\ f[k] = f[m]
  <2>1. Cardinality(DOMAIN indexes) < Cardinality(0..n)
    BY <1>1, <1>7
  <2>2. QED
    BY <1>1, <1>2, <1>7, <2>1, FS_PigeonHole
<1>9. k < m \/ m < k
  BY <1>1, <1>8
<1>10. QED
  BY <1>5, <1>6, <1>8, <1>9

LEMMA WalkKeepsColumns ==
  ASSUME IndexesTyped, NEW i \in DOMAIN indexes, Prefixed(i), NEW n \in Nat, n # 0,
         NEW f, Recurs(f, n, DOMAIN indexes, i, Steps(n))
  PROVE  Narrower(indexes[i], indexes[f[n]])
<1> DEFINE S == {m \in Nat : m + 1 <= n => Narrower(indexes[i], indexes[f[m + 1]])}
<1>1. /\ f[0] = i /\ \A k \in 0..n : f[k] \in DOMAIN indexes
      /\ \A k \in 1..n : f[k] = Onward(f[k - 1])
  <2>1. /\ f[0] = i /\ \A k \in 0..n : f[k] \in DOMAIN indexes
        /\ \A k \in 1..n : f[k] = Steps(n)[k][f[k - 1]]
    BY DEF Recurs
  <2>2. \A k \in 1..n : k - 1 \in 0..n
    OBVIOUS
  <2>3. QED
    BY <2>1, <2>2, StepsAre
<1>2. 0 \in S
  <2>1. 1 \in 1..n /\ 1 - 1 = 0
    OBVIOUS
  <2>2. f[1] = Onward(i)
    BY <1>1, <2>1
  <2>3. QED
    BY <2>2, PrefixLeads DEF Prefixed
<1>3. ASSUME NEW m \in Nat, m \in S PROVE m + 1 \in S
  <2>1. SUFFICES ASSUME (m + 1) + 1 <= n
                 PROVE  Narrower(indexes[i], indexes[f[(m + 1) + 1]])
    OBVIOUS
  <2>2. m + 1 \in 0..n /\ (m + 1) + 1 \in 1..n /\ ((m + 1) + 1) - 1 = m + 1 /\ m + 1 <= n
        /\ (m + 1) + 1 \in 0..n
    BY <2>1
  <2>3. /\ f[(m + 1) + 1] = Onward(f[m + 1]) /\ f[m + 1] \in DOMAIN indexes
        /\ f[(m + 1) + 1] \in DOMAIN indexes
    BY <1>1, <2>2
  <2>4. Narrower(indexes[i], indexes[f[m + 1]])
    BY <1>3, <2>2
  <2>5. CASE Prefixed(f[m + 1])
    <3>1. Narrower(indexes[f[m + 1]], indexes[f[(m + 1) + 1]])
      BY <2>3, <2>5, PrefixLeads DEF Prefixed
    <3>2. /\ indexes[i].keys \in Seq(Nat) /\ indexes[f[m + 1]].keys \in Seq(Nat)
          /\ indexes[f[(m + 1) + 1]].keys \in Seq(Nat)
      BY <2>3 DEF IndexesTyped, Rows
    <3>3. QED
      BY <2>4, <3>1, <3>2, PrefixJoins DEF Narrower
  <2>6. CASE ~Prefixed(f[m + 1])
    BY <2>3, <2>4, <2>6, Elsewhere DEF Prefixed
  <2>7. QED
    BY <2>5, <2>6
<1> HIDE DEF S
<1>4. Nat \subseteq S
  BY <1>2, <1>3, Induction
<1>5. n - 1 \in S /\ (n - 1) + 1 = n
  BY <1>4
<1>6. QED
  BY <1>5 DEF S

\* Following the prefixes from an index leads to one that is not redundant to a
\* wider one, and that is the index itself or a wider one.
LEMMA FollowedStandsIn ==
  ASSUME IndexesTyped, NEW i \in DOMAIN indexes
  PROVE  \E j \in DOMAIN indexes :
           /\ Classify(j).finding # "DuplicatePrefix"
           /\ Classify(i).finding # "DuplicatePrefix" => j = i
           /\ j = i \/ Narrower(indexes[i], indexes[j])
<1> DEFINE n == Cardinality(DOMAIN indexes)
<1>1. CASE ~Prefixed(i)
  BY <1>1 DEF Prefixed
<1>2. CASE Prefixed(i)
  <2>1. n \in Nat /\ n # 0
    BY SizeIs, FS_EmptySet
  <2>2. PICK f : Recurs(f, n, DOMAIN indexes, i, Steps(n))
    BY FollowedIs
  <2>3. ~Prefixed(f[n]) /\ f[n] \in DOMAIN indexes
    <3>1. ~Prefixed(f[n])
      BY <2>2, WalkArrives
    <3> HIDE DEF n
    <3>2. n \in 0..n
      BY <2>1
    <3>3. f[n] \in DOMAIN indexes
      BY <2>2, <3>2 DEF Recurs
    <3>4. QED
      BY <3>1, <3>3
  <2> HIDE DEF n
  <2>4. Narrower(indexes[i], indexes[f[n]])
    BY <1>2, <2>1, <2>2, WalkKeepsColumns
  <2>5. QED
    BY <1>2, <2>3, <2>4 DEF Prefixed
<1>3. QED
  BY <1>1, <1>2

LEMMA Coherent == ASSUME IndexesTyped PROVE AdviceCoherent
<1>1. ASSUME NEW i \in DOMAIN indexes, Classify(i).finding \in {"Unused", "DuplicatePrefix"}
      PROVE  ~ServesConstraint(indexes[i])
  BY <1>1 DEF Classify, Verdict
<1>2. ASSUME NEW kept \in SUBSET DOMAIN indexes, WithoutDuplicates(kept),
             NEW i \in DOMAIN indexes
      PROVE  \E k \in kept : /\ StandsIn(indexes[i], indexes[k])
                             /\ indexes[i].kind = "unique" => indexes[k].kind = "unique"
  <2>1. PICK j \in DOMAIN indexes :
          /\ Classify(j).finding # "DuplicatePrefix"
          /\ Classify(i).finding # "DuplicatePrefix" => j = i
          /\ j = i \/ Narrower(indexes[i], indexes[j])
    BY FollowedStandsIn
  <2>2. PICK k \in kept : SameSignature(indexes[j], indexes[k])
    <3>1. CASE Classify(j).finding = "DuplicateExact"
      BY <1>2, <3>1 DEF WithoutDuplicates
    <3>2. CASE Classify(j).finding # "DuplicateExact"
      BY <1>2, <2>1, <3>2 DEF WithoutDuplicates, SameSignature
    <3>3. QED
      BY <3>1, <3>2
  <2>3. StandsIn(indexes[i], indexes[k])
    BY <2>1, <2>2 DEF SameSignature, StandsIn, Narrower
  <2>4. indexes[i].kind = "unique" => indexes[k].kind = "unique"
    <3>1. indexes[i].kind = "unique" => Classify(i).finding # "DuplicatePrefix"
      BY <1>1 DEF ServesConstraint
    <3>2. QED
      BY <2>1, <2>2, <3>1 DEF SameSignature
  <2>5. QED
    BY <2>3, <2>4
<1>3. QED
  BY <1>1, <1>2 DEF AdviceCoherent

LEMMA IndexesStay == IndexesTyped /\ [AdvisorNext]_indexes => IndexesTyped'
<1> SUFFICES ASSUME IndexesTyped, AdvisorNext PROVE IndexesTyped'
  BY DEF IndexesTyped
<1>1. ASSUME NEW i \in IndexNames, NEW keys \in KeyLists, NEW kind \in IndexKinds,
             NEW pred \in Predicates, NEW valid \in BOOLEAN,
             CreateIndex(i, keys, kind, pred, valid)
      PROVE  IndexesTyped'
  BY <1>1, AdvisorBounds DEF CreateIndex, IndexesTyped, Rows
<1>2. ASSUME NEW i \in DOMAIN indexes, FinishBuild(i) \/ ReadIndex(i) PROVE IndexesTyped'
  <2>1. DOMAIN indexes \subseteq IndexNames /\ \A j \in DOMAIN indexes : indexes[j] \in Rows
    BY DEF IndexesTyped
  <2>2. CASE FinishBuild(i)
    <3>1. indexes' = [indexes EXCEPT ![i].valid = TRUE]
      BY <2>2 DEF FinishBuild
    <3>2. [indexes[i] EXCEPT !.valid = TRUE] \in Rows
      BY <2>1 DEF Rows
    <3>3. QED
      BY <2>1, <3>1, <3>2 DEF IndexesTyped
  <2>3. CASE ReadIndex(i)
    BY <2>1, <2>3 DEF ReadIndex, IndexesTyped, Rows
  <2>4. QED
    BY <1>2, <2>2, <2>3
<1>3. ASSUME NEW i \in DOMAIN indexes, DropIndex(i) PROVE IndexesTyped'
  BY <1>3 DEF DropIndex, IndexesTyped
<1>4. QED
  BY <1>1, <1>2, <1>3 DEF AdvisorNext

LEMMA IndexesStart == AdvisorInit => IndexesTyped
BY DEF AdvisorInit, IndexesTyped

(* The advice on the duplicates of a table can be followed for every index *)
(* at once (classify), whatever indexes there are and however long the     *)
(* chains of narrower and wider ones: each step leads to a wider index, of *)
(* which there are finitely many.                                          *)
THEOREM AdviceAlwaysCoherent == AdvisorSpec => []AdviceCoherent
BY IndexesStart, IndexesStay, Coherent, PTL DEF AdvisorSpec

-----------------------------------------------------------------------------
(* The collections.                                                        *)

Catalog == {"schema", "bloat"}

\* The transactions of a collection, as the proofs look at them.
PlanFits(plan, kind) ==
  /\ plan \in Seq(Seq(Views))
  /\ \A t \in DOMAIN plan : \A p \in DOMAIN plan[t] : SentTo(session.version, plan[t][p])
  /\ \A t \in DOMAIN plan : \A p \in DOMAIN plan[t] : plan[t][p] \in Reported => Len(plan[t]) = 1
  /\ kind \in Tiers =>
       /\ \A t \in DOMAIN plan : Len(plan[t]) <= 1 /\ \A p \in DOMAIN plan[t] : plan[t][p] \notin Essential
       /\ \A view \in Panels(kind) : SentTo(session.version, view) =>
            \E t \in DOMAIN plan : plan[t] = <<view>>
  /\ kind \in Catalog =>
       /\ Len(plan) = 1 /\ Len(plan[1]) >= 2 /\ plan[1][1] = "tables" /\ plan[1][2] = "indexes"
       /\ \A p \in 3..Len(plan[1]) : plan[1][p] \in BloatViews

\* A plan of one transaction.
LEMMA OneTx ==
  ASSUME NEW tx \in Seq(Views), NEW kind, kind \notin Tiers, kind \notin Catalog,
         \A p \in DOMAIN tx : SentTo(session.version, tx[p]) /\ tx[p] \notin Reported
  PROVE  PlanFits(<<tx>>, kind)
BY DEF PlanFits

LEMMA AtMostOne ==
  ASSUME NEW x \in Views, NEW tx, tx = <<x>> \/ tx = <<>>
  PROVE  tx \in Seq(Views) /\ Len(tx) <= 1 /\ \A p \in DOMAIN tx : tx[p] = x
<1>1. CASE tx = <<x>>
  BY <1>1
<1>2. CASE tx = <<>>
  BY <1>2
<1>3. QED
  BY <1>1, <1>2

LEMMA CatalogTx ==
  ASSUME NEW tx \in Seq(Views), NEW kind, kind \notin Tiers, Len(tx) >= 2,
         tx[1] = "tables" /\ tx[2] = "indexes" /\ \A p \in 3..Len(tx) : tx[p] \in BloatViews,
         \A p \in DOMAIN tx : SentTo(session.version, tx[p]) /\ tx[p] \notin Reported
  PROVE  PlanFits(<<tx>>, kind)
<1>1. Len(<<tx>>) = 1 /\ <<tx>>[1] = tx /\ DOMAIN <<tx>> = {1} /\ <<tx>> \in Seq(Seq(Views))
  OBVIOUS
<1> DEFINE plan == <<tx>>
<1> HIDE DEF plan
<1>2. Len(plan) = 1 /\ plan[1] = tx /\ DOMAIN plan = {1} /\ plan \in Seq(Seq(Views))
  BY <1>1 DEF plan
<1>3. PlanFits(plan, kind)
  BY <1>2 DEF PlanFits
<1>4. QED
  BY <1>3 DEF plan

PanelFits(tx) ==
  /\ Len(tx) <= 1
  /\ \A p \in DOMAIN tx : SentTo(session.version, tx[p]) /\ tx[p] \notin Essential
  /\ \A p \in DOMAIN tx : Len(tx) = 1

LEMMA PanelTx ==
  ASSUME NEW x, NEW tx, \/ tx = <<>>
                        \/ tx = <<x>> /\ SentTo(session.version, x) /\ x \notin Essential
  PROVE  PanelFits(tx)
<1>1. CASE tx = <<>>
  BY <1>1 DEF PanelFits
<1>2. CASE tx = <<x>> /\ SentTo(session.version, x) /\ x \notin Essential
  <2>1. Len(tx) = 1 /\ DOMAIN tx = {1} /\ tx[1] = x
    BY <1>2
  <2>2. QED
    BY <1>2, <2>1 DEF PanelFits
<1>3. QED
  BY <1>1, <1>2

LEMMA PanelTxs ==
  ASSUME NEW kind \in Tiers, NEW a \in Seq(Views), NEW b \in Seq(Views), NEW c \in Seq(Views),
         NEW x, NEW y, NEW z, a = <<x>>, b = <<y>>, c = <<z>> \/ c = <<>>,
         Panels(kind) = {x, y, z}, SentTo(session.version, z) => c = <<z>>,
         c # <<>> => SentTo(session.version, z),
         SentTo(session.version, x) /\ SentTo(session.version, y),
         Panels(kind) \cap Essential = {}
  PROVE  PlanFits(<<a, b, c>>, kind)
<1>1. kind \notin Catalog
  BY DEF Tiers, Catalog
<1>2. \A tx \in {a, b, c} : PanelFits(tx)
  <2>1. PanelFits(a) /\ PanelFits(b)
    BY PanelTx
  <2>2. PanelFits(c)
    <3>1. \/ c = <<>>
          \/ c = <<z>> /\ SentTo(session.version, z) /\ z \notin Essential
      OBVIOUS
    <3>2. QED
      BY <3>1, PanelTx
  <2>3. QED
    BY <2>1, <2>2
<1> DEFINE plan == <<a, b, c>>
<1>3. /\ Len(plan) = 3 /\ plan[1] = a /\ plan[2] = b /\ plan[3] = c
      /\ DOMAIN plan = {1, 2, 3} /\ plan \in Seq(Seq(Views))
  OBVIOUS
<1> HIDE DEF plan
<1>4. \A t \in DOMAIN plan : plan[t] \in {a, b, c}
  BY <1>3
<1>5. \A view \in Panels(kind) : SentTo(session.version, view) => \E t \in DOMAIN plan : plan[t] = <<view>>
  BY <1>3
<1>6. PlanFits(plan, kind)
  BY <1>1, <1>2, <1>3, <1>4, <1>5 DEF PlanFits, PanelFits
<1>7. QED
  BY <1>6 DEF plan

LEMMA PlansFit ==
  ASSUME NEW kind \in Kinds, session.version \in Nat, session.version >= 13
  PROVE  PlanFits(Plan(kind), kind)
<1> DEFINE v == session.version
<1>1. \A view \in Views \ {"wal", "io"} : SentTo(v, view)
  BY DEF SentTo
<1>2. /\ Views = {"activity", "server_info", "locks_by_relation", "tables", "indexes", "bloat_tables",
                  "bloat_indexes", "columns", "constraints", "wal_senders", "slots", "wal", "databases",
                  "publications", "subscriptions", "size", "statements", "io"}
      /\ Reported = {"slots", "publications", "subscriptions"}
      /\ Tiers = {"tier2", "tier3"} /\ Catalog = {"schema", "bloat"}
  BY DEF Views, Fast, Backbone, BloatViews, Relations, BestEffort, Reported, Tiers, Catalog
<1>3. CASE kind = "fast"
  <2> DEFINE tx == <<"activity", "server_info", "locks_by_relation">>
  <2>1. Plan(kind) = <<tx>>
    BY <1>3 DEF Plan
  <2>2. tx \in Seq(Views) /\ \A p \in DOMAIN tx : tx[p] \in Views \ {"wal", "io"} /\ tx[p] \notin Reported
    BY <1>2
  <2> HIDE DEF tx
  <2>3. QED
    BY <1>1, <1>2, <1>3, <2>1, <2>2, OneTx
<1>4. CASE kind = "detail"
  <2> DEFINE tx == <<"columns", "constraints", "size">>
  <2>1. Plan(kind) = <<tx>>
    BY <1>4 DEF Plan
  <2>2. tx \in Seq(Views) /\ \A p \in DOMAIN tx : tx[p] \in Views \ {"wal", "io"} /\ tx[p] \notin Reported
    BY <1>2
  <2> HIDE DEF tx
  <2>3. QED
    BY <1>1, <1>2, <1>4, <2>1, <2>2, OneTx
<1>5. CASE kind = "statements"
  <2> DEFINE tx == IF session.available THEN <<"statements">> ELSE <<>>
  <2>1. Plan(kind) = <<tx>>
    BY <1>5 DEF Plan
  <2>2. tx = <<"statements">> \/ tx = <<>>
    OBVIOUS
  <2> HIDE DEF tx
  <2>3. tx \in Seq(Views) /\ \A p \in DOMAIN tx : tx[p] = "statements"
    BY <1>2, <2>2, AtMostOne
  <2>4. QED
    BY <1>1, <1>2, <1>5, <2>1, <2>3, OneTx
<1>6. CASE kind = "io"
  <2> DEFINE tx == IF SentTo(v, "io") THEN <<"io">> ELSE <<>>
  <2>1. Plan(kind) = <<tx>>
    BY <1>6 DEF Plan
  <2>2. (tx = <<"io">> /\ SentTo(v, "io")) \/ tx = <<>>
    OBVIOUS
  <2> HIDE DEF tx
  <2>3. tx \in Seq(Views) /\ \A p \in DOMAIN tx : tx[p] = "io"
    BY <1>2, <2>2, AtMostOne
  <2>4. \A p \in DOMAIN tx : tx # <<>>
    OBVIOUS
  <2>5. QED
    BY <1>2, <1>6, <2>1, <2>2, <2>3, <2>4, OneTx
<1>7. CASE kind = "schema"
  <2> DEFINE tx == <<"tables", "indexes">>
  <2>1. Plan(kind) = <<tx>>
    BY <1>7 DEF Plan
  <2>2. tx \in Seq(Views) /\ \A p \in DOMAIN tx : tx[p] \in Views \ {"wal", "io"} /\ tx[p] \notin Reported
    BY <1>2
  <2>3. Len(tx) = 2 /\ tx[1] = "tables" /\ tx[2] = "indexes"
    OBVIOUS
  <2> HIDE DEF tx
  <2>4. QED
    BY <1>1, <1>2, <1>7, <2>1, <2>2, <2>3, CatalogTx
<1>8. CASE kind = "bloat"
  <2> DEFINE tx == <<"tables", "indexes", "bloat_tables", "bloat_indexes">>
  <2>1. Plan(kind) = <<tx>>
    BY <1>8 DEF Plan
  <2>2. tx \in Seq(Views) /\ \A p \in DOMAIN tx : tx[p] \in Views \ {"wal", "io"} /\ tx[p] \notin Reported
    BY <1>2
  <2>3. /\ Len(tx) = 4 /\ tx[1] = "tables" /\ tx[2] = "indexes"
        /\ \A p \in 3..4 : tx[p] \in BloatViews
    BY DEF BloatViews
  <2> HIDE DEF tx
  <2>4. QED
    BY <1>1, <1>2, <1>8, <2>1, <2>2, <2>3, CatalogTx
<1>9. Essential = {"activity", "server_info", "locks_by_relation", "tables", "indexes", "columns",
                   "constraints", "statements", "io"}
  BY DEF Essential, Fast, Backbone, Relations
<1>10. CASE kind = "tier2"
  <2> DEFINE wal == IF SentTo(v, "wal") THEN <<"wal">> ELSE <<>>
  <2>1. Plan(kind) = << <<"wal_senders">>, <<"slots">>, wal >>
    BY <1>10 DEF Plan
  <2>2. /\ wal = <<"wal">> \/ wal = <<>>
        /\ SentTo(v, "wal") => wal = <<"wal">>
        /\ wal # <<>> => SentTo(v, "wal")
    OBVIOUS
  <2> HIDE DEF wal
  <2>3. Panels(kind) = {"wal_senders", "slots", "wal"}
    BY <1>10 DEF Panels
  <2>4. /\ <<"wal_senders">> \in Seq(Views) /\ <<"slots">> \in Seq(Views) /\ wal \in Seq(Views)
        /\ SentTo(v, "wal_senders") /\ SentTo(v, "slots")
    BY <1>1, <1>2, <2>2, AtMostOne
  <2>5. Panels(kind) \cap Essential = {} /\ kind \in Tiers
    BY <1>2, <1>9, <1>10, <2>3
  <2> HIDE DEF v
  <2>6. QED
    BY <2>1, <2>2, <2>3, <2>4, <2>5, PanelTxs DEF v
<1>11. CASE kind = "tier3"
  <2>1. Plan(kind) = << <<"databases">>, <<"publications">>, <<"subscriptions">> >>
    BY <1>11 DEF Plan
  <2>2. Panels(kind) = {"databases", "publications", "subscriptions"}
    BY <1>11 DEF Panels
  <2>3. /\ <<"databases">> \in Seq(Views) /\ <<"publications">> \in Seq(Views) /\ <<"subscriptions">> \in Seq(Views)
        /\ SentTo(v, "databases") /\ SentTo(v, "publications") /\ SentTo(v, "subscriptions")
    BY <1>1, <1>2
  <2>4. Panels(kind) \cap Essential = {} /\ kind \in Tiers
    BY <1>2, <1>9, <1>11, <2>2
  <2>5. QED
    BY <2>1, <2>2, <2>3, <2>4, PanelTxs
<1>12. QED
  BY <1>3, <1>4, <1>5, <1>6, <1>7, <1>8, <1>10, <1>11, CollectionBounds DEF AllKinds

-----------------------------------------------------------------------------
(* What is known of a collection under way.                                *)

Hows == {"denied", "broken", "garbled", "lost", "unbegun", "unloaded"}
FailedIn(view, f) == \E how \in Hows : <<view, how>> \in f
Spoilt(f) == \E view \in Backbone : FailedIn(view, f)
Faults(f) == {view \in Reported : \E how \in {"broken", "garbled", "lost"} : <<view, how>> \in f}
BadgeFits(f, b) == IF Faults(f) = {} THEN b = None ELSE b \in Faults(f)

\* Every view that was asked for was read or has failed of itself, but for the
\* estimate; and a catalog that was given up has lost one of its tables.
Past(r, t, p) == t < r.tx \/ (t = r.tx /\ p < r.next)
Settled(r, g, f) ==
  \A t \in DOMAIN r.plan : \A p \in DOMAIN r.plan[t] :
    Past(r, t, p) => r.plan[t][p] \in g \cup BloatViews \/ FailedIn(r.plan[t][p], f)
Told(r, g, f) ==
  /\ r.kind \in Tiers => Settled(r, g, f)
  /\ r.kind \in Catalog => Spoilt(f) \/ (r.error = FALSE /\ Settled(r, g, f))

\* In a transaction something was sent; only an estimate, or a view with others
\* behind it, aborts one that goes on.
TxFits(r, c) ==
  r # None /\ r.tx <= Len(r.plan) /\ c \in {"open", "aborted", "cut"} =>
    /\ r.plan[r.tx] # <<>>
    /\ c = "aborted" => r.next > 1 /\ (r.kind \in Catalog => r.next > 3)

RunFits(r, g, f, b) ==
  r # None =>
    /\ r \in Underway /\ PlanFits(r.plan, r.kind)
    /\ BadgeFits(f, b) /\ Told(r, g, f)

CollInv ==
  /\ conn \in {"none", "idle", "open", "aborted", "cut"}
  /\ version \in Nat
  /\ conn # "none" \/ run # None => session.version = version /\ version >= 13
  /\ RunFits(run, got, failed, badge) /\ TxFits(run, conn)

LEMMA UnderwayIs ==
  ASSUME NEW r \in Underway
  PROVE  /\ r.kind \in Kinds /\ r.plan \in Seq(Seq(Views)) /\ r.tx \in Nat \ {0} /\ r.next \in Nat \ {0}
         /\ r.error \in BOOLEAN /\ Len(r.plan) \in Nat /\ DOMAIN r.plan = 1..Len(r.plan)
         /\ \A t \in DOMAIN r.plan :
              r.plan[t] \in Seq(Views) /\ Len(r.plan[t]) \in Nat /\ DOMAIN r.plan[t] = 1..Len(r.plan[t])
<1>1. /\ r.kind \in Kinds /\ r.plan \in Seq(Seq(Views)) /\ r.tx \in Nat \ {0} /\ r.next \in Nat \ {0}
      /\ r.error \in BOOLEAN
  BY DEF Underway
<1>2. Len(r.plan) \in Nat /\ DOMAIN r.plan = 1..Len(r.plan)
  BY <1>1
<1>3. \A t \in DOMAIN r.plan : r.plan[t] \in Seq(Views)
  BY <1>1, ElementOfSeq
<1>4. \A t \in DOMAIN r.plan : Len(r.plan[t]) \in Nat /\ DOMAIN r.plan[t] = 1..Len(r.plan[t])
  BY <1>3
<1>5. QED
  BY <1>1, <1>2, <1>3, <1>4

LEMMA PlacesAre ==
  ASSUME NEW r \in Underway, NEW t \in DOMAIN r.plan, NEW p \in DOMAIN r.plan[t]
  PROVE  t \in Nat \ {0} /\ p \in Nat \ {0}
<1>1. Len(r.plan) \in Nat /\ DOMAIN r.plan = 1..Len(r.plan)
  BY Zenon, UnderwayIs
<1>2. Len(r.plan[t]) \in Nat /\ DOMAIN r.plan[t] = 1..Len(r.plan[t])
  BY Zenon, UnderwayIs
<1>3. QED
  BY <1>1, <1>2

\* Failures are only added, and those that are no fault of a reported view
\* leave the badge.
LEMMA SameFaults ==
  ASSUME NEW f, NEW g, f \subseteq g, NEW b, BadgeFits(f, b),
         \A x \in g \ f : \E view, how : x = <<view, how>> /\ (view \notin Reported \/ how \notin {"broken", "garbled", "lost"})
  PROVE  BadgeFits(g, b)
<1>1. Faults(g) = Faults(f)
  <2>1. ASSUME NEW view \in Reported, NEW how \in {"broken", "garbled", "lost"}, <<view, how>> \in g
        PROVE  <<view, how>> \in f
    BY <2>1
  <2>2. QED
    BY <2>1 DEF Faults
<1>2. QED
  BY <1>1 DEF BadgeFits

LEMMA FailuresStay ==
  ASSUME NEW f, NEW g, f \subseteq g
  PROVE  /\ \A view : FailedIn(view, f) => FailedIn(view, g)
         /\ Spoilt(f) => Spoilt(g)
BY DEF FailedIn, Spoilt

\* The next transaction of a collection, once this one is settled.
LEMMA NextSettled ==
  ASSUME NEW r \in Underway, NEW g, NEW f, NEW h, NEW k, f \subseteq k, Settled(r, g, f),
         \A view \in g \ h : FailedIn(view, k),
         NEW n, n.plan = r.plan, n.tx = r.tx + 1, n.next = 1, r.tx <= Len(r.plan),
         \A p \in DOMAIN r.plan[r.tx] : p >= r.next =>
           r.plan[r.tx][p] \in h \cup BloatViews \/ FailedIn(r.plan[r.tx][p], k)
  PROVE  Settled(n, h, k)
<1>1. r.tx \in Nat \ {0} /\ r.next \in Nat \ {0} /\ r.tx \in DOMAIN r.plan
  BY UnderwayIs
<1>2. ASSUME NEW t \in DOMAIN r.plan, NEW p \in DOMAIN r.plan[t], Past(n, t, p)
      PROVE  r.plan[t][p] \in h \cup BloatViews \/ FailedIn(r.plan[t][p], k)
  <2>1. t \in Nat /\ p \in Nat /\ p >= 1 /\ t >= 1
    BY PlacesAre
  <2>2. t < r.tx \/ t = r.tx
    BY <1>1, <1>2, <2>1 DEF Past
  <2>3. CASE Past(r, t, p)
    <3>1. r.plan[t][p] \in g \cup BloatViews \/ FailedIn(r.plan[t][p], f)
      BY <2>3 DEF Settled
    <3>2. QED
      BY <3>1, FailuresStay
  <2>4. CASE ~Past(r, t, p)
    <3>1. t = r.tx /\ p >= r.next
      BY <1>1, <2>1, <2>2, <2>4 DEF Past
    <3>2. QED
      BY <3>1
  <2>5. QED
    BY <2>3, <2>4
<1>3. QED
  BY <1>2 DEF Settled

-----------------------------------------------------------------------------
(* The steps between collections, and those that send nothing.             *)

LEMMA CollStart == CollectionInit => CollInv
BY CollectionBounds DEF CollectionInit, CollInv, RunFits, TxFits

LEMMA OutsideSteps ==
  ASSUME CollInv, Connect \/ ConnectionLost \/ ServerReplaced \/ ExtensionChanged
  PROVE  CollInv' /\ run' = run
<1>1. CASE Connect
  BY <1>1 DEF Connect, CollInv, RunFits, TxFits, runVars, serverVars
<1>2. CASE ConnectionLost
  <2>1. UNCHANGED <<version, session, run, got, failed, badge>> /\ conn # "none"
        /\ conn' \in {"none", "cut"} /\ (conn' = "cut" => conn \in {"open", "aborted"})
    BY <1>2 DEF ConnectionLost, CollInv, runVars, serverVars
  <2>2. TxFits(run, conn')
    BY <2>1 DEF CollInv, TxFits
  <2>3. RunFits(run, got, failed, badge)'
    BY <2>1 DEF CollInv, RunFits, PlanFits
  <2>4. QED
    BY <2>1, <2>2, <2>3 DEF CollInv
<1>3. CASE ServerReplaced
  BY <1>3, CollectionBounds DEF ServerReplaced, CollInv, RunFits, TxFits, runVars
<1>4. CASE ExtensionChanged
  <2>1. UNCHANGED <<version, session, conn, run, got, failed, badge>>
    BY <1>4 DEF ExtensionChanged, runVars
  <2>2. RunFits(run, got, failed, badge)'
    BY <2>1 DEF CollInv, RunFits, PlanFits
  <2>3. QED
    BY <2>1, <2>2 DEF CollInv
<1>5. QED
  BY <1>1, <1>2, <1>3, <1>4

LEMMA StartSteps ==
  ASSUME CollInv, NEW kind \in Kinds, StartCollection(kind)
  PROVE  CollInv' /\ run = None
<1> DEFINE r == [kind |-> kind, plan |-> Plan(kind), tx |-> 1, next |-> 1, error |-> FALSE]
<1>1. /\ run = None /\ conn = "idle" /\ run' = r /\ got' = {} /\ failed' = {} /\ badge' = None
      /\ UNCHANGED <<version, session, conn>>
  BY DEF StartCollection, serverVars
<1>2. session.version = version /\ version \in Nat /\ version >= 13
  BY <1>1 DEF CollInv
<1>3. PlanFits(Plan(kind), kind) /\ PlanFits(Plan(kind), kind)'
  <2>1. PlanFits(Plan(kind), kind)
    BY <1>2, PlansFit
  <2>2. QED
    BY <1>1, <2>1 DEF PlanFits, Plan
<1>4. r \in Underway /\ r.plan = Plan(kind) /\ r.kind = kind /\ r.error = FALSE /\ r.tx = 1 /\ r.next = 1
  BY <1>3 DEF PlanFits, Underway
<1> HIDE DEF r
<1>5. BadgeFits({}, None)
  BY DEF BadgeFits, Faults
<1>6. Settled(r, {}, {})
  <2>1. \A t \in DOMAIN r.plan : \A p \in DOMAIN r.plan[t] : ~Past(r, t, p)
    BY <1>4, UnderwayIs DEF Past
  <2>2. QED
    BY <2>1 DEF Settled
<1>7. Told(r, {}, {})
  BY <1>4, <1>6 DEF Told
<1>8. RunFits(run, got, failed, badge)'
  BY <1>1, <1>3, <1>4, <1>5, <1>7 DEF RunFits, PlanFits
<1>9. TxFits(run', conn')
  BY <1>1 DEF TxFits
<1>10. QED
  BY <1>1, <1>2, <1>8, <1>9 DEF CollInv

LEMMA RunningIs ==
  ASSUME CollInv, Running
  PROVE  /\ run \in Underway /\ PlanFits(run.plan, run.kind) /\ run.tx \in DOMAIN run.plan
         /\ BadgeFits(failed, badge) /\ Told(run, got, failed)
         /\ ThisTx = run.plan[run.tx] /\ ThisTx \in Seq(Views)
         /\ Len(ThisTx) \in Nat /\ DOMAIN ThisTx = 1..Len(ThisTx)
         /\ run.tx \in Nat \ {0} /\ run.next \in Nat \ {0} /\ run.error \in BOOLEAN /\ Len(run.plan) \in Nat
<1>1. /\ run \in Underway /\ PlanFits(run.plan, run.kind)
      /\ BadgeFits(failed, badge) /\ Told(run, got, failed)
  BY DEF CollInv, RunFits, Running
<1>2. run.tx \in DOMAIN run.plan
  BY <1>1, UnderwayIs DEF Running
<1>3. QED
  BY <1>1, <1>2, UnderwayIs DEF ThisTx

\* What a step of a collection has to show.
LEMMA RunKept ==
  ASSUME CollInv, run # None, UNCHANGED <<version, session>>,
         conn' \in {"none", "idle", "open", "aborted", "cut"},
         NEW r \in Underway, run' = r, r.plan = run.plan, r.kind = run.kind,
         BadgeFits(failed', badge'), Told(r, got', failed'), TxFits(r, conn')
  PROVE  CollInv' /\ run' # None
<1>1. PlanFits(r.plan, r.kind)'
  <2>1. PlanFits(run.plan, run.kind)
    BY DEF CollInv, RunFits
  <2>2. QED
    BY <2>1 DEF PlanFits
<1>2. RunFits(run, got, failed, badge)'
  BY <1>1 DEF RunFits, PlanFits
<1>3. session.version = version /\ version >= 13 /\ version \in Nat
  BY DEF CollInv
<1>4. TxFits(run', conn')
  OBVIOUS
<1>5. run' # None
  BY NoRun
<1>6. QED
  BY <1>2, <1>3, <1>4, <1>5 DEF CollInv

LEMMA BeginStep ==
  ASSUME CollInv, Begin
  PROVE  CollInv' /\ run' # None
<1>1. Running /\ conn' = "open" /\ UNCHANGED <<version, session, run, got, failed, badge>> /\ ThisTx # <<>>
  BY DEF Begin, serverVars, runVars
<1>2. TxFits(run, conn')
  BY <1>1 DEF TxFits, ThisTx
<1>3. run # None /\ run' = run
  BY <1>1 DEF Running
<1>4. QED
  BY <1>1, <1>2, <1>3, RunningIs, RunKept

\* The next transaction.
LEMMA NextIs ==
  ASSUME CollInv, Running
  PROVE  /\ NextTx \in Underway /\ NextTx.plan = run.plan /\ NextTx.kind = run.kind
         /\ NextTx.tx = run.tx + 1 /\ NextTx.next = 1 /\ NextTx.error = run.error
<1>1. run \in Underway /\ run.tx + 1 \in Nat \ {0} /\ 1 \in Nat \ {0}
  BY RunningIs
<1>2. NextTx \in Underway /\ NextTx.plan = run.plan /\ NextTx.kind = run.kind
      /\ NextTx.tx = run.tx + 1 /\ NextTx.next = 1
  BY <1>1 DEF NextTx, Underway
<1>3. NextTx.error = run.error
  BY <1>1, Zenon DEF NextTx, Underway
<1>4. QED
  BY <1>2, <1>3

LEMMA ErrNextIs ==
  ASSUME CollInv, Running
  PROVE  LET r == [NextTx EXCEPT !.error = TRUE]
         IN  /\ r \in Underway /\ r.plan = run.plan /\ r.kind = run.kind
             /\ r.tx = run.tx + 1 /\ r.next = 1
BY NextIs DEF Underway

LEMMA ToldNext ==
  ASSUME NEW r \in Underway, NEW g, NEW f, NEW h, NEW k, f \subseteq k, Told(r, g, f),
         \A view \in g \ h : FailedIn(view, k),
         NEW n, n.plan = r.plan, n.kind = r.kind, n.tx = r.tx + 1, n.next = 1, r.tx <= Len(r.plan),
         \A p \in DOMAIN r.plan[r.tx] : p >= r.next =>
           r.plan[r.tx][p] \in h \cup BloatViews \/ FailedIn(r.plan[r.tx][p], k),
         r.kind \in Catalog => Spoilt(k) \/ (r.error = FALSE => n.error = FALSE)
  PROVE  Told(n, h, k)
<1>1. Settled(r, g, f) => Settled(n, h, k)
  BY NextSettled
<1>2. Spoilt(f) => Spoilt(k)
  BY FailuresStay
<1>3. QED
  BY <1>1, <1>2 DEF Told

LEMMA NothingSentStep ==
  ASSUME CollInv, NothingSent
  PROVE  CollInv' /\ run' # None
<1>1. Running /\ ThisTx = <<>> /\ run' = NextTx /\ UNCHANGED <<version, session, conn, got, failed, badge>>
  BY DEF NothingSent, serverVars
<1>2. Told(NextTx, got, failed)
  <2>1. \A p \in DOMAIN run.plan[run.tx] : FALSE
    BY <1>1, RunningIs
  <2>2. run.tx <= Len(run.plan)
    BY <1>1 DEF Running
  <2>3. QED
    BY <1>1, <2>1, <2>2, RunningIs, NextIs, ToldNext
<1>3. conn \notin {"open", "aborted", "cut"}
  BY <1>1 DEF CollInv, TxFits, Running, ThisTx
<1>4. TxFits(NextTx, conn')
  BY <1>1, <1>3 DEF TxFits
<1>5. conn' \in {"none", "idle", "open", "aborted", "cut"} /\ run # None
  BY <1>1 DEF CollInv, Running
<1>6. QED
  BY <1>1, <1>2, <1>4, <1>5, RunningIs, NextIs, RunKept

LEMMA BeginFailsStep ==
  ASSUME CollInv, BeginFails
  PROVE  CollInv' /\ run' # None
<1> DEFINE r == [NextTx EXCEPT !.error = TRUE]
           k == failed \cup {<<ThisTx[i], "unbegun">> : i \in DOMAIN ThisTx}
<1>1. /\ Running /\ conn = "none" /\ ThisTx # <<>> /\ run' = r /\ failed' = k
      /\ UNCHANGED <<version, session, conn, got, badge>>
  BY DEF BeginFails, serverVars
<1>2. \A p \in DOMAIN ThisTx : FailedIn(ThisTx[p], k)
  BY DEF FailedIn, Hows
<1>3. failed \subseteq k
  OBVIOUS
<1>4. BadgeFits(k, badge)
  <2>1. \A x \in k \ failed : \E view, how : x = <<view, how>> /\ (view \notin Reported \/ how \notin {"broken", "garbled", "lost"})
    OBVIOUS
  <2> HIDE DEF k
  <2>2. QED
    BY <1>1, <1>3, <2>1, RunningIs, SameFaults
<1>5. /\ r \in Underway /\ r.plan = run.plan /\ r.kind = run.kind
      /\ r.tx = run.tx + 1 /\ r.next = 1
  BY <1>1, ErrNextIs
<1> HIDE DEF r, k
<1>6. run.kind \in Catalog => Spoilt(k)
  <2>1. SUFFICES ASSUME run.kind \in Catalog  PROVE Spoilt(k)
    OBVIOUS
  <2>2. run.tx = 1 /\ ThisTx[1] = "tables" /\ 1 \in DOMAIN ThisTx
    BY <1>1, <2>1, RunningIs DEF PlanFits
  <2>3. QED
    BY <1>2, <2>2 DEF Spoilt, Backbone
<1>7. Told(r, got, k)
  <2>1. run.tx <= Len(run.plan)
    BY <1>1 DEF Running
  <2>2. QED
    BY <1>1, <1>2, <1>3, <1>5, <1>6, <2>1, RunningIs, ToldNext
<1>8. TxFits(r, conn')
  BY <1>1 DEF TxFits
<1>9. conn' \in {"none", "idle", "open", "aborted", "cut"} /\ run # None
  BY <1>1 DEF Running
<1>10. QED
  BY <1>1, <1>4, <1>5, <1>7, <1>8, <1>9, RunKept

\* What a query can come to, by the place it is asked at.
LEMMA OutcomeIs ==
  ASSUME CollInv, Running, InTx, run.next <= Len(ThisTx), NEW outcome \in Outcomes(ThisTx[run.next])
  PROVE  LET view == ThisTx[run.next]
         IN  /\ view \in Views /\ run.next \in DOMAIN ThisTx
             /\ outcome \in Hows \cup {"rows", "skipped"}
             /\ outcome = "skipped" <=> conn = "aborted"
             /\ outcome = "unloaded" => view = "statements"
             /\ view \in Reported \/ run.kind \in Tiers => outcome # "skipped" /\ run.next = 1
             /\ run.kind \in Tiers => view \notin Essential
             /\ run.kind \in Catalog =>
                  \/ run.next < 3 /\ view \in Backbone /\ outcome # "skipped"
                  \/ run.next >= 3 /\ view \in BloatViews
<1> DEFINE view == ThisTx[run.next]
<1>1. run.next \in DOMAIN ThisTx /\ view \in Views
  BY RunningIs, ElementOfSeq
<1>2. /\ conn \in {"open", "aborted", "cut"} /\ outcome \in Hows \cup {"rows", "skipped"}
      /\ outcome = "skipped" <=> conn = "aborted"
      /\ outcome = "unloaded" => view = "statements"
  BY DEF InTx, Outcomes, Hows
<1>3. conn = "aborted" => run.next > 1 /\ (run.kind \in Catalog => run.next > 3)
  BY <1>2 DEF CollInv, TxFits, Running
<1>4. run.kind \in Tiers => Len(ThisTx) <= 1 /\ view \notin Essential
  BY <1>1, RunningIs DEF PlanFits
<1>5. view \in Reported => Len(ThisTx) = 1
  BY <1>1, RunningIs DEF PlanFits
<1>6. view \in Reported \/ run.kind \in Tiers => run.next = 1
  BY <1>4, <1>5, RunningIs
<1>7. ASSUME run.kind \in Catalog
      PROVE  \/ run.next < 3 /\ view \in Backbone
             \/ run.next >= 3 /\ view \in BloatViews
  <2>1. run.tx = 1 /\ ThisTx[1] = "tables" /\ ThisTx[2] = "indexes" /\ \A p \in 3..Len(ThisTx) : ThisTx[p] \in BloatViews
    BY <1>7, RunningIs DEF PlanFits
  <2>2. run.next = 1 \/ run.next = 2 \/ run.next \in 3..Len(ThisTx)
    BY <1>1, RunningIs
  <2>3. QED
    BY <2>1, <2>2 DEF Backbone
<1>8. QED
  BY <1>1, <1>2, <1>3, <1>4, <1>6, <1>7

\* One view more, and it did not fail of itself unless its outcome says so.
LEMMA QueryBadge ==
  ASSUME NEW view, NEW outcome, outcome = "unloaded" => view = "statements",
         view \in Reported => outcome # "skipped", outcome \in Hows \cup {"rows", "skipped"}, outcome # "unbegun",
         BadgeFits(failed, badge),
         NEW k, k = IF Fails(view, outcome) /\ outcome # "skipped" THEN failed \cup {<<view, outcome>>} ELSE failed
  PROVE  BadgeFits(k, Report(view, outcome))
<1>1. failed \subseteq k /\ k \subseteq failed \cup {<<view, outcome>>}
  OBVIOUS
<1>2. CASE view \notin Reported \/ outcome \in {"rows", "denied"}
  <2>1. Report(view, outcome) = badge
    BY <1>2 DEF Report
  <2>2. outcome = "rows" => k = failed
    BY DEF Fails
  <2>3. \A x \in k \ failed : \E v, how : x = <<v, how>> /\ (v \notin Reported \/ how \notin {"broken", "garbled", "lost"})
    BY <1>1, <1>2
  <2>4. QED
    BY <1>1, <2>1, <2>3, SameFaults
<1>3. CASE view \in Reported /\ outcome \notin {"rows", "denied"}
  <2>1. outcome \in {"broken", "garbled", "lost"}
    BY <1>3 DEF Hows, Reported
  <2>2. Fails(view, outcome)
    BY <1>3 DEF Fails, Reported, Tolerant
  <2>3. k = failed \cup {<<view, outcome>>}
    BY <2>1, <2>2
  <2>4. view \in Faults(k) /\ Faults(failed) \subseteq Faults(k)
    BY <1>3, <2>1, <2>3 DEF Faults
  <2>5. Report(view, outcome) = IF badge = None THEN view ELSE badge
    BY <1>3 DEF Report
  <2>6. QED
    BY <2>4, <2>5 DEF BadgeFits
<1>4. QED
  BY <1>2, <1>3

LEMMA GivenUpIs ==
  ASSUME CollInv, Running
  PROVE  /\ GivenUp \in Underway /\ GivenUp.plan = run.plan /\ GivenUp.kind = run.kind
         /\ GivenUp.tx = Len(run.plan) + 1
<1>1. run \in Underway /\ Len(run.plan) + 1 \in Nat \ {0}
  BY RunningIs
<1>2. QED
  BY <1>1 DEF GivenUp, Underway

LEMMA OnwardIs ==
  ASSUME CollInv, Running
  PROVE  LET r == [run EXCEPT !.next = @ + 1]
         IN  /\ r \in Underway /\ r.plan = run.plan /\ r.kind = run.kind /\ r.tx = run.tx
             /\ r.next = run.next + 1 /\ r.error = run.error
<1> DEFINE r == [run EXCEPT !.next = @ + 1]
<1>1. run \in Underway /\ run.next + 1 \in Nat \ {0}
  BY RunningIs
<1>2. r \in Underway /\ r.plan = run.plan /\ r.kind = run.kind /\ r.tx = run.tx /\ r.next = run.next + 1
  BY <1>1 DEF Underway
<1>3. r.error = run.error
  BY <1>1, Zenon DEF Underway
<1>4. QED
  BY <1>2, <1>3

\* A transaction one view further on.
LEMMA SettledOn ==
  ASSUME NEW r \in Underway, NEW g, NEW f, NEW h, NEW k, g \subseteq h, f \subseteq k, Settled(r, g, f),
         NEW n, n.plan = r.plan, n.tx = r.tx, n.next = r.next + 1,
         r.plan[r.tx][r.next] \in h \cup BloatViews \/ FailedIn(r.plan[r.tx][r.next], k)
  PROVE  Settled(n, h, k)
<1>1. r.tx \in Nat /\ r.next \in Nat
  BY UnderwayIs
<1>2. ASSUME NEW t \in DOMAIN r.plan, NEW p \in DOMAIN r.plan[t], Past(n, t, p)
      PROVE  r.plan[t][p] \in h \cup BloatViews \/ FailedIn(r.plan[t][p], k)
  <2>1. t \in Nat /\ p \in Nat
    BY PlacesAre
  <2>2. Past(r, t, p) \/ (t = r.tx /\ p = r.next)
    BY <1>1, <1>2, <2>1 DEF Past
  <2>3. CASE Past(r, t, p)
    <3>1. r.plan[t][p] \in g \cup BloatViews \/ FailedIn(r.plan[t][p], f)
      BY <2>3 DEF Settled
    <3>2. QED
      BY <3>1, FailuresStay
  <2>4. QED
    BY <2>2, <2>3
<1>3. QED
  BY <1>2 DEF Settled

LEMMA QueryStep ==
  ASSUME CollInv, Query
  PROVE  CollInv' /\ run' # None
<1> DEFINE view == ThisTx[run.next]
<1>1. /\ Running /\ InTx /\ run.next <= Len(ThisTx) /\ UNCHANGED <<version, session>> /\ run # None
      /\ run.tx <= Len(run.plan)
  BY DEF Query, serverVars, Running
<1>2. PICK outcome \in Outcomes(view) :
        /\ got' = IF Fails(view, outcome) THEN got ELSE got \cup {view}
        /\ failed' = IF Fails(view, outcome) /\ outcome # "skipped"
                     THEN failed \cup {<<view, outcome>>} ELSE failed
        /\ badge' = Report(view, outcome)
        /\ IF GivesUp(view, outcome) THEN run' = GivenUp /\ conn' = OutOfTx
           ELSE /\ run' = [run EXCEPT !.next = @ + 1]
                /\ conn' = IF outcome \in {"denied", "broken", "unloaded"} THEN "aborted" ELSE conn
  BY DEF Query
<1>3. /\ view \in Views /\ run.next \in DOMAIN ThisTx
      /\ outcome \in Hows \cup {"rows", "skipped"}
      /\ outcome = "skipped" <=> conn = "aborted"
      /\ outcome = "unloaded" => view = "statements"
      /\ view \in Reported \/ run.kind \in Tiers => outcome # "skipped" /\ run.next = 1
      /\ run.kind \in Tiers => view \notin Essential
      /\ run.kind \in Catalog =>
           \/ run.next < 3 /\ view \in Backbone /\ outcome # "skipped"
           \/ run.next >= 3 /\ view \in BloatViews
  BY <1>1, OutcomeIs
<1>4. outcome # "unbegun" /\ conn \in {"open", "aborted", "cut"}
  BY <1>1 DEF Outcomes, InTx
<1>5. /\ run \in Underway /\ BadgeFits(failed, badge) /\ Told(run, got, failed) /\ view = run.plan[run.tx][run.next]
      /\ run.next \in Nat
  BY <1>1, RunningIs
<1> HIDE DEF view
<1>6. BadgeFits(failed', badge')
  BY <1>2, <1>3, <1>4, <1>5, QueryBadge
<1>7. got \subseteq got' /\ failed \subseteq failed'
  BY <1>2
<1>8. outcome # "skipped" => view \in got' \/ FailedIn(view, failed')
  <2>1. CASE Fails(view, outcome) /\ outcome # "skipped"
    <3>1. outcome \in Hows /\ <<view, outcome>> \in failed'
      BY <1>2, <1>3, <2>1 DEF Fails
    <3>2. QED
      BY <3>1 DEF FailedIn
  <2>2. CASE ~Fails(view, outcome)
    BY <1>2, <2>2
  <2>3. QED
    BY <2>1, <2>2
<1>9. conn' \in {"none", "idle", "open", "aborted", "cut"}
  BY <1>2, <1>4 DEF OutOfTx
<1>10. CASE GivesUp(view, outcome)
  <2>1. run' = GivenUp /\ conn' = OutOfTx /\ view \in Essential /\ Fails(view, outcome)
    BY <1>2, <1>10 DEF GivesUp
  <2>2. /\ GivenUp \in Underway /\ GivenUp.plan = run.plan /\ GivenUp.kind = run.kind
        /\ GivenUp.tx = Len(run.plan) + 1
    BY <1>1, GivenUpIs
  <2>3. BloatViews \cap Essential = {}
    BY DEF BloatViews, Essential, Fast, Backbone, Relations
  <2>4. run.kind \in Catalog => Spoilt(failed')
    <3>1. SUFFICES ASSUME run.kind \in Catalog  PROVE Spoilt(failed')
      OBVIOUS
    <3>2. view \in Backbone /\ outcome # "skipped"
      BY <1>3, <2>1, <2>3, <3>1
    <3>3. <<view, outcome>> \in failed' /\ outcome \in Hows
      BY <1>2, <1>3, <2>1, <3>2 DEF Fails
    <3>4. QED
      BY <3>2, <3>3 DEF Spoilt, FailedIn
  <2>5. Told(GivenUp, got', failed')
    BY <1>3, <2>1, <2>2, <2>4 DEF Told
  <2>6. TxFits(GivenUp, conn')
    BY <2>1 DEF TxFits, OutOfTx
  <2>7. QED
    BY <1>1, <1>6, <1>9, <2>1, <2>2, <2>5, <2>6, RunKept
<1>11. CASE ~GivesUp(view, outcome)
  <2> DEFINE r == [run EXCEPT !.next = @ + 1]
  <2>1. run' = r /\ conn' = IF outcome \in {"denied", "broken", "unloaded"} THEN "aborted" ELSE conn
    BY <1>2, <1>11
  <2>2. /\ r \in Underway /\ r.plan = run.plan /\ r.kind = run.kind /\ r.tx = run.tx
        /\ r.next = run.next + 1 /\ r.error = run.error
    BY <1>1, OnwardIs
  <2> HIDE DEF r
  <2>3. run.kind \in Tiers \cup Catalog => view \in got' \cup BloatViews \/ FailedIn(view, failed')
    BY <1>3, <1>8
  <2>4. run.kind \in Tiers \cup Catalog /\ Settled(run, got, failed) => Settled(r, got', failed')
    BY <1>5, <1>7, <2>2, <2>3, SettledOn
  <2>5. Told(r, got', failed')
    <3>1. Spoilt(failed) => Spoilt(failed')
      BY <1>7, FailuresStay
    <3>2. run.error = FALSE => r.error = FALSE
      BY <2>2
    <3>3. QED
      BY <1>5, <2>2, <2>4, <3>1, <3>2 DEF Told
  <2>6. ASSUME conn' = "aborted", run.kind \in Catalog  PROVE run.next >= 3
    <3>1. SUFFICES ASSUME run.next < 3  PROVE FALSE
      BY <1>5
    <3>2. view \in Backbone /\ outcome # "skipped"
      BY <1>3, <1>5, <2>6, <3>1
    <3>3. outcome \in {"denied", "broken", "unloaded"}
      BY <1>3, <2>1, <2>6, <3>2
    <3>4. QED
      BY <1>11, <3>2, <3>3 DEF GivesUp, Fails, Essential
  <2>7. TxFits(r, conn')
    <3>1. ThisTx # <<>> /\ run.next + 1 > 1
      BY <1>3, <1>5, <1>1, UnderwayIs
    <3>2. r.next > 1 /\ r.plan[r.tx] # <<>>
      BY <2>2, <3>1 DEF ThisTx
    <3>3. conn' = "aborted" /\ r.kind \in Catalog => r.next > 3
      BY <1>5, <2>2, <2>6
    <3>4. QED
      BY <3>2, <3>3 DEF TxFits
  <2>8. QED
    BY <1>1, <1>6, <1>9, <2>1, <2>2, <2>5, <2>7, RunKept
<1>12. QED
  BY <1>10, <1>11

LEMMA EndTxStep ==
  ASSUME CollInv, EndTransaction
  PROVE  CollInv' /\ run' # None
<1> DEFINE lost == IF conn = "cut" /\ CommitMatters THEN {ThisTx[i] : i \in DOMAIN ThisTx} ELSE {}
           r == IF lost = {} THEN NextTx ELSE [NextTx EXCEPT !.error = TRUE]
           k == failed \cup {<<view, "lost">> : view \in lost}
           h == got \ lost
<1>1. /\ Running /\ run.next > Len(ThisTx) /\ UNCHANGED <<version, session, badge>> /\ run # None
      /\ run.tx <= Len(run.plan) /\ conn' = OutOfTx /\ run' = r /\ got' = h /\ failed' = k
  BY DEF EndTransaction, serverVars, Running
<1>2. lost \cap Reported = {}
  BY DEF CommitMatters
<1>3. /\ r \in Underway /\ r.plan = run.plan /\ r.kind = run.kind /\ r.tx = run.tx + 1 /\ r.next = 1
  <2>1. CASE lost = {}
    BY <1>1, <2>1, NextIs
  <2>2. CASE lost # {}
    BY <1>1, <2>2, ErrNextIs
  <2>3. QED
    BY <2>1, <2>2
<1>4. lost = {} => r.error = run.error
  BY <1>1, NextIs
<1>5. run.kind \in Catalog /\ lost # {} => "tables" \in lost
  <2>1. SUFFICES ASSUME run.kind \in Catalog, lost # {}  PROVE "tables" \in lost
    OBVIOUS
  <2>2. ThisTx[1] = "tables" /\ 1 \in DOMAIN ThisTx
    BY <1>1, <2>1, RunningIs DEF PlanFits
  <2>3. QED
    BY <2>1, <2>2
<1> HIDE DEF lost, r
<1>6. \A view \in got \ h : FailedIn(view, k)
  BY DEF FailedIn, Hows
<1>7. failed \subseteq k
  OBVIOUS
<1>8. BadgeFits(k, badge)
  <2>1. \A x \in k \ failed : \E view, how : x = <<view, how>> /\ (view \notin Reported \/ how \notin {"broken", "garbled", "lost"})
    BY <1>2
  <2>2. BadgeFits(failed, badge)
    BY <1>1, RunningIs
  <2> HIDE DEF k
  <2>3. QED
    BY <1>7, <2>1, <2>2, SameFaults
<1>9. run.kind \in Catalog => Spoilt(k) \/ (run.error = FALSE => r.error = FALSE)
  <2>1. CASE lost = {}
    BY <1>4, <2>1
  <2>2. CASE lost # {}
    BY <1>5, <2>2 DEF Spoilt, FailedIn, Hows, Backbone
  <2>3. QED
    BY <2>1, <2>2
<1> HIDE DEF k, h
<1>10. Told(r, h, k)
  <2>1. \A p \in DOMAIN run.plan[run.tx] : ~(p >= run.next)
    BY <1>1, RunningIs
  <2>2. QED
    BY <1>1, <1>3, <1>6, <1>7, <1>9, <2>1, RunningIs, ToldNext
<1>11. conn' \in {"none", "idle"}
  BY <1>1 DEF OutOfTx
<1>12. TxFits(r, conn')
  BY <1>11 DEF TxFits
<1>13. QED
  BY <1>1, <1>3, <1>8, <1>10, <1>11, <1>12, RunKept

-----------------------------------------------------------------------------
(* The end of a collection, and the theorems.                              *)

LEMMA FinishStep ==
  ASSUME CollInv, Finish
  PROVE  CollInv'
<1>1. /\ run # None /\ run' = None /\ UNCHANGED <<version, session>>
      /\ conn' \in {"none", conn}
  BY DEF Finish, serverVars
<1>2. QED
  BY <1>1 DEF CollInv, RunFits, TxFits

\* Every place of a plan is past when it has come to its end.
LEMMA AllPast ==
  ASSUME NEW r \in Underway, ~(r.tx <= Len(r.plan)), NEW t \in DOMAIN r.plan, NEW p
  PROVE  Past(r, t, p)
BY UnderwayIs DEF Past

LEMMA EndedAlone ==
  ASSUME CollInv, Finish
  PROVE  /\ run.kind \in Tiers =>
              \A view \in Panels(run.kind) :
                view \in shown' \/ FailedOfItself(view) \/ ~SentTo(version, view)
         /\ run.kind \in {"schema", "bloat"} =>
              Backbone \subseteq shown' \/ \E view \in Backbone : FailedOfItself(view)
<1>1. /\ run # None /\ ~(run.tx <= Len(run.plan))
      /\ shown' = CASE run.kind \in Tiers   -> (shown \ Panels(run.kind)) \cup got
                    [] run.kind = "detail"  -> (shown \ Detail) \cup (IF run.error THEN {} ELSE got)
                    [] run.kind = "statements" /\ Unavailable -> shown \ {"statements"}
                    [] OTHER                -> Store(run.kind)
  BY DEF Finish, Running
<1>2. run \in Underway /\ PlanFits(run.plan, run.kind) /\ Told(run, got, failed) /\ session.version = version
  BY <1>1 DEF CollInv, RunFits
<1>3. \A view : FailedIn(view, failed) => FailedOfItself(view)
  BY DEF FailedIn, FailedOfItself, Hows
<1>4. ASSUME Settled(run, got, failed), NEW t \in DOMAIN run.plan, NEW p \in DOMAIN run.plan[t]
      PROVE  run.plan[t][p] \in got \cup BloatViews \/ FailedIn(run.plan[t][p], failed)
  BY <1>1, <1>2, <1>4, AllPast DEF Settled
<1>5. ASSUME run.kind \in Tiers, NEW view \in Panels(run.kind), SentTo(version, view)
      PROVE  view \in shown' \/ FailedOfItself(view)
  <2>1. PICK t \in DOMAIN run.plan : run.plan[t] = <<view>>
    BY <1>2, <1>5 DEF PlanFits
  <2>2. 1 \in DOMAIN run.plan[t] /\ run.plan[t][1] = view
    BY <2>1
  <2>3. Settled(run, got, failed)
    BY <1>2, <1>5 DEF Told
  <2>4. view \notin BloatViews
    BY <1>5 DEF Panels, BloatViews
  <2>5. view \in got \/ FailedIn(view, failed)
    BY <1>4, <2>2, <2>3, <2>4
  <2>6. got \subseteq shown'
    BY <1>1, <1>5 DEF Tiers
  <2>7. QED
    BY <1>3, <2>5, <2>6
<1>6. ASSUME run.kind \in {"schema", "bloat"}, ~Spoilt(failed)
      PROVE  Backbone \subseteq shown'
  <2>1. run.error = FALSE /\ Settled(run, got, failed)
    BY <1>2, <1>6 DEF Told, Catalog
  <2>2. 1 \in DOMAIN run.plan /\ {1, 2} \subseteq DOMAIN run.plan[1]
        /\ run.plan[1][1] = "tables" /\ run.plan[1][2] = "indexes"
    BY <1>2, <1>6, UnderwayIs DEF PlanFits, Catalog
  <2>3. Backbone \subseteq got /\ Backbone \cap BloatViews = {}
    <3>1. Backbone = {"tables", "indexes"} /\ Backbone \cap BloatViews = {}
      BY DEF Backbone, BloatViews
    <3>2. "tables" \in got
      BY <1>4, <1>6, <2>1, <2>2, <3>1 DEF Spoilt
    <3>3. "indexes" \in got
      BY <1>4, <1>6, <2>1, <2>2, <3>1 DEF Spoilt
    <3>4. QED
      BY <3>1, <3>2, <3>3
  <2>4. shown' = Store(run.kind)
    BY <1>1, <1>6 DEF Tiers
  <2>5. QED
    BY <2>1, <2>3, <2>4 DEF Store
<1>7. Spoilt(failed) => \E view \in Backbone : FailedOfItself(view)
  BY <1>3 DEF Spoilt
<1>8. QED
  BY <1>5, <1>6, <1>7

\* Only the end of a collection changes what is shown, and then of the slow
\* data no more goes than the statements.
LEMMA EndedKeeps ==
  ASSUME Finish, NEW view \in Slow, view \in shown, view \notin shown'
  PROVE  view = "statements" /\ Unavailable /\ run.kind = "statements"
<1>1. shown' = CASE run.kind \in Tiers   -> (shown \ Panels(run.kind)) \cup got
                 [] run.kind = "detail"  -> (shown \ Detail) \cup (IF run.error THEN {} ELSE got)
                 [] run.kind = "statements" /\ Unavailable -> shown \ {"statements"}
                 [] OTHER                -> Store(run.kind)
  BY DEF Finish
<1>2. Slow \cap Detail = {} /\ Slow \cap Panels(run.kind) = {}
  BY DEF Slow, Backbone, BloatViews, Detail, Relations, Panels
<1>3. view \notin Detail /\ view \notin Panels(run.kind)
  BY <1>2
<1>4. run.kind \notin Tiers /\ run.kind # "detail"
  BY <1>1, <1>3 DEF Tiers
<1>5. shown \subseteq Store(run.kind)
  BY DEF Store
<1>6. run.kind = "statements" /\ Unavailable
  BY <1>1, <1>4, <1>5
<1>7. shown' = shown \ {"statements"}
  BY <1>1, <1>4, <1>6
<1>8. QED
  BY <1>6, <1>7

\* Every step, with what it does to the collection under way and to the display.
LEMMA CollSteps ==
  ASSUME CollInv, [CollectionNext]_collectionVars
  PROVE  CollInv' /\ (Finish \/ (shown' = shown /\ ~Ended))
<1>1. CASE Connect \/ ConnectionLost \/ ServerReplaced \/ ExtensionChanged
  <2>1. shown' = shown
    BY <1>1 DEF Connect, ConnectionLost, ServerReplaced, ExtensionChanged
  <2>2. QED
    BY <1>1, <2>1, OutsideSteps DEF Ended
<1>2. CASE \E kind \in Kinds : StartCollection(kind)
  <2>1. PICK kind \in Kinds : StartCollection(kind)
    BY <1>2
  <2>2. shown' = shown
    BY <2>1 DEF StartCollection
  <2>3. QED
    BY <2>1, <2>2, StartSteps DEF Ended
<1>3. CASE Begin
  BY <1>3, BeginStep DEF Begin, Ended
<1>4. CASE BeginFails
  BY <1>4, BeginFailsStep DEF BeginFails, Ended
<1>5. CASE NothingSent
  BY <1>5, NothingSentStep DEF NothingSent, Ended
<1>6. CASE Query
  <2>1. shown' = shown
    BY <1>6 DEF Query
  <2>2. QED
    BY <1>6, <2>1, QueryStep DEF Ended
<1>7. CASE EndTransaction
  <2>1. shown' = shown
    BY <1>7 DEF EndTransaction
  <2>2. QED
    BY <1>7, <2>1, EndTxStep DEF Ended
<1>8. CASE Finish
  BY <1>8, FinishStep
<1>9. CASE UNCHANGED collectionVars
  <2>1. UNCHANGED <<version, extension, session, conn, run, got, failed, badge, shown>>
    BY <1>9 DEF collectionVars, serverVars, runVars
  <2>2. RunFits(run, got, failed, badge)'
    BY <2>1 DEF CollInv, RunFits, PlanFits
  <2>3. QED
    BY <2>1, <2>2 DEF CollInv, Ended
<1>10. QED
  BY <1>1, <1>2, <1>3, <1>4, <1>5, <1>6, <1>7, <1>8, <1>9 DEF CollectionNext

LEMMA CollInvAlways == CollectionSpec => []CollInv
<1>1. CollInv /\ [CollectionNext]_collectionVars => CollInv'
  BY CollSteps
<1>2. QED
  BY CollStart, <1>1, PTL DEF CollectionSpec

\* The queries fit the server they are sent to, whatever servers came before,
\* and the badge tells of a fault of a reported panel exactly when there is one
\* (for_version, collect_replication_tier2, collect_logical_replication).
THEOREM CollectionAlwaysSound == CollectionSpec => []CollectionSound
<1>1. CollInv => CollectionSound
  <2>1. SUFFICES ASSUME CollInv  PROVE BadgeHonest /\ VersionFits
    BY DEF CollectionSound
  <2>2. BadgeHonest
    BY <2>1 DEF CollInv, RunFits, BadgeFits, Faults, BadgeHonest
  <2>3. VersionFits
    <3>1. ASSUME Running, NEW i \in DOMAIN ThisTx  PROVE SentTo(version, ThisTx[i])
      <4>1. SentTo(session.version, ThisTx[i])
        BY <2>1, <3>1, RunningIs DEF PlanFits
      <4>2. session.version = version
        BY <2>1, <3>1 DEF CollInv, Running
      <4>3. QED
        BY <4>1, <4>2
    <3>2. QED
      BY <3>1 DEF VersionFits
  <2>4. QED
    BY <2>2, <2>3
<1>2. QED
  BY CollInvAlways, <1>1, PTL

\* A view that fails takes no other panel of its tier with it and no estimate
\* takes the tables; and what was once read of the slow data stays through
\* every error (collect_*, SchemaState::store, store_error).
THEOREM ErrorsAlwaysContained == CollectionSpec => ErrorsContained
<1>1. CollInv /\ [CollectionNext]_collectionVars =>
        [Ended =>
          /\ run.kind \in Tiers =>
               \A view \in Panels(run.kind) :
                 view \in shown' \/ FailedOfItself(view) \/ ~SentTo(version, view)
          /\ run.kind \in {"schema", "bloat"} =>
               Backbone \subseteq shown' \/ \E view \in Backbone : FailedOfItself(view)
        ]_collectionVars
  BY CollSteps, EndedAlone
<1>2. CollInv /\ [CollectionNext]_collectionVars =>
        [\A view \in Slow : view \in shown /\ view \notin shown' =>
           view = "statements" /\ Unavailable /\ run.kind = "statements"
        ]_collectionVars
  BY CollSteps, EndedKeeps
<1>3. QED
  BY CollInvAlways, <1>1, <1>2, PTL DEF CollectionSpec, ErrorsContained, FailsAlone, KeptThroughErrors

-----------------------------------------------------------------------------
(* The views of replication.                                               *)

\* What the query lists, in its order.
RepInv ==
  /\ DOMAIN slots \subseteq Slots /\ \A n \in DOMAIN slots : slots[n] \in SlotKinds
  /\ listed \in [1..Cardinality(DOMAIN slots) -> DOMAIN slots]
  /\ \A i, j \in 1..Cardinality(DOMAIN slots) : i # j => listed[i] # listed[j]
  /\ InQueryOrder(listed)
  /\ senders \in Nat

LEMMA RepStart == ReplicationInit => RepInv
<1> SUFFICES ASSUME ReplicationInit  PROVE RepInv
  OBVIOUS
<1>1. senders = 0 /\ slots = <<>> /\ listed = <<>> /\ DOMAIN slots = {}
  BY DEF ReplicationInit
<1>2. Cardinality(DOMAIN slots) = 0
  BY <1>1, FS_EmptySet
<1>3. QED
  BY <1>1, <1>2 DEF RepInv, InQueryOrder

LEMMA RepStep ==
  ASSUME RepInv, [ReplicationNext]_replicationVars
  PROVE  RepInv'
<1>1. CASE NewSnapshot
  <2>1. PICK some \in SUBSET Slots : slots' \in [some -> SlotKinds]
    BY <1>1 DEF NewSnapshot
  <2>2. listed' \in SetToSeqs(DOMAIN slots') /\ InQueryOrder(listed)' /\ senders' \in Nat
    BY <1>1, ReplicationBounds DEF NewSnapshot
  <2>3. /\ listed' \in [1..Cardinality(DOMAIN slots') -> DOMAIN slots']
        /\ \A i, j \in 1..Cardinality(DOMAIN slots') : i # j => listed'[i] # listed'[j]
    BY <2>2 DEF SetToSeqs
  <2>4. QED
    BY <2>1, <2>2, <2>3 DEF RepInv
<1>2. CASE UNCHANGED <<senders, slots, listed>>
  BY <1>2 DEF RepInv, InQueryOrder, Retained
<1>3. QED
  BY <1>1, <1>2 DEF ReplicationNext, replicationVars, Resize

LEMMA SortedIs ==
  ASSUME NEW S, IsFiniteSet(S), NEW ahead, Total(S, ahead)
  PROVE  /\ Sorted(S, ahead) \in [1..Cardinality(S) -> S]
         /\ \A p, q \in 1..Cardinality(S) : p < q =>
              Sorted(S, ahead)[p] \in ahead[Sorted(S, ahead)[q]] /\ Sorted(S, ahead)[p] # Sorted(S, ahead)[q]
         /\ \A x \in S : \E p \in 1..Cardinality(S) : Sorted(S, ahead)[p] = x
<1> DEFINE n == Cardinality(S)
           at(p) == CHOOSE x \in S : Cardinality(ahead[x]) = p - 1
           o == Sorted(S, ahead)
<1>1. n \in Nat /\ Placed(S, ahead)
  BY FS_CardinalityType, Places
<1>2. \A x \in S : Cardinality(ahead[x]) \in Nat
  <2>1. \A x \in S : ahead[x] \in SUBSET S
    BY DEF Total
  <2>2. QED
    BY <2>1, FS_Subset, FS_CardinalityType
<1>3. o = [p \in 1..n |-> at(p)]
  BY DEF Sorted
<1>4. ASSUME NEW p \in 1..n  PROVE at(p) \in S /\ Cardinality(ahead[at(p)]) = p - 1
  <2>1. PICK x \in S : 1 + Cardinality(ahead[x]) = p
    BY <1>1 DEF Placed
  <2>2. Cardinality(ahead[x]) = p - 1
    BY <1>2, <2>1
  <2>3. QED
    BY <2>2
<1> HIDE DEF at
<1>5. \A p \in 1..n : o[p] = at(p)
  BY <1>3
<1>6. o \in [1..n -> S]
  BY <1>3, <1>4
<1> HIDE DEF o
<1>7. \A p \in 1..n : o[p] \in S /\ Cardinality(ahead[o[p]]) = p - 1
  BY <1>4, <1>5
<1>8. ASSUME NEW p \in 1..n, NEW q \in 1..n, p < q  PROVE o[p] \in ahead[o[q]] /\ o[p] # o[q]
  <2>1. 1 + Cardinality(ahead[o[p]]) < 1 + Cardinality(ahead[o[q]])
    BY <1>1, <1>7, <1>8
  <2>2. o[p] \in ahead[o[q]]
    BY <1>1, <1>7, <2>1 DEF Placed
  <2>3. QED
    BY <1>7, <2>1, <2>2
<1>9. ASSUME NEW x \in S  PROVE \E p \in 1..n : o[p] = x
  <2>1. 1 + Cardinality(ahead[x]) \in 1..n
    BY <1>1 DEF Placed
  <2> DEFINE p == 1 + Cardinality(ahead[x])
  <2>2. p \in 1..n /\ 1 + Cardinality(ahead[o[p]]) = 1 + Cardinality(ahead[x])
    BY <1>2, <1>7, <2>1
  <2>3. o[p] = x
    BY <1>1, <1>7, <2>2 DEF Placed
  <2>4. QED
    BY <2>2, <2>3
<1>10. QED
  BY <1>6, <1>8, <1>9 DEF o

\* Two lists of the same things: what comes first in one cannot be of a kind
\* that is over earlier in the other.
TwoLists(n, S, a, b) ==
  /\ n \in Nat /\ a \in [1..n -> S] /\ b \in [1..n -> S]
  /\ \A p, q \in 1..n : p # q => a[p] # a[q]
  /\ \A x \in S : \E p \in 1..n : b[p] = x
Apart(n, a, b, i, low) ==
  i \in 1..n /\ (\A p \in 1..i : a[p] \in low) /\ \A q \in i..n : b[q] \notin low

LEMMA FirstOfBoth ==
  ASSUME NEW n, NEW S, NEW a, NEW b, TwoLists(n, S, a, b), NEW i, NEW low
  PROVE  ~Apart(n, a, b, i, low)
<1> SUFFICES ASSUME Apart(n, a, b, i, low)  PROVE FALSE
  OBVIOUS
<1> USE DEF TwoLists, Apart
<1> DEFINE f == [p \in 1..i |-> CHOOSE q \in 1..(i - 1) : b[q] = a[p]]
<1>1. ASSUME NEW p \in 1..i  PROVE f[p] \in 1..(i - 1) /\ b[f[p]] = a[p]
  <2>1. p \in 1..n
    OBVIOUS
  <2>2. PICK q \in 1..n : b[q] = a[p]
    BY <2>1
  <2>3. q \notin i..n
    BY <2>2
  <2>4. q \in 1..(i - 1)
    BY <2>3
  <2>5. QED
    BY <2>2, <2>4
<1>2. f \in [1..i -> 1..(i - 1)]
  BY <1>1
<1> DEFINE I == 1..i
           J == 1..(i - 1)
<1>3. IsFiniteSet(I) /\ IsFiniteSet(J) /\ Cardinality(J) < Cardinality(I)
  <2>1. i \in Int /\ i - 1 \in Int /\ 1 \in Int /\ i >= 1
    OBVIOUS
  <2>2. IsFiniteSet(1..i) /\ Cardinality(1..i) = i - 1 + 1
    BY <2>1, FS_Interval
  <2>3. IsFiniteSet(1..(i - 1)) /\ Cardinality(1..(i - 1)) = i - 1
    BY <2>1, FS_Interval
  <2>4. QED
    BY <2>1, <2>2, <2>3
<1>4. f \in [I -> J]
  BY <1>2
<1> HIDE DEF f
<1>5. \A p \in I : p \in 1..n /\ b[f[p]] = a[p]
  BY <1>1
<1> HIDE DEF I, J
<1>6. PICK p \in I, q \in I : p # q /\ f[p] = f[q]
  BY <1>3, <1>4, FS_PigeonHole
<1>7. a[p] = a[q] /\ p \in 1..n /\ q \in 1..n
  BY <1>5, <1>6
<1>8. QED
  BY <1>6, <1>7

\* No slot is of a worse kind than one that no slot may be worse than.
Worse(x, y) == \/ Rank(slots[x]) < Rank(slots[y])
               \/ Rank(slots[x]) = Rank(slots[y]) /\ Bytes(slots[x]) > Bytes(slots[y])

LEMMA KindsAre ==
  ASSUME RepInv, NEW x \in DOMAIN slots
  PROVE  /\ Rank(slots[x]) \in 0..2 /\ Bytes(slots[x]) \in Nat /\ Retained(x) \in Int
         /\ x \in Nat
         /\ \A y \in DOMAIN slots : Retained(y) >= Retained(x) => Bytes(slots[y]) >= Bytes(slots[x])
<1>1. \A y \in DOMAIN slots : y \in Nat /\ (slots[y].retained # None => slots[y].retained \in Nat)
  BY ReplicationBounds DEF RepInv
<1>2. Rank(slots[x]) \in 0..2
  BY DEF Rank
<1>3. \A y \in DOMAIN slots : /\ Bytes(slots[y]) \in Nat /\ Retained(y) \in Int
                              /\ Bytes(slots[y]) = IF Retained(y) = -1 THEN 0 ELSE Retained(y)
  BY <1>1 DEF Bytes, Retained
<1>4. \A y \in DOMAIN slots : Retained(y) >= -1
  BY <1>1 DEF Retained
<1>5. QED
  BY <1>1, <1>2, <1>3, <1>4

LEMMA ManyAre ==
  ASSUME RepInv
  PROVE  LET n == Cardinality(DOMAIN slots)
         IN  /\ IsFiniteSet(DOMAIN slots) /\ n \in Nat /\ DOMAIN listed = 1..n /\ Len(listed) = n
             /\ IsFiniteSet(1..n) /\ Cardinality(1..n) = n
             /\ \A x \in DOMAIN slots : \E p \in 1..n : listed[p] = x
<1> DEFINE n == Cardinality(DOMAIN slots)
<1>1. IsFiniteSet(DOMAIN slots) /\ n \in Nat
  BY ReplicationBounds, FS_Subset, FS_CardinalityType DEF RepInv
<1>2. IsFiniteSet(1..n) /\ Cardinality(1..n) = n
  BY <1>1, FS_Interval
<1>3. listed \in [1..n -> DOMAIN slots] /\ \A i, j \in 1..n : i # j => listed[i] # listed[j]
  BY DEF RepInv
<1> HIDE DEF n
<1>4. listed \in Injection(1..n, DOMAIN slots)
  BY <1>3 DEF Injection, IsInjective
<1>5. listed \in Surjection(1..n, DOMAIN slots)
  BY <1>1, <1>2, <1>4, FS_Injection DEF n
<1>6. \A x \in DOMAIN slots : \E p \in 1..n : listed[p] = x
  BY <1>5 DEF Surjection
<1>7. DOMAIN listed = 1..n /\ Len(listed) = n
  BY <1>1, <1>3
<1>8. QED
  BY <1>1, <1>2, <1>6, <1>7 DEF n

\* The order of the panel.
LEMMA RankedIs ==
  ASSUME RepInv
  PROVE  LET n == Cardinality(DOMAIN slots)
         IN  /\ Ranked \in [1..n -> DOMAIN slots] /\ Len(Ranked) = n
             /\ \A p, q \in 1..n : p # q => Ranked[p] # Ranked[q]
             /\ \A x \in DOMAIN slots : \E p \in 1..n : Ranked[p] = x
             /\ \A p, q \in 1..n : p < q =>
                  \/ Rank(slots[Ranked[p]]) < Rank(slots[Ranked[q]])
                  \/ Rank(slots[Ranked[p]]) = Rank(slots[Ranked[q]]) /\ Retained(Ranked[p]) >= Retained(Ranked[q])
<1> DEFINE n == Cardinality(DOMAIN slots)
           rank == [i \in DOMAIN listed |-> Rank(slots[listed[i]])]
           ahead == [i \in DOMAIN listed |->
                       {j \in DOMAIN listed : rank[j] < rank[i] \/ (rank[j] = rank[i] /\ j < i)}]
           order == Sorted(DOMAIN listed, ahead)
<1>1. /\ n \in Nat /\ DOMAIN listed = 1..n /\ IsFiniteSet(1..n) /\ Cardinality(1..n) = n
      /\ \A x \in DOMAIN slots : \E p \in 1..n : listed[p] = x
  BY ManyAre
<1>2. listed \in [1..n -> DOMAIN slots] /\ \A i, j \in 1..n : i # j => listed[i] # listed[j]
  BY DEF RepInv
<1>3. Ranked = [p \in DOMAIN order |-> listed[order[p]]]
  BY DEF Ranked
<1>4. \A i \in 1..n : rank[i] = Rank(slots[listed[i]]) /\ rank[i] \in Nat
  BY <1>1, <1>2, KindsAre
<1> HIDE DEF rank, n
<1>5. Total(1..n, ahead)
  BY <1>1, <1>4 DEF Total
<1>6. \A i, j \in 1..n : i \in ahead[j] => rank[i] < rank[j] \/ (rank[i] = rank[j] /\ i < j)
  BY <1>1
<1>7. order = Sorted(1..n, ahead)
  BY <1>1
<1> HIDE DEF ahead, order
<1>8. /\ order \in [1..n -> 1..n]
      /\ \A p, q \in 1..n : p < q => order[p] \in ahead[order[q]] /\ order[p] # order[q]
      /\ \A x \in 1..n : \E p \in 1..n : order[p] = x
  <2> DEFINE D == 1..n
  <2>1. IsFiniteSet(D) /\ Cardinality(D) = n /\ Total(D, ahead) /\ order = Sorted(D, ahead)
    BY <1>1, <1>5, <1>7
  <2> HIDE DEF D
  <2>2. /\ order \in [1..Cardinality(D) -> D]
        /\ \A p, q \in 1..Cardinality(D) : p < q => order[p] \in ahead[order[q]] /\ order[p] # order[q]
        /\ \A x \in D : \E p \in 1..Cardinality(D) : order[p] = x
    BY <2>1, SortedIs
  <2>3. QED
    BY <2>1, <2>2 DEF D
<1>9. Ranked \in [1..n -> DOMAIN slots] /\ \A p \in 1..n : Ranked[p] = listed[order[p]]
  BY <1>2, <1>3, <1>8
<1>10. Len(Ranked) = n
  BY <1>1, <1>9
<1>11. ASSUME NEW p \in 1..n, NEW q \in 1..n, p < q
       PROVE  /\ Ranked[p] # Ranked[q]
              /\ \/ Rank(slots[Ranked[p]]) < Rank(slots[Ranked[q]])
                 \/ Rank(slots[Ranked[p]]) = Rank(slots[Ranked[q]]) /\ Retained(Ranked[p]) >= Retained(Ranked[q])
  <2>1. order[p] \in 1..n /\ order[q] \in 1..n /\ order[p] # order[q] /\ order[p] \in ahead[order[q]]
    BY <1>8, <1>11
  <2>2. \/ rank[order[p]] < rank[order[q]]
        \/ rank[order[p]] = rank[order[q]] /\ order[p] < order[q]
    BY <1>6, <2>1
  <2>3. order[p] < order[q] => Retained(Ranked[p]) >= Retained(Ranked[q])
    BY <1>1, <1>9, <2>1 DEF RepInv, InQueryOrder
  <2>4. QED
    BY <1>2, <1>4, <1>9, <2>1, <2>2, <2>3
<1>12. ASSUME NEW p \in 1..n, NEW q \in 1..n, p # q  PROVE Ranked[p] # Ranked[q]
  <2>1. p < q \/ q < p
    BY <1>12
  <2>2. QED
    BY <1>11, <2>1
<1>13. \A x \in DOMAIN slots : \E p \in 1..n : Ranked[p] = x
  <2>1. ASSUME NEW x \in DOMAIN slots  PROVE \E p \in 1..n : Ranked[p] = x
    <3>1. PICK i \in 1..n : listed[i] = x
      BY <1>1
    <3>2. PICK p \in 1..n : order[p] = i
      BY <1>8
    <3>3. QED
      BY <1>9, <3>1, <3>2
  <2>2. QED
    BY <2>1
<1>14. QED
  BY <1>9, <1>10, <1>11, <1>12, <1>13 DEF n

\* The order of the lens.
LEMMA LensIs ==
  ASSUME RepInv
  PROVE  LET n == Cardinality(DOMAIN slots)
         IN  /\ LensOrder \in [1..n -> DOMAIN slots]
             /\ \A p, q \in 1..n : p # q => LensOrder[p] # LensOrder[q]
             /\ \A x \in DOMAIN slots : \E p \in 1..n : LensOrder[p] = x
             /\ \A p, q \in 1..n : p < q => ~Worse(LensOrder[q], LensOrder[p])
<1> DEFINE n == Cardinality(DOMAIN slots)
           S == DOMAIN slots
           ahead == [y \in S |-> {x \in S : LensBefore(x, y)}]
           o == LensOrder
<1>1. IsFiniteSet(S) /\ n \in Nat
  BY ManyAre
<1>2. o = Sorted(S, ahead)
  BY DEF LensOrder
<1>3. \A x \in S : x \in Nat /\ Rank(slots[x]) \in Nat /\ Bytes(slots[x]) \in Nat
  BY KindsAre
<1>4. /\ \A x \in S : ~LensBefore(x, x)
      /\ \A x, y, z \in S : LensBefore(x, y) /\ LensBefore(y, z) => LensBefore(x, z)
      /\ \A x, y \in S : x # y => LensBefore(x, y) \/ LensBefore(y, x)
      /\ \A x, y \in S : LensBefore(x, y) => ~Worse(y, x)
  BY <1>3 DEF LensBefore, Worse
<1> HIDE DEF S
<1>5. Total(S, ahead)
  BY <1>4 DEF Total
<1>6. \A x, y \in S : x \in ahead[y] => LensBefore(x, y)
  OBVIOUS
<1> HIDE DEF ahead, o
<1>7. /\ o \in [1..n -> S]
      /\ \A p, q \in 1..n : p < q => o[p] \in ahead[o[q]] /\ o[p] # o[q]
      /\ \A x \in S : \E p \in 1..n : o[p] = x
  BY <1>1, <1>2, <1>5, SortedIs DEF S
<1> HIDE DEF n
<1>8. \A p, q \in 1..n : p < q => ~Worse(o[q], o[p])
  BY <1>4, <1>6, <1>7
<1>9. \A p, q \in 1..n : p # q => o[p] # o[q]
  <2>1. ASSUME NEW p \in 1..n, NEW q \in 1..n, p # q  PROVE o[p] # o[q]
    <3>1. p < q \/ q < p
      BY <2>1
    <3>2. QED
      BY <1>7, <3>1
  <2>2. QED
    BY <2>1
<1>10. QED
  BY <1>7, <1>8, <1>9 DEF n, o, S

LEMMA MinOfTwo ==
  ASSUME NEW x \in Nat, NEW y \in Nat
  PROVE  Min({x, y}) \in Nat /\ Min({x, y}) = IF x <= y THEN x ELSE y
<1> DEFINE m == IF x <= y THEN x ELSE y
<1>1. m \in {x, y} /\ \A z \in {x, y} : m <= z
  OBVIOUS
<1>2. \A o \in {x, y} : (\A z \in {x, y} : o <= z) => o = m
  OBVIOUS
<1> HIDE DEF m
<1>3. Min({x, y}) = m
  BY <1>1, <1>2 DEF Min
<1>4. QED
  BY <1>3 DEF m

LEMMA BothAgree == RepInv => ViewsAgree
<1> SUFFICES ASSUME RepInv, NEW i \in 1..Min({Len(listed), SlotsShown})
             PROVE  /\ Rank(slots[Ranked[i]]) = Rank(slots[LensOrder[i]])
                    /\ Bytes(slots[Ranked[i]]) = Bytes(slots[LensOrder[i]])
  BY DEF ViewsAgree
<1> DEFINE n == Cardinality(DOMAIN slots)
           S == DOMAIN slots
<1>1. n \in Nat /\ i \in 1..n
  <2>1. Len(listed) = n /\ n \in Nat /\ SlotsShown \in Nat
    BY ManyAre, ReplicationBounds
  <2>2. Min({Len(listed), SlotsShown}) <= n /\ Min({Len(listed), SlotsShown}) \in Nat
    BY <2>1, MinOfTwo
  <2>3. QED
    BY <2>1, <2>2
<1>2. /\ Ranked \in [1..n -> S]
      /\ \A p, q \in 1..n : p # q => Ranked[p] # Ranked[q]
      /\ \A x \in S : \E p \in 1..n : Ranked[p] = x
      /\ \A p, q \in 1..n : p < q =>
           \/ Rank(slots[Ranked[p]]) < Rank(slots[Ranked[q]])
           \/ Rank(slots[Ranked[p]]) = Rank(slots[Ranked[q]]) /\ Retained(Ranked[p]) >= Retained(Ranked[q])
  BY RankedIs
<1>3. /\ LensOrder \in [1..n -> S]
      /\ \A p, q \in 1..n : p # q => LensOrder[p] # LensOrder[q]
      /\ \A x \in S : \E p \in 1..n : LensOrder[p] = x
      /\ \A p, q \in 1..n : p < q => ~Worse(LensOrder[q], LensOrder[p])
  BY LensIs
<1>4. \A x \in S : /\ Rank(slots[x]) \in Nat /\ Bytes(slots[x]) \in Nat
                   /\ \A y \in S : Retained(y) >= Retained(x) => Bytes(slots[y]) >= Bytes(slots[x])
  BY KindsAre
<1>5. \A p, q \in 1..n : p < q => ~Worse(Ranked[q], Ranked[p])
  BY <1>2, <1>4 DEF Worse
<1>6. \A x, y, z \in S : ~Worse(y, x) /\ Worse(y, z) => Worse(x, z)
  BY <1>4 DEF Worse
<1>7. \A x \in S : ~Worse(x, x)
  BY <1>4 DEF Worse
<1> DEFINE a == Ranked[i]
           b == LensOrder[i]
<1>8. a \in S /\ b \in S
  BY <1>1, <1>2, <1>3
<1> HIDE DEF n, S
<1>9. ASSUME Worse(a, b)  PROVE FALSE
  <2> DEFINE low == {x \in S : Worse(x, b)}
  <2>1. \A p \in 1..i : Ranked[p] \in low
    <3>1. ASSUME NEW p \in 1..i  PROVE Ranked[p] \in S /\ Worse(Ranked[p], b)
      <4>1. p \in 1..n /\ (p < i \/ p = i)
        BY <1>1
      <4>2. Ranked[p] \in S
        BY <1>2, <4>1
      <4>3. ~Worse(a, Ranked[p])
        BY <1>1, <1>2, <1>5, <1>7, <4>1, <4>2
      <4>4. QED
        BY <1>6, <1>8, <1>9, <4>2, <4>3
    <3>2. QED
      BY <3>1
  <2>2. \A q \in i..n : LensOrder[q] \notin low
    <3>1. ASSUME NEW q \in i..n  PROVE ~Worse(LensOrder[q], b)
      <4>1. q \in 1..n /\ (i < q \/ i = q)
        BY <1>1
      <4>2. QED
        BY <1>1, <1>3, <1>7, <4>1
    <3>2. QED
      BY <3>1
  <2> HIDE DEF low
  <2>3. TwoLists(n, S, Ranked, LensOrder) /\ Apart(n, Ranked, LensOrder, i, low)
    BY <1>1, <1>2, <1>3, <2>1, <2>2 DEF TwoLists, Apart
  <2>4. QED
    BY <2>3, FirstOfBoth
<1>10. ASSUME Worse(b, a)  PROVE FALSE
  <2> DEFINE low == {x \in S : Worse(x, a)}
  <2>1. \A p \in 1..i : LensOrder[p] \in low
    <3>1. ASSUME NEW p \in 1..i  PROVE LensOrder[p] \in S /\ Worse(LensOrder[p], a)
      <4>1. p \in 1..n /\ (p < i \/ p = i)
        BY <1>1
      <4>2. LensOrder[p] \in S
        BY <1>3, <4>1
      <4>3. ~Worse(b, LensOrder[p])
        BY <1>1, <1>3, <1>7, <4>1, <4>2
      <4>4. QED
        BY <1>6, <1>8, <1>10, <4>2, <4>3
    <3>2. QED
      BY <3>1
  <2>2. \A q \in i..n : Ranked[q] \notin low
    <3>1. ASSUME NEW q \in i..n  PROVE ~Worse(Ranked[q], a)
      <4>1. q \in 1..n /\ (i < q \/ i = q)
        BY <1>1
      <4>2. QED
        BY <1>1, <1>2, <1>5, <1>7, <4>1
    <3>2. QED
      BY <3>1
  <2> HIDE DEF low
  <2>3. TwoLists(n, S, LensOrder, Ranked) /\ Apart(n, LensOrder, Ranked, i, low)
    BY <1>1, <1>2, <1>3, <2>1, <2>2 DEF TwoLists, Apart
  <2>4. QED
    BY <2>3, FirstOfBoth
<1>11. QED
  BY <1>4, <1>8, <1>9, <1>10 DEF Worse

-----------------------------------------------------------------------------
(* What the panel's cap leaves out.                                        *)

Lists(c, names, n, cap, kind, more) ==
  /\ Len(c) \in Nat /\ DOMAIN c = 1..Len(c)
  /\ \A i \in 1..Len(c) : \/ i <= cap /\ i <= n /\ c[i] = Line(kind, names[i])
                          \/ i > cap /\ c[i].kind = more
  /\ \A i \in 1..n : i <= cap => i <= Len(c)

\* The lines of a part of the panel, in any set T they are from.
LEMMA CappedIs ==
  ASSUME NEW n \in Nat, NEW V, NEW names \in [1..n -> V], NEW cap \in Nat, NEW kind, NEW more,
         NEW T, \A x \in V : Line(kind, x) \in T, \A x \in Int : Line(more, x) \in T
  PROVE  /\ Capped(names, cap, kind, more) \in Seq(T)
         /\ Lists(Capped(names, cap, kind, more), names, n, cap, kind, more)
<1> DEFINE m == Min({Len(names), cap})
           A == [i \in 1..m |-> Line(kind, names[i])]
           B == IF Len(names) > cap THEN << Line(more, Len(names) - cap) >> ELSE <<>>
           c == Capped(names, cap, kind, more)
<1>1. Len(names) = n
  OBVIOUS
<1>2. m \in Nat /\ m = IF n <= cap THEN n ELSE cap
  BY <1>1, MinOfTwo
<1>3. c = A \o B
  BY DEF Capped
<1> HIDE DEF m
<1>4. \A i \in 1..m : Line(kind, names[i]) \in T
  BY <1>2
<1>5. A \in Seq(T) /\ Len(A) = m /\ \A i \in 1..m : A[i] = Line(kind, names[i])
  BY <1>2, <1>4
<1> HIDE DEF A, c
<1>6. CASE n <= cap
  <2>1. B = <<>>
    BY <1>1, <1>6
  <2>2. c = A
    BY <1>3, <1>5, <2>1
  <2>3. QED
    BY <1>2, <1>5, <1>6, <2>2 DEF Lists, c
<1>7. CASE ~(n <= cap)
  <2> DEFINE last == Line(more, n - cap)
  <2>1. B = << last >> /\ last \in T /\ last.kind = more
    BY <1>1, <1>7 DEF Line
  <2> HIDE DEF B, last
  <2>2. B \in Seq(T) /\ Len(B) = 1 /\ B[1].kind = more /\ 1 \in 1..Len(B)
    BY <2>1
  <2>3. Joined(T, A, B, c)
    <3>1. Of(T, A) /\ Of(T, B)
      BY <1>5, <2>2 DEF Of
    <3>2. QED
      BY <1>3, <3>1, JoinIs
  <2>4. c \in Seq(T) /\ Len(c) = m + 1 /\ (\A i \in 1..m : c[i] = A[i]) /\ c[m + 1] = B[1]
    BY <1>5, <2>2, <2>3 DEF Joined, Of
  <2>5. m = cap /\ DOMAIN c = 1..(m + 1)
    BY <1>2, <1>7, <2>4
  <2>6. ASSUME NEW i \in 1..Len(c)
        PROVE  \/ i <= cap /\ i <= n /\ c[i] = Line(kind, names[i])
               \/ i > cap /\ c[i].kind = more
    <3>1. CASE i \in 1..m
      BY <1>5, <1>7, <2>4, <2>5, <3>1
    <3>2. CASE i = m + 1
      BY <2>2, <2>4, <2>5, <3>2
    <3>3. QED
      BY <1>2, <2>4, <3>1, <3>2
  <2>7. QED
    BY <1>2, <2>4, <2>5, <2>6 DEF Lists, c
<1>8. QED
  BY <1>6, <1>7

\* The slots of the panel are the first of the ranking.
LEMMA PanelIs ==
  ASSUME RepInv
  PROVE  InPanel = {Ranked[p] : p \in {k \in 1..Cardinality(DOMAIN slots) : k <= SlotsShown}}
<1> DEFINE n == Cardinality(DOMAIN slots)
           S == DOMAIN slots
           K == {"sender", "more sender", "slot", "more slot", "hint"}
           X == S \cup Int \cup {None}
           T == [kind : K, of : X]
           ones == [i \in 1..senders |-> i]
           A == Capped(ones, SendersShown, "sender", "more sender")
           B == Capped(Ranked, SlotsShown, "slot", "more slot")
           H == IF senders > SendersShown \/ Len(listed) > SlotsShown THEN << Line("hint", None) >> ELSE <<>>
           L == Lines
<1>1. n \in Nat /\ SendersShown \in Nat /\ SlotsShown \in Nat /\ senders \in Nat
  BY ManyAre, ReplicationBounds DEF RepInv
<1>2. L = (A \o B) \o H
  BY DEF Lines
<1>3. Ranked \in [1..n -> S]
  BY RankedIs
<1> HIDE DEF n, S
<1>4. /\ \A x \in Int : /\ Line("sender", x) \in T /\ Line("more sender", x) \in T
                         /\ Line("more slot", x) \in T
      /\ \A x \in S : Line("slot", x) \in T
      /\ Line("hint", None) \in T
  <2> HIDE DEF K, X
  <2>1. \A kind \in K, x \in X : Line(kind, x) \in T
    BY DEF Line
  <2> HIDE DEF T
  <2>2. QED
    BY <2>1 DEF K, X
<1>5. ones \in [1..senders -> Int]
  BY <1>1
<1> HIDE DEF T, ones
<1>6. A \in Seq(T) /\ Lists(A, ones, senders, SendersShown, "sender", "more sender")
  BY <1>1, <1>4, <1>5, CappedIs
<1>7. B \in Seq(T) /\ Lists(B, Ranked, n, SlotsShown, "slot", "more slot")
  BY <1>1, <1>3, <1>4, CappedIs
<1>8. H \in Seq(T) /\ \A i \in 1..Len(H) : H[i].kind = "hint"
  <2> DEFINE last == Line("hint", None)
  <2>1. H = << last >> \/ H = <<>>
    OBVIOUS
  <2>2. last \in T /\ last.kind = "hint"
    BY <1>4 DEF Line
  <2> HIDE DEF H, last
  <2>3. CASE H = <<>>
    BY <2>3
  <2>4. CASE H = << last >>
    BY <2>2, <2>4
  <2>5. QED
    BY <2>1, <2>3, <2>4
<1> HIDE DEF A, B, H, L
<1> DEFINE AB == A \o B
<1>9. Joined(T, A, B, AB)
  <2>1. Of(T, A) /\ Of(T, B)
    BY <1>6, <1>7 DEF Of
  <2>2. QED
    BY <2>1, JoinIs
<1> HIDE DEF AB
<1>10. Joined(T, AB, H, L)
  <2>1. Of(T, AB) /\ Of(T, H)
    BY <1>8, <1>9 DEF Of, Joined
  <2>2. L = AB \o H
    BY <1>2 DEF AB
  <2>3. QED
    BY <2>1, <2>2, JoinIs
<1>11. Len(A) \in Nat /\ Len(B) \in Nat /\ Len(H) \in Nat
  <2>1. \A s : s \in Seq(T) => Len(s) \in Nat
    OBVIOUS
  <2>2. A \in Seq(T) /\ B \in Seq(T) /\ H \in Seq(T)
    BY <1>6, <1>7, <1>8
  <2>3. QED
    BY <2>2
<1>12. /\ DOMAIN L = 1..(Len(A) + Len(B) + Len(H))
       /\ \A i \in 1..Len(A) : L[i] = A[i]
       /\ \A i \in 1..Len(B) : L[Len(A) + i] = B[i]
       /\ \A i \in 1..Len(H) : L[Len(A) + Len(B) + i] = H[i]
  <2>1. /\ Len(AB) = Len(A) + Len(B)
        /\ \A i \in 1..Len(A) : AB[i] = A[i]
        /\ \A i \in 1..Len(B) : AB[Len(A) + i] = B[i]
    BY <1>9 DEF Joined
  <2>2. /\ DOMAIN L = 1..(Len(AB) + Len(H))
        /\ \A i \in 1..Len(AB) : L[i] = AB[i]
        /\ \A i \in 1..Len(H) : L[Len(AB) + i] = H[i]
    BY <1>10 DEF Joined
  <2>3. \A i \in 1..Len(A) : i \in 1..Len(AB)
    BY <1>11, <2>1
  <2>4. \A i \in 1..Len(B) : Len(A) + i \in 1..Len(AB)
    BY <1>11, <2>1
  <2>5. QED
    BY <1>11, <2>1, <2>2, <2>3, <2>4
<1>13. ASSUME NEW k \in DOMAIN L, L[k].kind = "slot"
       PROVE  \E p \in 1..n : p <= SlotsShown /\ L[k].of = Ranked[p]
  <2>1. CASE k \in 1..Len(A)
    <3>1. L[k] = A[k] /\ (A[k] = Line("sender", ones[k]) \/ A[k].kind = "more sender")
      BY <1>6, <1>11, <1>12, <2>1 DEF Lists
    <3>2. L[k].kind = "sender" \/ L[k].kind = "more sender"
      <4>1. Line("sender", ones[k]).kind = "sender"
        BY DEF Line
      <4>2. QED
        BY <3>1, <4>1
    <3>3. QED
      BY <1>13, <3>2
  <2>2. ASSUME NEW j \in 1..Len(B), k = Len(A) + j
        PROVE  \E p \in 1..n : p <= SlotsShown /\ L[k].of = Ranked[p]
    <3>1. L[k] = B[j]
      BY <1>11, <1>12, <2>2
    <3>2. B[j].kind # "more slot"
      BY <1>13, <3>1
    <3>3. j <= SlotsShown /\ j <= n /\ B[j] = Line("slot", Ranked[j])
      BY <1>7, <3>2 DEF Lists
    <3>4. j \in 1..n /\ B[j].of = Ranked[j]
      BY <1>1, <1>11, <1>12, <3>3 DEF Line
    <3>5. QED
      BY <3>1, <3>3, <3>4
  <2>3. ASSUME NEW j \in 1..Len(H), k = Len(A) + Len(B) + j  PROVE FALSE
    <3>1. L[k] = H[j] /\ H[j].kind = "hint"
      BY <1>8, <1>11, <1>12, <2>3
    <3>2. QED
      BY <1>13, <3>1
  <2>4. k \in 1..Len(A) \/ k - Len(A) \in 1..Len(B) \/ k - (Len(A) + Len(B)) \in 1..Len(H)
    BY <1>11, <1>12
  <2>5. CASE k - Len(A) \in 1..Len(B)
    <3>1. k = Len(A) + (k - Len(A))
      BY <1>11, <1>12
    <3>2. QED
      BY <2>2, <2>5, <3>1
  <2>6. CASE k - (Len(A) + Len(B)) \in 1..Len(H)
    <3>1. k = Len(A) + Len(B) + (k - (Len(A) + Len(B)))
      BY <1>11, <1>12
    <3>2. QED
      BY <2>3, <2>6, <3>1
  <2>7. QED
    BY <2>1, <2>4, <2>5, <2>6
<1>14. ASSUME NEW p \in 1..n, p <= SlotsShown
       PROVE  \E k \in DOMAIN L : L[k].kind = "slot" /\ L[k].of = Ranked[p]
  <2>1. p <= Len(B)
    BY <1>7, <1>14 DEF Lists
  <2>2. p \in 1..Len(B)
    BY <1>1, <1>11, <1>12, <2>1
  <2>3. B[p] = Line("slot", Ranked[p])
    <3>1. ~(p > SlotsShown)
      BY <1>1, <1>14
    <3>2. QED
      BY <1>7, <2>2, <3>1 DEF Lists
  <2>4. Len(A) + p \in DOMAIN L /\ L[Len(A) + p] = B[p]
    BY <1>11, <1>12, <2>2
  <2>5. B[p].kind = "slot" /\ B[p].of = Ranked[p]
    BY <2>3 DEF Line
  <2>6. QED
    BY <2>4, <2>5
<1>15. InPanel = {L[i].of : i \in {k \in DOMAIN L : L[k].kind = "slot"}}
  BY DEF InPanel, L
<1>16. QED
  BY <1>13, <1>14, <1>15 DEF n

LEMMA TailIsCalm == RepInv => CalmTailClipped
<1> SUFFICES ASSUME RepInv, NEW x \in InPanel, NEW y \in DOMAIN slots \ InPanel
             PROVE  \/ Rank(slots[x]) < Rank(slots[y])
                    \/ Rank(slots[x]) = Rank(slots[y]) /\ Retained(x) >= Retained(y)
  BY DEF CalmTailClipped
<1> DEFINE n == Cardinality(DOMAIN slots)
<1>1. InPanel = {Ranked[p] : p \in {k \in 1..n : k <= SlotsShown}}
  BY PanelIs
<1>2. /\ \A z \in DOMAIN slots : \E p \in 1..n : Ranked[p] = z
      /\ \A p, q \in 1..n : p < q =>
           \/ Rank(slots[Ranked[p]]) < Rank(slots[Ranked[q]])
           \/ Rank(slots[Ranked[p]]) = Rank(slots[Ranked[q]]) /\ Retained(Ranked[p]) >= Retained(Ranked[q])
  BY RankedIs
<1>3. n \in Nat /\ SlotsShown \in Nat
  BY ManyAre, ReplicationBounds
<1> HIDE DEF n
<1>4. PICK p \in 1..n : p <= SlotsShown /\ x = Ranked[p]
  BY <1>1
<1>5. PICK q \in 1..n : Ranked[q] = y
  BY <1>2
<1>6. ~(q <= SlotsShown)
  BY <1>1, <1>5
<1>7. p < q
  BY <1>3, <1>4, <1>6
<1>8. QED
  BY <1>2, <1>4, <1>5, <1>7

\* Whatever the slots, the panel leaves out the calm tail only and judges as
\* the lens does (replication_lines, resort_replication).
THEOREM WorstAlwaysFirst == ReplicationSpec => []WorstFirst
<1>1. ReplicationInit => RepInv
  BY RepStart
<1>2. RepInv /\ [ReplicationNext]_replicationVars => RepInv'
  BY RepStep
<1>3. RepInv => WorstFirst
  BY BothAgree, TailIsCalm DEF WorstFirst
<1>4. QED
  BY <1>1, <1>2, <1>3, PTL DEF ReplicationSpec

-----------------------------------------------------------------------------
(* Lock rows.                                                              *)

LockRows == [pid : Backends, by : {by \in Seq(Pids) : by # <<>>}]
LocksTyped == Of(LockRows, locks)

LEMMA LockStepTyped ==
  ASSUME LocksTyped, [TreeNext]_locks
  PROVE  LocksTyped'
<1>1. locks \in Seq(LockRows)
  BY DEF LocksTyped, Of
<1>2. ASSUME NEW p \in Backends, NEW by \in Blockings(p), BeginsToWait(p, by)
      PROVE  locks' \in Seq(LockRows)
  <2> DEFINE row == [pid |-> p, by |-> by]
  <2>1. by \in Seq(Pids) /\ by # <<>>
    BY DEF Blockings
  <2>2. <<row>> \in Seq(LockRows)
    BY <2>1 DEF LockRows
  <2>3. PICK i \in 1..(Len(locks) + 1) : locks' = InsertAt(locks, i, row)
    BY <1>2 DEF BeginsToWait
  <2> HIDE DEF row
  <2>4. SubSeq(locks, 1, i - 1) \in Seq(LockRows) /\ SubSeq(locks, i, Len(locks)) \in Seq(LockRows)
    BY <1>1
  <2>5. QED
    BY <2>2, <2>3, <2>4 DEF InsertAt
<1>3. ASSUME NEW i \in DOMAIN locks, Granted(i) PROVE locks' \in Seq(LockRows)
  <2>1. SubSeq(locks, 1, i - 1) \in Seq(LockRows) /\ SubSeq(locks, i + 1, Len(locks)) \in Seq(LockRows)
    BY <1>1
  <2>2. QED
    BY <1>3, <2>1 DEF Granted, RemoveAt
<1>4. QED
  BY <1>1, <1>2, <1>3 DEF TreeNext, LocksTyped, Of

LEMMA PidsAre ==
  /\ Backends \subseteq Pids /\ IsFiniteSet(Pids) /\ Cardinality(Pids) \in Nat
<1>1. IsFiniteSet(Pids)
  BY BackendsType, FS_AddElement DEF Pids
<1>2. QED
  BY <1>1, FS_CardinalityType DEF Pids

\* The wait graph: whom a session waits for, first of all the first.
First(p) == RowOfPid(p).by[1]

LEMMA WaitsAre ==
  ASSUME LocksTyped
  PROVE  /\ Waiting \subseteq Backends /\ Waiting \subseteq Pids
         /\ \A p : BlockersOf(p) \subseteq Pids
         /\ \A p \in Waiting : First(p) \in BlockersOf(p) /\ First(p) \in Pids
         /\ \A p : p \notin Waiting => BlockersOf(p) = {}
<1>1. locks \in Seq(LockRows) /\ \A i \in DOMAIN locks : locks[i] \in LockRows
  BY DEF LocksTyped, Of
<1>2. ASSUME NEW p \in Waiting
      PROVE  /\ p \in Backends /\ BlockersOf(p) \subseteq Pids
             /\ First(p) \in BlockersOf(p)
  <2>1. PICK i \in DOMAIN locks : locks[i].pid = p
    BY <1>2 DEF Waiting
  <2>2. p \in Backends
    BY <1>1, <2>1 DEF LockRows
  <2> DEFINE at == CHOOSE j \in DOMAIN locks : locks[j].pid = p
  <2>3. at \in DOMAIN locks
    BY <2>1
  <2>4. RowOfPid(p) = locks[at]
    BY DEF RowOfPid
  <2> HIDE DEF at
  <2>5. RowOfPid(p).by \in Seq(Pids) /\ RowOfPid(p).by # <<>>
    BY <1>1, <2>3, <2>4 DEF LockRows
  <2> DEFINE by == RowOfPid(p).by
  <2>6. BlockersOf(p) = {by[n] : n \in DOMAIN by} /\ First(p) = by[1]
    BY <1>2 DEF BlockersOf, First
  <2> HIDE DEF by
  <2>7. by \in Seq(Pids) /\ by # <<>>
    BY <2>5 DEF by
  <2>8. 1 \in DOMAIN by /\ \A n \in DOMAIN by : by[n] \in Pids
    BY <2>7
  <2>9. QED
    BY <2>2, <2>6, <2>8
<1>3. \A p : p \notin Waiting => BlockersOf(p) = {}
  BY DEF BlockersOf
<1>4. QED
  BY <1>2, <1>3, PidsAre

-----------------------------------------------------------------------------
(* Sets that grow.                                                         *)

\* A set that grows no more often than it may has stopped growing.
LEMMA Saturates ==
  ASSUME NEW U, IsFiniteSet(U), NEW N \in Nat, Cardinality(U) <= N, NEW f,
         \A k \in 0..N : f[k] \in SUBSET U, f[0] # {},
         \A k \in 1..N : f[k - 1] \subseteq f[k]
  PROVE  \E k \in 1..N : f[k] = f[k - 1]
<1>1. SUFFICES ASSUME \A k \in 1..N : f[k] # f[k - 1] PROVE FALSE
  OBVIOUS
<1> DEFINE S == {k \in Nat : k <= N => Cardinality(f[k]) >= k + 1}
<1>2. \A k \in 0..N : /\ IsFiniteSet(f[k]) /\ Cardinality(f[k]) \in Nat
                      /\ Cardinality(f[k]) <= Cardinality(U)
  BY FS_Subset, FS_CardinalityType
<1>3. 0 \in S
  <2>1. Cardinality(f[0]) # 0
    BY <1>2, FS_EmptySet
  <2>2. QED
    BY <1>2, <2>1
<1>4. ASSUME NEW k \in Nat, k \in S PROVE k + 1 \in S
  <2>1. SUFFICES ASSUME k + 1 <= N PROVE Cardinality(f[k + 1]) >= k + 2
    OBVIOUS
  <2>2. k + 1 \in 1..N /\ k \in 0..N /\ k + 1 \in 0..N /\ (k + 1) - 1 = k
    BY <2>1
  <2>3. f[k] \in SUBSET f[k + 1] /\ f[k + 1] # f[k]
    BY <1>1, <2>2
  <2>4. IsFiniteSet(f[k + 1]) /\ Cardinality(f[k]) \in Nat /\ Cardinality(f[k + 1]) \in Nat
    BY <1>2, <2>2
  <2>5. Cardinality(f[k]) <= Cardinality(f[k + 1]) /\ Cardinality(f[k + 1]) # Cardinality(f[k])
    BY <2>3, <2>4, FS_Subset
  <2>6. Cardinality(f[k]) >= k + 1
    BY <1>4, <2>1
  <2>7. QED
    BY <2>4, <2>5, <2>6
<1> HIDE DEF S
<1>5. N \in S
  BY <1>3, <1>4, Induction
<1>6. Cardinality(U) \in Nat /\ N \in 0..N
  BY FS_CardinalityType
<1>7. QED
  BY <1>2, <1>5, <1>6 DEF S

-----------------------------------------------------------------------------
(* Above a session.                                                        *)

LEMMA EndsIs ==
  ASSUME LocksTyped, NEW p \in Pids
  PROVE  LET n == Cardinality(Pids)
         IN  \E f : /\ \A k \in 0..n : f[k] \in SUBSET Pids
                    /\ f[0] = {p} /\ \A k \in 1..n : f[k] = Above(f[k - 1])
                    /\ Ends(p) = f[n]
<1> DEFINE n == Cardinality(Pids)
           T == SUBSET Pids
           rule == [k \in 1..n |-> [S \in T |-> Above(S)]]
           Climbs(f) == f = [k \in 0..n |-> IF k = 0 THEN {p} ELSE Above(f[k - 1])]
<1>1. n \in Nat /\ {p} \in T /\ rule \in [1..n -> [T -> T]]
      /\ \A k \in 1..n : \A S \in T : rule[k][S] = Above(S)
  <2>1. \A S \in T : Above(S) \in T
    BY WaitsAre DEF Above
  <2> HIDE DEF T, n
  <2>2. rule \in [1..n -> [T -> T]] /\ \A k \in 1..n : \A S \in T : rule[k][S] = Above(S)
    BY <2>1
  <2>3. QED
    BY <2>2, PidsAre DEF T, n
<1>2. ASSUME NEW g, Climbs(g) PROVE Recurs(g, n, T, {p}, rule)
  <2> DEFINE e(k) == IF k = 0 THEN {p} ELSE Above(g[k - 1])
  <2>1. g = [k \in 0..n |-> e(k)]
    BY <1>2
  <2>2. e(0) = {p} /\ \A k \in 1..n : e(k) = Above(g[k - 1])
    BY <1>1
  <2> HIDE DEF e
  <2>3. g = [k \in 0..n |-> g[k]] /\ g[0] = {p} /\ \A k \in 1..n : g[k] = Above(g[k - 1])
    BY <1>1, <2>1, <2>2
  <2> HIDE DEF n, T, rule
  <2>4. \A k \in 1..n : g[k - 1] \in T => g[k] = rule[k][g[k - 1]]
    BY <1>1, <2>3
  <2>5. QED
    BY <1>1, <2>3, <2>4, Recurses
<1>3. PICK f : Recurs(f, n, T, {p}, rule)
  <2> HIDE DEF n, T, rule
  <2>1. QED
    BY <1>1, Recursion
<1>4. ASSUME NEW h, Recurs(h, n, T, {p}, rule)
      PROVE  /\ h \in [0..n -> T] /\ h[0] = {p}
             /\ \A k \in 1..n : h[k] = Above(h[k - 1])
  <2> HIDE DEF n, T, rule
  <2>1. h \in [0..n -> T] /\ h[0] = {p} /\ \A k \in 1..n : h[k] = rule[k][h[k - 1]]
    BY <1>4 DEF Recurs
  <2>2. \A k \in 1..n : k - 1 \in 0..n
    BY <1>1
  <2>3. QED
    BY <1>1, <2>1, <2>2
<1>5. Climbs(f)
  <2> DEFINE e(k) == IF k = 0 THEN {p} ELSE Above(f[k - 1])
  <2>1. ASSUME NEW k \in 0..n PROVE f[k] = e(k)
    <3>1. k = 0 \/ k \in 1..n
      BY <1>1
    <3> HIDE DEF n, T, rule
    <3>2. QED
      BY <1>3, <1>4, <3>1
  <2> HIDE DEF e
  <2>2. f = [k \in 0..n |-> e(k)]
    BY <1>3, <1>4, <2>1
  <2>3. QED
    BY <2>2 DEF e
<1> DEFINE up == CHOOSE g : Climbs(g)
<1>6. Climbs(up)
  BY <1>5
<1>7. Ends(p) = up[n]
  BY DEF Ends
<1> HIDE DEF up, Climbs
<1>8. /\ up \in [0..n -> T] /\ up[0] = {p}
      /\ \A k \in 1..n : up[k] = Above(up[k - 1])
  BY <1>2, <1>4, <1>6
<1>9. QED
  BY <1>7, <1>8

Closed(S) == \A q \in S : BlockersOf(q) \subseteq S

\* Who stands above a session: the session, who blocks it, who blocks those,
\* and nobody else.
LEMMA EndsAre ==
  ASSUME LocksTyped, NEW p \in Pids
  PROVE  /\ p \in Ends(p) /\ Ends(p) \subseteq Pids /\ Closed(Ends(p))
         /\ \A S : p \in S /\ Closed(S) => Ends(p) \subseteq S
<1> DEFINE n == Cardinality(Pids)
<1>1. PICK f : /\ \A k \in 0..n : f[k] \in SUBSET Pids
               /\ f[0] = {p} /\ \A k \in 1..n : f[k] = Above(f[k - 1])
               /\ Ends(p) = f[n]
  BY EndsIs
<1>2. n \in Nat /\ IsFiniteSet(Pids)
  BY PidsAre
<1>3. \A k \in 1..n : f[k - 1] \subseteq f[k]
  BY <1>1 DEF Above
<1>4. PICK m \in 1..n : f[m] = f[m - 1]
  <2> HIDE DEF n
  <2>1. n = Cardinality(Pids)
    BY DEF n
  <2>2. QED
    BY <1>1, <1>2, <1>3, <2>1, Saturates
<1> HIDE DEF n
<1>5. \A k \in Nat : m + k <= n => f[m + k] = f[m]
  <2> DEFINE S == {k \in Nat : m + k <= n => f[m + k] = f[m]}
  <2>1. 0 \in S
    BY <1>2
  <2>2. ASSUME NEW k \in Nat, k \in S PROVE k + 1 \in S
    <3>1. SUFFICES ASSUME m + (k + 1) <= n PROVE f[m + (k + 1)] = f[m]
      OBVIOUS
    <3>2. m + (k + 1) \in 1..n /\ (m + (k + 1)) - 1 = m + k /\ m + k <= n
      BY <1>2, <3>1
    <3>3. f[m + (k + 1)] = Above(f[m + k]) /\ f[m + k] = f[m]
      BY <1>1, <2>2, <3>2
    <3>4. QED
      BY <1>1, <1>4, <3>3
  <2> HIDE DEF S
  <2>3. Nat \subseteq S
    BY <2>1, <2>2, Induction
  <2>4. QED
    BY <2>3 DEF S
<1>6. f[n] = f[m]
  <2>1. n - m \in Nat /\ m + (n - m) = n
    BY <1>2
  <2>2. QED
    BY <1>5, <2>1
<1>7. Closed(Ends(p))
  <2>1. f[m] = Above(f[m])
    BY <1>1, <1>4
  <2>2. QED
    BY <1>1, <1>6, <2>1 DEF Closed, Above
<1>8. p \in Ends(p)
  <2> DEFINE S == {k \in Nat : k <= n => p \in f[k]}
  <2>1. 0 \in S
    BY <1>1
  <2>2. ASSUME NEW k \in Nat, k \in S PROVE k + 1 \in S
    <3>1. SUFFICES ASSUME k + 1 <= n PROVE p \in f[k + 1]
      OBVIOUS
    <3>2. k + 1 \in 1..n /\ (k + 1) - 1 = k /\ p \in f[k]
      BY <1>2, <2>2, <3>1
    <3>3. QED
      BY <1>3, <3>2
  <2> HIDE DEF S
  <2>3. n \in S
    BY <1>2, <2>1, <2>2, Induction
  <2>4. QED
    BY <1>1, <1>2, <2>3 DEF S
<1>9. ASSUME NEW C, p \in C, Closed(C) PROVE Ends(p) \subseteq C
  <2> DEFINE S == {k \in Nat : k <= n => f[k] \subseteq C}
  <2>1. 0 \in S
    BY <1>1, <1>9
  <2>2. ASSUME NEW k \in Nat, k \in S PROVE k + 1 \in S
    <3>1. SUFFICES ASSUME k + 1 <= n PROVE f[k + 1] \subseteq C
      OBVIOUS
    <3>2. k + 1 \in 1..n /\ (k + 1) - 1 = k /\ f[k] \subseteq C
      BY <1>2, <2>2, <3>1
    <3>3. f[k + 1] = Above(f[k])
      BY <1>1, <3>2
    <3>4. QED
      BY <1>9, <3>2, <3>3 DEF Above, Closed
  <2> HIDE DEF S
  <2>3. n \in S
    BY <1>2, <2>1, <2>2, Induction
  <2>4. QED
    BY <1>1, <1>2, <2>3 DEF S
<1>10. QED
  BY <1>1, <1>2, <1>7, <1>8, <1>9

\* Who stands above one that blocks a session stands above the session.
LEMMA EndsGrow ==
  ASSUME LocksTyped, NEW w \in Pids, NEW b \in BlockersOf(w)
  PROVE  b \in Pids /\ b \in Ends(w) /\ Ends(b) \subseteq Ends(w)
<1>1. b \in Pids
  BY WaitsAre
<1>2. w \in Ends(w) /\ Closed(Ends(w))
  BY EndsAre
<1>3. b \in Ends(w)
  BY <1>2 DEF Closed
<1>4. QED
  BY <1>1, <1>2, <1>3, EndsAre

-----------------------------------------------------------------------------
(* Paths.                                                                  *)

Distinct(s) == \A i, j \in 1..Len(s) : s[i] = s[j] => i = j
WaitPath(s) == \A i \in 1..(Len(s) - 1) : s[i] \in BlockersOf(s[i + 1])

\* Down the waits from r, never twice to one session.
IsPath(r, s) == s \in Seq(Pids) /\ s # <<>> /\ s[1] = r /\ WaitPath(s) /\ Distinct(s)

LEMMA WaitersAre ==
  ASSUME LocksTyped, NEW b, NEW w
  PROVE  w \in WaitersOf(b) <=> b \in BlockersOf(w)
BY WaitsAre DEF WaitersOf

\* A sequence that says no session twice is no longer than there are sessions.
LEMMA DistinctShort ==
  ASSUME NEW s \in Seq(Pids), Distinct(s)
  PROVE  Len(s) <= Cardinality(Pids)
<1>1. SUFFICES ASSUME Cardinality(Pids) < Len(s) PROVE FALSE
  BY PidsAre
<1> DEFINE I == 1..Len(s)
<1>2. Len(s) \in Nat /\ s \in [I -> Pids]
  OBVIOUS
<1>3. IsFiniteSet(I) /\ Cardinality(I) = Len(s)
  BY <1>2, FS_Interval
<1>4. \E i, j \in I : i # j /\ s[i] = s[j]
  <2> HIDE DEF I
  <2>1. QED
    BY <1>1, <1>2, <1>3, PidsAre, FS_PigeonHole
<1>5. QED
  BY <1>4 DEF Distinct

LEMMA LongerPath ==
  ASSUME LocksTyped, NEW r, NEW s, IsPath(r, s), NEW w, s[Len(s)] \in BlockersOf(w),
         \A i \in DOMAIN s : s[i] # w
  PROVE  /\ IsPath(r, Append(s, w)) /\ Append(s, w) \in Longer(s)
         /\ w \in Pids /\ Len(Append(s, w)) = Len(s) + 1
<1>1. s \in Seq(Pids) /\ s # <<>> /\ s[1] = r /\ WaitPath(s) /\ Distinct(s) /\ DOMAIN s = 1..Len(s)
  BY DEF IsPath
<1>2. w \in WaitersOf(s[Len(s)]) /\ w \in Pids
  BY WaitersAre, WaitsAre DEF WaitersOf
<1> DEFINE t == Append(s, w)
<1>3. /\ t \in Seq(Pids) /\ t # <<>> /\ Len(t) = Len(s) + 1 /\ t[1] = s[1] /\ t[Len(s) + 1] = w
      /\ \A i \in 1..Len(s) : t[i] = s[i]
  BY <1>1, <1>2
<1> HIDE DEF t
<1>4. WaitPath(t)
  <2>1. ASSUME NEW i \in 1..Len(s) PROVE t[i] \in BlockersOf(t[i + 1])
    <3>1. CASE i = Len(s)
      BY <1>3, <3>1
    <3>2. CASE i # Len(s)
      <4>1. Len(s) \in Nat
        BY <1>1
      <4>2. i \in 1..(Len(s) - 1) /\ i + 1 \in 1..Len(s)
        BY <3>2, <4>1
      <4>3. QED
        BY <1>1, <1>3, <4>2 DEF WaitPath
    <3>3. QED
      BY <3>1, <3>2
  <2>2. QED
    BY <1>1, <1>3, <2>1 DEF WaitPath
<1>5. Distinct(t)
  <2>1. ASSUME NEW i \in 1..Len(t), NEW j \in 1..Len(t), t[i] = t[j] PROVE i = j
    <3>1. (i \in 1..Len(s) \/ i = Len(s) + 1) /\ (j \in 1..Len(s) \/ j = Len(s) + 1)
      BY <1>1, <1>3
    <3>2. QED
      BY <1>1, <1>3, <2>1, <3>1 DEF Distinct
  <2>2. QED
    BY <2>1 DEF Distinct
<1>6. IsPath(r, t)
  BY <1>1, <1>3, <1>4, <1>5 DEF IsPath
<1>7. t \in Longer(s)
  BY <1>2 DEF Longer, t
<1>8. QED
  BY <1>2, <1>3, <1>6, <1>7 DEF t

LEMMA PathFront ==
  ASSUME NEW r, NEW s, IsPath(r, s), NEW m \in 1..Len(s)
  PROVE  LET t == SubSeq(s, 1, m)
         IN  IsPath(r, t) /\ Len(t) = m /\ \A i \in 1..m : t[i] = s[i]
<1> DEFINE t == SubSeq(s, 1, m)
<1>1. s \in Seq(Pids) /\ s # <<>> /\ s[1] = r /\ WaitPath(s) /\ Distinct(s)
  BY DEF IsPath
<1>2. t \in Seq(Pids) /\ Len(t) = m /\ \A i \in 1..m : t[i] = s[i]
  BY <1>1
<1>3. m \in Nat /\ 1 <= m /\ m <= Len(s) /\ Len(s) \in Nat
  BY <1>1
<1> HIDE DEF t
<1>4. t # <<>> /\ t[1] = r
  BY <1>1, <1>2, <1>3
<1>5. WaitPath(t)
  <2>1. ASSUME NEW i \in 1..(m - 1) PROVE t[i] \in BlockersOf(t[i + 1])
    <3>1. i \in 1..(Len(s) - 1) /\ i \in 1..m /\ i + 1 \in 1..m
      BY <1>3
    <3>2. QED
      BY <1>1, <1>2, <3>1 DEF WaitPath
  <2>2. QED
    BY <1>2, <2>1 DEF WaitPath
<1>6. Distinct(t)
  <2>1. \A i \in 1..m : i \in 1..Len(s)
    BY <1>3
  <2>2. QED
    BY <1>1, <1>2, <2>1 DEF Distinct
<1>7. QED
  BY <1>2, <1>4, <1>5, <1>6 DEF IsPath, t

\* Every session of a path stands above its last.
LEMMA PathEnds ==
  ASSUME LocksTyped, NEW r, NEW s, IsPath(r, s)
  PROVE  \A i \in 1..Len(s) : s[i] \in Ends(s[Len(s)])
<1>1. s \in Seq(Pids) /\ s # <<>> /\ WaitPath(s) /\ \A i \in 1..Len(s) : s[i] \in Pids
  BY DEF IsPath
<1> DEFINE S == {k \in Nat : k + 1 <= Len(s) => \A i \in 1..(k + 1) : s[i] \in Ends(s[k + 1])}
<1>2. 0 \in S
  <2>1. 1 \in 1..Len(s) /\ \A i \in 1..(0 + 1) : i = 1
    BY <1>1
  <2>2. s[1] \in Ends(s[0 + 1])
    BY <1>1, <2>1, EndsAre
  <2>3. QED
    BY <2>1, <2>2
<1>3. ASSUME NEW k \in Nat, k \in S PROVE k + 1 \in S
  <2>1. SUFFICES ASSUME (k + 1) + 1 <= Len(s), NEW i \in 1..((k + 1) + 1)
                 PROVE  s[i] \in Ends(s[(k + 1) + 1])
    OBVIOUS
  <2> DEFINE w == s[(k + 1) + 1]
             b == s[k + 1]
  <2>2. /\ k + 1 \in 1..(Len(s) - 1) /\ (k + 1) + 1 \in 1..Len(s)
        /\ (i \in 1..(k + 1) \/ i = (k + 1) + 1)
    BY <1>1, <2>1
  <2>3. w \in Pids /\ b \in BlockersOf(w)
    BY <1>1, <2>2 DEF WaitPath
  <2>4. \A j \in 1..(k + 1) : s[j] \in Ends(b)
    BY <1>3, <2>1
  <2> HIDE DEF w, b
  <2>5. Ends(b) \subseteq Ends(w) /\ w \in Ends(w)
    BY <2>3, EndsGrow, EndsAre
  <2>6. s[i] \in Ends(w)
    BY <2>2, <2>4, <2>5 DEF w
  <2>7. QED
    BY <2>6 DEF w
<1> HIDE DEF S
<1>4. Nat \subseteq S
  BY <1>2, <1>3, Induction
<1>5. Len(s) - 1 \in S /\ (Len(s) - 1) + 1 = Len(s)
  BY <1>1, <1>4
<1>6. QED
  BY <1>1, <1>5 DEF S

-----------------------------------------------------------------------------
(* The paths of a tree.                                                    *)

More(have) == have \cup UNION {Longer(path) : path \in have}

LEMMA PathsFromIs ==
  ASSUME LocksTyped, NEW r \in Pids
  PROVE  LET n == Cardinality(Pids)
         IN  \E f : /\ \A k \in 0..n : f[k] \in SUBSET {s \in Seq(Pids) : s # <<>>}
                    /\ f[0] = {<<r>>} /\ \A k \in 1..n : f[k] = More(f[k - 1])
                    /\ PathsFrom(r) = f[n]
<1> DEFINE n == Cardinality(Pids)
           T == SUBSET {s \in Seq(Pids) : s # <<>>}
           rule == [k \in 1..n |-> [S \in T |-> More(S)]]
           Grows(f) == f = [k \in 0..n |-> IF k = 0 THEN {<<r>>}
                              ELSE f[k - 1] \cup UNION {Longer(path) : path \in f[k - 1]}]
<1>1. n \in Nat /\ {<<r>>} \in T /\ rule \in [1..n -> [T -> T]]
      /\ \A k \in 1..n : \A S \in T : rule[k][S] = More(S)
  <2>1. ASSUME NEW S \in T PROVE More(S) \in T
    <3>1. ASSUME NEW s \in S, NEW t \in Longer(s) PROVE t \in Seq(Pids) /\ t # <<>>
      <4>1. PICK w \in WaitersOf(s[Len(s)]) : t = Append(s, w)
        BY <3>1 DEF Longer
      <4>2. w \in Pids /\ s \in Seq(Pids)
        BY WaitsAre DEF WaitersOf
      <4>3. QED
        BY <4>1, <4>2
    <3>2. QED
      BY <3>1 DEF More
  <2>2. {<<r>>} \in T
    OBVIOUS
  <2> HIDE DEF T, n
  <2>3. rule \in [1..n -> [T -> T]] /\ \A k \in 1..n : \A S \in T : rule[k][S] = More(S)
    BY <2>1
  <2>4. QED
    BY <2>2, <2>3, PidsAre DEF n
<1>2. ASSUME NEW g, Grows(g) PROVE Recurs(g, n, T, {<<r>>}, rule)
  <2> DEFINE e(k) == IF k = 0 THEN {<<r>>} ELSE g[k - 1] \cup UNION {Longer(path) : path \in g[k - 1]}
  <2>1. g = [k \in 0..n |-> e(k)]
    BY <1>2
  <2>2. e(0) = {<<r>>} /\ \A k \in 1..n : e(k) = More(g[k - 1])
    BY <1>1 DEF More
  <2> HIDE DEF e
  <2>3. g = [k \in 0..n |-> g[k]] /\ g[0] = {<<r>>} /\ \A k \in 1..n : g[k] = More(g[k - 1])
    BY <1>1, <2>1, <2>2
  <2> HIDE DEF n, T, rule
  <2>4. \A k \in 1..n : g[k - 1] \in T => g[k] = rule[k][g[k - 1]]
    BY <1>1, <2>3
  <2>5. QED
    BY <1>1, <2>3, <2>4, Recurses
<1>3. PICK f : Recurs(f, n, T, {<<r>>}, rule)
  <2> HIDE DEF n, T, rule
  <2>1. QED
    BY <1>1, Recursion
<1>4. ASSUME NEW h, Recurs(h, n, T, {<<r>>}, rule)
      PROVE  /\ h \in [0..n -> T] /\ h[0] = {<<r>>}
             /\ \A k \in 1..n : h[k] = More(h[k - 1])
  <2> HIDE DEF n, T, rule
  <2>1. h \in [0..n -> T] /\ h[0] = {<<r>>} /\ \A k \in 1..n : h[k] = rule[k][h[k - 1]]
    BY <1>4 DEF Recurs
  <2>2. \A k \in 1..n : k - 1 \in 0..n
    BY <1>1
  <2>3. QED
    BY <1>1, <2>1, <2>2
<1>5. Grows(f)
  <2> DEFINE e(k) == IF k = 0 THEN {<<r>>} ELSE f[k - 1] \cup UNION {Longer(path) : path \in f[k - 1]}
  <2>1. ASSUME NEW k \in 0..n PROVE f[k] = e(k)
    <3>1. k = 0 \/ k \in 1..n
      BY <1>1
    <3>2. k \in 1..n => f[k] = f[k - 1] \cup UNION {Longer(path) : path \in f[k - 1]}
      <4> HIDE DEF n, T, rule
      <4>1. QED
        BY <1>3, <1>4 DEF More
    <3>3. f[0] = {<<r>>}
      <4> HIDE DEF n, T, rule
      <4>1. QED
        BY <1>3, <1>4
    <3> HIDE DEF n, T, rule
    <3>4. QED
      BY <1>1, <3>1, <3>2, <3>3
  <2> HIDE DEF e
  <2>2. f = [k \in 0..n |-> e(k)]
    BY <1>3, <1>4, <2>1
  <2>3. QED
    BY <2>2 DEF e
<1> DEFINE grown == CHOOSE g : Grows(g)
<1>6. Grows(grown)
  BY <1>5
<1>7. PathsFrom(r) = grown[n]
  BY DEF PathsFrom
<1> HIDE DEF grown, Grows
<1>8. /\ grown \in [0..n -> T] /\ grown[0] = {<<r>>}
      /\ \A k \in 1..n : grown[k] = More(grown[k - 1])
  BY <1>2, <1>4, <1>6
<1>9. QED
  BY <1>7, <1>8

\* A sequence of one is what is in it.
LEMMA OneLong ==
  ASSUME NEW T, NEW s \in Seq(T), s # <<>>, Len(s) <= 0 + 1
  PROVE  s = <<s[1]>>
<1>1. Len(s) \in Nat /\ Len(s) # 0
  OBVIOUS
<1>2. Len(s) = 1
  BY <1>1
<1>3. QED
  BY <1>2

\* The paths of a tree are the paths from its root, all of them.
LEMMA PathsAre ==
  ASSUME LocksTyped, NEW r \in Pids
  PROVE  \A s : s \in PathsFrom(r) <=> IsPath(r, s)
<1> DEFINE n == Cardinality(Pids)
<1>1. PICK f : /\ \A k \in 0..n : f[k] \in SUBSET {s \in Seq(Pids) : s # <<>>}
               /\ f[0] = {<<r>>} /\ \A k \in 1..n : f[k] = More(f[k - 1])
               /\ PathsFrom(r) = f[n]
  BY PathsFromIs
<1>2. n \in Nat
  BY PidsAre
<1>3. \A s : IsPath(r, s) => Len(s) \in Nat /\ 1 <= Len(s) /\ Len(s) <= n
  <2>1. ASSUME NEW s, IsPath(r, s) PROVE Len(s) \in Nat /\ 1 <= Len(s) /\ Len(s) <= n
    <3>1. s \in Seq(Pids) /\ s # <<>> /\ Distinct(s)
      BY <2>1 DEF IsPath
    <3>2. QED
      BY <3>1, DistinctShort
  <2>2. QED
    BY <2>1
<1> HIDE DEF n
<1>4. \A k \in Nat : k <= n => \A s : s \in f[k] => IsPath(r, s)
  <2> DEFINE S == {k \in Nat : k <= n => \A s : s \in f[k] => IsPath(r, s)}
  <2>1. 0 \in S
    <3>1. IsPath(r, <<r>>)
      BY DEF IsPath, WaitPath, Distinct
    <3>2. QED
      BY <1>1, <3>1
  <2>2. ASSUME NEW k \in Nat, k \in S PROVE k + 1 \in S
    <3>1. SUFFICES ASSUME k + 1 <= n, NEW s \in f[k + 1] PROVE IsPath(r, s)
      OBVIOUS
    <3>2. k + 1 \in 1..n /\ (k + 1) - 1 = k /\ k <= n
      BY <1>2, <3>1
    <3>3. f[k + 1] = More(f[k]) /\ \A t : t \in f[k] => IsPath(r, t)
      BY <1>1, <2>2, <3>2
    <3>4. CASE s \in f[k]
      BY <3>3, <3>4
    <3>5. CASE s \notin f[k]
      <4>1. PICK t \in f[k] : s \in Longer(t)
        BY <3>3, <3>5 DEF More
      <4>2. PICK w \in WaitersOf(t[Len(t)]) : s = Append(t, w) /\ \A i \in DOMAIN t : t[i] # w
        BY <4>1 DEF Longer
      <4>3. QED
        BY <3>3, <4>2, LongerPath, WaitersAre
    <3>6. QED
      BY <3>4, <3>5
  <2> HIDE DEF S
  <2>3. Nat \subseteq S
    BY <2>1, <2>2, Induction
  <2>4. QED
    BY <2>3 DEF S
<1>5. \A k \in Nat : k <= n => \A s : IsPath(r, s) /\ Len(s) <= k + 1 => s \in f[k]
  <2> DEFINE S == {k \in Nat : k <= n => \A s : IsPath(r, s) /\ Len(s) <= k + 1 => s \in f[k]}
  <2>1. 0 \in S
    <3>1. ASSUME NEW s, IsPath(r, s), Len(s) <= 0 + 1 PROVE s \in f[0]
      <4>1. s \in Seq(Pids) /\ s # <<>> /\ s[1] = r
        BY <3>1 DEF IsPath
      <4>2. s = <<s[1]>>
        BY <3>1, <4>1, OneLong
      <4>3. QED
        BY <1>1, <4>1, <4>2
    <3>2. QED
      BY <3>1
  <2>2. ASSUME NEW k \in Nat, k \in S PROVE k + 1 \in S
    <3>1. SUFFICES ASSUME k + 1 <= n, NEW s, IsPath(r, s), Len(s) <= (k + 1) + 1 PROVE s \in f[k + 1]
      OBVIOUS
    <3>2. k + 1 \in 1..n /\ (k + 1) - 1 = k /\ k <= n
      BY <1>2, <3>1
    <3>3. f[k + 1] = More(f[k]) /\ \A t : IsPath(r, t) /\ Len(t) <= k + 1 => t \in f[k]
      BY <1>1, <2>2, <3>2
    <3>4. CASE Len(s) <= k + 1
      BY <3>1, <3>3, <3>4 DEF More
    <3>5. CASE ~(Len(s) <= k + 1)
      <4>1. Len(s) = k + 2 /\ k + 1 \in 1..Len(s)
        BY <1>3, <3>1, <3>5
      <4> DEFINE t == SubSeq(s, 1, k + 1)
                 w == s[k + 2]
      <4>2. IsPath(r, t) /\ Len(t) = k + 1 /\ \A i \in 1..(k + 1) : t[i] = s[i]
        BY <3>1, <4>1, PathFront
      <4>3. s \in Seq(Pids) /\ WaitPath(s) /\ Distinct(s)
        BY <3>1 DEF IsPath
      <4>4. s = Append(t, w)
        BY <4>1, <4>3
      <4>5. s[k + 1] \in BlockersOf(w)
        <5>1. k + 1 \in 1..(Len(s) - 1) /\ (k + 1) + 1 = k + 2
          BY <4>1
        <5>2. s[k + 1] \in BlockersOf(s[(k + 1) + 1])
          BY <4>3, <5>1 DEF WaitPath
        <5>3. QED
          BY <5>1, <5>2
      <4>6. \A i \in 1..(k + 1) : s[i] # w
        <5>1. \A i \in 1..(k + 1) : i \in 1..Len(s) /\ k + 2 \in 1..Len(s) /\ i # k + 2
          BY <4>1
        <5>2. QED
          BY <4>3, <5>1 DEF Distinct
      <4> HIDE DEF t, w
      <4>7. DOMAIN t = 1..(k + 1) /\ k + 1 \in 1..(k + 1)
        BY <4>2 DEF IsPath
      <4>8. t[Len(t)] \in BlockersOf(w) /\ \A i \in DOMAIN t : t[i] # w
        BY <4>2, <4>5, <4>6, <4>7
      <4>9. s \in Longer(t) /\ t \in f[k]
        BY <3>3, <4>2, <4>4, <4>8, LongerPath
      <4>10. QED
        BY <3>3, <4>9 DEF More
    <3>6. QED
      BY <3>4, <3>5
  <2> HIDE DEF S
  <2>3. Nat \subseteq S
    BY <2>1, <2>2, Induction
  <2>4. QED
    BY <2>3 DEF S
<1>6. \A s : IsPath(r, s) => Len(s) <= n + 1
  BY <1>2, <1>3
<1>7. QED
  BY <1>1, <1>2, <1>4, <1>5, <1>6

\* A tree has a node of every session that its root stands above.
LEMMA ReachedIs ==
  ASSUME LocksTyped, NEW r \in Pids, NEW flag
  PROVE  \A w \in Pids : w \in Reached(Node(r, flag)) <=> r \in Ends(w)
<1> DEFINE R == Reached(Node(r, flag))
<1>1. \A w : w \in R <=> \E s : IsPath(r, s) /\ w = s[Len(s)]
  BY PathsAre DEF Reached, Node
<1> HIDE DEF R
<1>2. ASSUME NEW w \in Pids, w \in R PROVE r \in Ends(w)
  <2>1. PICK s : IsPath(r, s) /\ w = s[Len(s)]
    BY <1>1, <1>2
  <2>2. s[1] = r /\ 1 \in 1..Len(s)
    BY <2>1 DEF IsPath
  <2>3. QED
    BY <2>1, <2>2, PathEnds
<1>3. ASSUME NEW b \in R, NEW w, b \in BlockersOf(w) PROVE w \in R
  <2>1. PICK s : IsPath(r, s) /\ b = s[Len(s)]
    BY <1>1
  <2>2. s \in Seq(Pids) /\ DOMAIN s = 1..Len(s)
    BY <2>1 DEF IsPath
  <2>3. CASE \E i \in 1..Len(s) : s[i] = w
    <3>1. PICK i \in 1..Len(s) : s[i] = w
      BY <2>3
    <3> DEFINE t == SubSeq(s, 1, i)
    <3>2. IsPath(r, t) /\ Len(t) = i /\ \A j \in 1..i : t[j] = s[j]
      BY <2>1, PathFront
    <3> HIDE DEF t
    <3>3. t[Len(t)] = w
      BY <2>2, <3>1, <3>2
    <3>4. QED
      BY <1>1, <3>2, <3>3
  <2>4. CASE \A i \in 1..Len(s) : s[i] # w
    <3> DEFINE t == Append(s, w)
    <3>1. IsPath(r, t) /\ w \in Pids
      BY <1>3, <2>1, <2>2, <2>4, LongerPath
    <3>2. t[Len(t)] = w
      BY <2>2, <3>1
    <3> HIDE DEF t
    <3>3. QED
      BY <1>1, <3>1, <3>2
  <2>5. QED
    BY <2>3, <2>4
<1>4. r \in R
  <2>1. IsPath(r, <<r>>) /\ <<r>>[Len(<<r>>)] = r
    BY DEF IsPath, WaitPath, Distinct
  <2>2. QED
    BY <1>1, <2>1
<1>5. ASSUME NEW w \in Pids, w \notin R PROVE r \notin Ends(w)
  <2> DEFINE C == Pids \ R
  <2>1. Closed(C)
    BY <1>3, WaitsAre DEF Closed
  <2>2. w \in C /\ r \notin C
    BY <1>4, <1>5
  <2> HIDE DEF C
  <2>3. QED
    BY <2>1, <2>2, EndsAre
<1>6. QED
  BY <1>2, <1>5 DEF R

-----------------------------------------------------------------------------
(* The forest.                                                             *)

TreeNodes == [root : Pids, deadlock : BOOLEAN, paths : SUBSET Seq(Pids)]

LEMMA RowsAre ==
  ASSUME LocksTyped
  PROVE  /\ Len(locks) \in Nat /\ Waiting = {locks[k].pid : k \in 1..Len(locks)}
         /\ \A k \in 1..Len(locks) : locks[k].pid \in Waiting /\ locks[k].pid \in Pids
<1>1. Len(locks) \in Nat /\ DOMAIN locks = 1..Len(locks)
  BY DEF LocksTyped, Of
<1>2. Waiting = {locks[k].pid : k \in 1..Len(locks)}
  BY <1>1 DEF Waiting
<1>3. QED
  BY <1>1, <1>2, WaitsAre

LEMMA NodesAre ==
  ASSUME LocksTyped, NEW r \in Pids, NEW flag \in BOOLEAN
  PROVE  /\ Node(r, flag) \in TreeNodes
         /\ Node(r, flag).root = r /\ Node(r, flag).deadlock = flag
         /\ \A s : s \in Node(r, flag).paths <=> IsPath(r, s)
<1>1. \A s : s \in PathsFrom(r) <=> IsPath(r, s)
  BY PathsAre
<1>2. PathsFrom(r) \in SUBSET Seq(Pids)
  BY <1>1 DEF IsPath
<1>3. QED
  BY <1>1, <1>2 DEF Node, TreeNodes

LEMMA FreeTreesAre ==
  ASSUME LocksTyped
  PROVE  FreeTrees \subseteq TreeNodes /\ Blockers \subseteq Pids
<1>1. Blockers \subseteq Pids
  BY WaitsAre DEF Blockers
<1>2. QED
  BY <1>1, NodesAre DEF FreeTrees

LEMMA TreesIs ==
  ASSUME LocksTyped
  PROVE  LET n == Len(locks)
         IN  \E f : /\ \A k \in 0..n : f[k] \in SUBSET TreeNodes
                    /\ f[0] = FreeTrees
                    /\ \A k \in 1..n : f[k] = WithTreeOf(locks[k].pid, f[k - 1])
                    /\ Trees = f[n]
<1> DEFINE n == Len(locks)
           T == SUBSET TreeNodes
           rule == [k \in 1..n |-> [S \in T |-> WithTreeOf(locks[k].pid, S)]]
           Grows(f) == f = [k \in 0..n |-> IF k = 0 THEN FreeTrees ELSE WithTreeOf(locks[k].pid, f[k - 1])]
<1>1. n \in Nat /\ FreeTrees \in T /\ rule \in [1..n -> [T -> T]]
      /\ \A k \in 1..n : \A S \in T : rule[k][S] = WithTreeOf(locks[k].pid, S)
  <2>1. n \in Nat /\ \A k \in 1..n : locks[k].pid \in Pids
    BY RowsAre
  <2>2. \A k \in 1..n : \A S \in T : WithTreeOf(locks[k].pid, S) \in T
    <3>1. \A p \in Pids : Node(p, TRUE) \in TreeNodes
      BY NodesAre
    <3>2. QED
      BY <2>1, <3>1 DEF WithTreeOf
  <2>3. FreeTrees \in T
    BY FreeTreesAre
  <2> HIDE DEF T, n
  <2>4. rule \in [1..n -> [T -> T]]
        /\ \A k \in 1..n : \A S \in T : rule[k][S] = WithTreeOf(locks[k].pid, S)
    BY <2>2
  <2>5. QED
    BY <2>1, <2>3, <2>4
<1>2. ASSUME NEW g, Grows(g) PROVE Recurs(g, n, T, FreeTrees, rule)
  <2> DEFINE e(k) == IF k = 0 THEN FreeTrees ELSE WithTreeOf(locks[k].pid, g[k - 1])
  <2>1. g = [k \in 0..n |-> e(k)]
    BY <1>2
  <2>2. e(0) = FreeTrees /\ \A k \in 1..n : e(k) = WithTreeOf(locks[k].pid, g[k - 1])
    BY <1>1
  <2> HIDE DEF e
  <2>3. g = [k \in 0..n |-> g[k]] /\ g[0] = FreeTrees
        /\ \A k \in 1..n : g[k] = WithTreeOf(locks[k].pid, g[k - 1])
    BY <1>1, <2>1, <2>2
  <2> HIDE DEF n, T, rule
  <2>4. \A k \in 1..n : g[k - 1] \in T => g[k] = rule[k][g[k - 1]]
    BY <1>1, <2>3
  <2>5. QED
    BY <1>1, <2>3, <2>4, Recurses
<1>3. PICK f : Recurs(f, n, T, FreeTrees, rule)
  <2> HIDE DEF n, T, rule
  <2>1. QED
    BY <1>1, Recursion
<1>4. ASSUME NEW h, Recurs(h, n, T, FreeTrees, rule)
      PROVE  /\ h \in [0..n -> T] /\ h[0] = FreeTrees
             /\ \A k \in 1..n : h[k] = WithTreeOf(locks[k].pid, h[k - 1])
  <2> HIDE DEF n, T, rule
  <2>1. h \in [0..n -> T] /\ h[0] = FreeTrees /\ \A k \in 1..n : h[k] = rule[k][h[k - 1]]
    BY <1>4 DEF Recurs
  <2>2. \A k \in 1..n : k - 1 \in 0..n
    BY <1>1
  <2>3. QED
    BY <1>1, <2>1, <2>2
<1>5. Grows(f)
  <2> DEFINE e(k) == IF k = 0 THEN FreeTrees ELSE WithTreeOf(locks[k].pid, f[k - 1])
  <2>1. ASSUME NEW k \in 0..n PROVE f[k] = e(k)
    <3>1. k = 0 \/ (k \in 1..n /\ k # 0)
      BY <1>1
    <3> HIDE DEF n, T, rule
    <3>2. QED
      BY <1>3, <1>4, <3>1
  <2> HIDE DEF e
  <2>2. f = [k \in 0..n |-> e(k)]
    BY <1>3, <1>4, <2>1
  <2>3. QED
    BY <2>2 DEF e
<1> DEFINE grown == CHOOSE g : Grows(g)
<1>6. Grows(grown)
  BY <1>5
<1>7. Trees = grown[n]
  BY DEF Trees
<1> HIDE DEF grown, Grows
<1>8. /\ grown \in [0..n -> T] /\ grown[0] = FreeTrees
      /\ \A k \in 1..n : grown[k] = WithTreeOf(locks[k].pid, grown[k - 1])
  BY <1>2, <1>4, <1>6
<1>9. QED
  BY <1>7, <1>8

\* A tree that belongs: one of a free session that blocks, or one, flagged, of
\* a waiting session above whom only waiting ones stand.
Belongs(t) ==
  \/ \E r \in Blockers \ Waiting : t = Node(r, FALSE)
  \/ \E p \in Waiting : t = Node(p, TRUE) /\ Ends(p) \subseteq Waiting

\* Nobody but a blocker stands above a session, itself left aside.
LEMMA AboveBlock ==
  ASSUME LocksTyped, NEW p \in Pids
  PROVE  Ends(p) \subseteq Blockers \cup {p}
<1>1. Closed(Blockers \cup {p})
  BY WaitsAre DEF Closed, Blockers
<1>2. QED
  BY <1>1, EndsAre

LEMMA WithTreeBelongs ==
  ASSUME LocksTyped, NEW have, FreeTrees \subseteq have, \A t \in have : Belongs(t), NEW p \in Waiting
  PROVE  LET then == WithTreeOf(p, have)
         IN  /\ have \subseteq then /\ \A t \in then : Belongs(t)
             /\ \E t \in then : p \in Reached(t)
<1>1. p \in Pids /\ p \in Ends(p) /\ Ends(p) \subseteq Pids
  BY WaitsAre, EndsAre
<1>2. CASE p \in UNION {Reached(t) : t \in have}
  BY <1>2 DEF WithTreeOf
<1>3. CASE p \notin UNION {Reached(t) : t \in have}
  <2>1. WithTreeOf(p, have) = have \cup {Node(p, TRUE)}
    BY <1>3 DEF WithTreeOf
  <2>2. p \in Reached(Node(p, TRUE))
    BY <1>1, ReachedIs
  <2>3. ASSUME NEW q \in Ends(p), q \notin Waiting PROVE FALSE
    <3>1. q \in Blockers \ Waiting /\ q \in Pids
      BY <1>1, <2>3, AboveBlock
    <3>2. Node(q, FALSE) \in have
      BY <3>1 DEF FreeTrees
    <3>3. p \in Reached(Node(q, FALSE))
      BY <1>1, <2>3, <3>1, ReachedIs
    <3>4. QED
      BY <1>3, <3>2, <3>3
  <2>4. Belongs(Node(p, TRUE))
    BY <2>3 DEF Belongs
  <2>5. QED
    BY <2>1, <2>2, <2>4
<1>4. QED
  BY <1>2, <1>3

\* The trees are those of the free sessions that block and such as belong, and
\* every waiting session is in one.
LEMMA TreesAre ==
  ASSUME LocksTyped
  PROVE  /\ FreeTrees \subseteq Trees /\ \A t \in Trees : Belongs(t)
         /\ \A p \in Waiting : \E t \in Trees : p \in Reached(t)
<1> DEFINE n == Len(locks)
<1>1. PICK f : /\ \A k \in 0..n : f[k] \in SUBSET TreeNodes
               /\ f[0] = FreeTrees
               /\ \A k \in 1..n : f[k] = WithTreeOf(locks[k].pid, f[k - 1])
               /\ Trees = f[n]
  BY TreesIs
<1>2. n \in Nat /\ Waiting = {locks[k].pid : k \in 1..n}
  BY RowsAre
<1> HIDE DEF n
<1> DEFINE Grown(k) == /\ FreeTrees \subseteq f[k] /\ \A t \in f[k] : Belongs(t)
                       /\ \A j \in 1..k : \E t \in f[k] : locks[j].pid \in Reached(t)
           S == {k \in Nat : k <= n => Grown(k)}
<1>3. 0 \in S
  <2>1. \A t \in FreeTrees : Belongs(t)
    BY DEF Belongs, FreeTrees
  <2>2. 1..0 = {}
    OBVIOUS
  <2>3. QED
    BY <1>1, <2>1, <2>2
<1>4. ASSUME NEW k \in Nat, k \in S PROVE k + 1 \in S
  <2>1. SUFFICES ASSUME k + 1 <= n PROVE Grown(k + 1)
    OBVIOUS
  <2>2. k + 1 \in 1..n /\ (k + 1) - 1 = k /\ Grown(k)
    BY <1>2, <1>4, <2>1
  <2>3. f[k + 1] = WithTreeOf(locks[k + 1].pid, f[k]) /\ locks[k + 1].pid \in Waiting
    BY <1>1, <1>2, <2>2
  <2>4. /\ f[k] \subseteq f[k + 1] /\ \A t \in f[k + 1] : Belongs(t)
        /\ \E t \in f[k + 1] : locks[k + 1].pid \in Reached(t)
    BY <2>2, <2>3, WithTreeBelongs
  <2>5. \A j \in 1..(k + 1) : j \in 1..k \/ j = k + 1
    OBVIOUS
  <2>6. QED
    BY <2>2, <2>4, <2>5
<1> HIDE DEF S
<1>5. n \in S
  BY <1>2, <1>3, <1>4, Induction
<1>6. Grown(n)
  BY <1>2, <1>5 DEF S
<1>7. QED
  BY <1>1, <1>2, <1>6

\* What belongs is what its root reaches, by every path there is.
LEMMA BelongingIs ==
  ASSUME LocksTyped, NEW t, Belongs(t)
  PROVE  /\ t.root \in Pids /\ (t.deadlock <=> Ends(t.root) \subseteq Waiting)
         /\ \A s : s \in t.paths <=> IsPath(t.root, s)
<1>1. CASE \E r \in Blockers \ Waiting : t = Node(r, FALSE)
  <2>1. PICK r \in Blockers \ Waiting : t = Node(r, FALSE)
    BY <1>1
  <2>2. r \in Pids /\ r \in Ends(r)
    BY FreeTreesAre, EndsAre
  <2>3. t.root = r /\ t.deadlock = FALSE /\ \A s : s \in t.paths <=> IsPath(r, s)
    BY <2>1, <2>2, NodesAre
  <2>4. QED
    BY <2>2, <2>3
<1>2. CASE \E p \in Waiting : t = Node(p, TRUE) /\ Ends(p) \subseteq Waiting
  <2>1. PICK p \in Waiting : t = Node(p, TRUE) /\ Ends(p) \subseteq Waiting
    BY <1>2
  <2>2. p \in Pids
    BY WaitsAre
  <2>3. t.root = p /\ t.deadlock = TRUE /\ \A s : s \in t.paths <=> IsPath(p, s)
    BY <2>1, <2>2, NodesAre
  <2>4. QED
    BY <2>1, <2>2, <2>3
<1>3. QED
  BY <1>1, <1>2 DEF Belongs

\* Every wait is an edge of a tree, unless it closes a cycle.
LEMMA EdgesShown ==
  ASSUME LocksTyped, NEW w \in Waiting, NEW b \in BlockersOf(w), w \notin Ends(b)
  PROVE  \E t \in Trees : HasEdge(t, b, w)
<1>1. b \in Pids /\ b \in Blockers
  BY WaitsAre DEF Blockers
<1>2. PICK t \in Trees : b \in Reached(t)
  <2>1. CASE b \in Waiting
    BY <2>1, TreesAre
  <2>2. CASE b \notin Waiting
    <3>1. Node(b, FALSE) \in Trees
      BY <1>1, <2>2, TreesAre DEF FreeTrees
    <3>2. b \in Reached(Node(b, FALSE))
      BY <1>1, EndsAre, ReachedIs
    <3>3. QED
      BY <3>1, <3>2
  <2>3. QED
    BY <2>1, <2>2
<1>3. \A s : s \in t.paths <=> IsPath(t.root, s)
  BY TreesAre, BelongingIs
<1>4. PICK s \in t.paths : b = s[Len(s)]
  BY <1>2 DEF Reached
<1>5. IsPath(t.root, s) /\ s \in Seq(Pids) /\ s # <<>>
  BY <1>3, <1>4 DEF IsPath
<1>6. \A i \in DOMAIN s : s[i] # w
  <2>1. DOMAIN s = 1..Len(s)
    BY <1>5
  <2>2. QED
    BY <1>4, <1>5, <2>1, PathEnds
<1> DEFINE q == Append(s, w)
<1>7. IsPath(t.root, q) /\ Len(q) = Len(s) + 1 /\ w \in Pids
  BY <1>4, <1>5, <1>6, LongerPath
<1>8. Len(s) \in 1..(Len(q) - 1) /\ q[Len(s)] = b /\ q[Len(s) + 1] = w
  BY <1>4, <1>5, <1>7
<1> HIDE DEF q
<1>9. q \in t.paths
  BY <1>3, <1>7
<1>10. QED
  BY <1>8, <1>9 DEF HasEdge

-----------------------------------------------------------------------------
(* The chain.                                                              *)

\* From p to first blocker after first blocker; only the last may be a
\* session it had before.
IsChain(p, s) ==
  /\ s \in Seq(Pids) /\ s # <<>> /\ s[1] = p
  /\ \A i \in 1..(Len(s) - 1) : s[i] \in Waiting /\ s[i + 1] = First(s[i])
  /\ \A i, j \in 1..(Len(s) - 1) : s[i] = s[j] => i = j

LEMMA NoRepeat ==
  ASSUME NEW p, NEW s, IsChain(p, s), ~Repeats(s)
  PROVE  Distinct(s)
<1>1. s \in Seq(Pids) /\ Len(s) \in Nat
  BY DEF IsChain
<1>2. \A i \in 1..(Len(s) - 1) : s[i] # s[Len(s)]
  BY DEF Repeats
<1>3. \A i, j \in 1..(Len(s) - 1) : s[i] = s[j] => i = j
  BY DEF IsChain
<1>4. ASSUME NEW i \in 1..Len(s), NEW j \in 1..Len(s), s[i] = s[j] PROVE i = j
  <2>1. (i \in 1..(Len(s) - 1) \/ i = Len(s)) /\ (j \in 1..(Len(s) - 1) \/ j = Len(s))
    BY <1>1
  <2>2. QED
    BY <1>2, <1>3, <1>4, <2>1
<1>5. QED
  BY <1>4 DEF Distinct

LEMMA FurtherChain ==
  ASSUME LocksTyped, NEW p, NEW s, IsChain(p, s)
  PROVE  /\ IsChain(p, Further(s))
         /\ Repeats(s) \/ s[Len(s)] \notin Waiting => Further(s) = s
         /\ ~Repeats(s) /\ s[Len(s)] \in Waiting => Len(Further(s)) = Len(s) + 1
<1> DEFINE at == s[Len(s)]
           t == Append(s, First(at))
<1>1. s \in Seq(Pids) /\ s # <<>> /\ s[1] = p /\ Len(s) \in Nat /\ 1 <= Len(s)
  BY DEF IsChain
<1>2. CASE Repeats(s) \/ at \notin Waiting
  BY <1>2 DEF Further
<1>3. CASE ~Repeats(s) /\ at \in Waiting
  <2>1. Further(s) = t
    BY <1>3 DEF Further, First
  <2>2. First(at) \in Pids /\ Distinct(s)
    BY <1>3, WaitsAre, NoRepeat
  <2>3. /\ t \in Seq(Pids) /\ t # <<>> /\ Len(t) = Len(s) + 1 /\ t[Len(s) + 1] = First(at)
        /\ \A i \in 1..Len(s) : t[i] = s[i]
    BY <1>1, <2>2
  <2>4. at \in Waiting /\ at = s[Len(s)]
    BY <1>3
  <2> HIDE DEF t, at
  <2>5. ASSUME NEW i \in 1..Len(s) PROVE t[i] \in Waiting /\ t[i + 1] = First(t[i])
    <3>1. CASE i = Len(s)
      BY <2>3, <2>4, <3>1
    <3>2. CASE i # Len(s)
      <4>1. i \in 1..(Len(s) - 1) /\ i + 1 \in 1..Len(s)
        BY <1>1, <3>2
      <4>2. s[i] \in Waiting /\ s[i + 1] = First(s[i])
        BY <4>1 DEF IsChain
      <4>3. QED
        BY <2>3, <4>1, <4>2
    <3>3. QED
      BY <3>1, <3>2
  <2>6. \A i, j \in 1..Len(s) : t[i] = t[j] => i = j
    BY <2>2, <2>3 DEF Distinct
  <2>7. Len(t) - 1 = Len(s) /\ 1 \in 1..Len(s)
    BY <1>1, <2>3
  <2>8. t[1] = p
    BY <1>1, <2>3, <2>7
  <2>9. IsChain(p, t)
    BY <2>3, <2>5, <2>6, <2>7, <2>8 DEF IsChain
  <2>10. QED
    BY <1>3, <2>1, <2>3, <2>9 DEF at
<1>4. QED
  BY <1>2, <1>3

LEMMA ChainIs ==
  ASSUME LocksTyped, NEW p \in Waiting
  PROVE  LET n == Cardinality(Pids)
         IN  \E f : /\ f[0] = <<p>> /\ \A k \in 1..n : f[k] = Further(f[k - 1])
                    /\ BlockingChain(p) = [chain |-> f[n], deadlock |-> Repeats(f[n])]
<1> DEFINE n == Cardinality(Pids)
           T == {s \in Seq(Pids) : IsChain(p, s)}
           rule == [k \in 1..n |-> [s \in T |-> Further(s)]]
           Walks(f) == f = [k \in 0..n |-> IF k = 0 THEN <<p>> ELSE Further(f[k - 1])]
<1>1. n \in Nat /\ <<p>> \in T /\ rule \in [1..n -> [T -> T]]
      /\ \A k \in 1..n : \A s \in T : rule[k][s] = Further(s)
  <2>1. ASSUME NEW s \in T PROVE Further(s) \in T
    <3>1. IsChain(p, Further(s))
      BY FurtherChain
    <3>2. QED
      BY <3>1 DEF IsChain
  <2>2. <<p>> \in T
    BY WaitsAre DEF IsChain
  <2> HIDE DEF T, n
  <2>3. rule \in [1..n -> [T -> T]] /\ \A k \in 1..n : \A s \in T : rule[k][s] = Further(s)
    BY <2>1
  <2>4. QED
    BY <2>2, <2>3, PidsAre DEF n
<1>2. ASSUME NEW g, Walks(g) PROVE Recurs(g, n, T, <<p>>, rule)
  <2> DEFINE e(k) == IF k = 0 THEN <<p>> ELSE Further(g[k - 1])
  <2>1. g = [k \in 0..n |-> e(k)]
    BY <1>2
  <2>2. e(0) = <<p>> /\ \A k \in 1..n : e(k) = Further(g[k - 1])
    BY <1>1
  <2> HIDE DEF e
  <2>3. g = [k \in 0..n |-> g[k]] /\ g[0] = <<p>> /\ \A k \in 1..n : g[k] = Further(g[k - 1])
    BY <1>1, <2>1, <2>2
  <2> HIDE DEF n, T, rule
  <2>4. \A k \in 1..n : g[k - 1] \in T => g[k] = rule[k][g[k - 1]]
    BY <1>1, <2>3
  <2>5. QED
    BY <1>1, <2>3, <2>4, Recurses
<1>3. PICK f : Recurs(f, n, T, <<p>>, rule)
  <2> HIDE DEF n, T, rule
  <2>1. QED
    BY <1>1, Recursion
<1>4. ASSUME NEW h, Recurs(h, n, T, <<p>>, rule)
      PROVE  /\ h \in [0..n -> T] /\ h[0] = <<p>>
             /\ \A k \in 1..n : h[k] = Further(h[k - 1])
  <2> HIDE DEF n, T, rule
  <2>1. h \in [0..n -> T] /\ h[0] = <<p>> /\ \A k \in 1..n : h[k] = rule[k][h[k - 1]]
    BY <1>4 DEF Recurs
  <2>2. \A k \in 1..n : k - 1 \in 0..n
    BY <1>1
  <2>3. QED
    BY <1>1, <2>1, <2>2
<1>5. Walks(f)
  <2> DEFINE e(k) == IF k = 0 THEN <<p>> ELSE Further(f[k - 1])
  <2>1. ASSUME NEW k \in 0..n PROVE f[k] = e(k)
    <3>1. k = 0 \/ (k \in 1..n /\ k # 0)
      BY <1>1
    <3> HIDE DEF n, T, rule
    <3>2. QED
      BY <1>3, <1>4, <3>1
  <2> HIDE DEF e
  <2>2. f = [k \in 0..n |-> e(k)]
    BY <1>3, <1>4, <2>1
  <2>3. QED
    BY <2>2 DEF e
<1> DEFINE walk == CHOOSE g : Walks(g)
<1>6. Walks(walk)
  BY <1>5
<1>7. BlockingChain(p) = [chain |-> walk[n], deadlock |-> Repeats(walk[n])]
  BY DEF BlockingChain
<1> HIDE DEF walk, Walks
<1>8. walk[0] = <<p>> /\ \A k \in 1..n : walk[k] = Further(walk[k - 1])
  BY <1>2, <1>4, <1>6
<1>9. QED
  BY <1>7, <1>8

\* The chain shown is one, and goes on until it repeats itself or is with a
\* session that waits for none.
LEMMA ChainShown ==
  ASSUME LocksTyped, NEW p \in Waiting
  PROVE  LET c == BlockingChain(p)
         IN  /\ IsChain(p, c.chain) /\ (c.deadlock <=> Repeats(c.chain))
             /\ ~c.deadlock => c.chain[Len(c.chain)] \notin Waiting
<1> DEFINE n == Cardinality(Pids)
<1>1. PICK f : /\ f[0] = <<p>> /\ \A k \in 1..n : f[k] = Further(f[k - 1])
               /\ BlockingChain(p) = [chain |-> f[n], deadlock |-> Repeats(f[n])]
  BY ChainIs
<1>2. n \in Nat
  BY PidsAre
<1> DEFINE Over(s) == Repeats(s) \/ s[Len(s)] \notin Waiting
           Walked(k) == IsChain(p, f[k]) /\ (Over(f[k]) \/ Len(f[k]) = k + 1)
           S == {k \in Nat : k <= n => Walked(k)}
<1>3. 0 \in S
  <2>1. IsChain(p, <<p>>) /\ Len(<<p>>) = 0 + 1
    BY WaitsAre DEF IsChain
  <2>2. QED
    BY <1>1, <2>1
<1>4. ASSUME NEW k \in Nat, k \in S PROVE k + 1 \in S
  <2>1. SUFFICES ASSUME k + 1 <= n PROVE Walked(k + 1)
    OBVIOUS
  <2>2. k + 1 \in 1..n /\ (k + 1) - 1 = k /\ Walked(k)
    BY <1>2, <1>4, <2>1
  <2>3. f[k + 1] = Further(f[k])
    <3> HIDE DEF Walked, n
    <3>1. QED
      BY <1>1, <2>2
  <2>4. IsChain(p, Further(f[k]))
    BY <2>2, FurtherChain
  <2>5. CASE Over(f[k])
    <3>1. Further(f[k]) = f[k]
      BY <2>2, <2>5, FurtherChain
    <3>2. QED
      BY <2>3, <2>4, <2>5, <3>1
  <2>6. CASE ~Over(f[k])
    <3>1. Len(Further(f[k])) = Len(f[k]) + 1 /\ Len(f[k]) = k + 1
      BY <2>2, <2>6, FurtherChain
    <3>2. QED
      BY <2>3, <2>4, <3>1
  <2>7. QED
    BY <2>5, <2>6
<1>5. n \in S
  <2> HIDE DEF S, n
  <2>1. QED
    BY <1>2, <1>3, <1>4, Induction
<1>6. Walked(n)
  BY <1>2, <1>5
<1>7. Over(f[n])
  <2>1. SUFFICES ASSUME ~Over(f[n]) PROVE FALSE
    OBVIOUS
  <2>2. Len(f[n]) = n + 1 /\ Distinct(f[n]) /\ f[n] \in Seq(Pids)
    BY <1>6, <2>1, NoRepeat DEF IsChain
  <2>3. Len(f[n]) <= n
    BY <2>2, DistinctShort
  <2>4. QED
    BY <1>2, <2>2, <2>3
<1>8. QED
  BY <1>1, <1>6, <1>7

\* Who comes later in a chain stands above who comes earlier.
LEMMA ChainEnds ==
  ASSUME LocksTyped, NEW p, NEW s, IsChain(p, s), NEW i \in 1..Len(s)
  PROVE  s[Len(s)] \in Ends(s[i])
<1>1. s \in Seq(Pids) /\ Len(s) \in Nat /\ s[i] \in Pids
  BY DEF IsChain
<1> DEFINE S == {k \in Nat : i + k <= Len(s) => s[i + k] \in Ends(s[i])}
<1>2. 0 \in S
  BY <1>1, EndsAre
<1>3. ASSUME NEW k \in Nat, k \in S PROVE k + 1 \in S
  <2>1. SUFFICES ASSUME i + (k + 1) <= Len(s) PROVE s[i + (k + 1)] \in Ends(s[i])
    OBVIOUS
  <2>2. i + k \in 1..(Len(s) - 1) /\ i + (k + 1) = (i + k) + 1 /\ s[i + k] \in Ends(s[i])
    BY <1>1, <1>3, <2>1
  <2>3. s[i + k] \in Waiting /\ s[(i + k) + 1] = First(s[i + k])
    BY <2>2 DEF IsChain
  <2>4. s[(i + k) + 1] \in BlockersOf(s[i + k])
    BY <2>3, WaitsAre
  <2>5. Closed(Ends(s[i]))
    BY <1>1, EndsAre
  <2>6. QED
    BY <2>2, <2>4, <2>5 DEF Closed
<1> HIDE DEF S
<1>4. Nat \subseteq S
  BY <1>2, <1>3, Induction
<1>5. Len(s) - i \in S /\ i + (Len(s) - i) = Len(s)
  BY <1>1, <1>4
<1>6. QED
  BY <1>5 DEF S

\* A chain that does not repeat itself is a path, the other way round.
LEMMA ChainBack ==
  ASSUME LocksTyped, NEW p, NEW s, IsChain(p, s), ~Repeats(s)
  PROVE  IsPath(s[Len(s)], [i \in DOMAIN s |-> s[Len(s) + 1 - i]])
<1> DEFINE t == [i \in DOMAIN s |-> s[Len(s) + 1 - i]]
           n == Len(s)
<1>1. s \in Seq(Pids) /\ n \in Nat /\ 1 <= n /\ DOMAIN s = 1..n
  BY DEF IsChain
<1>2. \A i \in 1..n : n + 1 - i \in 1..n /\ t[i] = s[n + 1 - i] /\ t[i] \in Pids
  BY <1>1
<1>3. t \in Seq(Pids) /\ Len(t) = n
  <2>1. t \in [1..n -> Pids]
    BY <1>1, <1>2
  <2> HIDE DEF t
  <2>2. QED
    BY <1>1, <2>1
<1>4. t # <<>> /\ t[1] = s[n]
  <2>1. 1 \in 1..n /\ n + 1 - 1 = n
    BY <1>1
  <2>2. t[1] = s[n]
    BY <1>2, <2>1
  <2> HIDE DEF t
  <2>3. QED
    BY <1>1, <1>3, <2>2
<1> HIDE DEF t
<1>5. Distinct(t)
  <2>1. Distinct(s)
    BY NoRepeat
  <2>2. ASSUME NEW i \in 1..n, NEW j \in 1..n, t[i] = t[j] PROVE i = j
    <3>1. n + 1 - i = n + 1 - j
      BY <1>2, <2>1, <2>2 DEF Distinct
    <3>2. QED
      BY <1>1, <3>1
  <2>3. QED
    BY <1>3, <2>2 DEF Distinct
<1>6. WaitPath(t)
  <2>1. ASSUME NEW i \in 1..(n - 1) PROVE t[i] \in BlockersOf(t[i + 1])
    <3>1. i \in 1..n /\ i + 1 \in 1..n /\ n - i \in 1..(n - 1)
          /\ n + 1 - i = (n - i) + 1 /\ n + 1 - (i + 1) = n - i
      <4> HIDE DEF n
      <4>1. n \in Nat /\ i \in Nat /\ 1 <= i /\ i <= n - 1
        BY <1>1
      <4>2. QED
        BY <4>1
    <3>2. t[i] = s[(n - i) + 1] /\ t[i + 1] = s[n - i]
      BY <1>2, <3>1
    <3>3. s[n - i] \in Waiting /\ s[(n - i) + 1] = First(s[n - i])
      BY <3>1 DEF IsChain
    <3>4. QED
      BY <3>2, <3>3, WaitsAre
  <2>2. QED
    BY <1>3, <2>1 DEF WaitPath
<1>7. QED
  BY <1>3, <1>4, <1>5, <1>6 DEF IsPath, t

LEMMA ChainsAgree ==
  ASSUME LocksTyped
  PROVE  ChainInForest
<1> DEFINE c(p) == BlockingChain(p)
           s(p) == c(p).chain
           last(p) == s(p)[Len(s(p))]
           back(p) == [i \in DOMAIN s(p) |-> s(p)[Len(s(p)) + 1 - i]]
<1>1. ASSUME NEW p \in Waiting, c(p).deadlock
      PROVE  last(p) \in UNION {Ends(b) : b \in BlockersOf(last(p))}
  <2>1. IsChain(p, s(p)) /\ Repeats(s(p))
    BY <1>1, ChainShown
  <2> HIDE DEF s
  <2>2. PICK i \in 1..(Len(s(p)) - 1) : s(p)[i] = last(p)
    BY <2>1 DEF Repeats
  <2>3. s(p)[i] \in Waiting /\ s(p)[i + 1] = First(s(p)[i]) /\ Len(s(p)) \in Nat
    BY <2>1, <2>2 DEF IsChain
  <2>4. s(p)[i + 1] \in BlockersOf(last(p)) /\ i + 1 \in 1..Len(s(p))
    BY <2>2, <2>3, WaitsAre
  <2>5. last(p) \in Ends(s(p)[i + 1])
    BY <2>1, <2>4, ChainEnds
  <2>6. QED
    BY <2>4, <2>5
<1>2. ASSUME NEW p \in Waiting, ~c(p).deadlock
      PROVE  \E t \in Trees : ~t.deadlock /\ t.root = last(p) /\ back(p) \in t.paths
  <2>1. IsChain(p, s(p)) /\ ~Repeats(s(p)) /\ last(p) \notin Waiting
    BY <1>2, ChainShown
  <2> HIDE DEF s
  <2>2. Len(s(p)) \in Nat /\ 1 <= Len(s(p)) /\ s(p)[1] = p
    BY <2>1 DEF IsChain
  <2>3. Len(s(p)) - 1 \in 1..(Len(s(p)) - 1) /\ (Len(s(p)) - 1) + 1 = Len(s(p))
    <3>1. Len(s(p)) # 1
      BY <1>2, <2>1, <2>2
    <3>2. \A n \in Nat : 1 <= n /\ n # 1 => n - 1 \in 1..(n - 1) /\ (n - 1) + 1 = n
      OBVIOUS
    <3>3. QED
      BY <2>2, <3>1, <3>2
  <2> DEFINE w == s(p)[Len(s(p)) - 1]
  <2>4. w \in Waiting /\ last(p) = First(w)
    BY <2>1, <2>3 DEF IsChain
  <2>5. last(p) \in Blockers \ Waiting /\ last(p) \in Pids
    <3> HIDE DEF w
    <3>1. last(p) \in BlockersOf(w) /\ last(p) \in Pids
      BY <2>4, WaitsAre
    <3>2. QED
      BY <2>1, <2>4, <3>1 DEF Blockers
  <2>6. Node(last(p), FALSE) \in Trees
    BY <2>5, TreesAre DEF FreeTrees
  <2>7. IsPath(last(p), back(p))
    BY <2>1, ChainBack
  <2> HIDE DEF last, back
  <2> DEFINE t == Node(last(p), FALSE)
  <2>8. t.root = last(p) /\ t.deadlock = FALSE /\ back(p) \in t.paths
    BY <2>5, <2>7, NodesAre
  <2>9. QED
    BY <2>6, <2>8
<1>3. QED
  BY <1>1, <1>2 DEF ChainInForest

-----------------------------------------------------------------------------
(* The theorem.                                                            *)

LEMMA LocksFaithful ==
  ASSUME LocksTyped
  PROVE  ForestFaithful
<1>1. Waiting \subseteq UNION {Reached(t) : t \in Trees}
  BY TreesAre
<1>2. \A w \in Waiting : \A b \in BlockersOf(w) :
        (\E t \in Trees : HasEdge(t, b, w)) \/ w \in Ends(b)
  BY EdgesShown
<1>3. \A t \in Trees : t.deadlock <=> Ends(t.root) \subseteq Waiting
  BY TreesAre, BelongingIs
<1>4. ChainInForest
  BY ChainsAgree
<1>5. QED
  BY <1>1, <1>2, <1>3, <1>4 DEF ForestFaithful

\* For any finite set of sessions, whatever they wait for and in whatever
\* order the server lists them, the forest shows the whole wait graph, flags
\* exactly the trees above whose root nobody is free, and says what the chains
\* say (build_blocking_tree, blocking_chain).
THEOREM ForestAlwaysFaithful == TreeSpec => []ForestFaithful
<1>1. TreeInit => LocksTyped
  BY DEF TreeInit, LocksTyped, Of
<1>2. LocksTyped /\ [TreeNext]_locks => LocksTyped'
  BY LockStepTyped
<1>3. LocksTyped => ForestFaithful
  BY LocksFaithful
<1>4. QED
  BY <1>1, <1>2, <1>3, PTL DEF TreeSpec
=============================================================================
