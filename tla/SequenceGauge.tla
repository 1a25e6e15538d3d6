---------------------------- MODULE SequenceGauge ----------------------------
(***************************************************************************)
(* How far a sequence is used up (`calculate_sequence_exhaustion' in       *)
(* models.rs), while it is read, set and altered.  Numbers are machine     *)
(* integers: a difference saturates where the code says so and wraps where *)
(* it does not, as in a release build.                                     *)
(***************************************************************************)
EXTENDS Integers, Absent

CONSTANT High   \* the largest machine integer

ASSUME HighType == High \in Nat \ {0}

Low == -High - 1
Words == Low..High
Wrapped(x) == ((x - Low) % (2 * High + 2)) + Low
Saturated(x) == IF x < Low THEN Low ELSE IF x > High THEN High ELSE x
AtLeast(a, b) == IF a < b THEN b ELSE a
AtMost(a, b) == IF a > b THEN b ELSE a

VARIABLES minValue, maxValue, increment, startValue, lastValue   \* of pg_sequences

sequenceVars == <<minValue, maxValue, increment, startValue, lastValue>>

SequenceInit ==
  /\ minValue \in Words /\ maxValue \in {v \in Words : minValue < v}
  /\ increment \in {1, 2, -1, -2}
  /\ startValue \in {minValue, maxValue} /\ lastValue = None

Following == IF lastValue = None THEN startValue ELSE lastValue + increment
Available == minValue <= Following /\ Following <= maxValue

\* nextval succeeds, setval, ALTER SEQUENCE INCREMENT.
NextValue == Available /\ lastValue' = Following /\ UNCHANGED <<minValue, maxValue, increment, startValue>>
SetValue ==
  /\ lastValue' \in {minValue, maxValue, 0} \cap (minValue..maxValue)
  /\ UNCHANGED <<minValue, maxValue, increment, startValue>>
AlterIncrement ==
  /\ increment' \in {1, 2, -1, -2} \ {increment}
  /\ UNCHANGED <<minValue, maxValue, startValue, lastValue>>

SequenceNext == NextValue \/ SetValue \/ AlterIncrement
SequenceSpec == SequenceInit /\ [][SequenceNext]_sequenceVars

------------------------------------------------------------------------------
Current == IF lastValue = None THEN startValue ELSE lastValue
Range0 == AtLeast(Wrapped(maxValue - minValue), 1)
Up == increment > 0
UsedUp == AtLeast(Saturated(IF Up THEN Current - minValue ELSE maxValue - Current), 0)

\* Mutant: the distance to the bound is not divided by the step.
RemainingValues ==
  AtLeast(Saturated(IF Up THEN maxValue - Current ELSE Current - minValue), 0)

\* Rust divides toward zero; both operands are positive here.
Remaining ==
  AtLeast(Saturated(IF Up THEN maxValue - Current ELSE Current - minValue), 0)
    \div (IF Up THEN increment ELSE -increment)

\* The share used up, as parts of a hundred that reach a threshold; a share
\* over the whole counts as the whole.
Reaches(percent) == AtMost(UsedUp, Range0) * 100 >= percent * Range0
Exhaustion == IF Reaches(90) THEN 2 ELSE IF Reaches(75) THEN 1 ELSE 0

------------------------------------------------------------------------------
\* What the sequence can still give without starting over.
Truly ==
  LET left == IF Up THEN maxValue - Current ELSE Current - minValue
      step == IF Up THEN increment ELSE -increment
  IN  left \div step + IF lastValue = None THEN 1 ELSE 0

\* The number of values left is never promised too high, at any width and for
\* any bounds; it is exact, but for the first value of an unused sequence,
\* where the distance fits a machine integer.  A sequence by ones with no value
\* left is critical.
SequenceHonest ==
  /\ 0 <= Remaining /\ Remaining <= Truly
  /\ maxValue - minValue \in Words => Truly - Remaining <= 1
  /\ Truly = 0 /\ increment \in {1, -1} => Exhaustion = 2
=============================================================================
