--------------------------- MODULE MCTelemetryLane ---------------------------
(* Model-checking constants of module TelemetryLane.                       *)
EXTENDS TelemetryLane

\* 3 s, 30 s and 60 s, shortened in order, or all as short as can be.
ShortCadence == <<1, 1, 2, 2>>
Cadences == [t \in Tiers |-> ShortCadence[t]]
EveryTick == [t \in Tiers |-> 1]

NoFailure == [s \in Subsystems |-> {}]
\* One subsystem of tier 3 and both of tier 4 may fail, the statements in two ways.
TierFailures == [NoFailure EXCEPT !["subscriptions"] = {"failed"},
                                  !["schema"] = {"failed"},
                                  !["statements"] = {"failed", "preload"}]
=============================================================================
