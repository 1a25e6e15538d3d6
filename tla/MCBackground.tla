----------------------------- MODULE MCBackground -----------------------------
(***************************************************************************)
(* What runs behind a frontend and must keep going: the telemetry tiers,   *)
(* on a connection of their own or between two polls, and the web server.  *)
(* Each has behaviours of its own: `part' says whose, and the other stays  *)
(* as it is.                                                               *)
(***************************************************************************)
EXTENDS MCTelemetryLane, WebServer

VARIABLE part     \* whose behaviour this is

Telemetry == part = "telemetry" /\ UNCHANGED webVars
Web == part = "web" /\ UNCHANGED vars

BackgroundInit ==
  /\ part \in {"telemetry", "web"}
  /\ Init /\ (part = "web" => role = "primary")
  /\ WebInit /\ (part = "telemetry" => ~secured /\ ~readOnly /\ snapshot.databases = {})

BackgroundNext == part' = part /\ ((Telemetry /\ Next) \/ (Web /\ WebNext))

\* The fairness of LiveSpec and of WebFairness.
BackgroundFairness ==
  /\ WF_vars(Telemetry /\ Loop) /\ WF_vars(Telemetry /\ FastPoll)
  /\ WF_vars(Telemetry /\ Elapse) /\ WF_vars(Telemetry /\ SessionStarts)
  /\ WF_webVars(Web /\ PollerStops) /\ WF_webVars(Web /\ StopAccepting) /\ WF_webVars(Web /\ ServerEnds)
  /\ \A c \in Clients : WF_webVars(Web /\ Deliver(c)) /\ WF_webVars(Web /\ EndStream(c))

BackgroundSpec == BackgroundInit /\ [][BackgroundNext]_<<part, vars, webVars>> /\ BackgroundFairness
=============================================================================
