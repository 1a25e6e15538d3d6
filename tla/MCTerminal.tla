----------------------------- MODULE MCTerminal -----------------------------
(***************************************************************************)
(* The parts of the terminal frontend, each in behaviours of its own:      *)
(* `part' says whose, and the others stay as they are.                     *)
(***************************************************************************)
EXTENDS TuiApp, TuiShell, TuiList, TuiLoop

VARIABLE part     \* whose behaviour this is

Others(p) ==
  /\ p = "app" \/ UNCHANGED vars
  /\ p = "shell" \/ UNCHANGED shellVars
  /\ p = "list" \/ UNCHANGED listVars
  /\ p = "loop" \/ UNCHANGED loopVars

TerminalInit ==
  /\ part \in {"app", "shell", "list", "loop"}
  /\ Init /\ (part # "app" => ~offline)
  /\ ShellInit /\ (part # "shell" => open = {} /\ splash)
  /\ ListInit /\ (part # "list" => lens = "Micro")
  /\ LoopInit /\ (part # "loop" => ~connected)

TerminalNext ==
  /\ part' = part
  /\ Others(part)
  /\ \/ part = "app" /\ Next
     \/ part = "shell" /\ ShellNext
     \/ part = "list" /\ ListNext
     \/ part = "loop" /\ LoopNext

TerminalSpec == TerminalInit /\ [][TerminalNext]_<<part, vars, shellVars, listVars, loopVars>>
=============================================================================
