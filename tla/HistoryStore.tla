----------------------------- MODULE HistoryStore -----------------------------
(***************************************************************************)
(* The history ring of a target and its file (history.rs,                  *)
(* history_store.rs and their use in poller.rs).                           *)
(*                                                                         *)
(* A point is its number in the order of recording.  A line is appended in *)
(* two writes, its text and its newline; either may fail, and the process  *)
(* may end at any moment, so a line can be torn, or left open: the next    *)
(* one is then glued to it and neither can be read.                        *)
(*                                                                         *)
(* One process writes a file.  Two on the same target share it: see README.*)
(***************************************************************************)
EXTENDS Integers, Sequences, FiniteSets

CONSTANTS Cap,         \* DEFAULT_CAP, of the ring and between compactions
          MaxPoints,   \* bound on the points recorded
          MaxFaults    \* bound on the writes that fail

ASSUME StoreBounds == Cap \in Nat \ {0} /\ MaxPoints \in Nat /\ MaxFaults \in Nat

Garbage == 0           \* a line that does not parse

VARIABLES file,      \* the lines, points or Garbage
          open,      \* the last line has no newline
          ring,      \* SnapshotHistory of the running process
          appends,   \* appends_since_compact
          step,      \* "down", "run", or "compact" after an append
          recorded,  \* points recorded so far, for the bound and the properties
          faults     \* writes that failed, in whole or in part

storeVars == <<file, open, ring, appends, step, recorded, faults>>

Newest(s, n) == IF Len(s) <= n THEN s ELSE SubSeq(s, Len(s) - n + 1, Len(s))

\* load: what parses, and of that the newest.
Readable(lines) ==
  LET kept[i \in 0..Len(lines)] ==
        IF i = 0 THEN <<>>
        ELSE IF lines[i] # Garbage THEN Append(kept[i - 1], lines[i]) ELSE kept[i - 1]
  IN  kept[Len(lines)]
Loaded == Newest(Readable(file), Cap)

PushPoint(r, p) == Append(IF Len(r) = Cap THEN Tail(r) ELSE r, p)

\* The text of line p arrives at the end of the file.
PutLine(p) == IF open THEN [file EXCEPT ![Len(file)] = Garbage] ELSE Append(file, p)

StoreInit ==
  /\ file = <<>> /\ open = FALSE
  /\ ring = <<>> /\ appends = 0
  /\ step = "down" /\ recorded = 0 /\ faults = 0

StartProcess ==
  /\ step = "down" /\ step' = "run"
  /\ ring' = Loaded /\ appends' = 0
  /\ UNCHANGED <<file, open, recorded, faults>>

\* record_history, then append; an append counts whether it worked or not.
\* `fate': all of it, only the text, some of the text, or nothing at all.
RecordPoint(fate) ==
  /\ step = "run" /\ recorded < MaxPoints
  /\ fate # "whole" => faults < MaxFaults
  /\ recorded' = recorded + 1
  /\ ring' = PushPoint(ring, recorded')
  /\ file' = CASE fate \in {"whole", "unterminated"} -> PutLine(recorded')
               [] fate = "torn" -> PutLine(Garbage)
               [] fate = "refused" -> file
  /\ open' = CASE fate = "whole" -> FALSE
               [] fate \in {"unterminated", "torn"} -> TRUE
               [] fate = "refused" -> open
  /\ faults' = IF fate = "whole" THEN faults ELSE faults + 1
  /\ appends' = appends + 1
  /\ step' = IF appends' >= Cap THEN "compact" ELSE "run"

\* Mutant: the rewrite is added to the file.
CompactAdding(works) ==
  /\ step = "compact" /\ step' = "run"
  /\ appends' = 0
  /\ IF works THEN file' = file \o ring /\ open' = FALSE ELSE UNCHANGED <<file, open>>
  /\ UNCHANGED <<ring, recorded, faults>>

\* compact: a temporary file, then a rename; both may fail, and then the old
\* file stays as it was.
Compact(works) ==
  /\ step = "compact" /\ step' = "run"
  /\ appends' = 0
  /\ IF works THEN file' = ring /\ open' = FALSE ELSE UNCHANGED <<file, open>>
  /\ UNCHANGED <<ring, recorded, faults>>

\* The end of the process, orderly or not; the ring is gone.
EndProcess ==
  /\ step # "down" /\ step' = "down"
  /\ ring' = <<>> /\ appends' = 0
  /\ UNCHANGED <<file, open, recorded, faults>>

StoreNext ==
  \/ StartProcess
  \/ \E fate \in {"whole", "unterminated", "torn", "refused"} : RecordPoint(fate)
  \/ \E works \in BOOLEAN : Compact(works)
  \/ EndProcess

StoreSpec == StoreInit /\ [][StoreNext]_storeVars

------------------------------------------------------------------------------
\* The file, as its readers see it, keeps the promise of PointLog: across
\* restarts, torn lines and compactions points stay in order and single, and
\* a compaction never loses a point that is among the newest.
Reader == INSTANCE PointLog WITH log <- Readable(file)

\* A fault costs at most the point it hit and the one before or after it: of
\* the newest points recorded, no more are missing at the next start, or in
\* the charts of a process whenever it was started.
Newcomers == {p \in 1..recorded : p > recorded - Cap}
LossBounded ==
  \A points \in {file} \cup (IF step = "down" THEN {} ELSE {ring}) :
    Cardinality(Newcomers \ {points[i] : i \in DOMAIN points}) <= 2 * faults

\* Nothing of the history is lost but by faults (record_history, append, load,
\* compact).
KeepsPointLog == Reader!LogSpec /\ []LossBounded
=============================================================================
