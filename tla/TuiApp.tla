------------------------------- MODULE TuiApp -------------------------------
(***************************************************************************)
(* The model of the terminal frontend: which snapshot is on screen while   *)
(* live snapshots arrive, the display is paused, a recording is replayed,  *)
(* a recording is written and a command waits for its confirmation         *)
(* (`update`, `handle_key`, `apply_snapshot`).                             *)
(*                                                                         *)
(* A live snapshot is abstracted to its number of arrival, a recorded one  *)
(* to its index in its recording; sorting, filtering and selection inside  *)
(* a snapshot are left out.                                                *)
(***************************************************************************)
EXTENDS Naturals, Sequences, Absent

CONSTANTS Lengths,     \* numbers of frames of the recordings on disk
          ReadOnly,    \* app.read_only of the live frontend
          MaxLive      \* bound on live arrivals

ASSUME LengthsType == Lengths \subseteq Nat \ {0} /\ Lengths # {}
ASSUME ReadOnlyType == ReadOnly \in BOOLEAN
ASSUME MaxLiveType == MaxLive \in Nat

Live(i) == [kind |-> "live", n |-> i]
Frame(i) == [kind |-> "recorded", n |-> i]
Snapshot == [kind : {"live", "recorded"}, n : Nat]
Replay == [len : Lengths, idx : Nat, playing : BOOLEAN, loop : BOOLEAN]
\* How a recording began: what was on screen, how many live snapshots had
\* arrived, and whether that first write failed.
Beginning == [screen : Snapshot, at : Nat, lost : BOOLEAN]
ASSUME NoneType == None \notin Snapshot \cup Replay \cup Beginning

VARIABLES
  offline,    \* started by `pg_lens replay` or `view`: no poller, read-only
  running,    \* ~app.should_quit
  arrived,    \* number of the latest live snapshot the frontend received
  screen,     \* app.snapshot
  paused, pending,   \* the freeze and the snapshot parked behind it
  replay,     \* app.replay_state
  saved,      \* app.live_mode_saved_snapshot
  confirming, \* app.confirm is open
  recording,  \* frames of the recording being written, None without one
  began,      \* how it began, None without one (for the property)
  reported    \* arrivals whose write failed, as the user was told

freeze == <<paused, pending>>
playback == <<replay, saved>>
disk == <<recording, began, reported>>
vars == <<offline, running, arrived, screen, freeze, playback, confirming, disk>>

TypeOK ==
  /\ offline \in BOOLEAN /\ running \in BOOLEAN
  /\ arrived \in 0..MaxLive /\ screen \in Snapshot
  /\ paused \in BOOLEAN /\ pending \in Snapshot \cup {None}
  /\ replay \in Replay \cup {None}
  /\ replay # None => replay.idx \in 1..replay.len
  /\ saved \in Snapshot \cup {None}
  /\ confirming \in BOOLEAN
  /\ recording \in Seq(Snapshot) \cup {None} /\ reported \subseteq 1..arrived
  /\ began \in Beginning \cup {None} /\ (recording # None => began # None)
  /\ began # None => began.at <= arrived

Start(len, loop) == [len |-> len, idx |-> 1, playing |-> TRUE, loop |-> loop]

Init ==
  /\ offline \in BOOLEAN
  /\ IF offline
     THEN /\ screen = Frame(1)
          /\ \E len \in Lengths, loop \in BOOLEAN : replay = Start(len, loop)
     ELSE screen = Live(0) /\ replay = None
  /\ running = TRUE /\ arrived = 0
  /\ paused = FALSE /\ pending = None /\ saved = None
  /\ confirming = FALSE
  /\ recording = None /\ began = None /\ reported = {}

-----------------------------------------------------------------------------
(* Live snapshots, through the bridge.                                     *)

\* Mutant: a snapshot that arrives behind the freeze is not recorded.
RecordedVisible(s) ==
  IF recording = None \/ paused THEN UNCHANGED disk
  ELSE recording' = Append(recording, s) /\ UNCHANGED <<began, reported>>
\* writer.append, which may fail; replay and pause make no difference to it.
Recorded(s) ==
  \/ recording = None /\ UNCHANGED disk
  \/ /\ recording # None /\ UNCHANGED began
     /\ \/ recording' = Append(recording, s) /\ UNCHANGED reported
        \/ recording' = recording /\ reported' = reported \cup {s.n}

\* Mutant: an open confirmation lets snapshots through.
ParkUnlessConfirming(s) ==
  IF paused /\ ~confirming THEN pending' = s /\ UNCHANGED screen
                              ELSE screen' = s /\ UNCHANGED pending
Park(s) == IF paused THEN pending' = s /\ UNCHANGED screen
                     ELSE screen' = s /\ UNCHANGED pending

Arrive ==
  /\ running /\ ~offline /\ arrived < MaxLive
  /\ arrived' = arrived + 1
  /\ Recorded(Live(arrived')) /\ Park(Live(arrived'))
  /\ UNCHANGED <<offline, running, paused, playback, confirming>>

-----------------------------------------------------------------------------
(* Keys.  An open confirmation swallows all but its own.                   *)

Key == running /\ ~confirming

\* `pending_snapshot.take()`, applied if there was one.
Resumed ==
  /\ paused' = FALSE /\ pending' = None
  /\ screen' = IF pending = None THEN screen ELSE pending

\* Space outside a replay.
TogglePause ==
  /\ Key /\ replay = None
  /\ \/ paused /\ Resumed
     \/ ~paused /\ paused' = TRUE /\ UNCHANGED <<pending, screen>>
  /\ UNCHANGED <<offline, running, arrived, playback, confirming, disk>>

\* What every step of a replay leaves alone.
ReplayFrame == UNCHANGED <<offline, running, arrived, freeze, saved, confirming, disk>>
Show(i) == screen' = Frame(i)

\* Space in a replay; at the last frame it starts again from the first.
TogglePlayback ==
  /\ Key /\ replay # None
  /\ \/ /\ replay.playing /\ replay' = [replay EXCEPT !.playing = FALSE]
        /\ UNCHANGED screen
     \/ /\ ~replay.playing /\ replay.idx < replay.len
        /\ replay' = [replay EXCEPT !.playing = TRUE] /\ UNCHANGED screen
     \/ /\ ~replay.playing /\ replay.idx = replay.len
        /\ replay' = [replay EXCEPT !.playing = TRUE, !.idx = 1] /\ Show(1)
  /\ ReplayFrame

More == replay.idx < replay.len

\* A tick with the time of a frame elapsed, also behind an open confirmation.
\* A recording of one frame is never played.
Play ==
  /\ running /\ replay # None /\ replay.playing /\ replay.len > 1
  /\ \/ More /\ replay' = [replay EXCEPT !.idx = @ + 1] /\ Show(replay.idx + 1)
     \/ ~More /\ replay.loop /\ replay' = [replay EXCEPT !.idx = 1] /\ Show(1)
     \/ /\ ~More /\ ~replay.loop
        /\ replay' = [replay EXCEPT !.playing = FALSE] /\ UNCHANGED screen
  /\ ReplayFrame

\* Left, Right: the step is shown if there is one; playback stops anyway.
StepTo(i) ==
  /\ Key /\ replay # None
  /\ IF i \in 1..replay.len
     THEN replay' = [replay EXCEPT !.playing = FALSE, !.idx = i] /\ Show(i)
     ELSE replay' = [replay EXCEPT !.playing = FALSE] /\ UNCHANGED screen
  /\ ReplayFrame
Step == StepTo(replay.idx - 1) \/ StepTo(replay.idx + 1)
\* Home, End.
Jump == StepTo(1) \/ StepTo(replay.len)

ToggleLoop ==
  /\ Key /\ replay # None
  /\ replay' = [replay EXCEPT !.loop = ~@]
  /\ UNCHANGED screen /\ ReplayFrame

\* Enter on a row of the Records Lens, in a replay or not.
OpenRecording(len) ==
  /\ Key
  /\ saved' = screen /\ replay' = Start(len, FALSE) /\ Show(1)
  /\ UNCHANGED <<offline, running, arrived, freeze, confirming, disk>>

\* Esc with a snapshot saved.  (Without one Esc arms and then quits.)
ExitReplay ==
  /\ Key /\ saved # None
  /\ screen' = saved /\ saved' = None /\ replay' = None
  /\ UNCHANGED <<offline, running, arrived, freeze, confirming, disk>>

\* `c`, `K` on a selected row.
OpenConfirm ==
  /\ Key /\ replay = None /\ ~ReadOnly /\ ~offline
  /\ confirming' = TRUE
  /\ UNCHANGED <<offline, running, arrived, screen, freeze, playback, disk>>

\* Confirmed: the command is queued and a frozen display resumes.
Confirm ==
  /\ running /\ confirming /\ confirming' = FALSE
  /\ IF paused THEN Resumed ELSE UNCHANGED <<paused, pending, screen>>
  /\ UNCHANGED <<offline, running, arrived, playback, disk>>

Abort ==
  /\ running /\ confirming /\ confirming' = FALSE
  /\ UNCHANGED <<offline, running, arrived, screen, freeze, playback, disk>>

\* A recording begins with the screen; nobody is told when that first write
\* fails.
StartRecording ==
  /\ recording = None
  /\ \E lost \in BOOLEAN :
       /\ recording' = IF lost THEN <<>> ELSE <<screen>>
       /\ began' = [screen |-> screen, at |-> arrived, lost |-> lost]

Finished == recording' = None /\ began' = None

\* `R`: refused in a replay.
ToggleRecording ==
  /\ Key /\ replay = None
  /\ StartRecording \/ (recording # None /\ Finished)
  /\ reported' = {}
  /\ UNCHANGED <<offline, running, arrived, screen, freeze, playback, confirming>>

\* `q`, Ctrl+C, or at any time the end of the input: the writer is finished
\* or dropped.
Quit ==
  /\ running /\ running' = FALSE /\ Finished
  /\ UNCHANGED <<offline, arrived, screen, freeze, playback, confirming, reported>>

-----------------------------------------------------------------------------
Replaying == \/ TogglePlayback \/ Play \/ Step \/ Jump \/ ToggleLoop
             \/ (\E len \in Lengths : OpenRecording(len)) \/ ExitReplay
Commands == OpenConfirm \/ Confirm \/ Abort

Next == Arrive \/ TogglePause \/ Replaying \/ Commands \/ ToggleRecording \/ Quit

Spec == Init /\ [][Next]_vars

-----------------------------------------------------------------------------
(* Safety.                                                                 *)

\* The snapshot parked behind a freeze is the newest arrival ("resume jumps
\* straight to the latest data"), and none is left behind once it ends,
\* whether Space or a confirmed command ended it, with replays in between.
PendingIsNewest == pending # None => paused /\ pending = Live(arrived)

\* A frozen display shows one snapshot until it is resumed, whatever arrives
\* and whatever is confirmed or aborted.
FrozenScreen ==
  [][paused /\ paused' /\ replay = None /\ replay' = None => screen' = screen]_vars

\* A replay that no live snapshot can disturb, offline or behind a freeze,
\* always shows the frame it is at.
ReplayShowsFrame ==
  replay # None /\ (offline \/ paused) => screen = Frame(replay.idx)

\* No command is prepared or sent while a recording is replayed.
NoCommandInReplay == replay # None => ~confirming

\* The mode and the screen agree (apply_snapshot, resume, open_confirm).
ScreenFaithful ==
  []ReplayShowsFrame /\ []PendingIsNewest /\ []NoCommandInReplay /\ FrozenScreen

\* The live snapshots that arrived since the recording began, less those whose
\* failed write the user was told of.
Owed == (began.at + 1)..arrived \ reported
Opening == IF began.lost THEN 0 ELSE 1

\* A recording opens with what was on screen when it began, unless that write
\* failed, and then holds exactly the live snapshots that arrived since, the
\* first as the last, in order and each once, also those never shown because of
\* a freeze or a replay; any that is missing, the user was told of.  It is what
\* the writer says it took: what a file then holds is FlightRecorder's.
RecordingGapless ==
  recording # None =>
    /\ Opening = 1 => recording # <<>> /\ recording[1] = began.screen
    /\ {recording[i] : i \in (Opening + 1)..Len(recording)} = {Live(n) : n \in Owed}
    /\ \A i, j \in (Opening + 1)..Len(recording) : i < j => recording[i].n < recording[j].n

-----------------------------------------------------------------------------
(* A statement of the program that the code does not meet.                 *)

\* "Exited replay, returned to live view": outside a replay the screen shows a
\* live snapshot.
LiveViewIsLive == replay = None /\ ~offline => screen.kind = "live"

\* "Recording started": a recording that was started has a frame.
StartedHasFrame == recording # None /\ reported = {} => recording # <<>>
=============================================================================
