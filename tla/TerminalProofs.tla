---------------------------- MODULE TerminalProofs ---------------------------
(* Theorems about the terminal frontend: module TuiApp, for recordings of    *)
(* any lengths and any number of live snapshots, and module TuiLoop, for     *)
(* channels of any capacity and any number of commands and choices.          *)
EXTENDS TuiApp, TuiLoop, Integers, SequenceTheorems, TLAPS

LEMMA SnapshotKinds ==
  ASSUME NEW i \in Nat
  PROVE  Live(i) \in Snapshot /\ Frame(i) \in Snapshot
BY DEF Live, Frame, Snapshot

LEMMA StartType ==
  ASSUME NEW len \in Lengths, NEW loop \in BOOLEAN
  PROVE  /\ Start(len, loop) \in Replay /\ Start(len, loop) # None
         /\ Start(len, loop).idx = 1 /\ 1 \in 1..Start(len, loop).len
<1>1. len \in Nat /\ 1 <= len
  BY LengthsType
<1>2. Start(len, loop) \in Replay
  BY DEF Start, Replay
<1>3. Start(len, loop).idx = 1 /\ Start(len, loop).len = len
  BY DEF Start
<1>4. QED
  BY <1>1, <1>2, <1>3, NoneType

\* A replay keeps its recording, and its index its range.
Moved == /\ replay' \in Replay /\ replay' # None
         /\ replay'.idx \in 1..replay'.len
         /\ \/ screen' = Frame(replay'.idx)
            \/ screen' = screen /\ replay'.idx = replay.idx

LEMMA InitType == Init => TypeOK
<1> SUFFICES ASSUME Init PROVE TypeOK
  OBVIOUS
<1>1. screen \in Snapshot /\ arrived \in 0..MaxLive
  BY SnapshotKinds, MaxLiveType DEF Init
<1>2. replay \in Replay \cup {None} /\ (replay # None => replay.idx \in 1..replay.len)
  BY StartType DEF Init
<1>3. QED
  BY <1>1, <1>2 DEF Init, TypeOK

Stepping == TogglePlayback \/ Play \/ Step \/ Jump \/ ToggleLoop

\* The replay with its index at i, played or not.
At(i, p) == [replay EXCEPT !.playing = p, !.idx = i]

LEMMA ReplayType ==
  ASSUME TypeOK, replay # None
  PROVE  /\ replay \in Replay /\ replay.idx \in 1..replay.len
         /\ replay.len \in Nat \ {0} /\ replay.idx \in Nat
         /\ replay.playing \in BOOLEAN
<1>1. replay \in Replay /\ replay.idx \in 1..replay.len
  BY DEF TypeOK
<1>2. QED
  BY <1>1, LengthsType DEF Replay

LEMMA AtType ==
  ASSUME TypeOK, replay # None, NEW i \in 1..replay.len, NEW p \in BOOLEAN
  PROVE  /\ At(i, p) \in Replay /\ At(i, p) # None
         /\ At(i, p).idx = i /\ At(i, p).len = replay.len
<1>1. replay \in Replay /\ i \in Nat
  BY ReplayType
<1>2. At(i, p) \in Replay
  BY <1>1 DEF At, Replay
<1>3. At(i, p).idx = i /\ At(i, p).len = replay.len
  BY <1>1 DEF At, Replay
<1>4. At(i, p) # None
  BY <1>2, NoneType
<1>5. QED
  BY <1>2, <1>3, <1>4

\* A step to an index that is shown, or that stays, keeps the replay in order.
LEMMA ShowMoves ==
  ASSUME TypeOK, replay # None, NEW i \in 1..replay.len, NEW p \in BOOLEAN,
         replay' = At(i, p), Show(i)
  PROVE  Moved
<1>1. /\ replay' \in Replay /\ replay' # None
      /\ replay'.idx = i /\ replay'.len = replay.len
  BY AtType
<1>2. QED
  BY <1>1 DEF Moved, Show

LEMMA StayMoves ==
  ASSUME TypeOK, replay # None, NEW p \in BOOLEAN,
         replay' = [replay EXCEPT !.playing = p], screen' = screen
  PROVE  Moved
<1>1. replay \in Replay /\ replay.idx \in 1..replay.len
  BY ReplayType
<1>2. replay' = At(replay.idx, p)
  BY <1>1 DEF At, Replay
<1>3. /\ replay' \in Replay /\ replay' # None
      /\ replay'.idx = replay.idx /\ replay'.len = replay.len
  BY <1>1, <1>2, AtType
<1>4. QED
  BY <1>1, <1>3 DEF Moved

\* The steps inside a replay move its index and the screen together.
LEMMA ReplayMoves ==
  ASSUME TypeOK, Stepping
  PROVE  replay # None /\ Moved /\ ReplayFrame
<1>1. replay # None
  BY DEF Stepping, TogglePlayback, Play, Step, StepTo, Jump, ToggleLoop
<1>2. /\ replay \in Replay /\ replay.idx \in 1..replay.len
      /\ replay.len \in Nat \ {0} /\ replay.idx \in Nat
      /\ replay.playing \in BOOLEAN /\ 1 \in 1..replay.len
  BY <1>1, ReplayType
<1>3. \A i \in Nat : [replay EXCEPT !.idx = i] = At(i, replay.playing)
  BY <1>2 DEF Replay, At
<1>4. CASE TogglePlayback
  <2>1. ASSUME replay' = [replay EXCEPT !.playing = FALSE] /\ screen' = screen
        PROVE  Moved
    BY <2>1, <1>1, StayMoves
  <2>2. ASSUME replay' = [replay EXCEPT !.playing = TRUE] /\ screen' = screen
        PROVE  Moved
    BY <2>2, <1>1, StayMoves
  <2>3. ASSUME replay' = At(1, TRUE) /\ Show(1)
        PROVE  Moved
    BY <2>3, <1>1, <1>2, ShowMoves
  <2>4. Moved
    BY <1>4, <2>1, <2>2, <2>3 DEF TogglePlayback, At
  <2>5. QED
    BY <1>1, <1>4, <2>4 DEF TogglePlayback
<1>5. CASE Play
  <2>1. ASSUME NEW i \in 1..replay.len, replay' = [replay EXCEPT !.idx = i], Show(i)
        PROVE  Moved
    <3>1. replay' = At(i, replay.playing)
      BY <1>2, <1>3, <2>1
    <3>2. QED
      BY <2>1, <3>1, <1>1, <1>2, ShowMoves
  <2>2. ASSUME More /\ replay' = [replay EXCEPT !.idx = @ + 1] /\ Show(replay.idx + 1)
        PROVE  Moved
    <3>1. replay.idx + 1 \in 1..replay.len
      BY <1>2, <2>2 DEF More
    <3>2. QED
      BY <2>1, <2>2, <3>1
  <2>3. ASSUME replay' = [replay EXCEPT !.idx = 1] /\ Show(1)
        PROVE  Moved
    BY <1>2, <2>1, <2>3
  <2>4. ASSUME replay' = [replay EXCEPT !.playing = FALSE] /\ screen' = screen
        PROVE  Moved
    BY <2>4, <1>1, StayMoves
  <2>5. QED
    BY <1>1, <1>5, <2>2, <2>3, <2>4 DEF Play, ReplayFrame
<1>6. ASSUME NEW i \in Int, StepTo(i)
      PROVE  Moved /\ ReplayFrame
  <2>1. CASE i \in 1..replay.len
    <3>1. replay' = At(i, FALSE) /\ Show(i)
      BY <1>6, <2>1 DEF StepTo, At
    <3>2. QED
      BY <1>1, <1>6, <2>1, <3>1, ShowMoves DEF StepTo
  <2>2. CASE i \notin 1..replay.len
    <3>1. replay' = [replay EXCEPT !.playing = FALSE] /\ screen' = screen
      BY <1>6, <2>2 DEF StepTo
    <3>2. QED
      BY <1>1, <1>6, <3>1, StayMoves DEF StepTo
  <2>3. QED
    BY <2>1, <2>2
<1>7. CASE Step
  BY <1>1, <1>2, <1>6, <1>7 DEF Step
<1>8. CASE Jump
  BY <1>1, <1>2, <1>6, <1>8 DEF Jump
<1>9. CASE ToggleLoop
  <2>1. replay' = [replay EXCEPT !.loop = ~@] /\ screen' = screen /\ ReplayFrame
    BY <1>9 DEF ToggleLoop
  <2>2. /\ replay' \in Replay /\ replay'.idx = replay.idx
        /\ replay'.len = replay.len
    BY <2>1, <1>2 DEF Replay
  <2>3. QED
    BY <1>1, <1>2, <2>1, <2>2, NoneType DEF Moved
<1>10. QED
  BY <1>4, <1>5, <1>7, <1>8, <1>9 DEF Stepping

\* Every step is one of these.
LEMMA StepCases ==
  ASSUME Next
  PROVE  \/ Arrive \/ TogglePause \/ Stepping \/ ExitReplay
         \/ (\E len \in Lengths : OpenRecording(len))
         \/ OpenConfirm \/ Confirm \/ Abort \/ ToggleRecording \/ Quit
BY DEF Next, Replaying, Commands, Stepping

LEMMA AppendType ==
  ASSUME NEW r \in Seq(Snapshot), NEW s \in Snapshot
  PROVE  Append(r, s) \in Seq(Snapshot)
OBVIOUS

LEMMA NextType ==
  ASSUME TypeOK, [Next]_vars
  PROVE  TypeOK'
<1> USE DEF TypeOK, freeze, playback, disk
<1>0. 1 \in Nat /\ None \notin Snapshot
  BY NoneType
<1>1. CASE Arrive
  <2>1. arrived' \in 0..MaxLive /\ Live(arrived') \in Snapshot
    BY <1>1, MaxLiveType, SnapshotKinds DEF Arrive
  <2>2. recording' \in Seq(Snapshot) \cup {None} /\ reported' \subseteq 1..arrived'
    <3>0. arrived \in Nat /\ arrived' = arrived + 1 /\ reported \subseteq 1..arrived'
      BY <1>1 DEF Arrive
    <3>1. CASE recording = None
      BY <1>1, <3>0, <3>1 DEF Arrive, Recorded
    <3>2. CASE recording # None
      <4>1. \/ recording' = Append(recording, Live(arrived'))
            \/ recording' = recording
        BY <1>1, <3>2 DEF Arrive, Recorded
      <4>2. recording \in Seq(Snapshot)
        BY <3>2
      <4>3. recording' \in Seq(Snapshot)
        BY <4>1, <4>2, <2>1, AppendType
      <4>4. reported' \subseteq 1..arrived'
        <5>1. \/ reported' = reported
              \/ reported' = reported \cup {arrived'}
          BY <1>1, <3>2 DEF Arrive, Recorded, Live
        <5>2. arrived' \in 1..arrived'
          BY <3>0
        <5>3. CASE reported' = reported
          BY <3>0, <5>3
        <5>4. CASE reported' = reported \cup {arrived'}
          BY <3>0, <5>2, <5>4
        <5>5. QED
          BY <5>1, <5>3, <5>4
      <4>5. QED
        BY <4>3, <4>4
    <3>3. QED
      BY <3>1, <3>2
  <2>3. screen' \in Snapshot /\ pending' \in Snapshot \cup {None}
    BY <1>1, <2>1 DEF Arrive, Park
  <2>4. began' = began /\ (recording' # None => recording # None)
    BY <1>1 DEF Arrive, Recorded
  <2>5. began # None => began.at \in Nat
    BY DEF Beginning
  <2>6. began' # None => began'.at <= arrived'
    BY <1>1, <2>4, <2>5 DEF Arrive
  <2>7. QED
    BY <1>1, <2>1, <2>2, <2>3, <2>4, <2>6 DEF Arrive
<1>2. CASE TogglePause
  BY <1>2 DEF TogglePause, Resumed
<1>3. CASE Stepping
  <2>1. Moved /\ ReplayFrame
    BY <1>3, ReplayMoves
  <2>2. replay'.idx \in Nat
    BY <2>1 DEF Moved, Replay
  <2>3. screen' \in Snapshot
    BY <2>1, <2>2, SnapshotKinds DEF Moved, ReplayFrame
  <2>4. QED
    BY <2>1, <2>3 DEF Moved, ReplayFrame
<1>4. CASE ExitReplay
  BY <1>4 DEF ExitReplay
<1>5. ASSUME NEW len \in Lengths, OpenRecording(len)
      PROVE  TypeOK'
  BY <1>0, <1>5, StartType, SnapshotKinds DEF OpenRecording, Show
<1>6. CASE OpenConfirm
  BY <1>6 DEF OpenConfirm
<1>7. CASE Confirm
  BY <1>7 DEF Confirm, Resumed
<1>8. CASE Abort
  BY <1>8 DEF Abort
<1>9. CASE ToggleRecording
  <2>1. <<screen>> \in Seq(Snapshot) /\ << >> \in Seq(Snapshot)
    OBVIOUS
  <2>2. CASE Finished
    BY <1>9, <2>2 DEF ToggleRecording, Finished
  <2>3. CASE StartRecording
    <3>1. recording' \in Seq(Snapshot)
      BY <2>1, <2>3 DEF StartRecording
    <3>2. began' \in Beginning /\ began'.at = arrived /\ arrived \in Nat
      BY <2>3 DEF StartRecording, Beginning
    <3>3. None \notin Beginning
      BY NoneType
    <3>4. QED
      BY <1>9, <3>1, <3>2, <3>3 DEF ToggleRecording
  <2>4. QED
    BY <1>9, <2>2, <2>3 DEF ToggleRecording
<1>10. CASE Quit
  BY <1>10 DEF Quit, Finished
<1>11. CASE UNCHANGED vars
  BY <1>11 DEF vars
<1>12. QED
  BY <1>1, <1>2, <1>3, <1>4, <1>5, <1>6, <1>7, <1>8, <1>9, <1>10, <1>11, StepCases

(* Every variable of the frontend keeps its type.                          *)
THEOREM TypeCorrect == Spec => []TypeOK
<1>1. Init => TypeOK
  BY InitType
<1>2. TypeOK /\ [Next]_vars => TypeOK'
  BY NextType
<1>3. QED
  BY <1>1, <1>2, PTL DEF Spec

-----------------------------------------------------------------------------
(* Freeze and replay.                                                      *)

\* A snapshot to return to is saved by a replay only.
SavedInReplay == saved # None => replay # None
Modes == NoCommandInReplay /\ SavedInReplay /\ PendingIsNewest /\ ReplayShowsFrame

LEMMA ModesKept ==
  ASSUME TypeOK, Modes, [Next]_vars
  PROVE  Modes'
<1> USE DEF Modes, NoCommandInReplay, SavedInReplay, PendingIsNewest, ReplayShowsFrame,
            freeze, playback, disk
<1>1. CASE Arrive
  <2>1. arrived' = arrived + 1 /\ ~offline
    BY <1>1 DEF Arrive
  <2>2. PendingIsNewest'
    BY <1>1 DEF Arrive, Park
  <2>3. ReplayShowsFrame'
    BY <1>1 DEF Arrive, Park
  <2>4. QED
    BY <1>1, <2>2, <2>3 DEF Arrive
<1>2. CASE TogglePause
  BY <1>2 DEF TogglePause, Resumed
<1>3. CASE Stepping
  <2>1. replay # None /\ Moved /\ ReplayFrame
    BY <1>3, ReplayMoves
  <2>2. QED
    BY <2>1 DEF Moved, ReplayFrame
<1>4. CASE ExitReplay
  BY <1>4 DEF ExitReplay
<1>5. ASSUME NEW len \in Lengths, OpenRecording(len)
      PROVE  Modes'
  <2>1. /\ replay' # None /\ replay'.idx = 1 /\ screen' = Frame(1)
        /\ ~confirming'
    BY <1>5, StartType DEF OpenRecording, Show, Key
  <2>2. QED
    BY <1>5, <2>1 DEF OpenRecording
<1>6. CASE OpenConfirm
  BY <1>6 DEF OpenConfirm
<1>7. CASE Confirm
  BY <1>7 DEF Confirm, Resumed
<1>8. CASE Abort
  BY <1>8 DEF Abort
<1>9. CASE ToggleRecording
  BY <1>9 DEF ToggleRecording
<1>10. CASE Quit
  BY <1>10 DEF Quit
<1>11. CASE UNCHANGED vars
  BY <1>11 DEF vars
<1>12. QED
  BY <1>1, <1>2, <1>3, <1>4, <1>5, <1>6, <1>7, <1>8, <1>9, <1>10, <1>11, StepCases

LEMMA ModesInit == Init => Modes
<1> SUFFICES ASSUME Init PROVE Modes
  OBVIOUS
<1>1. replay # None => replay.idx = 1 /\ screen = Frame(1)
  BY StartType DEF Init
<1>2. QED
  BY <1>1 DEF Init, Modes, NoCommandInReplay, SavedInReplay, PendingIsNewest,
            ReplayShowsFrame

LEMMA ModesAlways == Spec => [](TypeOK /\ Modes)
<1>1. Init => TypeOK /\ Modes
  BY InitType, ModesInit
<1>2. TypeOK /\ Modes /\ [Next]_vars => TypeOK' /\ Modes'
  BY NextType, ModesKept
<1>3. QED
  BY <1>1, <1>2, PTL DEF Spec

(* The snapshot behind a freeze is the newest one, and none is left behind *)
(* when the freeze ends.                                                   *)
THEOREM ParkedIsNewest == Spec => []PendingIsNewest
<1>1. Modes => PendingIsNewest
  BY DEF Modes
<1>2. QED
  BY <1>1, ModesAlways, PTL

(* A replay that no live snapshot can disturb shows the frame it is at.    *)
THEOREM ReplayFaithful == Spec => []ReplayShowsFrame
<1>1. Modes => ReplayShowsFrame
  BY DEF Modes
<1>2. QED
  BY <1>1, ModesAlways, PTL

(* No command is prepared or sent while a recording is replayed.           *)
THEOREM CommandsAreLive == Spec => []NoCommandInReplay
<1>1. Modes => NoCommandInReplay
  BY DEF Modes
<1>2. QED
  BY <1>1, ModesAlways, PTL

StaysFrozen == paused /\ paused' /\ replay = None /\ replay' = None => screen' = screen

(* A frozen display shows one snapshot until it is resumed.                *)
THEOREM FreezeHolds == Spec => FrozenScreen
<1>1. ASSUME TypeOK, Modes, [Next]_vars
      PROVE  StaysFrozen
  <2> USE DEF StaysFrozen, freeze, playback, disk
  <2>1. CASE Arrive
    BY <2>1 DEF Arrive, Park
  <2>2. CASE TogglePause
    BY <2>2 DEF TogglePause, Resumed
  <2>3. CASE Stepping
    BY <1>1, <2>3, ReplayMoves
  <2>4. CASE ExitReplay
    BY <1>1, <2>4 DEF ExitReplay, Modes, SavedInReplay
  <2>5. ASSUME NEW len \in Lengths, OpenRecording(len)
        PROVE  StaysFrozen
    BY <2>5, StartType DEF OpenRecording, Show
  <2>6. CASE OpenConfirm
    BY <2>6 DEF OpenConfirm
  <2>7. CASE Confirm
    BY <2>7 DEF Confirm, Resumed
  <2>8. CASE Abort
    BY <2>8 DEF Abort
  <2>9. CASE ToggleRecording
    BY <2>9 DEF ToggleRecording
  <2>10. CASE Quit
    BY <2>10 DEF Quit
  <2>11. CASE UNCHANGED vars
    BY <2>11 DEF vars
  <2>12. QED
    BY <1>1, <2>1, <2>2, <2>3, <2>4, <2>5, <2>6, <2>7, <2>8, <2>9, <2>10, <2>11, StepCases
<1>2. TypeOK /\ Modes /\ [Next]_vars => [StaysFrozen]_vars
  BY <1>1
<1>3. FrozenScreen <=> [][StaysFrozen]_vars
  BY DEF FrozenScreen, StaysFrozen
<1>4. QED
  BY <1>2, <1>3, ModesAlways, PTL DEF Spec

-----------------------------------------------------------------------------
(* Recording.                                                              *)

\* A failed write takes its snapshot from those owed, a written one is owed
\* and comes last.
LEMMA ArrivalRecorded ==
  ASSUME TypeOK, RecordingGapless, Arrive
  PROVE  RecordingGapless'
<1> SUFFICES ASSUME recording' # None
             PROVE  /\ Opening' = 1 => recording' # <<>> /\ recording'[1] = began'.screen
                    /\ {recording'[i] : i \in (Opening' + 1)..Len(recording')}
                         = {Live(n) : n \in Owed'}
                    /\ \A i, j \in (Opening' + 1)..Len(recording') :
                         i < j => recording'[i].n < recording'[j].n
  BY DEF RecordingGapless
<1> DEFINE len == Len(recording)
           o == Opening
           a == arrived + 1
<1>1. /\ recording # None /\ began' = began /\ arrived' = a
      /\ \/ recording' = Append(recording, Live(a)) /\ reported' = reported
         \/ recording' = recording /\ reported' = reported \cup {a}
  BY DEF Arrive, Recorded, disk, Live
<1>2. /\ recording \in Seq(Snapshot) /\ arrived \in Nat /\ reported \subseteq 1..arrived
      /\ began \in Beginning /\ began.at \in Nat /\ began.at <= arrived
  BY <1>1 DEF TypeOK, Beginning
<1>3. o \in {0, 1} /\ Opening' = o
  BY <1>1 DEF Opening
<1>4. /\ o = 1 => recording # <<>> /\ recording[1] = began.screen
      /\ {recording[i] : i \in (o + 1)..len} = {Live(n) : n \in Owed}
      /\ \A i, j \in (o + 1)..len : i < j => recording[i].n < recording[j].n
  BY <1>1 DEF RecordingGapless
<1>5. len \in Nat /\ o <= len
  BY <1>2, <1>3, <1>4
<1>6. Owed' = ((began.at + 1)..a) \ reported'
  BY <1>1 DEF Owed
<1> HIDE DEF o
<1>7. CASE recording' = recording /\ reported' = reported \cup {a}
  <2>1. Owed' = Owed
    BY <1>2, <1>6, <1>7 DEF Owed
  <2>2. QED
    BY <1>1, <1>3, <1>4, <1>7, <2>1
<1>8. CASE recording' = Append(recording, Live(a)) /\ reported' = reported
  <2>1. Owed' = Owed \cup {a}
    BY <1>2, <1>6, <1>8 DEF Owed
  <2>2. /\ Len(recording') = len + 1 /\ recording'[len + 1] = Live(a)
        /\ \A i \in 1..len : recording'[i] = recording[i]
    BY <1>2, <1>8
  <2>3. (o + 1)..(len + 1) = ((o + 1)..len) \cup {len + 1} /\ (o + 1)..len \subseteq 1..len
    BY <1>3, <1>5
  <2>4. o = 1 => recording' # <<>> /\ recording'[1] = began'.screen
    <3>1. o = 1 => 1 \in 1..len /\ Len(recording') # 0
      BY <1>5, <2>2
    <3>2. QED
      BY <1>1, <1>4, <2>2, <3>1
  <2>5. {recording'[i] : i \in (o + 1)..(len + 1)} = {Live(n) : n \in Owed'}
    <3>1. {recording'[i] : i \in (o + 1)..(len + 1)}
            = {recording[i] : i \in (o + 1)..len} \cup {Live(a)}
      BY <2>2, <2>3
    <3>2. QED
      BY <1>4, <2>1, <3>1
  <2>6. ASSUME NEW i \in (o + 1)..(len + 1), NEW j \in (o + 1)..(len + 1), i < j
        PROVE  recording'[i].n < recording'[j].n
    <3>1. i \in (o + 1)..len /\ i \in 1..len /\ recording'[i] = recording[i]
      BY <1>3, <1>5, <2>2, <2>6
    <3>2. CASE j = len + 1
      <4>1. PICK n \in Owed : recording[i] = Live(n)
        BY <1>4, <3>1
      <4>2. n \in Nat /\ n <= arrived
        BY <1>2 DEF Owed
      <4>3. recording'[i].n = n /\ recording'[j].n = a
        BY <2>2, <3>1, <3>2, <4>1 DEF Live
      <4>4. QED
        BY <1>2, <4>2, <4>3
    <3>3. CASE j # len + 1
      <4>1. j \in (o + 1)..len /\ recording'[j] = recording[j]
        BY <1>3, <1>5, <2>2, <3>3
      <4>2. QED
        BY <1>4, <2>6, <3>1, <4>1
    <3>4. QED
      BY <3>2, <3>3
  <2>7. QED
    BY <1>3, <2>2, <2>4, <2>5, <2>6
<1>9. QED
  BY <1>1, <1>7, <1>8

LEMMA StartGapless ==
  ASSUME TypeOK, StartRecording, reported' = {}, arrived' = arrived
  PROVE  RecordingGapless'
<1>1. PICK lost \in BOOLEAN :
        /\ recording' = IF lost THEN <<>> ELSE <<screen>>
        /\ began' = [screen |-> screen, at |-> arrived, lost |-> lost]
  BY DEF StartRecording
<1>2. arrived \in Nat /\ began'.at = arrived /\ began'.lost = lost /\ began'.screen = screen
  BY <1>1 DEF TypeOK
<1>3. Owed' = {}
  BY <1>2 DEF Owed
<1>4. CASE lost
  <2>1. Opening' = 0 /\ recording' = <<>> /\ Len(recording') = 0
    BY <1>1, <1>2, <1>4 DEF Opening
  <2>2. (0 + 1)..0 = {}
    OBVIOUS
  <2>3. QED
    BY <1>3, <2>1, <2>2 DEF RecordingGapless
<1>5. CASE ~lost
  <2>1. /\ Opening' = 1 /\ recording' = <<screen>>
        /\ recording' # <<>> /\ Len(recording') = 1 /\ recording'[1] = screen
    BY <1>1, <1>2, <1>5 DEF Opening
  <2>2. (1 + 1)..1 = {}
    OBVIOUS
  <2>3. QED
    BY <1>2, <1>3, <2>1, <2>2 DEF RecordingGapless
<1>6. QED
  BY <1>4, <1>5

(* The mode and the screen always agree.                                   *)
THEOREM ScreenAlwaysFaithful == Spec => ScreenFaithful
BY ParkedIsNewest, ReplayFaithful, CommandsAreLive, FreezeHolds, PTL DEF ScreenFaithful

(* A recording opens with the screen it began with and then holds exactly  *)
(* the live snapshots that arrived since, whatever was on screen, less     *)
(* those whose failed write was reported, going by what the writer says it *)
(* took.                                                                   *)
THEOREM NothingUnrecorded == Spec => []RecordingGapless
<1>1. Init => RecordingGapless
  BY DEF Init, RecordingGapless
<1>2. ASSUME TypeOK, RecordingGapless, [Next]_vars
      PROVE  RecordingGapless'
  <2> USE DEF freeze, playback, disk
  <2>1. CASE Arrive
    BY <1>2, <2>1, ArrivalRecorded
  <2>2. CASE ToggleRecording
    <3>1. reported' = {} /\ arrived' = arrived
      BY <2>2 DEF ToggleRecording
    <3>2. CASE StartRecording
      BY <1>2, <3>1, <3>2, StartGapless
    <3>3. CASE Finished
      BY <3>3 DEF Finished, RecordingGapless
    <3>4. QED
      BY <2>2, <3>2, <3>3 DEF ToggleRecording
  <2>3. CASE Quit
    BY <2>3 DEF Quit, Finished, RecordingGapless
  <2>4. CASE Stepping
    BY <1>2, <2>4, ReplayMoves DEF ReplayFrame, RecordingGapless, Owed, Opening
  <2>5. CASE UNCHANGED <<recording, began, reported, arrived>>
    BY <1>2, <2>5 DEF RecordingGapless, Owed, Opening
  <2>6. ASSUME \/ TogglePause \/ ExitReplay \/ OpenConfirm \/ Confirm \/ Abort
               \/ (\E len \in Lengths : OpenRecording(len)) \/ UNCHANGED vars
        PROVE  UNCHANGED <<recording, began, reported, arrived>>
    BY <2>6 DEF TogglePause, ExitReplay, OpenConfirm, Confirm, Abort, OpenRecording, vars
  <2>7. QED
    BY <1>2, <2>1, <2>2, <2>3, <2>4, <2>5, <2>6, StepCases
<1>3. QED
  BY <1>1, <1>2, TypeCorrect, PTL DEF Spec

-----------------------------------------------------------------------------
(* Module TuiLoop.                                                        *)

Channel(S, A) == [taken : Seq(S), queue : Seq(S), pending : Seq(S), asked : A]

InOrder(ch) ==
  /\ ch \in Channel(Nat, Nat)
  /\ Way(ch) = [i \in 1..ch.asked |-> i] /\ Len(ch.queue) <= AdminRoom

EndsAsAsked(ch, S) ==
  ch \in Channel(S, S \cup {0}) /\ LastOf(Way(ch)) = ch.asked

IInv == InOrder(admins) /\ EndsAsAsked(dbs, Databases) /\ EndsAsAsked(details, Nat)

-----------------------------------------------------------------------------
(* What the helpers on channels keep.                                      *)

LEMMA WayType ==
  ASSUME NEW S, NEW A, NEW ch \in Channel(S, A)
  PROVE  Way(ch) \in Seq(S)
BY ConcatProperties DEF Way, Channel

\* Putting what waits into the channel changes its place, not its order.
LEMMA DrainSlotKeeps ==
  ASSUME NEW S, NEW A, NEW ch \in Channel(S, A)
  PROVE  /\ DrainSlot(ch) \in Channel(S, A)
         /\ Way(DrainSlot(ch)) = Way(ch) /\ DrainSlot(ch).asked = ch.asked
<1>1. ch.taken \in Seq(S) /\ ch.queue \in Seq(S) /\ ch.pending \in Seq(S) /\ ch.asked \in A
  BY DEF Channel
<1>2. CASE ch.pending # <<>> /\ Len(ch.queue) < SwitchRoom
  <2>1. DrainSlot(ch) = [ch EXCEPT !.queue = @ \o ch.pending, !.pending = <<>>]
    BY <1>2 DEF DrainSlot
  <2>3. PICK t, q, p : t = ch.taken /\ q = ch.queue /\ p = ch.pending
    OBVIOUS
  <2>2. /\ DrainSlot(ch).taken = t /\ DrainSlot(ch).queue = q \o p
        /\ DrainSlot(ch).pending = <<>> /\ DrainSlot(ch).asked = ch.asked
        /\ DrainSlot(ch) \in Channel(S, A)
    <3>1. q \o p \in Seq(S) /\ <<>> \in Seq(S)
      BY <1>1, <2>3, ConcatProperties
    <3>2. PICK both : both = q \o p
      OBVIOUS
    <3>3. DrainSlot(ch) = [ch EXCEPT !.queue = both, !.pending = <<>>]
      BY <2>1, <2>3, <3>2
    <3>4. QED
      BY <1>1, <2>3, <3>1, <3>2, <3>3 DEF Channel
  <2>4. (t \o (q \o p)) \o <<>> = (t \o q) \o p
    <3>1. t \in Seq(S) /\ q \in Seq(S) /\ p \in Seq(S)
      BY <1>1, <2>3
    <3>2. t \o (q \o p) = (t \o q) \o p
      BY <3>1, ConcatAssociative
    <3>3. QED
      BY <3>1, <3>2, ConcatProperties, ConcatEmptySeq
  <2>5. QED
    BY <2>2, <2>3, <2>4 DEF Way
<1>3. CASE ~(ch.pending # <<>> /\ Len(ch.queue) < SwitchRoom)
  BY <1>3 DEF DrainSlot
<1>4. QED
  BY <1>2, <1>3

LEMMA DrainAllKeeps ==
  ASSUME NEW ch \in Channel(Nat, Nat), Len(ch.queue) <= AdminRoom
  PROVE  /\ DrainAll(ch) \in Channel(Nat, Nat)
         /\ Way(DrainAll(ch)) = Way(ch) /\ DrainAll(ch).asked = ch.asked
         /\ Len(DrainAll(ch).queue) <= AdminRoom
<1> DEFINE n == IF Len(ch.pending) < AdminRoom - Len(ch.queue) THEN Len(ch.pending)
                ELSE AdminRoom - Len(ch.queue)
           goes == SubSeq(ch.pending, 1, n)
           stays == SubSeq(ch.pending, n + 1, Len(ch.pending))
<1>1. ch.taken \in Seq(Nat) /\ ch.queue \in Seq(Nat) /\ ch.pending \in Seq(Nat) /\ ch.asked \in Nat
  BY DEF Channel
<1>2. Len(ch.queue) \in Nat /\ Len(ch.pending) \in Nat /\ AdminRoom \in Nat
  BY <1>1, LenProperties, LoopBounds
<1>3. n \in 0..Len(ch.pending) /\ n <= AdminRoom - Len(ch.queue)
  <2>1. PICK k, m : k = Len(ch.queue) /\ m = Len(ch.pending)
    OBVIOUS
  <2>2. k \in Nat /\ m \in Nat /\ k <= AdminRoom
    BY <1>2, <2>1
  <2>3. n = IF m < AdminRoom - k THEN m ELSE AdminRoom - k
    BY <2>1
  <2> HIDE DEF n
  <2>4. n \in 0..m /\ n <= AdminRoom - k
    BY <2>2, <2>3, LoopBounds
  <2>5. QED
    BY <2>1, <2>4
<1> HIDE DEF n
<1>4. \A i \in 1..Len(ch.pending) : ch.pending[i] \in Nat
  BY <1>1, ElementOfSeq
<1>5. goes \in Seq(Nat) /\ Len(goes) = n
  BY <1>2, <1>3, <1>4, SubSeqProperties
<1>6. stays \in Seq(Nat)
  BY <1>2, <1>3, <1>4, SubSeqProperties
<1>7. goes \o stays = ch.pending
  <2>1. PICK p : p = ch.pending
    OBVIOUS
  <2>2. p \in Seq(Nat) /\ Len(p) \in Nat /\ n \in 0..Len(p)
    BY <1>1, <1>2, <1>3, <2>1
  <2>3. SubSeq(p, 1, n) \o SubSeq(p, n + 1, Len(p)) = SubSeq(p, 1, Len(p))
    <3>1. 1 \in 1..Len(p) + 1 /\ n \in 1 - 1..Len(p) /\ Len(p) \in n..Len(p)
      BY <2>2
    <3>2. QED
      BY <2>2, <3>1, ConcatAdjacentSubSeq
  <2>4. SubSeq(p, 1, Len(p)) = p
    BY <2>2, SubSeqFull
  <2>5. QED
    BY <2>1, <2>3, <2>4
<1> HIDE DEF goes, stays
<1>8. DrainAll(ch) = [ch EXCEPT !.queue = @ \o goes, !.pending = stays]
  BY DEF DrainAll, goes, stays, n
<1>9. /\ DrainAll(ch).taken = ch.taken /\ DrainAll(ch).queue = ch.queue \o goes
      /\ DrainAll(ch).pending = stays /\ DrainAll(ch).asked = ch.asked
      /\ DrainAll(ch) \in Channel(Nat, Nat)
  <2>1. PICK all : all = ch.queue \o goes
    OBVIOUS
  <2>2. all \in Seq(Nat)
    BY <1>1, <1>5, <2>1, ConcatProperties
  <2>3. DrainAll(ch) = [ch EXCEPT !.queue = all, !.pending = stays]
    BY <1>8, <2>1
  <2>4. QED
    BY <1>1, <1>6, <2>1, <2>2, <2>3 DEF Channel
<1>10. Way(DrainAll(ch)) = Way(ch)
  <2>1. PICK t, q : t = ch.taken /\ q = ch.queue
    OBVIOUS
  <2>2. t \in Seq(Nat) /\ q \in Seq(Nat)
    BY <1>1, <2>1
  <2>3. PICK g, r : g = goes /\ r = stays
    OBVIOUS
  <2>4. g \in Seq(Nat) /\ r \in Seq(Nat) /\ t \o q \in Seq(Nat)
    BY <1>5, <1>6, <2>2, <2>3, ConcatProperties
  <2>5. t \o (q \o g) = (t \o q) \o g
    BY <2>2, <2>4
  <2>6. ((t \o q) \o g) \o r = (t \o q) \o (g \o r)
    BY <2>2, <2>4
  <2>7. QED
    BY <1>7, <1>9, <2>1, <2>3, <2>5, <2>6 DEF Way
<1>11. Len(ch.queue \o goes) <= AdminRoom
  BY <1>1, <1>2, <1>3, <1>5, ConcatProperties
<1>12. QED
  BY <1>9, <1>10, <1>11

LEMMA HeadThenTail ==
  ASSUME NEW S, NEW s \in Seq(S), s # <<>>
  PROVE  <<Head(s)>> \o Tail(s) = s
<1>1. Len(s) \in Nat \ {0}
  BY EmptySeq
<1>2. 1 \in 1..Len(s) /\ Len(s) \in 1..Len(s)
  BY <1>1
<1>3. SubSeq(s, 1, Len(s)) = <<s[1]>> \o SubSeq(s, 1 + 1, Len(s))
  BY <1>2, SubSeqRecursiveFirst
<1>4. SubSeq(s, 1, Len(s)) = s /\ Tail(s) = SubSeq(s, 2, Len(s)) /\ Head(s) = s[1]
  BY SubSeqFull, TailIsSubSeq
<1>5. QED
  BY <1>3, <1>4

\* The poller receives the head of a channel.
LEMMA TookAllKeeps ==
  ASSUME NEW ch \in Channel(Nat, Nat), ch.queue # <<>>
  PROVE  /\ Took(ch, TRUE) \in Channel(Nat, Nat)
         /\ Way(Took(ch, TRUE)) = Way(ch) /\ Took(ch, TRUE).asked = ch.asked
         /\ Len(Took(ch, TRUE).queue) <= Len(ch.queue)
<1>1. ch.taken \in Seq(Nat) /\ ch.queue \in Seq(Nat) /\ ch.pending \in Seq(Nat) /\ ch.asked \in Nat
  BY DEF Channel
<1> DEFINE head == Head(ch.queue)
           tail == Tail(ch.queue)
<1>2. /\ head \in Nat /\ tail \in Seq(Nat) /\ Len(tail) = Len(ch.queue) - 1
      /\ \A i \in 1..Len(tail) : tail[i] = ch.queue[i + 1]
  BY <1>1, HeadTailProperties
<1>3. Append(ch.taken, head) \o tail = ch.taken \o ch.queue
  <2>1. <<head>> \o tail = ch.queue
    BY <1>1, HeadThenTail
  <2>2. PICK t, e, u : t = ch.taken /\ e = head /\ u = tail
    OBVIOUS
  <2>3. t \in Seq(Nat) /\ e \in Nat /\ u \in Seq(Nat)
    BY <1>1, <1>2, <2>2
  <2>4. Append(t, e) \o u = t \o (<<e>> \o u)
    BY <2>3
  <2>5. QED
    BY <2>1, <2>2, <2>4
<1>4. /\ Took(ch, TRUE).taken = Append(ch.taken, head) /\ Took(ch, TRUE).queue = tail
      /\ Took(ch, TRUE).pending = ch.pending /\ Took(ch, TRUE).asked = ch.asked
      /\ Took(ch, TRUE) \in Channel(Nat, Nat)
  BY <1>1, <1>2, AppendProperties DEF Took, Channel
<1>5. Len(tail) <= Len(ch.queue)
  BY <1>1, <1>2, LenProperties
<1> HIDE DEF head, tail
<1>6. QED
  BY <1>3, <1>4, <1>5 DEF Way

LEMMA TookLastKeeps ==
  ASSUME NEW S, NEW A, NEW ch \in Channel(S, A), ch.queue # <<>>
  PROVE  /\ Took(ch, FALSE) \in Channel(S, A)
         /\ LastOf(Way(Took(ch, FALSE))) = LastOf(Way(ch)) /\ Took(ch, FALSE).asked = ch.asked
<1>1. ch.taken \in Seq(S) /\ ch.queue \in Seq(S) /\ ch.pending \in Seq(S) /\ ch.asked \in A
  BY DEF Channel
<1>2. PICK t, q, p : t = ch.taken /\ q = ch.queue /\ p = ch.pending
  OBVIOUS
<1>3. t \in Seq(S) /\ q \in Seq(S) /\ p \in Seq(S) /\ q # <<>>
  BY <1>1, <1>2
<1>4. Head(q) \in S /\ Tail(q) \in Seq(S)
  BY <1>3, HeadTailProperties
<1>5. PICK e, u : e = Head(q) /\ u = Tail(q)
  OBVIOUS
<1>6. /\ Took(ch, FALSE).taken = <<e>> /\ Took(ch, FALSE).queue = u
      /\ Took(ch, FALSE).pending = p /\ Took(ch, FALSE).asked = ch.asked
      /\ Took(ch, FALSE) \in Channel(S, A)
  <2>1. Took(ch, FALSE) = [ch EXCEPT !.taken = <<e>>, !.queue = u]
    BY <1>2, <1>5 DEF Took
  <2>2. <<e>> \in Seq(S) /\ u \in Seq(S)
    BY <1>4, <1>5
  <2>3. PICK one : one = <<e>>
    OBVIOUS
  <2>4. QED
    BY <1>1, <1>2, <2>1, <2>2, <2>3 DEF Channel
<1>7. LastOf((<<e>> \o u) \o p) = LastOf((t \o q) \o p)
  <2>1. <<e>> \o u = q
    BY <1>3, <1>5, HeadThenTail
  <2>2. Len(q) \in Nat \ {0} /\ Len(p) \in Nat /\ Len(t) \in Nat
    BY <1>3, EmptySeq, LenProperties
  <2>3. q \o p \in Seq(S) /\ Len(q \o p) = Len(q) + Len(p)
    BY <1>3
  <2>4. /\ t \o (q \o p) \in Seq(S) /\ Len(t \o (q \o p)) = Len(t) + Len(q \o p)
        /\ (t \o (q \o p))[Len(t) + Len(q \o p)] = (q \o p)[Len(q \o p)]
    BY <1>3, <2>2, <2>3, ConcatProperties
  <2>5. q \o p # <<>> /\ t \o (q \o p) # <<>>
    BY <2>2, <2>3, <2>4
  <2>6. (t \o q) \o p = t \o (q \o p)
    BY <1>3
  <2>7. QED
    BY <2>1, <2>4, <2>5, <2>6 DEF LastOf
<1>8. QED
  BY <1>2, <1>6, <1>7 DEF Way

\* What is asked for last ends the way.
LEMMA LastOfAppend ==
  ASSUME NEW S, NEW s \in Seq(S), NEW e \in S
  PROVE  LastOf(s \o <<e>>) = e
<1>1. /\ s \o <<e>> \in Seq(S) /\ Len(s \o <<e>>) = Len(s) + 1 /\ Len(s) \in Nat
      /\ (s \o <<e>>)[Len(s) + 1] = e
  BY LenProperties
<1>2. s \o <<e>> # <<>>
  BY <1>1
<1>3. QED
  BY <1>1, <1>2 DEF LastOf

-----------------------------------------------------------------------------
(* What the user does to a channel.                                        *)

LEMMA Confirming ==
  ASSUME NEW ch, InOrder(ch)
  PROVE  InOrder([ch EXCEPT !.pending = Append(ch.pending, ch.asked + 1), !.asked = ch.asked + 1])
<1>1. ch.taken \in Seq(Nat) /\ ch.queue \in Seq(Nat) /\ ch.pending \in Seq(Nat) /\ ch.asked \in Nat
  BY DEF InOrder, Channel
<1>2. PICK t, q, p, n : t = ch.taken /\ q = ch.queue /\ p = ch.pending /\ n = ch.asked + 1
  OBVIOUS
<1>3. t \in Seq(Nat) /\ q \in Seq(Nat) /\ p \in Seq(Nat) /\ n \in Nat
  BY <1>1, <1>2
<1>4. PICK more : more = Append(p, n)
  OBVIOUS
<1>5. PICK new : new = [ch EXCEPT !.pending = more, !.asked = n]
  OBVIOUS
<1>6. /\ new.taken = t /\ new.queue = q /\ new.pending = more /\ new.asked = n
      /\ new \in Channel(Nat, Nat)
  <2>1. more \in Seq(Nat)
    BY <1>3, <1>4
  <2>2. ch \in Channel(Nat, Nat)
    BY DEF InOrder
  <2>3. QED
    BY <1>1, <1>2, <1>3, <1>5, <2>1, <2>2 DEF Channel
<1>7. Way(new) = Append((t \o q) \o p, n)
  <2>1. (t \o q) \o Append(p, n) = Append((t \o q) \o p, n)
    BY <1>3
  <2>2. QED
    BY <1>4, <1>6, <2>1 DEF Way
<1>8. (t \o q) \o p = [i \in 1..n - 1 |-> i]
  <2>1. ch.asked = n - 1
    BY <1>1, <1>2
  <2>2. QED
    BY <1>2, <2>1 DEF InOrder, Way
<1>9. Append((t \o q) \o p, n) = [i \in 1..n |-> i]
  <2>1. PICK w : w = (t \o q) \o p
    OBVIOUS
  <2>2. w \in Seq(Nat) /\ w = [i \in 1..n - 1 |-> i]
    BY <1>3, <1>8, <2>1
  <2>3. n - 1 \in Nat
    BY <1>1, <1>2
  <2>4. Len(w) = n - 1 /\ \A i \in 1..n - 1 : w[i] = i
    BY <2>2, <2>3
  <2>5. /\ Append(w, n) \in Seq(Nat) /\ Len(Append(w, n)) = n
        /\ \A i \in 1..n - 1 : Append(w, n)[i] = i
        /\ Append(w, n)[n] = n
    BY <1>3, <2>2, <2>3, <2>4, AppendProperties
  <2>6. Append(w, n) \in [1..n -> Nat]
    BY <2>5, LenProperties
  <2>7. \A i \in 1..n : Append(w, n)[i] = i
    BY <1>3, <2>5
  <2>8. QED
    BY <2>1, <2>6, <2>7
<1>10. Len(q) <= AdminRoom
  BY <1>2 DEF InOrder
<1>11. InOrder(new)
  BY <1>6, <1>7, <1>9, <1>10 DEF InOrder
<1>12. QED
  BY <1>2, <1>4, <1>5, <1>11

LEMMA Choosing ==
  ASSUME NEW S, NEW ch, EndsAsAsked(ch, S), NEW e \in S
  PROVE  EndsAsAsked([ch EXCEPT !.pending = <<e>>, !.asked = e], S)
<1>1. ch.taken \in Seq(S) /\ ch.queue \in Seq(S) /\ ch \in Channel(S, S \cup {0})
  BY DEF EndsAsAsked, Channel
<1>2. PICK t, q, one : t = ch.taken /\ q = ch.queue /\ one = <<e>>
  OBVIOUS
<1>3. t \in Seq(S) /\ q \in Seq(S) /\ one \in Seq(S)
  BY <1>1, <1>2
<1>4. PICK new : new = [ch EXCEPT !.pending = one, !.asked = e]
  OBVIOUS
<1>5. /\ new.taken = t /\ new.queue = q /\ new.pending = one /\ new.asked = e
      /\ new \in Channel(S, S \cup {0})
  BY <1>1, <1>2, <1>3, <1>4 DEF Channel
<1>6. LastOf((t \o q) \o one) = e
  <2>1. t \o q \in Seq(S)
    BY <1>3
  <2>2. QED
    BY <1>2, <2>1, LastOfAppend
<1>7. EndsAsAsked(new, S)
  BY <1>5, <1>6 DEF EndsAsAsked, Way
<1>8. QED
  BY <1>2, <1>4, <1>7

LEMMA DrainAllOrdered ==
  ASSUME NEW ch, InOrder(ch)
  PROVE  InOrder(DrainAll(ch))
BY DrainAllKeeps DEF InOrder

LEMMA DrainSlotEnds ==
  ASSUME NEW S, NEW ch, EndsAsAsked(ch, S)
  PROVE  EndsAsAsked(DrainSlot(ch), S)
BY DrainSlotKeeps DEF EndsAsAsked

LEMMA TookEnds ==
  ASSUME NEW S, NEW ch, EndsAsAsked(ch, S), ch.queue # <<>>
  PROVE  EndsAsAsked(Took(ch, FALSE), S)
BY TookLastKeeps DEF EndsAsAsked

LEMMA DrainedKeeps ==
  ASSUME NEW a, NEW d, NEW t, Drained(a, d, t),
         InOrder(a), EndsAsAsked(d, Databases), EndsAsAsked(t, Nat)
  PROVE  IInv'
<1>1. InOrder(DrainAll(a)) /\ EndsAsAsked(DrainSlot(d), Databases) /\ EndsAsAsked(DrainSlot(t), Nat)
  BY DrainAllOrdered, DrainSlotEnds
<1>2. admins' = DrainAll(a) /\ dbs' = DrainSlot(d) /\ details' = DrainSlot(t)
  BY DEF Drained
<1>3. QED
  BY <1>1, <1>2 DEF IInv

-----------------------------------------------------------------------------
(* The steps.                                                              *)

LEMMA InitInv == LoopInit => IInv
<1> SUFFICES ASSUME LoopInit PROVE IInv
  OBVIOUS
<1>1. PICK none : none = <<>>
  OBVIOUS
<1>2. Idle = [taken |-> none, queue |-> none, pending |-> none, asked |-> 0]
  BY <1>1 DEF Idle
<1>3. ASSUME NEW S PROVE Idle \in Channel(S, S \cup {0}) /\ Idle \in Channel(Nat, Nat)
  <2>1. none \in Seq(S) /\ none \in Seq(Nat)
    BY <1>1
  <2>2. QED
    BY <1>2, <2>1 DEF Channel
<1>4. Way(Idle) = <<>> /\ Idle.asked = 0 /\ Idle.queue = <<>>
  <2>1. (none \o none) \o none = <<>>
    BY <1>1
  <2>2. QED
    BY <1>1, <1>2, <2>1 DEF Way
<1>5. <<>> = [i \in 1..0 |-> i] /\ LastOf(<<>>) = 0 /\ Len(<<>>) <= AdminRoom
  BY LoopBounds DEF LastOf
<1>6. InOrder(Idle) /\ EndsAsAsked(Idle, Databases) /\ EndsAsAsked(Idle, Nat)
  BY <1>3, <1>4, <1>5 DEF InOrder, EndsAsAsked
<1>7. QED
  BY <1>6 DEF LoopInit, IInv

LEMMA TakingKeeps ==
  ASSUME IInv, PollerTakes
  PROVE  IInv'
<1>1. InOrder(admins) /\ EndsAsAsked(dbs, Databases) /\ EndsAsAsked(details, Nat)
  BY DEF IInv
<1>2. CASE admins.queue # <<>> /\ admins' = Took(admins, TRUE) /\ UNCHANGED <<dbs, servers, details>>
  <2>1. admins \in Channel(Nat, Nat) /\ Len(admins.queue) \in Nat /\ Len(admins.queue) <= AdminRoom
    BY <1>1, LenProperties DEF InOrder, Channel
  <2>2. /\ Took(admins, TRUE) \in Channel(Nat, Nat)
        /\ Way(Took(admins, TRUE)) = Way(admins) /\ Took(admins, TRUE).asked = admins.asked
        /\ Len(Took(admins, TRUE).queue) <= Len(admins.queue)
    BY <1>2, <2>1, TookAllKeeps
  <2>3. Len(Took(admins, TRUE).queue) \in Nat
    BY <2>2, LenProperties DEF Channel
  <2>4. PICK k, m : k = Len(Took(admins, TRUE).queue) /\ m = Len(admins.queue)
    OBVIOUS
  <2>5. k \in Nat /\ m \in Nat /\ k <= m /\ m <= AdminRoom
    BY <2>1, <2>2, <2>3, <2>4
  <2>6. InOrder(Took(admins, TRUE))
    <3>1. k <= AdminRoom
      BY <2>5, LoopBounds
    <3>2. QED
      BY <1>1, <2>2, <2>4, <3>1 DEF InOrder
  <2>7. QED
    BY <1>1, <1>2, <2>6 DEF IInv
<1>3. CASE dbs.queue # <<>> /\ dbs' = Took(dbs, FALSE) /\ UNCHANGED <<admins, servers, details>>
  <2>1. EndsAsAsked(Took(dbs, FALSE), Databases)
    BY <1>1, <1>3, TookEnds
  <2>2. QED
    BY <1>1, <1>3, <2>1 DEF IInv
<1>4. CASE details.queue # <<>> /\ details' = Took(details, FALSE) /\ UNCHANGED <<admins, dbs, servers>>
  <2>1. EndsAsAsked(Took(details, FALSE), Nat)
    BY <1>1, <1>4, TookEnds
  <2>2. QED
    BY <1>1, <1>4, <2>1 DEF IInv
<1>5. CASE UNCHANGED <<admins, dbs, details>>
  BY <1>1, <1>5 DEF IInv
<1>6. QED
  BY <1>2, <1>3, <1>4, <1>5 DEF PollerTakes

LEMMA NextInv == IInv /\ [LoopNext]_loopVars => IInv'
<1> SUFFICES ASSUME IInv, [LoopNext]_loopVars PROVE IInv'
  OBVIOUS
<1>1. InOrder(admins) /\ EndsAsAsked(dbs, Databases) /\ EndsAsAsked(details, Nat)
  BY DEF IInv
<1>2. CASE Drained(admins, dbs, details)
  BY <1>1, <1>2, DrainedKeeps
<1>3. CASE ConfirmedPass
  BY <1>1, <1>3, Confirming, DrainedKeeps DEF ConfirmedPass
<1>4. ASSUME NEW d \in Databases, DatabasePass(d) PROVE IInv'
  BY <1>1, <1>4, Choosing, DrainedKeeps DEF DatabasePass
<1>5. CASE DetailPass
  <2>1. details.asked + 1 \in Nat
    BY <1>1 DEF EndsAsAsked, Channel
  <2>2. QED
    BY <1>1, <1>5, <2>1, Choosing, DrainedKeeps DEF DetailPass
<1>6. CASE admins' = DrainAll(admins) /\ dbs' = DrainSlot(dbs) /\ details' = DrainSlot(details)
  BY <1>1, <1>6, DrainAllOrdered, DrainSlotEnds DEF IInv
<1>7. ASSUME NEW s, NEW resolves, ServerPass(s, resolves) PROVE IInv'
  BY <1>2, <1>6, <1>7 DEF ServerPass
<1>8. CASE PollerTakes
  BY <1>8, TakingKeeps
<1>9. CASE UNCHANGED <<admins, dbs, details>>
  BY <1>1, <1>9 DEF IInv
<1>10. QED
  BY <1>2, <1>3, <1>4, <1>5, <1>6, <1>7, <1>8, <1>9
     DEF LoopNext, QuietPass, PickedPass, LeaveLoop, loopVars

(* Nothing the user decided is lost or overtaken on its way to the poller: *)
(* commands arrive once and in order, and of the databases and structures  *)
(* asked for the last one arrives last, however full the channels are.     *)
THEOREM DecisionsHandedOver == LoopSpec => []HandedOver
<1>1. IInv => HandedOver
  BY DEF IInv, InOrder, EndsAsAsked, HandedOver, CommandsInOrder, LastChoiceWins
<1>2. QED
  BY <1>1, InitInv, NextInv, PTL DEF LoopSpec
=============================================================================
