--------------------------- MODULE FlightRecorder ---------------------------
(***************************************************************************)
(* The model of incident recording: `RecordingWriter` (create, append,     *)
(* rotate, finish), `prune_recordings` and the deletion dialog of the      *)
(* Records Lens, on one directory that another pg_lens may also clean.     *)
(*                                                                         *)
(* A frame is its number, a file the frames written to it.  Files are      *)
(* named by the seconds at which they begin and end.                       *)
(***************************************************************************)
EXTENDS Naturals, Sequences, FiniteSets, SequencesExt, Functions, Absent

CONSTANTS MaxBytes,    \* a file's size before it is rotated
          Sizes,       \* sizes a serialized snapshot may have
          Quota,       \* record_max_total_bytes
          Retention,   \* record_retention_days, in seconds
          MaxTime,     \* bound on the seconds
          MaxFrames    \* bound on the frames

ASSUME SizesType == Sizes \subseteq Nat \ {0} /\ MaxBytes \in Nat \ {0}
ASSUME LimitsType == Quota \in Nat /\ Retention \in Nat
ASSUME BoundsType == MaxTime \in Nat \ {0} /\ MaxFrames \in Nat \ {0}

Time == 0..MaxTime
ASSUME NoneType == None \notin Time
Name == [start : Time, end : Time \cup {None}]
Open(t) == [start |-> t, end |-> None]

VARIABLES
  now,      \* epoch_secs_now
  dir,      \* the recordings on disk: the lines of each
  writer,   \* the RecordingWriter, None without a recording
  records,  \* app.records: the names and the one marked as active
  target,   \* the name the deletion dialog is open for
  frames,   \* number of snapshots recorded or lost so far
  owed      \* frames written to a file that nobody deleted and no other replaced

recorderVars == <<now, dir, writer, records, target, frames, owed>>

Writer == [start : Time, path : Name, sink : BOOLEAN, bytes : Nat]
RecorderType ==
  /\ now \in Time /\ frames \in 0..MaxFrames
  /\ DOMAIN dir \subseteq Name
  /\ \A n \in DOMAIN dir : dir[n] \in Seq([frame : 1..frames, size : Sizes])
  /\ writer \in Writer \cup {None}
  /\ records \in [names : SUBSET Name, active : Name \cup {None}]
  /\ target \in Name \cup {None}
  /\ owed \subseteq 1..frames

Without(d, n) == Restrict(d, DOMAIN d \ {n})
With(d, n, lines) == [m \in DOMAIN d \cup {n} |-> IF m = n THEN lines ELSE d[m]]
Line(i, size) == [frame |-> i, size |-> size]
FramesOf(f) == {l.frame : l \in ToSet(f)}
Frames(d) == UNION {FramesOf(d[n]) : n \in DOMAIN d}
\* The bytes of a file, each by its line and its place there.
BytesIn(d, n) == UNION {{<<n, i>>} \X (1..d[n][i].size) : i \in DOMAIN d[n]}
Bytes(d, S) == Cardinality(UNION {BytesIn(d, n) : n \in S})

RecorderInit ==
  /\ now = 0 /\ dir = << >> /\ writer = None /\ target = None
  /\ records = [names |-> {}, active |-> None] /\ frames = 0 /\ owed = {}

-----------------------------------------------------------------------------
(* Pruning.                                                                *)

\* Mutant: the newest files go first.
NewerFirst(m, n) == m.start > n.start
\* Oldest first; files of one second come in directory order, here by their ends.
Older(m, n) ==
  \/ m.start < n.start
  \/ m.start = n.start /\ m.end # None /\ (n.end = None \/ m.end < n.end)

\* What is left when the files `stuck` cannot be deleted: the files that are
\* too old go, then the oldest until the rest fits the quota.
Pruned(d, active, stuck) ==
  LET closed == DOMAIN d \ {active}
      old    == {n \in closed : now - n.start > Retention}
      young  == closed \ old
      tried(n) == {m \in young \ stuck : Older(m, n)}
      over   == {n \in young : Bytes(d, young) - Bytes(d, tried(n)) > Quota}
  IN  Restrict(d, DOMAIN d \ ((old \cup over) \ stuck))

Path(w) == IF w = None THEN None ELSE w.path

\* list_recordings
Listing(d, w) == [names |-> DOMAIN d, active |-> Path(w)]

\* Mutant: pruning spares the file of the writer as it was.
SettleStale(d, w, base) ==
  \E stuck \in {{}} \cup {{n} : n \in DOMAIN d} :
    /\ dir' = Pruned(d, Path(writer), stuck)
    /\ records' = Listing(dir', w)
    /\ owed' = base \ (Frames(d) \ Frames(dir'))
\* refresh_records with writer w and the frames owed so far: prune, then list.
Settle(d, w, base) ==
  \E stuck \in {{}} \cup {{n} : n \in DOMAIN d} :
    /\ dir' = Pruned(d, Path(w), stuck)
    /\ records' = Listing(dir', w)
    /\ owed' = base \ (Frames(d) \ Frames(dir'))

\* Also after an export and on entering the Records Lens.
Refresh ==
  /\ target = None /\ Settle(dir, writer, owed)
  /\ UNCHANGED <<now, writer, target, frames>>

-----------------------------------------------------------------------------
(* The writer.                                                             *)

Attached(d, w) == w.sink /\ w.path \in DOMAIN d
Disk(d, due) == [dir |-> d, owed |-> due]
\* A name has the seconds of a file only: a file that is created or renamed takes
\* the place of another of the same name, whose frames are gone.
Replacing(due, d, n) == IF n \in DOMAIN d THEN due \ FramesOf(d[n]) ELSE due

\* A closed file is renamed, over any file of that name, or is not: errors of
\* the renaming are ignored.
Stamped(w) ==
  LET name == [start |-> w.start, end |-> now]
  IN  {Disk(dir, owed)} \cup
      IF w.path \notin DOMAIN dir THEN {}
      ELSE {Disk(With(Without(dir, w.path), name, dir[w.path]), Replacing(owed, dir, name))}

\* Mutant: a rotation does not move the beginning of the next file.
NextFileUnmoved(w) == [w EXCEPT !.path = Open(now), !.sink = TRUE, !.bytes = 0]
NextFile(w) == [w EXCEPT !.start = now, !.path = Open(now), !.sink = TRUE, !.bytes = 0]
\* File::create
Created(disk, w) == Disk(With(disk.dir, w.path, << >>), Replacing(disk.owed, disk.dir, w.path))

\* A write that fails leaves nothing readable, or its line after all.
Failed(d, w, l) == {d} \cup IF Attached(d, w) THEN {[d EXCEPT ![w.path] = Append(@, l)]} ELSE {}
\* Without a sink nothing is written, and nobody is told.
Put(d, w, l) == IF Attached(d, w) THEN [d EXCEPT ![w.path] = Append(@, l)] ELSE d
\* The frame, if there was a file to write it to.
Promised(d, w, l) == IF Attached(d, w) THEN {l.frame} ELSE {}

Outcome(d, w, due, rotated) == [dir |-> d, writer |-> w, owed |-> due, rotated |-> rotated]
\* What a write to writer w may come to.
Written(disk, w, l, rotated) ==
  {Outcome(Put(disk.dir, w, l), [w EXCEPT !.bytes = @ + l.size],
           disk.owed \cup Promised(disk.dir, w, l), rotated)}
  \cup IF w.sink THEN {Outcome(e, w, disk.owed, FALSE) : e \in Failed(disk.dir, w, l)} ELSE {}

Due(l) == writer.bytes > 0 /\ writer.bytes + l.size > MaxBytes

\* The old file is closed and renamed, the new one created.  The closing or the
\* creation may fail: the snapshot is lost and the writer is without a sink.
Rotated(l) ==
  LET shut == [writer EXCEPT !.sink = FALSE]
      next == NextFile(writer)
      closed == Stamped(writer)
  IN  (IF writer.sink THEN {Outcome(dir, shut, owed, FALSE)} ELSE {})
      \cup {Outcome(c.dir, [shut EXCEPT !.start = now], c.owed, FALSE) : c \in closed}
      \cup UNION {Written(Created(c, next), next, l, TRUE) : c \in closed}

\* A snapshot is appended, then shown, unless the display is frozen.  A rotation
\* refreshes the records, and so does showing a snapshot on the Records Lens.
Arrive ==
  /\ writer # None /\ frames < MaxFrames /\ frames' = frames + 1
  /\ \E size \in Sizes :
       LET l == Line(frames', size)
       IN  \E o \in IF Due(l) THEN Rotated(l) ELSE Written(Disk(dir, owed), writer, l, FALSE) :
             /\ writer' = o.writer
             /\ \/ Settle(o.dir, o.writer, o.owed)
                \/ ~o.rotated /\ dir' = o.dir /\ owed' = o.owed /\ UNCHANGED records
  /\ UNCHANGED <<now, target>>

\* create_in_full
NewWriter == [start |-> now, path |-> Open(now), sink |-> TRUE, bytes |-> 0]
\* `R` begins a recording with the screen; an error of that write is ignored.
StartRecording ==
  /\ target = None /\ writer = None
  /\ frames < MaxFrames /\ frames' = frames + 1
  /\ \E size \in Sizes :
       \E o \in Written(Created(Disk(dir, owed), NewWriter), NewWriter, Line(frames', size), FALSE) :
         writer' = o.writer /\ Settle(o.dir, o.writer, o.owed)
  /\ UNCHANGED <<now, target>>

\* `R` again: finish, which may fail to flush, and then does not rename.
StopRecording ==
  /\ target = None /\ writer # None /\ writer' = None
  /\ \/ writer.sink /\ UNCHANGED <<dir, records, owed>>
     \/ \E c \in Stamped(writer) : Settle(c.dir, None, c.owed)
  /\ UNCHANGED <<now, target, frames>>

\* The process is quit or dies, which drops the writer, and is started again.
Restart ==
  /\ writer' = None /\ target' = None /\ Settle(dir, None, owed)
  /\ UNCHANGED <<now, frames>>

-----------------------------------------------------------------------------
(* Deletion.                                                               *)

\* `x`, refused on the row marked as active.
OpenDialog ==
  /\ target = None
  /\ \E n \in records.names \ {records.active} : target' = n
  /\ UNCHANGED <<now, dir, writer, records, frames, owed>>

Delete ==
  /\ target # None /\ target' = None
  /\ \/ target \in DOMAIN dir /\ Settle(Without(dir, target), writer, owed \ FramesOf(dir[target]))
     \/ UNCHANGED <<dir, records, owed>>
  /\ UNCHANGED <<now, writer, frames>>

KeepFile ==
  /\ target # None /\ target' = None
  /\ UNCHANGED <<now, dir, writer, records, frames, owed>>

\* Another instance prunes, or the web frontend deletes, any file.
Foreign ==
  /\ \E n \in DOMAIN dir : dir' = Without(dir, n) /\ owed' = owed \ FramesOf(dir[n])
  /\ UNCHANGED <<now, writer, records, target, frames>>

Tick == now < MaxTime /\ now' = now + 1
        /\ UNCHANGED <<dir, writer, records, target, frames, owed>>

RecorderNext ==
  \/ Arrive \/ StartRecording \/ StopRecording \/ Refresh \/ Restart
  \/ OpenDialog \/ Delete \/ KeepFile \/ Foreign \/ Tick

RecorderSpec == RecorderInit /\ [][RecorderNext]_recorderVars

-----------------------------------------------------------------------------
(* Safety.                                                                 *)

\* Every frame that was written to a file is in a file until that one is deleted
\* or a file of the same seconds takes its name, whichever renaming, rotation,
\* restart or failed write comes in between.
FramesKept == owed \subseteq Frames(dir)

\* The files tell one story: the times of closed files do not overlap, a file
\* that begins later holds later frames, and within a file lines are in order.
FramesInOrder ==
  /\ \A m, n \in DOMAIN dir : m.start < n.start =>
       \A i \in FramesOf(dir[m]), j \in FramesOf(dir[n]) : i < j
  /\ \A m, n \in {k \in DOMAIN dir : k.end # None} :
       m # n => m.end <= n.start \/ n.end <= m.start
  /\ \A n \in DOMAIN dir : \A i, j \in DOMAIN dir[n] : i < j => dir[n][i].frame < dir[n][j].frame

\* What was written can be replayed as it happened: nothing is missing and
\* nothing is out of place (append, rotate, finish).
RecordingIntact == FramesKept /\ FramesInOrder

\* Pruning and deleting in this process never take the file being written
\* away from its writer, whatever cannot be deleted.
ActiveSpared ==
  [][writer # None /\ writer' # None /\ writer'.sink
     /\ (Attached(dir, writer) \/ writer'.path # writer.path) /\ ~Foreign
       => Attached(dir', writer')]_recorderVars

\* "`Ok(None)` if written to current file" (recording.rs:664): what a recording
\* counts as written is on disk, unless its file was taken away.  It is not:
\* after a rotation that could not create its file a smaller snapshot is not due,
\* finds no sink, and is counted.
CountedIsWritten ==
  [][writer # None /\ writer' # None /\ writer'.bytes > writer.bytes
     => frames' \in Frames(dir') \/ (writer'.sink /\ ~Attached(dir, writer'))]_recorderVars

\* By quota, pruning keeps the newest files that fit together, and no fewer.
PruneKeepsNewest ==
  LET closed == {n \in DOMAIN dir \ {Path(writer)} : now - n.start <= Retention}
      kept   == DOMAIN Pruned(dir, Path(writer), {}) \ {Path(writer)}
  IN  /\ kept \subseteq closed /\ Bytes(dir, kept) <= Quota
      /\ \A n \in closed \ kept :
           /\ \A m \in kept : m.start >= n.start
           /\ Bytes(dir, {m \in closed : m.start >= n.start}) > Quota
=============================================================================
