--------------------------- MODULE RecorderProofs ---------------------------
(* That the file being written survives what this process prunes and       *)
(* deletes, and that the files on disk tell in order what was recorded, for *)
(* any quota, retention, sizes and number of frames.                       *)
EXTENDS FlightRecorder, DataLemmas

Names == DOMAIN dir \cup records.names \cup ({target} \ {None})

Types ==
  /\ now \in Time /\ writer \in Writer \cup {None}
  /\ records \in [names : SUBSET Name, active : Name \cup {None}]
  /\ target \in Name \cup {None} /\ DOMAIN dir \subseteq Name

\* No file that is open, or was left so, is named after a second still to come,
\* nor after one in which the writer's file had not begun.
NamesPast ==
  \A n \in Names : n.end = None =>
    n.start <= now /\ (writer # None => n.start <= writer.path.start)

\* The list may be older than the writer's file, which is then not on it; and
\* the deletion dialog is open for another file.
ActiveKnown ==
  writer # None => /\ writer.path.end = None /\ writer.path.start <= now
                   /\ writer.path \in records.names => records.active = writer.path
                   /\ target # None => target # writer.path

IInv == Types /\ NamesPast /\ ActiveKnown

-----------------------------------------------------------------------------
\* Pruning spares the active file, and brings no file back.
LEMMA PruneSpares ==
  ASSUME NEW d, NEW active, NEW stuck
  PROVE  /\ DOMAIN Pruned(d, active, stuck) \subseteq DOMAIN d
         /\ active \in DOMAIN d => active \in DOMAIN Pruned(d, active, stuck)
BY DEF Pruned, Restrict

LEMMA SettleKeeps ==
  ASSUME NEW d, NEW w, NEW base, Settle(d, w, base), DOMAIN d \subseteq Name,
         w \in Writer \cup {None}
  PROVE  /\ DOMAIN dir' \subseteq DOMAIN d
         /\ records' = [names |-> DOMAIN dir', active |-> Path(w)]
         /\ records' \in [names : SUBSET Name, active : Name \cup {None}]
         /\ w # None /\ w.path \in DOMAIN d => w.path \in DOMAIN dir'
BY PruneSpares DEF Settle, Listing, Path, Writer

-----------------------------------------------------------------------------
(* A write, with or without a rotation.                                    *)

LEMMA LineSize ==
  ASSUME NEW frame, NEW size \in Sizes PROVE Line(frame, size).size \in Nat
BY SizesType DEF Line

\* The same file, and the same names, whatever else changed.
SameFile(v, w) == v.path = w.path /\ v.start = w.start /\ v.sink = w.sink
SameNames(d, e) == DOMAIN d = DOMAIN e

LEMMA WriteOutcome ==
  ASSUME NEW disk, NEW w \in Writer, NEW l, l.size \in Nat,
         NEW o \in Written(disk, w, l, TRUE) \cup Written(disk, w, l, FALSE)
  PROVE  o.writer \in Writer /\ SameNames(o.dir, disk.dir) /\ SameFile(o.writer, w)
<1>1. DOMAIN Put(disk.dir, w, l) = DOMAIN disk.dir
  BY DEF Put
<1>2. \A e \in Failed(disk.dir, w, l) : DOMAIN e = DOMAIN disk.dir
  BY DEF Failed
<1>3. [w EXCEPT !.bytes = @ + l.size] \in Writer
  BY DEF Writer
<1>4. CASE \E rotated \in BOOLEAN :
             o = Outcome(Put(disk.dir, w, l), [w EXCEPT !.bytes = @ + l.size],
                         disk.owed \cup Promised(disk.dir, w, l), rotated)
  BY <1>1, <1>3, <1>4 DEF Outcome, Writer, SameFile, SameNames
<1>5. CASE \E e \in Failed(disk.dir, w, l) : o = Outcome(e, w, disk.owed, FALSE)
  BY <1>2, <1>5 DEF Outcome, SameFile, SameNames
<1>6. QED
  BY <1>4, <1>5 DEF Written

\* The writer goes on with its file, or begins one that no list has yet.
Same(o) ==
  /\ o.writer.path = writer.path
  /\ o.writer.sink => (writer.path \in DOMAIN dir => writer.path \in DOMAIN o.dir)
Begun(o) == o.writer.path = Open(now) /\ o.writer.path \in DOMAIN o.dir

\* The open files are some of those there were, and perhaps the writer's.
Past(o) == \A n \in DOMAIN o.dir : n.end = None => n \in DOMAIN dir \/ n = o.writer.path

LEMMA ClosedNames ==
  ASSUME IInv, writer # None, NEW c \in Stamped(writer)
  PROVE  DOMAIN c.dir \subseteq Name /\ \A n \in DOMAIN c.dir : n.end = None => n \in DOMAIN dir
<1> DEFINE done == [start |-> writer.start, end |-> now]
<1>1. /\ DOMAIN dir \subseteq Name /\ writer \in Writer /\ now \in Time /\ now # None
  BY NoneType DEF IInv, Types
<1>2. CASE c = Disk(dir, owed)
  BY <1>1, <1>2 DEF Disk
<1>3. CASE c = Disk(With(Without(dir, writer.path), done, dir[writer.path]),
                     Replacing(owed, dir, done))
  <2>1. DOMAIN c.dir \subseteq DOMAIN dir \cup {done}
    BY <1>3 DEF With, Without, Restrict, Disk
  <2>2. done \in Name /\ done.end # None
    BY <1>1 DEF Name, Writer
  <2>3. QED
    BY <1>1, <2>1, <2>2
<1>4. QED
  BY <1>2, <1>3 DEF Stamped

LEMMA RotationOutcome ==
  ASSUME IInv, writer # None, NEW frame, NEW size \in Sizes,
         NEW o \in Rotated(Line(frame, size))
  PROVE  /\ o.writer \in Writer /\ DOMAIN o.dir \subseteq Name
         /\ Past(o) /\ (Same(o) \/ Begun(o))
<1> DEFINE l == Line(frame, size)
           shut == [writer EXCEPT !.sink = FALSE]
           next == NextFile(writer)
<1>1. /\ writer \in Writer /\ now \in Time /\ DOMAIN dir \subseteq Name
  BY DEF IInv, Types
<1>2. \A c \in Stamped(writer) :
        DOMAIN c.dir \subseteq Name /\ \A n \in DOMAIN c.dir : n.end = None => n \in DOMAIN dir
  BY ClosedNames
<1>3. /\ shut \in Writer /\ ~shut.sink /\ shut.path = writer.path
      /\ [shut EXCEPT !.start = now] \in Writer
      /\ ~[shut EXCEPT !.start = now].sink
      /\ [shut EXCEPT !.start = now].path = writer.path
  BY <1>1 DEF Writer
<1>4. /\ next \in Writer /\ next.path = Open(now) /\ Open(now) \in Name
  BY <1>1 DEF NextFile, Writer, Open, Name
<1>5. CASE o = Outcome(dir, shut, owed, FALSE)
  BY <1>1, <1>3, <1>5 DEF Outcome, Same, Past
<1>6. CASE \E c \in Stamped(writer) :
             o = Outcome(c.dir, [shut EXCEPT !.start = now], c.owed, FALSE)
  <2>1. PICK c \in Stamped(writer) :
          o = Outcome(c.dir, [shut EXCEPT !.start = now], c.owed, FALSE)
    BY <1>6
  <2>2. o.dir = c.dir /\ o.writer = [shut EXCEPT !.start = now]
    BY <2>1 DEF Outcome
  <2>3. QED
    BY <1>1, <1>2, <1>3, <2>1, <2>2 DEF Same, Past
<1>7. CASE \E c \in Stamped(writer) : o \in Written(Created(c, next), next, l, TRUE)
  <2>1. PICK c \in Stamped(writer) : o \in Written(Created(c, next), next, l, TRUE)
    BY <1>7
  <2>2. /\ o.writer \in Writer /\ SameNames(o.dir, Created(c, next).dir)
        /\ SameFile(o.writer, next)
    <3>1. l.size \in Nat
      BY LineSize
    <3> HIDE DEF next, l
    <3>2. QED
      BY <1>4, <2>1, <3>1, WriteOutcome
  <2>3. DOMAIN Created(c, next).dir = {Open(now)} \cup DOMAIN c.dir
    BY <1>4 DEF Created, With, Disk
  <2>4. QED
    BY <1>1, <1>2, <1>4, <2>1, <2>2, <2>3 DEF Begun, Past, SameFile, SameNames
<1>8. QED
  BY <1>5, <1>6, <1>7 DEF Rotated

LEMMA ArriveOutcome ==
  ASSUME IInv, Arrive
  PROVE  \E o : /\ writer' = o.writer /\ o.writer \in Writer /\ DOMAIN o.dir \subseteq Name
                /\ Past(o) /\ (Same(o) \/ Begun(o))
                /\ \/ Settle(o.dir, o.writer, o.owed)
                   \/ dir' = o.dir /\ UNCHANGED records
<1>1. PICK size \in Sizes :
        \E o \in IF Due(Line(frames', size)) THEN Rotated(Line(frames', size))
                 ELSE Written(Disk(dir, owed), writer, Line(frames', size), FALSE) :
          /\ writer' = o.writer
          /\ \/ Settle(o.dir, o.writer, o.owed)
             \/ ~o.rotated /\ dir' = o.dir /\ owed' = o.owed /\ UNCHANGED records
  BY DEF Arrive
<1>2. PICK o \in IF Due(Line(frames', size)) THEN Rotated(Line(frames', size))
                 ELSE Written(Disk(dir, owed), writer, Line(frames', size), FALSE) :
             /\ writer' = o.writer
             /\ \/ Settle(o.dir, o.writer, o.owed)
                \/ ~o.rotated /\ dir' = o.dir /\ owed' = o.owed /\ UNCHANGED records
  BY <1>1
<1>3. writer # None /\ writer \in Writer
  BY DEF Arrive, IInv, Types
<1>4. CASE Due(Line(frames', size))
  BY <1>1, <1>2, <1>3, <1>4, RotationOutcome
<1>5. CASE ~Due(Line(frames', size))
  <2>1. o \in Written(Disk(dir, owed), writer, Line(frames', size), FALSE)
    BY <1>2, <1>5
  <2>2. o.writer \in Writer /\ SameNames(o.dir, Disk(dir, owed).dir) /\ SameFile(o.writer, writer)
    BY <1>3, <2>1, LineSize, WriteOutcome
  <2>3. DOMAIN dir \subseteq Name /\ Disk(dir, owed).dir = dir
    BY <1>3 DEF IInv, Types, Disk
  <2>4. QED
    BY <1>2, <2>2, <2>3 DEF Same, SameFile, SameNames, Past
<1>6. QED
  BY <1>4, <1>5

-----------------------------------------------------------------------------
(* The invariant.                                                          *)

LEMMA InitInv == RecorderInit => IInv
BY BoundsType DEF RecorderInit, IInv, Types, NamesPast, Names, ActiveKnown, Time

LEMMA ArriveInv == ASSUME IInv, Arrive PROVE IInv'
<1>1. PICK o : /\ writer' = o.writer /\ o.writer \in Writer /\ DOMAIN o.dir \subseteq Name
               /\ Past(o) /\ (Same(o) \/ Begun(o))
               /\ \/ Settle(o.dir, o.writer, o.owed)
                  \/ dir' = o.dir /\ UNCHANGED records
  BY ArriveOutcome
<1>2. /\ writer # None /\ now' = now /\ target' = target /\ writer \in Writer
      /\ now \in Nat /\ now \in Time /\ writer.path \in Name
      /\ writer.path.end = None /\ writer.path.start <= now
  BY BoundsType DEF Arrive, IInv, Types, ActiveKnown, Writer, Time
<1>3. writer.path.start \in Nat /\ writer.path = Open(writer.path.start)
  BY <1>2, BoundsType DEF Name, Time, Open
<1>4. /\ DOMAIN dir' \subseteq DOMAIN o.dir
      /\ \/ records' = [names |-> DOMAIN dir', active |-> Path(o.writer)]
         \/ records' = records
      /\ records' \in [names : SUBSET Name, active : Name \cup {None}]
  BY <1>1, SettleKeeps DEF IInv, Types
<1>5. Types'
  BY <1>1, <1>2, <1>4 DEF IInv, Types
<1>6. o.writer.path \in {writer.path, Open(now)}
  BY <1>1 DEF Same, Begun
<1>7. /\ o.writer.path.end = None /\ o.writer.path.start <= now
      /\ writer.path.start <= o.writer.path.start /\ o.writer.path.start \in Nat
  BY <1>2, <1>3, <1>6 DEF Open
<1>8. \A n \in Names : n.end = None =>
        n \in Name /\ n.start \in Nat /\ n.start <= writer.path.start
  BY <1>2, BoundsType DEF IInv, Types, NamesPast, Names, Name, Time
<1>9. \A n \in Names' : n.end = None => n \in Names \/ n = o.writer.path
  BY <1>1, <1>2, <1>4 DEF Names, Past
<1>10. NamesPast'
  BY <1>1, <1>2, <1>3, <1>7, <1>8, <1>9 DEF NamesPast
<1>11. ActiveKnown'
  <2>1. CASE o.writer = None
    BY <1>1, <2>1 DEF ActiveKnown
  <2>2. CASE o.writer.path = writer.path /\ o.writer # None
    BY <1>1, <1>2, <1>4, <2>2 DEF ActiveKnown, IInv, Path
  <2>3. CASE o.writer.path # writer.path /\ o.writer # None
    <3>1. o.writer.path = Open(now) /\ writer.path.start < now
      BY <1>2, <1>3, <1>6, <2>3
    <3>2. Open(now) \notin Names
      BY <1>2, <1>3, <1>8, <3>1 DEF Open
    <3>3. QED
      BY <1>1, <1>2, <1>4, <1>7, <2>3, <3>1, <3>2 DEF ActiveKnown, Path, Names
  <2>4. QED
    BY <2>1, <2>2, <2>3
<1>12. QED
  BY <1>5, <1>10, <1>11 DEF IInv

\* Steps that keep the writer, or end it, and settle or leave the directory.
LEMMA SettledInv ==
  ASSUME IInv, now' = now, target' \in {target, None}, writer' \in {writer, None},
         NEW d, NEW base, DOMAIN d \subseteq Name,
         \A n \in DOMAIN d : n.end = None => n \in DOMAIN dir,
         Settle(d, writer', base)
  PROVE  IInv'
<1>1. /\ DOMAIN dir' \subseteq DOMAIN d
      /\ records' = [names |-> DOMAIN dir', active |-> Path(writer')]
      /\ records' \in [names : SUBSET Name, active : Name \cup {None}]
  BY SettleKeeps DEF IInv, Types
<1>2. Types'
  BY <1>1 DEF IInv, Types
<1>3. NamesPast'
  BY <1>1 DEF IInv, NamesPast, Names
<1>4. ActiveKnown'
  BY <1>1 DEF IInv, ActiveKnown, Path
<1>5. QED
  BY <1>2, <1>3, <1>4 DEF IInv

LEMMA StartInv == ASSUME IInv, StartRecording PROVE IInv'
<1>1. /\ now \in Time /\ now \in Nat /\ DOMAIN dir \subseteq Name
      /\ \A n \in Names : n.end = None => n \in Name /\ n.start \in Nat /\ n.start <= now
  BY BoundsType DEF IInv, Types, NamesPast, Names, Name, Time
<1>2. /\ NewWriter \in Writer /\ NewWriter.path = Open(now)
      /\ Open(now) \in Name /\ Open(now).start = now /\ Open(now).end = None
  BY <1>1 DEF NewWriter, Writer, Open, Name
<1> DEFINE disk == Created(Disk(dir, owed), NewWriter)
<1>3. PICK size \in Sizes : \E o \in Written(disk, NewWriter, Line(frames', size), FALSE) :
          writer' = o.writer /\ Settle(o.dir, o.writer, o.owed)
  BY DEF StartRecording
<1>4. PICK o \in Written(disk, NewWriter, Line(frames', size), FALSE) :
          writer' = o.writer /\ Settle(o.dir, o.writer, o.owed)
  BY <1>3
<1>5. DOMAIN disk.dir = DOMAIN dir \cup {Open(now)}
  BY <1>2 DEF Created, With, Disk
<1> HIDE DEF disk
<1>6. /\ o.writer \in Writer /\ SameNames(o.dir, disk.dir)
      /\ SameFile(o.writer, NewWriter)
  BY <1>2, <1>4, LineSize, WriteOutcome
<1>7. /\ \A n : n \in DOMAIN o.dir <=> n = Open(now) \/ n \in DOMAIN dir
      /\ o.writer.path = Open(now)
  BY <1>2, <1>5, <1>6 DEF SameFile, SameNames
<1>8. /\ DOMAIN dir' \subseteq DOMAIN o.dir
      /\ records' = [names |-> DOMAIN dir', active |-> Path(o.writer)]
      /\ records' \in [names : SUBSET Name, active : Name \cup {None}]
  BY <1>1, <1>2, <1>4, <1>6, <1>7, SettleKeeps
<1>9. now' = now /\ target' = None
  BY DEF StartRecording
<1>10. \A n \in Names' : n.end = None => n.start \in Nat /\ n.start <= now
  BY <1>1, <1>2, <1>7, <1>8, <1>9 DEF Names
<1>11. Types'
  BY <1>1, <1>2, <1>4, <1>6, <1>7, <1>8, <1>9 DEF Types
<1>12. NamesPast'
  BY <1>2, <1>4, <1>7, <1>9, <1>10 DEF NamesPast
<1>13. ActiveKnown'
  BY <1>1, <1>2, <1>4, <1>7, <1>8, <1>9 DEF ActiveKnown, Path
<1>14. QED
  BY <1>11, <1>12, <1>13 DEF IInv

LEMMA NextInv == ASSUME IInv, [RecorderNext]_recorderVars PROVE IInv'
<1>1. DOMAIN dir \subseteq Name
  BY DEF IInv, Types
<1>2. CASE Refresh
  BY <1>1, <1>2, SettledInv DEF Refresh
<1>3. CASE StopRecording
  <2>1. CASE UNCHANGED <<dir, records, owed>>
    BY <1>3, <2>1 DEF StopRecording, IInv, Types, NamesPast, Names, ActiveKnown
  <2>2. CASE \E c \in Stamped(writer) : Settle(c.dir, None, c.owed)
    <3>1. PICK c \in Stamped(writer) : Settle(c.dir, None, c.owed)
      BY <2>2
    <3>2. DOMAIN c.dir \subseteq Name /\ \A n \in DOMAIN c.dir : n.end = None => n \in DOMAIN dir
      BY <1>3, <3>1, ClosedNames DEF StopRecording
    <3>3. QED
      BY <1>3, <3>1, <3>2, SettledInv DEF StopRecording
  <2>3. QED
    BY <1>3, <2>1, <2>2 DEF StopRecording
<1>4. CASE Restart
  BY <1>1, <1>4, SettledInv DEF Restart
<1>5. CASE OpenDialog
  BY <1>5 DEF OpenDialog, IInv, Types, NamesPast, Names, ActiveKnown
<1>6. CASE Delete
  <2>1. CASE UNCHANGED <<dir, records, owed>>
    BY <1>6, <2>1 DEF Delete, IInv, Types, NamesPast, Names, ActiveKnown
  <2>2. CASE Settle(Without(dir, target), writer, owed \ FramesOf(dir[target]))
    <3>1. DOMAIN Without(dir, target) \subseteq DOMAIN dir
      BY DEF Without, Restrict
    <3>2. QED
      BY <1>1, <1>6, <2>2, <3>1, SettledInv DEF Delete
  <2>3. QED
    BY <1>6, <2>1, <2>2 DEF Delete
<1>7. CASE KeepFile
  BY <1>7 DEF KeepFile, IInv, Types, NamesPast, Names, ActiveKnown
<1>8. CASE Foreign
  <2>1. DOMAIN dir' \subseteq DOMAIN dir
    BY <1>8 DEF Foreign, Without, Restrict
  <2>2. QED
    BY <1>8, <2>1 DEF Foreign, IInv, Types, NamesPast, Names, ActiveKnown
<1>9. CASE Tick
  <2>1. now' \in Time /\ now <= now' /\ now' \in Nat
    BY <1>9, BoundsType DEF Tick, IInv, Types, Time
  <2>2. \A n \in Names : n.start \in Nat
    BY BoundsType DEF IInv, Types, Names, Name, Time
  <2>3. writer # None => writer.path.start \in Nat
    BY BoundsType DEF IInv, Types, Writer, Name, Time
  <2>4. UNCHANGED <<dir, writer, records, target>> /\ now \in Nat
    BY <1>9, BoundsType DEF Tick, IInv, Types, Time
  <2>5. Types'
    BY <2>1, <2>4 DEF IInv, Types
  <2>6. NamesPast'
    BY <2>1, <2>2, <2>4 DEF IInv, NamesPast, Names
  <2>7. ActiveKnown'
    BY <2>1, <2>3, <2>4 DEF IInv, ActiveKnown
  <2>8. QED
    BY <2>5, <2>6, <2>7 DEF IInv
<1>10. CASE UNCHANGED recorderVars
  BY <1>10 DEF recorderVars, IInv, Types, NamesPast, Names, ActiveKnown
<1>11. QED
  BY <1>2, <1>3, <1>4, <1>5, <1>6, <1>7, <1>8, <1>9, <1>10, ArriveInv, StartInv DEF RecorderNext

-----------------------------------------------------------------------------
Spared ==
  writer # None /\ writer' # None /\ writer'.sink
    /\ (Attached(dir, writer) \/ writer'.path # writer.path) /\ ~Foreign
  => Attached(dir', writer')

LEMMA SparedStep == ASSUME IInv, [RecorderNext]_recorderVars PROVE Spared
<1> SUFFICES ASSUME writer # None, writer' # None, writer'.sink,
                    Attached(dir, writer) \/ writer'.path # writer.path, ~Foreign
             PROVE  writer'.path \in DOMAIN dir'
  BY DEF Spared, Attached
<1>0. writer \in Writer /\ DOMAIN dir \subseteq Name
  BY DEF IInv, Types
<1>1. CASE Arrive
  <2>1. PICK o : /\ writer' = o.writer /\ o.writer \in Writer /\ DOMAIN o.dir \subseteq Name
                 /\ (Same(o) \/ Begun(o))
                 /\ \/ Settle(o.dir, o.writer, o.owed)
                    \/ dir' = o.dir /\ UNCHANGED records
    BY <1>1, ArriveOutcome
  <2>2. o.writer.path \in DOMAIN o.dir
    BY <2>1 DEF Same, Begun, Attached
  <2>3. QED
    BY <2>1, <2>2, SettleKeeps
<1>2. CASE Refresh
  BY <1>0, <1>2, SettleKeeps DEF Refresh, Attached
<1>3. CASE Delete
  <2>1. CASE UNCHANGED dir
    BY <1>3, <2>1 DEF Delete, Attached
  <2>2. CASE Settle(Without(dir, target), writer, owed \ FramesOf(dir[target]))
    <3>1. DOMAIN Without(dir, target) = DOMAIN dir \ {target}
      BY DEF Without, Restrict
    <3>2. writer' = writer /\ writer.path # target /\ writer.path \in DOMAIN dir
      BY <1>3 DEF Delete, IInv, ActiveKnown, Attached
    <3>3. QED
      BY <1>0, <2>2, <3>1, <3>2, SettleKeeps
  <2>3. QED
    BY <1>3, <2>1, <2>2 DEF Delete
<1>4. CASE OpenDialog \/ KeepFile \/ Tick \/ UNCHANGED recorderVars
  BY <1>4 DEF OpenDialog, KeepFile, Tick, recorderVars, Attached
<1>5. QED
  BY <1>1, <1>2, <1>3, <1>4 DEF RecorderNext, StartRecording, StopRecording, Restart

\* Pruning and deleting in this process never take the file being written away
\* from its writer (prune_recordings' active path, the refusal of `x`): the list
\* shown may be older than the file, but then does not have it.
THEOREM ActiveAlwaysSpared == RecorderSpec => ActiveSpared
<1>1. IInv /\ [RecorderNext]_recorderVars => IInv'
  BY NextInv
<1>2. IInv /\ [RecorderNext]_recorderVars => Spared
  BY SparedStep
<1>3. QED
  BY <1>1, <1>2, InitInv, PTL DEF RecorderSpec, ActiveSpared, Spared

-----------------------------------------------------------------------------
(* What is on disk.  Directories and writers are parameters here, so that   *)
(* the parts of one rotation can be followed one by one.                    *)

Lines(k) == [frame : 1..k, size : Sizes]
Rising(f) == \A i, j \in DOMAIN f : i < j => f[i].frame < f[j].frame
Later(f, g) == \A i \in FramesOf(f), j \in FramesOf(g) : i < j
Disjoint(m, n) == m.end <= n.start \/ n.end <= m.start

\* FramesInOrder of directory d, with k frames seen so far.
Story(d, k) ==
  /\ DOMAIN d \subseteq Name
  /\ \A n \in DOMAIN d : /\ d[n] \in Seq(Lines(k)) /\ Rising(d[n])
                         /\ n.start <= now /\ (n.end # None => n.end <= now)
  /\ \A m, n \in DOMAIN d :
       /\ m.start < n.start => Later(d[m], d[n])
       /\ m # n /\ m.end # None /\ n.end # None => Disjoint(m, n)

\* The writer's file is the last of them.  Its name tells when it began, except
\* after a rotation that could not create its file.
WritesLast(d, w) ==
  /\ w \in Writer /\ w.start <= now
  /\ w.path.end = None /\ w.path.start <= w.start
  /\ \A n \in DOMAIN d \ {w.path} :
       /\ n.start <= w.start /\ (n.end # None => n.end <= w.start)
       /\ w.path \in DOMAIN d => n.start <= w.path.start /\ Later(d[n], d[w.path])

Told(d, w, k) == Story(d, k) /\ WritesLast(d, w)

LEMMA NameTypes ==
  \A n \in Name : n.start \in Nat /\ n.start \in Time /\ (n.end = None \/ n.end \in Nat)
                  /\ (n.end # None => n.end \in Nat)
BY BoundsType, NoneType DEF Name, Time

LEMMA AppendLine ==
  ASSUME NEW k \in Nat, NEW f \in Seq(Lines(k)), NEW size \in Sizes
  PROVE  /\ Append(f, Line(k + 1, size)) \in Seq(Lines(k + 1))
         /\ \A i : i \in FramesOf(Append(f, Line(k + 1, size))) <=> i \in FramesOf(f) \/ i = k + 1
         /\ \A i \in FramesOf(f) : i \in 1..k
         /\ Rising(f) => Rising(Append(f, Line(k + 1, size)))
<1> DEFINE l == Line(k + 1, size)
           g == Append(f, l)
<1>1. l \in Lines(k + 1) /\ l.frame = k + 1
  BY DEF Line, Lines
<1>2. Lines(k) \subseteq Lines(k + 1)
  BY DEF Lines
<1>3. f \in Seq(Lines(k + 1))
  BY <1>2
<1>4. /\ g \in Seq(Lines(k + 1)) /\ Len(g) = Len(f) + 1 /\ Len(f) \in Nat
      /\ g[Len(f) + 1] = l /\ \A i \in 1..Len(f) : g[i] = f[i]
      /\ DOMAIN g = 1..(Len(f) + 1) /\ DOMAIN f = 1..Len(f)
  BY <1>1, <1>3
<1>5. \A i \in DOMAIN f : f[i].frame \in 1..k
  <2>1. \A i \in DOMAIN f : f[i] \in Lines(k)
    OBVIOUS
  <2>2. QED
    BY <2>1 DEF Lines
<1>6. \A i : i \in FramesOf(f) <=> \E p \in DOMAIN f : i = f[p].frame
  BY DEF FramesOf, ToSet
<1>7. \A i : i \in FramesOf(g) <=> \E p \in DOMAIN g : i = g[p].frame
  BY DEF FramesOf, ToSet
<1>8. ASSUME Rising(f) PROVE Rising(g)
  <2> HIDE DEF l, g
  <2> SUFFICES ASSUME NEW i \in DOMAIN g, NEW j \in DOMAIN g, i < j
               PROVE  g[i].frame < g[j].frame
    BY DEF Rising
  <2>1. i \in DOMAIN f /\ g[i] = f[i] /\ f[i].frame \in 1..k
    BY <1>4, <1>5
  <2>2. CASE j \in DOMAIN f
    BY <1>4, <1>8, <2>1, <2>2 DEF Rising
  <2>3. CASE j = Len(f) + 1
    BY <1>1, <1>4, <2>1, <2>3
  <2>4. QED
    BY <1>4, <2>2, <2>3
<1>9. \A i : i \in FramesOf(g) <=> i \in FramesOf(f) \/ i = k + 1
  <2> HIDE DEF l, g
  <2>1. QED
    BY <1>1, <1>4, <1>6, <1>7
<1>10. QED
  BY <1>4, <1>5, <1>6, <1>8, <1>9

\* What is deleted, by whomever, leaves the rest in order.
LEMMA FewerTold ==
  ASSUME NEW d, NEW e, NEW k, Story(d, k),
         DOMAIN e \subseteq DOMAIN d, \A n \in DOMAIN e : e[n] = d[n]
  PROVE  Story(e, k) /\ \A w : WritesLast(d, w) => WritesLast(e, w)
BY DEF Story, WritesLast

\* A frame that is lost.
LEMMA NextTold ==
  ASSUME NEW d, NEW w, NEW k \in Nat, Told(d, w, k) PROVE Told(d, w, k + 1)
<1>1. Lines(k) \subseteq Lines(k + 1)
  BY DEF Lines
<1>2. \A f : f \in Seq(Lines(k)) => f \in Seq(Lines(k + 1))
  BY <1>1
<1>3. QED
  BY <1>2 DEF Told, Story

\* The next frame, at the end of the last file.
LEMMA AppendTold ==
  ASSUME NEW d, NEW w, NEW k \in Nat, Told(d, w, k), Attached(d, w),
         NEW size \in Sizes
  PROVE  Told([d EXCEPT ![w.path] = Append(@, Line(k + 1, size))], w, k + 1)
<1> DEFINE e == [d EXCEPT ![w.path] = Append(@, Line(k + 1, size))]
<1>1. /\ w.path \in DOMAIN d /\ d[w.path] \in Seq(Lines(k)) /\ Rising(d[w.path])
      /\ DOMAIN d \subseteq Name
  BY DEF Told, Story, Attached
<1>2. /\ e[w.path] \in Seq(Lines(k + 1)) /\ Rising(e[w.path])
      /\ \A i : i \in FramesOf(e[w.path]) <=> i \in FramesOf(d[w.path]) \/ i = k + 1
  BY <1>1, AppendLine
<1>3. DOMAIN e = DOMAIN d /\ \A n \in DOMAIN d \ {w.path} : e[n] = d[n]
  OBVIOUS
<1>4. \A n \in DOMAIN d : \A i \in FramesOf(d[n]) : i \in 1..k
  BY AppendLine DEF Told, Story
<1> HIDE DEF e
<1>5. \A n \in DOMAIN e : e[n] \in Seq(Lines(k + 1)) /\ Rising(e[n])
  <2>1. Told(d, w, k + 1)
    BY NextTold
  <2>2. QED
    BY <1>2, <1>3, <2>1 DEF Told, Story
<1>6. ASSUME NEW m \in DOMAIN e, NEW n \in DOMAIN e, m.start < n.start
      PROVE  Later(e[m], e[n])
  <2>1. Later(d[m], d[n])
    BY <1>3, <1>6 DEF Told, Story
  <2>2. m # w.path
    BY <1>1, <1>3, <1>6, NameTypes DEF Told, WritesLast
  <2>3. CASE n = w.path
    BY <1>2, <1>3, <1>4, <2>1, <2>2, <2>3 DEF Later
  <2>4. CASE n # w.path
    BY <1>3, <2>1, <2>2, <2>4
  <2>5. QED
    BY <2>3, <2>4
<1>7. Story(e, k + 1)
  BY <1>3, <1>5, <1>6 DEF Told, Story
<1>8. WritesLast(e, w)
  <2>1. \A n \in DOMAIN e \ {w.path} : n.start <= w.path.start /\ Later(e[n], e[w.path])
    BY <1>1, <1>2, <1>3, <1>4 DEF Told, WritesLast, Later
  <2>2. QED
    BY <1>3, <2>1 DEF Told, WritesLast
<1>9. QED
  BY <1>7, <1>8 DEF Told, e

LEMMA PrunedKeeps ==
  ASSUME NEW d, NEW active, NEW stuck
  PROVE  \A n \in DOMAIN Pruned(d, active, stuck) : Pruned(d, active, stuck)[n] = d[n]
BY DEF Pruned, Restrict

LEMMA SettleTold ==
  ASSUME NEW d, NEW w, NEW base, NEW k, Story(d, k), Settle(d, w, base)
  PROVE  /\ Story(dir', k) /\ \A v : WritesLast(d, v) => WritesLast(dir', v)
         /\ base \subseteq Frames(d) => owed' \subseteq Frames(dir')
<1>1. PICK stuck \in {{}} \cup {{n} : n \in DOMAIN d} :
        /\ dir' = Pruned(d, Path(w), stuck)
        /\ owed' = base \ (Frames(d) \ Frames(dir'))
  BY DEF Settle
<1>2. DOMAIN dir' \subseteq DOMAIN d /\ \A n \in DOMAIN dir' : dir'[n] = d[n]
  BY <1>1, PruneSpares, PrunedKeeps
<1>3. Story(dir', k) /\ \A v : WritesLast(d, v) => WritesLast(dir', v)
  BY <1>2, FewerTold
<1>4. QED
  BY <1>1, <1>3

\* What is owed is found again when a file takes the name of another.
LEMMA ReplacingKeeps ==
  ASSUME NEW due, NEW d, NEW name, NEW e, due \subseteq Frames(d),
         \A n \in DOMAIN d \ {name} : FramesOf(d[n]) \subseteq Frames(e)
  PROVE  Replacing(due, d, name) \subseteq Frames(e)
BY DEF Replacing, Frames

\* A closed file holds what it held, under a name that no file had before or
\* that one of the same seconds had.
LEMMA StampedTold ==
  ASSUME NEW k, Told(dir, writer, k), now \in Time, NEW c \in Stamped(writer)
  PROVE  /\ Story(c.dir, k) /\ c.owed \subseteq owed
         /\ owed \subseteq Frames(dir) => c.owed \subseteq Frames(c.dir)
         /\ WritesLast(c.dir, [writer EXCEPT !.sink = FALSE, !.start = now])
<1> DEFINE w == writer
           done == [start |-> w.start, end |-> now]
           v == [w EXCEPT !.sink = FALSE, !.start = now]
           e == c.dir
<1>1. /\ w \in Writer /\ w.path \in Name /\ w.path.end = None /\ w.path.start <= w.start
      /\ w.start \in Nat /\ now \in Nat /\ now # None /\ w.start <= now /\ w.path.start \in Nat
  BY BoundsType, NoneType, NameTypes DEF Told, WritesLast, Writer, Time
<1>2. /\ done \in Name /\ done.start = w.start /\ done.end = now /\ done.end # None
  BY <1>1 DEF Name, Writer
<1>3. /\ v \in Writer /\ v.start = now /\ v.path = w.path
  BY <1>1 DEF Writer
<1>4. \A n \in DOMAIN dir \ {w.path} :
        /\ n \in Name /\ n.start \in Nat /\ n.start <= w.start /\ n.start <= now
        /\ n.end # None => n.end \in Nat /\ n.end <= w.start /\ n.end <= now
  BY <1>1, NameTypes DEF Told, Story, WritesLast
<1>5. CASE c = Disk(dir, owed)
  <2>1. c.dir = dir /\ c.owed = owed
    BY <1>5 DEF Disk
  <2>2. WritesLast(dir, v)
    <3>1. \A n \in DOMAIN dir \ {w.path} :
            w.path \in DOMAIN dir => n.start <= w.path.start /\ Later(dir[n], dir[w.path])
      BY DEF Told, WritesLast
    <3> HIDE DEF v
    <3>2. QED
      BY <1>1, <1>3, <1>4, <3>1 DEF WritesLast
  <2>3. QED
    BY <2>1, <2>2 DEF Told
<1>6. CASE /\ w.path \in DOMAIN dir
           /\ c = Disk(With(Without(dir, w.path), done, dir[w.path]), Replacing(owed, dir, done))
  <2>1. done # w.path
    BY <1>1, <1>2
  <2>2. e = With(Without(dir, w.path), done, dir[w.path]) /\ c.owed = Replacing(owed, dir, done)
    BY <1>6 DEF Disk
  <2>3. DOMAIN Without(dir, w.path) = DOMAIN dir \ {w.path}
    BY DEF Without, Restrict
  <2>4. /\ DOMAIN e = (DOMAIN dir \ {w.path}) \cup {done} /\ w.path \notin DOMAIN e
        /\ e[done] = dir[w.path] /\ \A n \in DOMAIN dir \ {w.path, done} : e[n] = dir[n]
    BY <2>1, <2>2, <2>3 DEF With, Without, Restrict
  <2>5. \A n \in DOMAIN dir \ {w.path} :
          n.start <= w.path.start /\ Later(dir[n], dir[w.path])
    BY <1>6 DEF Told, WritesLast
  <2> HIDE DEF done, v, e
  <2>6. owed \subseteq Frames(dir) => c.owed \subseteq Frames(e)
    <3>1. \A n \in DOMAIN dir \ {done} : FramesOf(dir[n]) \subseteq Frames(e)
      BY <2>4 DEF Frames
    <3>2. QED
      BY <2>2, <3>1, ReplacingKeeps
  <2>7. \A n \in DOMAIN e : /\ n \in Name /\ n.start <= w.start /\ n.start <= now
                            /\ n.end # None => n.end <= now
                            /\ e[n] \in Seq(Lines(k)) /\ Rising(e[n])
    BY <1>1, <1>2, <1>4, <1>6, <2>4 DEF Told, Story
  <2>8. ASSUME NEW m \in DOMAIN e, NEW n \in DOMAIN e, m.start < n.start
        PROVE  Later(e[m], e[n])
    <3>1. m # done
      BY <1>1, <1>2, <1>4, <2>4, <2>8
    <3>2. CASE n = done
      BY <2>4, <2>5, <3>1, <3>2
    <3>3. CASE n # done
      BY <2>4, <2>8, <3>1, <3>3 DEF Told, Story
    <3>4. QED
      BY <3>2, <3>3
  <2>9. ASSUME NEW m \in DOMAIN e, NEW n \in DOMAIN e, m # n, m.end # None, n.end # None
        PROVE  Disjoint(m, n)
    <3>1. CASE m # done /\ n # done
      BY <2>4, <2>9, <3>1 DEF Told, Story
    <3>2. CASE m = done \/ n = done
      BY <1>2, <1>4, <2>4, <2>9, <3>2 DEF Disjoint
    <3>3. QED
      BY <3>1, <3>2
  <2>10. Story(e, k)
    BY <2>7, <2>8, <2>9 DEF Story
  <2>11. WritesLast(e, v)
    <3>1. \A n \in DOMAIN e : n.start <= now /\ (n.end # None => n.end <= now)
      BY <2>7
    <3>2. QED
      BY <1>1, <1>3, <2>4, <3>1 DEF WritesLast
  <2>12. c.owed \subseteq owed
    BY <2>2 DEF Replacing
  <2>13. QED
    BY <2>6, <2>10, <2>11, <2>12 DEF e, v
<1>7. QED
  BY <1>5, <1>6 DEF Stamped

\* A file that begins now is empty, whatever had its name.
LEMMA CreatedTold ==
  ASSUME NEW disk, NEW w \in Writer, NEW k, Story(disk.dir, k),
         now \in Time, w.start = now, w.path = Open(now)
  PROVE  /\ Told(Created(disk, w).dir, w, k) /\ Created(disk, w).owed \subseteq disk.owed
         /\ disk.owed \subseteq Frames(disk.dir)
              => Created(disk, w).owed \subseteq Frames(Created(disk, w).dir)
<1> DEFINE d == disk.dir
           e == Created(disk, w).dir
<1>1. /\ now \in Nat /\ w.path \in Name /\ w.path.start = now /\ w.path.end = None
  BY BoundsType DEF Open, Writer, Time
<1>2. \A n \in DOMAIN d : /\ n \in Name /\ n.start \in Nat /\ n.start <= now
                          /\ n.end # None => n.end <= now
  BY NameTypes DEF Story
<1>3. /\ e = With(d, w.path, << >>)
      /\ Created(disk, w).owed = Replacing(disk.owed, d, w.path)
  BY DEF Created, Disk
<1>4. /\ DOMAIN e = DOMAIN d \cup {w.path} /\ e[w.path] = << >>
      /\ \A n \in DOMAIN d \ {w.path} : e[n] = d[n]
  BY <1>3 DEF With
<1> HIDE DEF e
<1>5. /\ << >> \in Seq(Lines(k)) /\ Rising(<< >>) /\ FramesOf(<< >>) = {}
  BY DEF Rising, FramesOf, ToSet
<1>6. disk.owed \subseteq Frames(d) => Created(disk, w).owed \subseteq Frames(e)
  <2>1. \A n \in DOMAIN d \ {w.path} : FramesOf(d[n]) \subseteq Frames(e)
    BY <1>4 DEF Frames
  <2>2. QED
    BY <1>3, <2>1, ReplacingKeeps
<1>7. \A n \in DOMAIN e : e[n] \in Seq(Lines(k)) /\ Rising(e[n])
  BY <1>4, <1>5 DEF Story
<1>8. \A n \in DOMAIN e : n \in Name /\ n.start <= now /\ (n.end # None => n.end <= now)
  BY <1>1, <1>2, <1>4
<1>9. ASSUME NEW m \in DOMAIN e, NEW n \in DOMAIN e, m.start < n.start
      PROVE  Later(e[m], e[n])
  <2>1. m # w.path
    BY <1>1, <1>2, <1>4, <1>9
  <2>2. CASE n = w.path
    BY <1>4, <1>5, <2>2 DEF Later
  <2>3. CASE n # w.path
    BY <1>4, <1>9, <2>1, <2>3 DEF Story
  <2>4. QED
    BY <2>2, <2>3
<1>10. ASSUME NEW m \in DOMAIN e, NEW n \in DOMAIN e, m # n, m.end # None, n.end # None
       PROVE  Disjoint(m, n)
  BY <1>1, <1>4, <1>10 DEF Story
<1>11. Story(e, k)
  BY <1>7, <1>8, <1>9, <1>10 DEF Story
<1>12. WritesLast(e, w)
  <2>1. \A n \in DOMAIN e : Later(e[n], e[w.path])
    BY <1>4, <1>5 DEF Later
  <2>2. QED
    BY <1>1, <1>8, <2>1 DEF WritesLast
<1>13. Created(disk, w).owed \subseteq disk.owed
  BY <1>3 DEF Replacing
<1>14. QED
  BY <1>6, <1>11, <1>12, <1>13 DEF Told, e

LEMMA AppendFrames ==
  ASSUME NEW d, NEW w, NEW k \in Nat, Told(d, w, k), Attached(d, w),
         NEW size \in Sizes
  PROVE  \A i : i \in Frames(d) \/ i = k + 1
                => i \in Frames([d EXCEPT ![w.path] = Append(@, Line(k + 1, size))])
<1> DEFINE e == [d EXCEPT ![w.path] = Append(@, Line(k + 1, size))]
<1>1. w.path \in DOMAIN d /\ d[w.path] \in Seq(Lines(k))
  BY DEF Told, Story, Attached
<1>2. \A i : i \in FramesOf(e[w.path]) <=> i \in FramesOf(d[w.path]) \/ i = k + 1
  BY <1>1, AppendLine
<1>3. DOMAIN e = DOMAIN d /\ \A n \in DOMAIN d \ {w.path} : e[n] = d[n]
  OBVIOUS
<1> HIDE DEF e
<1>4. \A i : i \in Frames(d) \/ i = k + 1 => i \in Frames(e)
  BY <1>1, <1>2, <1>3 DEF Frames
<1>5. QED
  BY <1>4 DEF e

\* What a write may come to.
Wrote(disk, k, o) ==
  /\ Told(o.dir, o.writer, k + 1) /\ o.owed \subseteq disk.owed \cup {k + 1}
  /\ disk.owed \subseteq Frames(disk.dir) => o.owed \subseteq Frames(o.dir)

LEMMA WrittenTold ==
  ASSUME NEW disk, NEW w, NEW k \in Nat, Told(disk.dir, w, k), NEW size \in Sizes,
         NEW rotated, NEW o \in Written(disk, w, Line(k + 1, size), rotated)
  PROVE  Wrote(disk, k, o)
<1> DEFINE d == disk.dir
           l == Line(k + 1, size)
           v == [w EXCEPT !.bytes = @ + l.size]
           e == [d EXCEPT ![w.path] = Append(@, l)]
<1>1. l.size \in Nat /\ l.frame = k + 1
  BY SizesType DEF Line
<1>2. v \in Writer /\ v.path = w.path /\ v.start = w.start
  <2>1. w \in Writer
    BY DEF Told, WritesLast
  <2>2. QED
    BY <1>1, <2>1 DEF Writer
<1>3. Told(d, w, k + 1)
  BY NextTold
<1>4. Attached(d, w) => Told(e, w, k + 1)
  BY AppendTold
<1>5. Attached(d, w) => \A i : i \in Frames(d) \/ i = k + 1 => i \in Frames(e)
  BY AppendFrames
<1>6. \A f : Told(f, w, k + 1) => Told(f, v, k + 1)
  BY <1>2 DEF Told, WritesLast
<1>7. o \in {Outcome(Put(d, w, l), v, disk.owed \cup Promised(d, w, l), rotated)}
        \/ \E f \in Failed(d, w, l) : o = Outcome(f, w, disk.owed, FALSE)
  BY DEF Written
<1> HIDE DEF d, l, v, e
<1>8. CASE o = Outcome(Put(d, w, l), v, disk.owed \cup Promised(d, w, l), rotated)
  <2>1. /\ o.dir = Put(d, w, l) /\ o.writer = v
        /\ o.owed = disk.owed \cup Promised(d, w, l)
    BY <1>8 DEF Outcome
  <2>2. CASE Attached(d, w)
    <3>1. o.dir = e /\ Promised(d, w, l) = {k + 1}
      BY <1>1, <2>1, <2>2 DEF Put, Promised, e
    <3>2. QED
      BY <1>4, <1>5, <1>6, <2>1, <2>2, <3>1 DEF Wrote, d
  <2>3. CASE ~Attached(d, w)
    <3>1. o.dir = d /\ Promised(d, w, l) = {}
      BY <2>1, <2>3 DEF Put, Promised
    <3>2. QED
      BY <1>3, <1>6, <2>1, <3>1 DEF Wrote, d
  <2>4. QED
    BY <2>2, <2>3
<1>9. CASE \E f \in Failed(d, w, l) : o = Outcome(f, w, disk.owed, FALSE)
  <2>1. PICK f \in Failed(d, w, l) : o = Outcome(f, w, disk.owed, FALSE)
    BY <1>9
  <2>2. o.dir = f /\ o.writer = w /\ o.owed = disk.owed
    BY <2>1 DEF Outcome
  <2>3. f = d \/ (Attached(d, w) /\ f = e)
    <3>1. CASE Attached(d, w)
      BY <2>1, <3>1 DEF Failed, e
    <3>2. CASE ~Attached(d, w)
      BY <2>1, <3>2 DEF Failed
    <3>3. QED
      BY <3>1, <3>2
  <2>4. QED
    BY <1>3, <1>4, <1>5, <2>2, <2>3 DEF Wrote, d
<1>10. QED
  BY <1>7, <1>8, <1>9

LEMMA RotatedTold ==
  ASSUME Told(dir, writer, frames), writer # None, frames \in Nat, now \in Time,
         NEW size \in Sizes, NEW o \in Rotated(Line(frames + 1, size))
  PROVE  /\ Told(o.dir, o.writer, frames + 1) /\ o.owed \subseteq owed \cup {frames + 1}
         /\ FramesKept => o.owed \subseteq Frames(o.dir)
<1> DEFINE l == Line(frames + 1, size)
           shut == [writer EXCEPT !.sink = FALSE]
           late == [shut EXCEPT !.start = now]
           next == NextFile(writer)
<1>1. writer \in Writer
  BY DEF Told, WritesLast
<1>2. /\ shut \in Writer /\ shut.path = writer.path /\ shut.start = writer.start
      /\ late = [writer EXCEPT !.sink = FALSE, !.start = now]
  BY <1>1 DEF Writer
<1>3. next \in Writer /\ next.start = now /\ next.path = Open(now)
  <2>1. next.path = Open(now) /\ Open(now) \in Name
    BY <1>1 DEF NextFile, Open, Name, Writer
  <2>2. QED
    BY <1>1, <2>1 DEF NextFile, Writer
<1>4. \A c \in Stamped(writer) :
        /\ Story(c.dir, frames) /\ WritesLast(c.dir, late) /\ c.owed \subseteq owed
        /\ FramesKept => c.owed \subseteq Frames(c.dir)
  BY <1>2, StampedTold DEF FramesKept
<1> HIDE DEF l, shut, late, next
<1>5. CASE o = Outcome(dir, shut, owed, FALSE)
  <2>1. o.dir = dir /\ o.writer = shut /\ o.owed = owed
    BY <1>5 DEF Outcome
  <2>2. Told(dir, shut, frames)
    BY <1>2 DEF Told, WritesLast
  <2>3. QED
    BY <2>1, <2>2, NextTold DEF FramesKept
<1>6. CASE \E c \in Stamped(writer) : o = Outcome(c.dir, late, c.owed, FALSE)
  <2>1. PICK c \in Stamped(writer) : o = Outcome(c.dir, late, c.owed, FALSE)
    BY <1>6
  <2>2. o.dir = c.dir /\ o.writer = late /\ o.owed = c.owed
    BY <2>1 DEF Outcome
  <2>3. Told(c.dir, late, frames)
    BY <1>4, <2>1 DEF Told
  <2>4. QED
    BY <1>4, <2>1, <2>2, <2>3, NextTold
<1>7. CASE \E c \in Stamped(writer) : o \in Written(Created(c, next), next, l, TRUE)
  <2>1. PICK c \in Stamped(writer) : o \in Written(Created(c, next), next, l, TRUE)
    BY <1>7
  <2>2. /\ Story(c.dir, frames) /\ c.owed \subseteq owed
        /\ FramesKept => c.owed \subseteq Frames(c.dir)
    BY <1>4, <2>1
  <2>3. /\ Told(Created(c, next).dir, next, frames) /\ Created(c, next).owed \subseteq c.owed
        /\ c.owed \subseteq Frames(c.dir)
             => Created(c, next).owed \subseteq Frames(Created(c, next).dir)
    BY <1>3, <2>2, CreatedTold
  <2>4. Wrote(Created(c, next), frames, o)
    <3>1. o \in Written(Created(c, next), next, Line(frames + 1, size), TRUE)
      BY <2>1 DEF l
    <3>2. QED
      BY <2>3, <3>1, WrittenTold
  <2>5. QED
    BY <2>2, <2>3, <2>4 DEF Wrote
<1>8. QED
  BY <1>5, <1>6, <1>7 DEF Rotated, l, shut, late, next

LEMMA ArriveTold ==
  ASSUME Arrive, Told(dir, writer, frames), frames \in Nat, now \in Time
  PROVE  \E o : /\ writer' = o.writer /\ Told(o.dir, o.writer, frames')
                /\ o.owed \subseteq owed \cup {frames'}
                /\ FramesKept => o.owed \subseteq Frames(o.dir)
                /\ \/ Settle(o.dir, o.writer, o.owed)
                   \/ dir' = o.dir /\ owed' = o.owed
<1>1. frames' = frames + 1 /\ writer # None
  BY DEF Arrive
<1>2. PICK size \in Sizes :
        \E o \in IF Due(Line(frames + 1, size)) THEN Rotated(Line(frames + 1, size))
                 ELSE Written(Disk(dir, owed), writer, Line(frames + 1, size), FALSE) :
          /\ writer' = o.writer
          /\ \/ Settle(o.dir, o.writer, o.owed)
             \/ ~o.rotated /\ dir' = o.dir /\ owed' = o.owed /\ UNCHANGED records
  BY <1>1 DEF Arrive
<1>3. PICK o \in IF Due(Line(frames + 1, size)) THEN Rotated(Line(frames + 1, size))
                 ELSE Written(Disk(dir, owed), writer, Line(frames + 1, size), FALSE) :
             /\ writer' = o.writer
             /\ \/ Settle(o.dir, o.writer, o.owed)
                \/ dir' = o.dir /\ owed' = o.owed
  BY <1>2
<1>4. CASE Due(Line(frames + 1, size))
  <2>1. /\ Told(o.dir, o.writer, frames + 1) /\ o.owed \subseteq owed \cup {frames + 1}
        /\ FramesKept => o.owed \subseteq Frames(o.dir)
    BY <1>1, <1>3, <1>4, RotatedTold
  <2>2. QED
    BY <1>1, <1>3, <2>1
<1>5. CASE ~Due(Line(frames + 1, size))
  <2>1. o \in Written(Disk(dir, owed), writer, Line(frames + 1, size), FALSE)
    BY <1>3, <1>5
  <2>2. Disk(dir, owed).dir = dir /\ Disk(dir, owed).owed = owed
    BY DEF Disk
  <2>3. Wrote(Disk(dir, owed), frames, o)
    BY <2>1, <2>2, WrittenTold
  <2>4. QED
    BY <1>1, <1>3, <2>2, <2>3 DEF FramesKept, Wrote
<1>6. QED
  BY <1>4, <1>5

LEMMA StartTold ==
  ASSUME StartRecording, Story(dir, frames), frames \in Nat, now \in Time
  PROVE  \E o : /\ writer' = o.writer /\ Told(o.dir, o.writer, frames')
                /\ o.owed \subseteq owed \cup {frames'}
                /\ FramesKept => o.owed \subseteq Frames(o.dir)
                /\ Settle(o.dir, o.writer, o.owed)
<1> DEFINE disk == Created(Disk(dir, owed), NewWriter)
<1>1. frames' = frames + 1
  BY DEF StartRecording
<1>2. NewWriter \in Writer /\ NewWriter.start = now /\ NewWriter.path = Open(now)
  BY DEF NewWriter, Writer, Open, Name
<1>3. PICK size \in Sizes : \E o \in Written(disk, NewWriter, Line(frames + 1, size), FALSE) :
          writer' = o.writer /\ Settle(o.dir, o.writer, o.owed)
  BY <1>1 DEF StartRecording
<1>4. PICK o \in Written(disk, NewWriter, Line(frames + 1, size), FALSE) :
          writer' = o.writer /\ Settle(o.dir, o.writer, o.owed)
  BY <1>3
<1>5. Disk(dir, owed).dir = dir /\ Disk(dir, owed).owed = owed
  BY DEF Disk
<1>6. /\ Told(disk.dir, NewWriter, frames) /\ disk.owed \subseteq owed
      /\ FramesKept => disk.owed \subseteq Frames(disk.dir)
  <2>1. Story(Disk(dir, owed).dir, frames)
    BY <1>5
  <2>2. /\ Told(disk.dir, NewWriter, frames) /\ disk.owed \subseteq Disk(dir, owed).owed
        /\ Disk(dir, owed).owed \subseteq Frames(Disk(dir, owed).dir)
             => disk.owed \subseteq Frames(disk.dir)
    BY <1>2, <2>1, CreatedTold
  <2>3. QED
    BY <1>5, <2>2 DEF FramesKept
<1> HIDE DEF disk
<1>7. Wrote(disk, frames, o)
  BY <1>4, <1>6, WrittenTold
<1>8. QED
  BY <1>1, <1>4, <1>6, <1>7 DEF Wrote

-----------------------------------------------------------------------------
(* The invariants of what is on disk: its order, and what is kept.         *)

Order ==
  /\ IInv /\ frames \in 0..MaxFrames /\ owed \subseteq 1..frames
  /\ Story(dir, frames) /\ (writer # None => WritesLast(dir, writer))

LEMMA InitOrder == RecorderInit => Order /\ FramesKept
<1> SUFFICES ASSUME RecorderInit PROVE Order /\ FramesKept
  OBVIOUS
<1>1. DOMAIN dir = {} /\ writer = None /\ frames = 0 /\ owed = {}
  BY DEF RecorderInit
<1>2. QED
  BY <1>1, InitInv, BoundsType DEF Order, FramesKept, Story

\* Steps that keep or end the recording and delete files, or none.
LEMMA SettledOrder ==
  ASSUME Order, IInv', UNCHANGED <<now, frames>>, writer' \in {writer, None},
         NEW d, NEW base, Settle(d, writer', base), Story(d, frames),
         writer' # None => WritesLast(d, writer'), base \subseteq owed
  PROVE  Order' /\ (base \subseteq Frames(d) => FramesKept')
<1>1. /\ Story(dir', frames) /\ \A v : WritesLast(d, v) => WritesLast(dir', v)
      /\ base \subseteq Frames(d) => owed' \subseteq Frames(dir')
  BY SettleTold DEF Order
<1>2. owed' \subseteq base
  BY DEF Settle
<1>3. Story(dir', frames) => (Story(dir, frames))'
  BY DEF Story
<1>4. WritesLast(dir', writer') => (WritesLast(dir, writer))'
  BY DEF WritesLast
<1>5. writer' # None => WritesLast(dir', writer')
  BY <1>1
<1>6. Order'
  <2> HIDE DEF Story, WritesLast
  <2>1. QED
    BY <1>1, <1>2, <1>3, <1>4, <1>5 DEF Order
<1>7. QED
  BY <1>1, <1>6 DEF FramesKept

LEMMA NextOrder == ASSUME Order, [RecorderNext]_recorderVars PROVE Order' /\ (FramesKept => FramesKept')
<1>1. IInv'
  BY NextInv DEF Order
<1>2. /\ Story(dir, frames) /\ (writer # None => WritesLast(dir, writer))
      /\ frames \in Nat /\ now \in Time /\ owed \subseteq 1..frames /\ frames \in 0..MaxFrames
  BY BoundsType DEF Order, IInv, Types
<1>3. CASE Arrive
  <2>1. PICK o : /\ writer' = o.writer /\ Told(o.dir, o.writer, frames')
                 /\ o.owed \subseteq owed \cup {frames'}
                 /\ FramesKept => o.owed \subseteq Frames(o.dir)
                 /\ \/ Settle(o.dir, o.writer, o.owed)
                    \/ dir' = o.dir /\ owed' = o.owed
    BY <1>2, <1>3, ArriveTold DEF Arrive, Told
  <2>2. frames' = frames + 1 /\ frames' \in 0..MaxFrames /\ now' = now /\ writer # None
    BY <1>2, <1>3, BoundsType DEF Arrive
  <2>3. /\ Story(dir', frames') /\ WritesLast(dir', writer') /\ owed' \subseteq o.owed
        /\ o.owed \subseteq Frames(o.dir) => owed' \subseteq Frames(dir')
    BY <2>1, SettleTold DEF Told, Settle
  <2>4. (Story(dir, frames))' /\ (WritesLast(dir, writer))'
    <3>1. Story(dir', frames') => (Story(dir, frames))'
      BY <2>2 DEF Story
    <3>2. WritesLast(dir', writer') => (WritesLast(dir, writer))'
      BY <2>2 DEF WritesLast
    <3>3. QED
      BY <2>3, <3>1, <3>2
  <2>5. owed' \subseteq 1..frames'
    <3>1. 1..frames \subseteq 1..(frames + 1) /\ frames + 1 \in 1..(frames + 1)
      BY <1>2
    <3>2. QED
      BY <1>2, <2>1, <2>2, <2>3, <3>1
  <2>6. Order'
    BY <1>1, <2>2, <2>4, <2>5 DEF Order
  <2>7. FramesKept => FramesKept'
    BY <2>1, <2>3 DEF FramesKept
  <2>8. QED
    BY <2>6, <2>7
<1>4. CASE StartRecording
  <2>1. PICK o : /\ writer' = o.writer /\ Told(o.dir, o.writer, frames')
                 /\ o.owed \subseteq owed \cup {frames'}
                 /\ FramesKept => o.owed \subseteq Frames(o.dir)
                 /\ Settle(o.dir, o.writer, o.owed)
    BY <1>2, <1>4, StartTold
  <2>2. frames' = frames + 1 /\ frames' \in 0..MaxFrames /\ now' = now
    BY <1>2, <1>4, BoundsType DEF StartRecording
  <2>3. /\ Story(dir', frames') /\ WritesLast(dir', writer') /\ owed' \subseteq o.owed
        /\ o.owed \subseteq Frames(o.dir) => owed' \subseteq Frames(dir')
    BY <2>1, SettleTold DEF Told, Settle
  <2>4. (Story(dir, frames))' /\ (WritesLast(dir, writer))'
    <3>1. Story(dir', frames') => (Story(dir, frames))'
      BY <2>2 DEF Story
    <3>2. WritesLast(dir', writer') => (WritesLast(dir, writer))'
      BY <2>2 DEF WritesLast
    <3>3. QED
      BY <2>3, <3>1, <3>2
  <2>5. owed' \subseteq 1..frames'
    <3>1. 1..frames \subseteq 1..(frames + 1) /\ frames + 1 \in 1..(frames + 1)
      BY <1>2
    <3>2. QED
      BY <1>2, <2>1, <2>2, <2>3, <3>1
  <2>6. Order'
    BY <1>1, <2>2, <2>4, <2>5 DEF Order
  <2>7. FramesKept => FramesKept'
    BY <2>1, <2>3 DEF FramesKept
  <2>8. QED
    BY <2>6, <2>7
<1>5. CASE Refresh
  BY <1>1, <1>2, <1>5, SettledOrder DEF Refresh, FramesKept
<1>6. CASE StopRecording
  <2>1. CASE writer' = None /\ UNCHANGED <<now, frames, dir, records, owed>>
    <3>1. Story(dir, frames) => (Story(dir, frames))'
      BY <2>1 DEF Story
    <3>2. QED
      BY <1>1, <1>2, <2>1, <3>1 DEF Order, FramesKept
  <2>2. CASE \E c \in Stamped(writer) : Settle(c.dir, None, c.owed)
    <3>1. PICK c \in Stamped(writer) : Settle(c.dir, None, c.owed)
      BY <2>2
    <3>2. writer # None /\ writer' = None /\ UNCHANGED <<now, frames>>
      BY <1>6 DEF StopRecording
    <3>3. /\ Story(c.dir, frames) /\ c.owed \subseteq owed
          /\ FramesKept => c.owed \subseteq Frames(c.dir)
      BY <1>2, <3>1, <3>2, StampedTold DEF Told, FramesKept
    <3>4. QED
      BY <1>1, <3>1, <3>2, <3>3, SettledOrder DEF FramesKept
  <2>3. QED
    BY <1>6, <2>1, <2>2 DEF StopRecording
<1>7. CASE Restart
  BY <1>1, <1>2, <1>7, SettledOrder DEF Restart, FramesKept
<1>8. CASE UNCHANGED <<now, dir, writer, frames, owed>>
  <2>1. (Story(dir, frames))' /\ (writer' # None => (WritesLast(dir, writer))')
    <3>1. Story(dir, frames) => (Story(dir, frames))'
      BY <1>8 DEF Story
    <3>2. WritesLast(dir, writer) => (WritesLast(dir, writer))'
      BY <1>8 DEF WritesLast
    <3>3. QED
      BY <1>2, <1>8, <3>1, <3>2
  <2>2. QED
    BY <1>1, <1>2, <1>8, <2>1 DEF Order, FramesKept
<1>9. CASE Delete
  <2>1. CASE UNCHANGED <<dir, records, owed>>
    BY <1>8, <1>9, <2>1 DEF Delete
  <2>2. CASE Settle(Without(dir, target), writer, owed \ FramesOf(dir[target]))
    <3>1. DOMAIN Without(dir, target) = DOMAIN dir \ {target}
      BY DEF Without, Restrict
    <3>2. \A n \in DOMAIN Without(dir, target) : Without(dir, target)[n] = dir[n]
      BY DEF Without, Restrict
    <3>3. /\ Story(Without(dir, target), frames)
          /\ writer # None => WritesLast(Without(dir, target), writer)
      BY <1>2, <3>1, <3>2, FewerTold
    <3>4. owed \subseteq Frames(dir)
            => owed \ FramesOf(dir[target]) \subseteq Frames(Without(dir, target))
      BY <3>1, <3>2 DEF Frames
    <3>5. UNCHANGED <<now, frames, writer>>
      BY <1>9 DEF Delete
    <3>6. QED
      BY <1>1, <2>2, <3>3, <3>4, <3>5, SettledOrder DEF FramesKept
  <2>3. QED
    BY <1>9, <2>1, <2>2 DEF Delete
<1>10. CASE Foreign
  <2>1. PICK n \in DOMAIN dir : dir' = Without(dir, n) /\ owed' = owed \ FramesOf(dir[n])
    BY <1>10 DEF Foreign
  <2>2. DOMAIN dir' = DOMAIN dir \ {n} /\ \A m \in DOMAIN dir' : dir'[m] = dir[m]
    BY <2>1 DEF Without, Restrict
  <2>3. UNCHANGED <<now, frames, writer>>
    BY <1>10 DEF Foreign
  <2>4. Story(dir', frames) /\ (writer # None => WritesLast(dir', writer))
    BY <1>2, <2>2, FewerTold
  <2>5. (Story(dir, frames))' /\ (writer' # None => (WritesLast(dir, writer))')
    <3>1. Story(dir', frames) => (Story(dir, frames))'
      BY <2>3 DEF Story
    <3>2. WritesLast(dir', writer) => (WritesLast(dir, writer))'
      BY <2>3 DEF WritesLast
    <3>3. QED
      BY <2>3, <2>4, <3>1, <3>2
  <2>6. Order'
    BY <1>1, <1>2, <2>1, <2>3, <2>5 DEF Order
  <2>7. FramesKept => FramesKept'
    BY <2>1, <2>2 DEF FramesKept, Frames
  <2>8. QED
    BY <2>6, <2>7
<1>11. CASE Tick
  <2>1. /\ now' = now + 1 /\ now \in Nat /\ UNCHANGED <<dir, writer, frames, owed>>
    BY <1>2, <1>11, BoundsType DEF Tick, Time
  <2>2. ASSUME Story(dir, frames) PROVE (Story(dir, frames))'
    <3>1. \A n \in DOMAIN dir : n.start <= now' /\ (n.end # None => n.end <= now')
      BY <2>1, <2>2, NameTypes DEF Story
    <3>2. QED
      BY <2>1, <2>2, <3>1 DEF Story
  <2>3. ASSUME WritesLast(dir, writer) PROVE (WritesLast(dir, writer))'
    <3>1. writer.start <= now'
      BY <2>1, <2>3, BoundsType DEF WritesLast, Writer, Time
    <3>2. QED
      BY <2>1, <2>3, <3>1 DEF WritesLast
  <2>4. Order'
    BY <1>1, <1>2, <2>1, <2>2, <2>3 DEF Order
  <2>5. QED
    BY <2>1, <2>4 DEF FramesKept
<1>12. CASE OpenDialog \/ KeepFile \/ UNCHANGED recorderVars
  BY <1>8, <1>12 DEF OpenDialog, KeepFile, recorderVars
<1>13. QED
  BY <1>3, <1>4, <1>5, <1>6, <1>7, <1>9, <1>10, <1>11, <1>12 DEF RecorderNext

LEMMA OrderedStory == ASSUME Order PROVE RecorderType /\ FramesInOrder
<1>1. Story(dir, frames) /\ IInv
  BY DEF Order
<1>2. RecorderType
  BY <1>1 DEF Order, IInv, Types, RecorderType, Story, Lines
<1>3. FramesInOrder
  BY <1>1 DEF FramesInOrder, Story, Later, Disjoint, Rising
<1>4. QED
  BY <1>2, <1>3

\* Every variable keeps its type; no line numbers a frame that is to come.
THEOREM TypeCorrect == RecorderSpec => []RecorderType
<1>1. RecorderInit => Order
  BY InitOrder
<1>2. Order /\ [RecorderNext]_recorderVars => Order'
  BY NextOrder
<1>3. Order => RecorderType
  BY OrderedStory
<1>4. QED
  BY <1>1, <1>2, <1>3, PTL DEF RecorderSpec

\* The files tell one story (create, append, rotate, finish): whichever closing,
\* renaming, creating or writing fails, a file that begins later holds later
\* frames, and closed files do not overlap.  The writer's file is the last.
THEOREM OrderAlwaysKept == RecorderSpec => []FramesInOrder
<1>1. RecorderInit => Order
  BY InitOrder
<1>2. Order /\ [RecorderNext]_recorderVars => Order'
  BY NextOrder
<1>3. Order => FramesInOrder
  BY OrderedStory
<1>4. QED
  BY <1>1, <1>2, <1>3, PTL DEF RecorderSpec

\* Whatever is written to a file (append) is on disk in its order, whichever
\* rotation, renaming or restart comes after it, until its file is deleted or a
\* file of the same seconds takes its name: the code replaces, and the two are
\* the only ways in which a frame is lost once it was written.  Of what came when
\* a rotation had left no file to write to nothing is said.
THEOREM RecordingAlwaysIntact == RecorderSpec => []RecordingIntact
<1>1. RecorderInit => Order /\ FramesKept
  BY InitOrder
<1>2. Order /\ FramesKept /\ [RecorderNext]_recorderVars => (Order /\ FramesKept)'
  BY NextOrder
<1>3. Order /\ FramesKept => RecordingIntact
  BY OrderedStory DEF RecordingIntact
<1>4. QED
  BY <1>1, <1>2, <1>3, PTL DEF RecorderSpec

-----------------------------------------------------------------------------
(* What pruning keeps.                                                     *)

LEMMA NamesFinite == IsFiniteSet(Name)
<1> DEFINE P == Time \X (Time \cup {None})
           f == [p \in P |-> [start |-> p[1], end |-> p[2]]]
<1>1. IsFiniteSet(Time)
  BY BoundsType, FS_Interval DEF Time
<1>2. IsFiniteSet(Time \cup {None})
  BY <1>1, FS_AddElement
<1>3. IsFiniteSet(P)
  BY <1>1, <1>2, FS_Product
<1>4. Name \subseteq {f[p] : p \in P}
  <2>1. ASSUME NEW n \in Name PROVE n \in {f[p] : p \in P}
    <3>1. <<n.start, n.end>> \in P /\ f[<<n.start, n.end>>] = n
      BY DEF Name
    <3>2. QED
      BY <3>1
  <2>2. QED
    BY <2>1
<1> HIDE DEF P, f
<1>5. IsFiniteSet({f[p] : p \in P})
  BY <1>3, ImageSmall
<1>6. QED
  BY <1>4, <1>5, FS_Subset

\* The files hold finitely many bytes.
Sized(d) ==
  /\ DOMAIN d \subseteq Name
  /\ \A n \in DOMAIN d : d[n] \in Seq([frame : Nat, size : Nat])
Held(d, S) == UNION {BytesIn(d, n) : n \in S}

LEMMA HeldFinite ==
  ASSUME NEW d, Sized(d), NEW S \in SUBSET (DOMAIN d)
  PROVE  IsFiniteSet(Held(d, S))
<1>1. ASSUME NEW n \in S  PROVE IsFiniteSet(BytesIn(d, n))
  <2> DEFINE part == [i \in DOMAIN d[n] |-> {<<n, i>>} \X (1..d[n][i].size)]
  <2>1. d[n] \in Seq([frame : Nat, size : Nat])
    BY DEF Sized
  <2>2. Len(d[n]) \in Nat /\ DOMAIN d[n] = 1..Len(d[n])
    BY <2>1
  <2>3. IsFiniteSet(DOMAIN d[n])
    BY <2>2, FS_Interval
  <2>4. \A i \in DOMAIN d[n] : IsFiniteSet(part[i])
    <3>1. ASSUME NEW i \in DOMAIN d[n]  PROVE IsFiniteSet({<<n, i>>} \X (1..d[n][i].size))
      <4>1. d[n][i] \in [frame : Nat, size : Nat]
        BY <2>1, <2>2, ElementOfSeq
      <4>2. d[n][i].size \in Int /\ 1 \in Int
        BY <4>1
      <4>3. IsFiniteSet(1..d[n][i].size)
        BY <4>2, FS_Interval
      <4>4. IsFiniteSet({<<n, i>>})
        BY FS_Singleton
      <4>5. QED
        BY <4>3, <4>4, FS_Product
    <3>2. QED
      BY <3>1
  <2>5. BytesIn(d, n) = UNION {part[i] : i \in DOMAIN d[n]}
    BY DEF BytesIn
  <2> HIDE DEF part
  <2>6. IsFiniteSet({part[i] : i \in DOMAIN d[n]})
    BY <2>3, ImageSmall
  <2>7. QED
    BY <2>4, <2>5, <2>6, FS_UNION
<1> DEFINE file == [n \in S |-> BytesIn(d, n)]
<1>2. IsFiniteSet(S)
  BY NamesFinite, FS_Subset DEF Sized
<1>3. Held(d, S) = UNION {file[n] : n \in S} /\ \A n \in S : IsFiniteSet(file[n])
  BY <1>1 DEF Held
<1> HIDE DEF file
<1>4. IsFiniteSet({file[n] : n \in S})
  BY <1>2, ImageSmall
<1>5. QED
  BY <1>3, <1>4, FS_UNION

LEMMA BytesMore ==
  ASSUME NEW d, Sized(d), NEW T \in SUBSET (DOMAIN d), NEW S \in SUBSET T
  PROVE  Bytes(d, S) \in Nat /\ Bytes(d, T) \in Nat /\ Bytes(d, S) <= Bytes(d, T)
<1>1. IsFiniteSet(Held(d, T)) /\ IsFiniteSet(Held(d, S))
  BY HeldFinite
<1>2. Held(d, S) \subseteq Held(d, T)
  BY DEF Held
<1>3. Bytes(d, S) = Cardinality(Held(d, S)) /\ Bytes(d, T) = Cardinality(Held(d, T))
  BY DEF Bytes, Held
<1>4. QED
  BY <1>1, <1>2, <1>3, FS_Subset, FS_CardinalityType

LEMMA BytesLess ==
  ASSUME NEW d, Sized(d), NEW T \in SUBSET (DOMAIN d), NEW S \in SUBSET T
  PROVE  Bytes(d, T \ S) = Bytes(d, T) - Bytes(d, S)
<1>1. IsFiniteSet(Held(d, T)) /\ IsFiniteSet(Held(d, S))
  BY HeldFinite
<1>2. Held(d, S) \subseteq Held(d, T)
  BY DEF Held
<1>3. ASSUME NEW m, NEW n, m # n  PROVE BytesIn(d, m) \cap BytesIn(d, n) = {}
  BY <1>3 DEF BytesIn
<1>4. Held(d, T \ S) = Held(d, T) \ Held(d, S)
  BY <1>3 DEF Held
<1>5. Held(d, T) \cap Held(d, S) = Held(d, S)
  BY <1>2
<1>6. /\ Bytes(d, T \ S) = Cardinality(Held(d, T \ S)) /\ Bytes(d, S) = Cardinality(Held(d, S))
      /\ Bytes(d, T) = Cardinality(Held(d, T))
  BY DEF Bytes, Held
<1>7. Cardinality(Held(d, T) \ Held(d, S)) = Cardinality(Held(d, T)) - Cardinality(Held(d, T) \cap Held(d, S))
  BY <1>1, FS_Difference
<1>8. QED
  BY <1>4, <1>5, <1>6, <1>7

LEMMA BeforeOrders ==
  ASSUME NEW l \in Name, NEW m \in Name, NEW n \in Name
  PROVE  /\ ~Older(n, n)
         /\ Older(l, m) /\ Older(m, n) => Older(l, n)
         /\ m.start < n.start => Older(m, n)
         /\ ~Older(m, n) => m.start >= n.start
<1>1. \A x \in Name : x.start \in Nat /\ (x.end = None \/ x.end \in Nat)
  BY DEF Name, Time
<1>2. QED
  BY <1>1, NoneType DEF Older


\* The newest files that fit together stay, and no more go than must.
LEMMA PruneIsSound ==
  ASSUME NEW d, Sized(d), NEW active, now \in Nat
  PROVE  LET closed == {n \in DOMAIN d \ {active} : now - n.start <= Retention}
             kept   == DOMAIN Pruned(d, active, {}) \ {active}
         IN  /\ kept \subseteq closed /\ Bytes(d, kept) <= Quota
             /\ \A n \in closed \ kept :
                  /\ \A m \in kept : m.start >= n.start
                  /\ Bytes(d, {m \in closed : m.start >= n.start}) > Quota
<1> DEFINE closed == {n \in DOMAIN d \ {active} : now - n.start <= Retention}
           kept   == DOMAIN Pruned(d, active, {}) \ {active}
           old    == {n \in DOMAIN d \ {active} : now - n.start > Retention}
           young  == (DOMAIN d \ {active}) \ old
           tried(n) == {m \in young \ {} : Older(m, n)}
           over   == {n \in young : Bytes(d, young) - Bytes(d, tried(n)) > Quota}
<1>1. Pruned(d, active, {}) = Restrict(d, DOMAIN d \ ((old \cup over) \ {}))
  BY DEF Pruned
<1>2. kept = young \ over
  BY <1>1 DEF Restrict
<1>3. young \subseteq Name /\ young \subseteq DOMAIN d
  BY DEF Sized
<1>4. closed = young
  <2>1. ASSUME NEW n \in DOMAIN d \ {active}  PROVE now - n.start <= Retention <=> ~(now - n.start > Retention)
    <3>1. n \in Name
      BY DEF Sized
    <3>2. n.start \in Nat /\ Retention \in Nat
      BY <3>1, LimitsType DEF Name, Time
    <3>3. QED
      BY <3>2
  <2>2. QED
    BY <2>1
<1>5. \A n \in young : tried(n) \subseteq young /\ Bytes(d, tried(n)) \in Nat
  BY <1>3, BytesMore
<1>6. Bytes(d, young) \in Nat /\ IsFiniteSet(young) /\ Quota \in Nat
  BY <1>3, BytesMore, NamesFinite, FS_Subset, LimitsType
<1> HIDE DEF closed, kept, old, young
<1>7. \A n \in young : Bytes(d, young \ tried(n)) = Bytes(d, young) - Bytes(d, tried(n))
  BY <1>3, <1>5, BytesLess
<1>8. \A n \in young : n \in kept <=> Bytes(d, young \ tried(n)) <= Quota
  BY <1>2, <1>5, <1>6, <1>7
<1>9. kept \subseteq closed
  BY <1>2, <1>4
<1>10. Bytes(d, kept) <= Quota
  <2>1. CASE kept = {}
    <3>1. UNION {BytesIn(d, n) : n \in kept} = {}
      BY <2>1
    <3>2. QED
      BY <1>6, <3>1, FS_EmptySet DEF Bytes
  <2>2. CASE kept # {}
    <3> DEFINE sizes == {Cardinality(tried(n)) : n \in kept}
    <3>1. \A n \in young : IsFiniteSet(tried(n)) /\ Cardinality(tried(n)) \in Nat
      BY <1>5, <1>6, FS_Subset, FS_CardinalityType
    <3>2. sizes \subseteq Nat /\ sizes # {}
      BY <1>2, <2>2, <3>1
    <3>3. PICK m \in kept : \A n \in kept : Cardinality(tried(m)) <= Cardinality(tried(n))
      <4>1. PICK x \in sizes : \A y \in sizes : x <= y
        BY <3>2, LeastNumber
      <4>2. QED
        BY <4>1
    <3>4. ASSUME NEW n \in kept, n \in tried(m)  PROVE FALSE
      <4>1. n \in young /\ m \in young /\ Older(n, m)
        BY <1>2, <3>4
      <4>2. tried(n) \subseteq tried(m) /\ n \notin tried(n)
        BY <1>3, <4>1, BeforeOrders
      <4>3. Cardinality(tried(n)) <= Cardinality(tried(m)) /\ Cardinality(tried(n)) # Cardinality(tried(m))
        BY <3>1, <3>4, <4>1, <4>2, FS_Subset
      <4>4. QED
        BY <3>1, <3>3, <4>1, <4>3
    <3>5. kept \subseteq young \ tried(m)
      BY <1>2, <3>4
    <3>6. Bytes(d, kept) \in Nat /\ Bytes(d, young \ tried(m)) \in Nat /\ Bytes(d, kept) <= Bytes(d, young \ tried(m))
      BY <1>3, <3>5, BytesMore
    <3>7. Bytes(d, young \ tried(m)) <= Quota
      BY <1>2, <1>8
    <3>8. QED
      BY <1>6, <3>6, <3>7
  <2>3. QED
    BY <2>1, <2>2
<1>11. ASSUME NEW n \in closed \ kept
       PROVE  /\ \A m \in kept : m.start >= n.start
              /\ Bytes(d, {m \in closed : m.start >= n.start}) > Quota
  <2>1. n \in young /\ n \in Name /\ ~(Bytes(d, young \ tried(n)) <= Quota)
    BY <1>3, <1>4, <1>8
  <2>2. ASSUME NEW m \in kept  PROVE m.start >= n.start
    <3>1. m \in young /\ m \in Name
      BY <1>2, <1>3
    <3>2. SUFFICES ASSUME Older(m, n)  PROVE FALSE
      BY <2>1, <3>1, BeforeOrders
    <3>3. young \ tried(n) \subseteq young \ tried(m)
      BY <1>3, <2>1, <3>1, <3>2, BeforeOrders
    <3>4. /\ Bytes(d, young \ tried(n)) \in Nat /\ Bytes(d, young \ tried(m)) \in Nat
          /\ Bytes(d, young \ tried(n)) <= Bytes(d, young \ tried(m))
      BY <1>3, <3>3, BytesMore
    <3>5. Bytes(d, young \ tried(m)) <= Quota
      BY <1>8, <3>1
    <3>6. QED
      BY <1>6, <2>1, <3>4, <3>5
  <2>3. Bytes(d, {m \in closed : m.start >= n.start}) > Quota
    <3> DEFINE later == {m \in closed : m.start >= n.start}
    <3>1. young \ tried(n) \subseteq later /\ later \subseteq DOMAIN d
      BY <1>3, <1>4, <2>1, BeforeOrders
    <3>2. /\ Bytes(d, young \ tried(n)) \in Nat /\ Bytes(d, later) \in Nat
          /\ Bytes(d, young \ tried(n)) <= Bytes(d, later)
      BY <3>1, BytesMore
    <3> HIDE DEF later
    <3>3. Bytes(d, later) > Quota
      BY <1>6, <2>1, <3>2
    <3>4. QED
      BY <3>3 DEF later
  <2>4. QED
    BY <2>2, <2>3
<1>12. QED
  BY <1>9, <1>10, <1>11 DEF closed, kept

\* Pruning keeps the newest files that fit the quota together and no fewer, for
\* any quota, retention and sizes (prune_recordings): as the oldest go first,
\* the files kept lie within what the oldest of them left room for.
THEOREM PruneAlwaysKeepsNewest == RecorderSpec => []PruneKeepsNewest
<1>1. RecorderType => PruneKeepsNewest
  <2>1. SUFFICES ASSUME RecorderType  PROVE PruneKeepsNewest
    OBVIOUS
  <2>2. Sized(dir) /\ now \in Nat
    <3>1. ASSUME NEW n \in DOMAIN dir  PROVE dir[n] \in Seq([frame : Nat, size : Nat])
      <4> DEFINE S == [frame : 1..frames, size : Sizes]
                 T == [frame : Nat, size : Nat]
      <4>1. dir[n] \in Seq(S)
        BY <2>1, <3>1 DEF RecorderType
      <4>2. S \subseteq T
        <5>1. 1..frames \subseteq Nat /\ Sizes \subseteq Nat
          BY <2>1, SizesType, BoundsType DEF RecorderType
        <5>2. QED
          BY <5>1
      <4> HIDE DEF S, T
      <4>3. dir[n] \in Seq(T)
        BY <4>1, <4>2, SeqMonotonic
      <4>4. QED
        BY <4>3 DEF T
    <3>2. QED
      BY <2>1, <3>1 DEF RecorderType, Sized, Time
  <2>3. QED
    BY <2>2, PruneIsSound DEF PruneKeepsNewest
<1>2. QED
  BY TypeCorrect, <1>1, PTL
=============================================================================
