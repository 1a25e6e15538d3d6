------------------------------- MODULE ErrorLog -------------------------------
(***************************************************************************)
(* The throttle of error.log (error_log.rs): the same message of the same  *)
(* subsystem is written at most once per interval, with the number of      *)
(* times it was repeated.                                                  *)
(***************************************************************************)
EXTENDS Integers, Sequences, Absent

CONSTANTS Reporters,    \* subsystems that log
          Messages,     \* error texts
          DedupInterval,\* DEDUPLICATION_INTERVAL_SECS
          MaxSeconds,   \* bound on the time
          MaxErrors     \* bound on the errors

ASSUME LogBounds == DedupInterval \in Nat /\ MaxSeconds \in Nat /\ MaxErrors \in Nat

VARIABLES throttler,  \* per subsystem its last message, or None
          seconds,
          lines,      \* error.log
          spell       \* per subsystem, how often its present message has come
                      \* in a row; for the properties

logVars == <<throttler, seconds, lines, spell>>

Entry(msg, at, repeats) == [last_message |-> msg, last_logged_at |-> at, repeat_count |-> repeats]
LogLine(who, msg, times) == [who |-> who, msg |-> msg, at |-> seconds, repeated |-> times]

LogInit ==
  /\ throttler = [w \in Reporters |-> None]
  /\ seconds = 0 /\ lines = <<>>
  /\ spell = [w \in Reporters |-> 0]

PassSecond == seconds < MaxSeconds /\ seconds' = seconds + 1 /\ UNCHANGED <<throttler, lines, spell>>

SameMessage(w, msg) == throttler[w] # None /\ throttler[w].last_message = msg

\* The first error of a subsystem, or another than its last: written at once.
LogChanged(w, msg) ==
  /\ ~SameMessage(w, msg)
  /\ throttler' = [throttler EXCEPT ![w] = Entry(msg, seconds, 0)]
  /\ lines' = Append(lines, LogLine(w, msg, 0))
  /\ spell' = [spell EXCEPT ![w] = 1]

LogSuppressed(w, msg) ==
  /\ SameMessage(w, msg) /\ seconds - throttler[w].last_logged_at < DedupInterval
  /\ throttler' = [throttler EXCEPT ![w].repeat_count = @ + 1]
  /\ spell' = [spell EXCEPT ![w] = @ + 1]
  /\ lines' = lines

\* Mutant: the line does not count itself.
LogRepeatedLess(w, msg) ==
  /\ SameMessage(w, msg) /\ seconds - throttler[w].last_logged_at >= DedupInterval
  /\ throttler' = [throttler EXCEPT ![w] = Entry(msg, seconds, 0)]
  /\ lines' = Append(lines, LogLine(w, msg, throttler[w].repeat_count))
  /\ spell' = [spell EXCEPT ![w] = @ + 1]

LogRepeated(w, msg) ==
  /\ SameMessage(w, msg) /\ seconds - throttler[w].last_logged_at >= DedupInterval
  /\ throttler' = [throttler EXCEPT ![w] = Entry(msg, seconds, 0)]
  /\ lines' = Append(lines, LogLine(w, msg, throttler[w].repeat_count + 1))
  /\ spell' = [spell EXCEPT ![w] = @ + 1]

LogError(w, msg) ==
  /\ Len(lines) < MaxErrors /\ spell[w] < MaxErrors
  /\ LogChanged(w, msg) \/ LogSuppressed(w, msg) \/ LogRepeated(w, msg)
  /\ seconds' = seconds

\* The throttle is memory of the process, the log is not.
RestartLogger ==
  /\ throttler' = [w \in Reporters |-> None]
  /\ spell' = [w \in Reporters |-> 0]
  /\ UNCHANGED <<seconds, lines>>

LogNext == PassSecond \/ (\E w \in Reporters, msg \in Messages : LogError(w, msg)) \/ RestartLogger
LogSpec == LogInit /\ [][LogNext]_logVars

------------------------------------------------------------------------------
\* In a log, the lines of a subsystem, those of its last spell, which the first
\* line without repeats begins, and the occurrences these tell of.
Own(log, w) == {i \in DOMAIN log : log[i].who = w}
LastSpell(log, w) ==
  {i \in Own(log, w) : \A j \in Own(log, w) : j > i => log[j].repeated # 0}
Told(log, w) ==
  LET told[i \in 0..Len(log)] ==
        IF i = 0 THEN 0
        ELSE IF log[i].who # w THEN told[i - 1]
        ELSE IF log[i].repeated = 0 THEN 1 ELSE told[i - 1] + log[i].repeated
  IN  told[Len(log)]

\* The lines of the present spell of a subsystem's message account for all
\* its occurrences: those written, and those the next line will count.  They
\* are an interval apart, however many errors come and whatever the other
\* subsystems log in between.
SpellAccounted ==
  \A w \in Reporters : throttler[w] # None =>
    LET present == LastSpell(lines, w)
    IN  /\ \A i \in present : lines[i].msg = throttler[w].last_message
        /\ spell[w] = Told(lines, w) + throttler[w].repeat_count
        /\ \A i, j \in present : j < i => lines[i].at - lines[j].at >= DedupInterval
=============================================================================
