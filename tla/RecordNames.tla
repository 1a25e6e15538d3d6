------------------------------ MODULE RecordNames ------------------------------
(***************************************************************************)
(* The names of recordings and bookmarks (recording.rs).  A name carries   *)
(* the target and the times of the file, and listing and pruning read them *)
(* back from it: the calendar is computed both ways without a library.     *)
(*                                                                         *)
(* A name is the sequence of its words between hyphens; a time is its day, *)
(* as the time of day is only split into digits.  Days are counted from    *)
(* the first of January 1970.                                              *)
(***************************************************************************)
EXTENDS Integers, Sequences, SequencesExt, Absent

CONSTANTS Targets,   \* targets of connections, as sequences of words
          MaxDay     \* bound: days looked at

ASSUME NameBounds ==
  /\ MaxDay \in Nat
  /\ Targets \subseteq Seq({"text"} \X STRING) \ {<<>>}   \* sanitize_target_name

VARIABLES day, date   \* a day, and its date by the calendar
nameVars == <<day, date>>

------------------------------------------------------------------------------

\* Years and months are counted from March: the year of an era of 400 of them,
\* the month of a year, the days of a year before a month.
YearOfEra(doe) == (doe - doe \div 1460 + doe \div 36524 - doe \div 146096) \div 365
MonthOfYear(doy) == (5 * doy + 2) \div 153
Before(mp) == (153 * mp + 2) \div 5
EraDays(yoe) == 365 * yoe + yoe \div 4 - yoe \div 100

\* format_epoch_slug
Slug(n) ==
  LET z == n + 719468
      era == z \div 146097
      doe == z - era * 146097
      yoe == YearOfEra(doe)
      doy == doe - EraDays(yoe)
      mp == MonthOfYear(doy)
      m == IF mp < 10 THEN mp + 3 ELSE mp - 9
  IN  [y |-> yoe + era * 400 + (IF m <= 2 THEN 1 ELSE 0), m |-> m, d |-> doy - Before(mp) + 1]

\* parse_epoch_timestamp
DayOf(slug) ==
  LET y == IF slug.m <= 2 THEN slug.y - 1 ELSE slug.y
      era == y \div 400
      mp == IF slug.m > 2 THEN slug.m - 3 ELSE slug.m + 9
      doy == Before(mp) + slug.d - 1
  IN  era * 146097 + EraDays(y - era * 400) + doy - 719468

------------------------------------------------------------------------------
Text(w) == <<"text", w>>
Stamp(n) == <<"stamp", Slug(n)>>
DayIn(word) == IF word[1] = "stamp" THEN DayOf(word[2]) ELSE None

\* The names of a file while it is written, and once it is closed.
Begun(target, start) == target \o << Stamp(start) >>
Closed(target, start, end) == Begun(target, start) \o << Text("to"), Stamp(end) >>

\* Split at the last hyphen (rsplit_once).
TargetOf(words) == IF Len(words) > 1 THEN Front(words) ELSE words
StartOf(words) == IF Len(words) > 1 THEN DayIn(Last(words)) ELSE None

\* Mutant: the first word is taken for the one before the end, too.
SplitAtAnyTo(words) == {i \in 1..(Len(words) - 1) : words[i] = Text("to")}

\* Where a "-to-" splits the words: there is a word on either side.
Splits(words) == {i \in 2..(Len(words) - 1) : words[i] = Text("to")}

FirstOf(S) == CHOOSE i \in S : \A j \in S : i <= j

\* parse_recording_filename: at the first of them.
Parsed(words) ==
  LET first == IF Splits(words) = {} THEN Len(words) + 1 ELSE FirstOf(Splits(words))
      opening == SubSeq(words, 1, first - 1)
  IN  [target |-> TargetOf(opening), start |-> StartOf(opening),
       end |-> IF first = Len(words) - 1 THEN DayIn(Last(words)) ELSE None]

------------------------------------------------------------------------------
\* The calendar, by its rules.
Leap(y) == y % 4 = 0 /\ (y % 100 = 0 => y % 400 = 0)
Length(y, m) == CASE m = 2 -> IF Leap(y) THEN 29 ELSE 28 [] m \in {4, 6, 9, 11} -> 30 [] OTHER -> 31
Tomorrow(d) ==
  CASE d.d < Length(d.y, d.m) -> [d EXCEPT !.d = @ + 1]
    [] d.d = Length(d.y, d.m) /\ d.m < 12 -> [y |-> d.y, m |-> d.m + 1, d |-> 1]
    [] OTHER -> [y |-> d.y + 1, m |-> 1, d |-> 1]

NameInit == day = 0 /\ date = [y |-> 1970, m |-> 1, d |-> 1]
NextDay == day < MaxDay /\ day' = day + 1 /\ date' = Tomorrow(date)
NameSpec == NameInit /\ [][NextDay]_nameVars

\* Both conversions follow the calendar (format_epoch_slug,
\* parse_epoch_timestamp).
DatesRight == Slug(day) = date /\ DayOf(date) = day

\* The words of a target that are taken for the one before the end.
Separators(target) == {i \in 2..Len(target) : target[i] = Text("to")}
\* What is left of such a target: what is before the first of them, less the
\* word that is taken for the start.
LeftOf(target, cut) == SubSeq(target, 1, IF cut = 2 THEN 1 ELSE cut - 2)

\* A name gives back the target and the times it was made of, for any day of
\* the calendar and whichever hyphens the target has.  Only a target with a
\* "to" among its later words does not: it is cut short there, never taken for
\* a longer one, no time of a closed file is known and none that is known is
\* wrong by more than its place, the start of an open file read as an end
\* (parse_recording_filename).
NamesReadBack ==
  /\ DatesRight
  /\ \A target \in Targets :
       LET begun == Parsed(Begun(target, day))
           closed == Parsed(Closed(target, day, day + 1))
       IN  IF Separators(target) = {}
           THEN /\ begun = [target |-> target, start |-> day, end |-> None]
                /\ closed = [target |-> target, start |-> day, end |-> day + 1]
           ELSE LET cut == FirstOf(Separators(target))
                    left == LeftOf(target, cut)
                IN  /\ begun = [target |-> left, start |-> None,
                                end |-> IF cut = Len(target) THEN day ELSE None]
                    /\ closed = [target |-> left, start |-> None, end |-> None]
=============================================================================
