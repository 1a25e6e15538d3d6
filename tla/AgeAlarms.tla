------------------------------ MODULE AgeAlarms ------------------------------
(***************************************************************************)
(* The colours of open transactions by their age, a shorter one for those  *)
(* that are idle (xact_age.rs), and the one transaction the headline names *)
(* (micro_lens.rs).  Time is in units of half the warning age, and the bad *)
(* age is six times the warning age.                                       *)
(***************************************************************************)
EXTENDS Integers, FiniteSets, Absent

CONSTANTS Sessions, MaxAge   \* sessions, and a bound on ages

ASSUME AgeBounds == Sessions \subseteq Nat /\ IsFiniteSet(Sessions) /\ MaxAge \in Nat

WarnAge == 2
BadAge == 12

VARIABLE xacts    \* open transactions: their age and whether idle in one

Seen(age, idle) == [age |-> age, idle |-> idle]

AgesInit == xacts = [s \in {} |-> None]

BeginXact(s) ==
  /\ s \notin DOMAIN xacts
  /\ xacts' = [t \in DOMAIN xacts \cup {s} |-> IF t = s THEN Seen(0, FALSE) ELSE xacts[t]]
EndXact(s) == xacts' = [t \in DOMAIN xacts \ {s} |-> xacts[t]]
TurnIdle(s) == ~xacts[s].idle /\ xacts' = [xacts EXCEPT ![s].idle = TRUE]
TurnActive(s) == xacts[s].idle /\ xacts' = [xacts EXCEPT ![s].idle = FALSE]
Ageing ==
  /\ \A s \in DOMAIN xacts : xacts[s].age < MaxAge
  /\ xacts' = [s \in DOMAIN xacts |-> Seen(xacts[s].age + 1, xacts[s].idle)]

AgesNext ==
  \/ \E s \in Sessions : BeginXact(s)
  \/ \E s \in DOMAIN xacts : EndXact(s) \/ TurnIdle(s) \/ TurnActive(s)
  \/ Ageing

AgesSpec == AgesInit /\ [][AgesNext]_xacts

------------------------------------------------------------------------------
\* Mutant: bad at the bound, and only there.
SeverityAtBound(value, warn, bad) == IF value = bad THEN 2 ELSE IF value > warn THEN 1 ELSE 0

\* 0 for calm, 1 for a warning, 2 for bad: past a bound, not at it.
SeverityOf(value, warn, bad) == IF value > bad THEN 2 ELSE IF value > warn THEN 1 ELSE 0

\* An idle transaction has half the time.
XactSeverity(x) == IF x.idle THEN SeverityOf(x.age, WarnAge \div 2, BadAge \div 2)
                             ELSE SeverityOf(x.age, WarnAge, BadAge)

\* oldest_open_xact, the last of the oldest.
OldestXact == CHOOSE s \in DOMAIN xacts :
                \A t \in DOMAIN xacts : xacts[t].age < xacts[s].age \/ (xacts[t].age = xacts[s].age /\ t <= s)
Headline == IF DOMAIN xacts = {} THEN 0 ELSE XactSeverity(xacts[OldestXact])

------------------------------------------------------------------------------
\* Waiting calms nothing: an alarm rises with age until the transaction ends,
\* works again or was cut short, and the headline, which names the oldest,
\* is not calm while any other transaction is bad, though it may be while one
\* has a warning.
AlarmsOnlyRise ==
  [][Ageing => /\ Headline' >= Headline
               /\ \A s \in DOMAIN xacts : XactSeverity(xacts'[s]) >= XactSeverity(xacts[s])]_xacts
BadIsAnnounced == (\E s \in DOMAIN xacts : XactSeverity(xacts[s]) = 2) => Headline > 0
AlarmsSound == AlarmsOnlyRise /\ []BadIsAnnounced
=============================================================================
