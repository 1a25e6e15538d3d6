----------------------------- MODULE KeysProofs -----------------------------
(* Theorems about modules TuiShell and TuiList: that a key goes to what is *)
(* drawn on top, and that the list drawn is the list the keys act on.      *)
EXTENDS TuiShell, TuiList, DataLemmas, SequenceTheorems, FiniteSetTheorems, TLAPS

-----------------------------------------------------------------------------
(* What a key means.                                                       *)

LEMMA HeadOfBoth ==
  ASSUME NEW S, NEW s \in Seq(S), NEW t \in Seq(S)
  PROVE  /\ s \o t \in Seq(S)
         /\ s # <<>> => s \o t # <<>> /\ Head(s \o t) = Head(s)
         /\ s = <<>> => s \o t = t
OBVIOUS

LEMMA OneMeaning ==
  ASSUME NEW S, NEW meaning \in S
  PROVE  <<meaning>> \in Seq(S) /\ <<meaning>> # <<>> /\ Head(<<meaning>>) = meaning
         /\ <<>> \in Seq(S)
<1>1. <<meaning>> \in Seq(S)
  OBVIOUS
<1>2. <<meaning>> # <<>>
  OBVIOUS
<1>3. Head(<<meaning>>) = meaning
  OBVIOUS
<1>4. <<>> \in Seq(S)
  OBVIOUS
<1>5. QED
  BY <1>1, <1>2, <1>3, <1>4

LEMMA EnterMeans ==
  /\ Meaning("Enter") = "detail" => ~detail /\ ~waits /\ HasDetail
  /\ Meaning("Enter") = "replay" => ~detail /\ ~waits
<1> DEFINE a == On(detail \/ waits, "close")
           b == On(tab = "Records", "replay")
           c == On(HasDetail, "detail")
<1>1. /\ a = IF detail \/ waits THEN <<"close">> ELSE <<>>
      /\ b = IF tab = "Records" THEN <<"replay">> ELSE <<>>
      /\ c = IF HasDetail THEN <<"detail">> ELSE <<>>
  BY DEF On
<1>2. Arms("Enter") = (a \o b) \o c
  BY DEF Arms
<1> HIDE DEF a, b, c
<1>3. a \in Seq(Meanings) /\ b \in Seq(Meanings) /\ c \in Seq(Meanings)
  <2>1. "close" \in Meanings /\ "replay" \in Meanings /\ "detail" \in Meanings
    BY DEF Meanings
  <2>2. /\ <<"close">> \in Seq(Meanings) /\ <<"replay">> \in Seq(Meanings)
        /\ <<"detail">> \in Seq(Meanings) /\ <<>> \in Seq(Meanings)
    BY <2>1, OneMeaning
  <2>3. QED
    BY <1>1, <2>2
<1>4. CASE detail \/ waits
  <2>1. a = <<"close">> /\ a # <<>> /\ Head(a) = "close"
    BY <1>1, <1>4
  <2>2. a \o b # <<>> /\ Head(a \o b) = "close" /\ a \o b \in Seq(Meanings)
    BY <1>3, <2>1, HeadOfBoth
  <2>3. (a \o b) \o c # <<>> /\ Head((a \o b) \o c) = "close"
    BY <1>3, <2>2, HeadOfBoth
  <2>4. Meaning("Enter") = "close"
    BY <1>2, <2>3 DEF Meaning
  <2>5. QED
    BY <2>4
<1>5. CASE ~(detail \/ waits) /\ ~HasDetail
  <2>1. a \o b = b /\ (a \o b) \o c = b
    BY <1>1, <1>3, <1>5, HeadOfBoth, OneMeaning
  <2>2. Meaning("Enter") \in {"replay", None}
    BY <1>1, <1>2, <2>1, OneMeaning DEF Meaning
  <2>3. QED
    BY <1>5, <2>2, NoMeaning DEF Meanings
<1>6. QED
  BY <1>4, <1>5

LEMMA EnterAlone ==
  ASSUME NEW k \in Keys, Meaning(k) \in {"detail", "replay"} PROVE k = "Enter"
<1> SUFFICES ASSUME k # "Enter" PROVE FALSE
  OBVIOUS
<1>1. Arms(k) = <<>> \/ Meaning(k) = Head(Arms(k))
  BY DEF Meaning
<1>2. QED
  BY <1>1, NoMeaning, OneMeaning DEF Keys, Arms, On, Meaning, Meanings

\* What each of the keys below needs.
LEMMA PressedNeeds ==
  /\ Pressed("waits") => Activity
  /\ Pressed("vacuum") => tab = "Schema"
  /\ Pressed("sequences") => tab = "Schema"
  /\ Pressed("idle") => tab = "Micro"
  /\ Pressed("filter") => HasFilter
  /\ Pressed("detail") => ~detail /\ ~waits /\ HasDetail
  /\ Pressed("replay") => ~detail /\ ~waits
<1> USE NoMeaning, OneMeaning DEF Pressed, Keys, Meaning, Arms, On, Meanings
<1>1. Pressed("waits") => Activity
  OBVIOUS
<1>2. Pressed("vacuum") => tab = "Schema"
  OBVIOUS
<1>3. Pressed("sequences") => tab = "Schema"
  OBVIOUS
<1>4. Pressed("idle") => tab = "Micro"
  OBVIOUS
<1>5. Pressed("filter") => HasFilter
  OBVIOUS
<1> HIDE DEF Pressed, Keys, Meaning, Arms, On, Meanings
<1>6. /\ Pressed("detail") => Meaning("Enter") = "detail"
      /\ Pressed("replay") => Meaning("Enter") = "replay"
  BY EnterAlone DEF Pressed
<1>7. QED
  BY <1>1, <1>2, <1>3, <1>4, <1>5, <1>6, EnterMeans

-----------------------------------------------------------------------------
(* Who takes a key, and who is drawn.                                      *)

OneOwner ==
  \/ open = {} /\ editing = {}
  \/ \E o \in Overlays : open = {o} /\ editing = {}
  \/ open = {} /\ editing = {tab} /\ HasFilter

LEMMA HandlerIs ==
  /\ open = {} => Handler = IF editing # {} THEN "filter" ELSE "lens"
  /\ \A o \in Overlays : open = {o} => Handler = o
<1> DEFINE ranks == <<"picker", "help", "confirm", "delete", "databases", "servers">>
           up == {n \in DOMAIN ranks : ranks[n] \in open}
<1>1. Handler = IF up # {} THEN ranks[CHOOSE n \in up : \A o \in up : n <= o]
                ELSE IF editing # {} THEN "filter" ELSE "lens"
  BY DEF Handler
<1>2. /\ DOMAIN ranks = 1..6 /\ ranks[1] = "picker" /\ ranks[2] = "help" /\ ranks[3] = "confirm"
      /\ ranks[4] = "delete" /\ ranks[5] = "databases" /\ ranks[6] = "servers"
  OBVIOUS
<1>3. open = {} => up = {}
  OBVIOUS
<1>4. ASSUME NEW o \in Overlays, open = {o} PROVE Handler = o
  <2> HIDE DEF ranks
  <2>1. PICK n \in 1..6 : ranks[n] = o /\ \A m \in 1..6 : ranks[m] = o => m = n
    BY <1>2 DEF Overlays
  <2>2. up = {n}
    BY <1>2, <1>4, <2>1
  <2> HIDE DEF up
  <2>3. (CHOOSE m \in up : \A q \in up : m <= q) = n
    BY <2>1, <2>2
  <2>4. QED
    BY <1>1, <2>1, <2>2, <2>3
<1>5. QED
  BY <1>1, <1>3, <1>4

LEMMA DrawnIs ==
  /\ open = {} /\ ~splash => Drawn = IF editing # {} /\ ~replaying THEN "filter" ELSE "lens"
  /\ open = {"picker"} => Drawn = "picker"
  /\ \A o \in Overlays : open = {o} /\ ~splash => Drawn = o
<1> DEFINE ranks == <<"confirm", "delete", "databases", "servers", "help">>
           up == {n \in DOMAIN ranks : ranks[n] \in open}
<1>1. "picker" \in open => Drawn = "picker"
  BY DEF Drawn
<1>2. "picker" \notin open /\ ~splash
      => Drawn = IF up # {} THEN ranks[CHOOSE n \in up : \A o \in up : o <= n]
                 ELSE IF editing # {} /\ ~replaying THEN "filter" ELSE "lens"
  BY DEF Drawn
<1>3. /\ DOMAIN ranks = 1..5 /\ ranks[1] = "confirm" /\ ranks[2] = "delete"
      /\ ranks[3] = "databases" /\ ranks[4] = "servers" /\ ranks[5] = "help"
  OBVIOUS
<1>4. open = {} => up = {}
  OBVIOUS
<1>5. ASSUME NEW o \in Overlays, open = {o}, ~splash PROVE Drawn = o
  <2> HIDE DEF ranks
  <2>1. CASE o = "picker"
    BY <1>1, <1>5, <2>1
  <2>2. CASE o # "picker"
    <3>1. PICK n \in 1..5 : ranks[n] = o /\ \A m \in 1..5 : ranks[m] = o => m = n
      BY <1>3, <2>2 DEF Overlays
    <3>2. up = {n}
      BY <1>3, <1>5, <3>1
    <3> HIDE DEF up
    <3>3. (CHOOSE m \in up : \A q \in up : q <= m) = n
      BY <3>1, <3>2
    <3>4. QED
      BY <1>2, <1>5, <2>2, <3>1, <3>2, <3>3
  <2>3. QED
    BY <2>1, <2>2
<1>6. QED
  BY <1>1, <1>2, <1>4, <1>5

LEMMA OwnerDrawn == ASSUME OneOwner PROVE KeysReachWhatIsDrawn
<1>1. Cardinality(open) + Cardinality(editing) <= 1
  <2>1. \A x : Cardinality({x}) = 1
    BY FS_Singleton
  <2>2. Cardinality({}) = 0
    BY FS_EmptySet
  <2>3. CASE open = {}
    <3>1. editing = {} \/ editing = {tab}
      BY <2>3 DEF OneOwner
    <3>2. Cardinality(open) = 0 /\ Cardinality(editing) \in {0, 1}
      BY <2>1, <2>2, <2>3, <3>1
    <3>3. QED
      BY <3>2
  <2>4. CASE \E o \in Overlays : open = {o} /\ editing = {}
    BY <2>1, <2>2, <2>4
  <2>5. QED
    BY <2>3, <2>4 DEF OneOwner
<1>2. editing \subseteq {tab} /\ (editing # {} => HasFilter)
  BY DEF OneOwner
<1>3. ASSUME splash => "picker" \in open, ~(replaying /\ editing # {})
      PROVE  Handler = Drawn
  <2>1. CASE open = {}
    <3>1. Handler = IF editing # {} THEN "filter" ELSE "lens"
      BY <2>1, HandlerIs
    <3>2. Drawn = IF editing # {} /\ ~replaying THEN "filter" ELSE "lens"
      BY <1>3, <2>1, DrawnIs
    <3>3. QED
      BY <1>3, <3>1, <3>2
  <2>2. CASE \E o \in Overlays : open = {o}
    <3>1. PICK o \in Overlays : open = {o}
      BY <2>2
    <3>2. Handler = o
      BY <3>1, HandlerIs
    <3>3. Drawn = o
      BY <1>3, <3>1, DrawnIs
    <3>4. QED
      BY <3>2, <3>3
  <2>3. QED
    BY <2>1, <2>2 DEF OneOwner
<1>4. QED
  BY <1>1, <1>2, <1>3 DEF KeysReachWhatIsDrawn

-----------------------------------------------------------------------------
(* The invariant of the shell: each key finds it and leaves it.            *)

ShellTypes ==
  /\ detail \in BOOLEAN /\ waits \in BOOLEAN
  /\ schemaView \in {"Tables", "Vacuum", "Sequences"} /\ microView \in {"Activity", "Idle"}

ShellInv == ShellTypes /\ OneOwner /\ PanelsBelong /\ ReplayActsOnNothing

LEMMA InitShell == ShellInit => ShellInv
BY NoRequest DEF ShellInit, ShellInv, ShellTypes, OneOwner, Overlays, PanelsBelong, ReplayActsOnNothing

\* Keys of the lenses: overlays and the editor are closed, and stay so.
LEMMA LensKeys ==
  ASSUME ShellInv,
         SwitchTab \/ ReturnTab \/ JumpToBlocks \/ CrossReference \/ ToggleWaits
           \/ ToggleSchemaView \/ ToggleIdle \/ EnterKey \/ MoveInList \/ ChangeInterval \/ EscKey \/ QuitKey \/ ClearFilter
           \/ OpenPsql \/ Recollect \/ Tick
  PROVE  ShellInv'
<1> USE NoRequest DEF ShellInv, ShellTypes
<1>1. CASE SwitchTab \/ ReturnTab \/ JumpToBlocks \/ CrossReference
  <2>1. /\ TopLevel /\ ClosePanels /\ asked' = None
        /\ UNCHANGED <<Views, ownerVars, sourceVars>>
    BY <1>1 DEF SwitchTab, Cycle, GoTo, ReturnTab, JumpToBlocks, CrossReference, Pressed, NothingAsked, Asks
  <2>2. OneOwner'
    BY <2>1 DEF TopLevel, OneOwner, ownerVars
  <2>3. QED
    BY <2>1, <2>2 DEF ClosePanels, Views, ownerVars, sourceVars, PanelsBelong, ReplayActsOnNothing
<1>2. CASE ToggleWaits
  <2>1. Activity /\ TopLevel
    BY <1>2, PressedNeeds DEF ToggleWaits, Pressed
  <2>2. QED
    BY <1>2, <2>1
    DEF ToggleWaits, NothingAsked, Asks, places, ownerVars, sourceVars, TopLevel, OneOwner,
        PanelsBelong, ReplayActsOnNothing, Activity, HasDetail, Tables
<1>3. CASE ToggleSchemaView
  <2>1. tab = "Schema" /\ TopLevel /\ schemaView' \in {"Tables", "Vacuum", "Sequences"}
    BY <1>3, PressedNeeds DEF ToggleSchemaView, NextSchemaView, Pressed
  <2>2. QED
    BY <1>3, <2>1
    DEF ToggleSchemaView, NothingAsked, Asks, ownerVars, sourceVars, TopLevel, OneOwner,
        PanelsBelong, ReplayActsOnNothing, Activity
<1>4. CASE ToggleIdle
  <2>1. TopLevel
    BY <1>4 DEF ToggleIdle, Pressed
  <2>2. QED
    BY <1>4, <2>1
    DEF ToggleIdle, ClosePanels, NothingAsked, Asks, ownerVars, sourceVars, TopLevel, OneOwner,
        PanelsBelong, ReplayActsOnNothing
<1>5. CASE EnterKey
  <2>1. TopLevel /\ UNCHANGED <<prevTab, Views, ownerVars>>
    BY <1>5 DEF EnterKey, Pressed
  <2>2. OneOwner' /\ open' = {}
    BY <2>1 DEF TopLevel, OneOwner, ownerVars
  <2>3. CASE /\ Pressed("close") /\ detail' = FALSE /\ waits' = (waits /\ detail)
             /\ NothingAsked /\ UNCHANGED tab
    BY <2>1, <2>2, <2>3 DEF PanelsBelong, Views, ReplayActsOnNothing, NothingAsked, Asks
  <2>4. CASE /\ Pressed("detail") /\ detail' = TRUE
             /\ Asks(Definition) /\ UNCHANGED <<tab, waits>>
    <3>1. PanelsBelong'
      BY <2>1, <2>4, PressedNeeds DEF PanelsBelong, Views, HasDetail, Activity, Tables
    <3>2. ReplayActsOnNothing'
      BY <2>1, <2>2, <2>4 DEF ReplayActsOnNothing, Asks, Definition, Tables, Views
    <3>3. QED
      BY <2>1, <2>2, <2>4, <3>1, <3>2 DEF Views
  <2>5. CASE Pressed("replay") /\ NothingAsked /\ UNCHANGED panelVars
    BY <2>1, <2>2, <2>5, PressedNeeds
    DEF PanelsBelong, Views, panelVars, ReplayActsOnNothing, NothingAsked, Asks
  <2>6. QED
    BY <1>5, <2>3, <2>4, <2>5 DEF EnterKey
<1>6. CASE EscKey
  <2>1. TopLevel /\ asked' = None /\ UNCHANGED ownerVars
    BY <1>6 DEF EscKey, EscReplay, EscPanel, EscSchemaView, EscCross, EscIdle, EscLeaves
  <2>2. OneOwner' /\ ReplayActsOnNothing'
    BY <2>1 DEF TopLevel, OneOwner, ReplayActsOnNothing, ownerVars
  <2>3. CASE EscReplay
    BY <2>2, <2>3 DEF EscReplay, Clamped, places, PanelsBelong, HasDetail, Activity, Tables
  <2>4. CASE EscPanel
    BY <2>2, <2>4 DEF EscPanel, places, PanelsBelong
  <2>5. CASE EscSchemaView \/ EscCross \/ EscIdle
    BY <2>2, <2>5 DEF EscSchemaView, EscCross, EscIdle, Views, panelVars, PanelsBelong
  <2>6. CASE EscLeaves
    BY <2>2, <2>6 DEF EscLeaves, places, panelVars, PanelsBelong
  <2>7. QED
    BY <1>6, <2>3, <2>4, <2>5, <2>6 DEF EscKey
<1>7. CASE QuitKey \/ Tick
  BY <1>7 DEF QuitKey, Tick, places, panelVars, ownerVars, sourceVars, OneOwner, PanelsBelong,
              ReplayActsOnNothing, HasDetail, HasFilter, Activity, Tables
<1>8. CASE ClearFilter
  BY <1>8 DEF ClearFilter, Clamped, NothingAsked, Asks, places, ownerVars, sourceVars, OneOwner,
              PanelsBelong, ReplayActsOnNothing, HasDetail, HasFilter, Activity, Tables
<1>9. CASE OpenPsql \/ Recollect
  BY <1>9 DEF OpenPsql, Recollect, places, panelVars, ownerVars, sourceVars, OneOwner,
              PanelsBelong, ReplayActsOnNothing, HasDetail, HasFilter, Activity, Tables
<1>10. CASE MoveInList \/ ChangeInterval
  <2>1. /\ UNCHANGED <<places, panelVars, ownerVars, sourceVars>> /\ open = {}
        /\ asked' \in {None, "interval"} \/ (detail /\ Tables /\ asked' \in {None, "definition"})
    BY <1>10 DEF MoveInList, ChangeInterval, Asks, Definition, TopLevel
  <2>2. QED
    BY <2>1 DEF places, panelVars, ownerVars, sourceVars, OneOwner, PanelsBelong,
                ReplayActsOnNothing, HasDetail, HasFilter, Activity, Tables
<1>11. QED
  BY <1>1, <1>2, <1>3, <1>4, <1>5, <1>6, <1>7, <1>8, <1>9, <1>10

\* Overlays and the editor open, are answered and close; data arrives.
LEMMA OverlayKeys ==
  ASSUME ShellInv,
         (\E o \in Overlays : OpenOverlay(o)) \/ AnswerPrompt \/ LeaveDatabases \/ LeaveServers
           \/ CloseHelp \/ Pick \/ EditFilter \/ TypeInFilter \/ EndFilter \/ ApplySnapshot
  PROVE  ShellInv'
<1> USE NoRequest DEF ShellInv, ShellTypes
<1>0. ASSUME UNCHANGED places, detail' \in {detail, FALSE}, waits' = waits PROVE PanelsBelong'
  <2>1. (HasDetail' <=> HasDetail) /\ (Activity' <=> Activity)
    BY <1>0 DEF places, HasDetail, Activity, Tables
  <2>2. (detail => HasDetail) /\ (waits => Activity /\ ~detail)
    BY DEF PanelsBelong
  <2>3. CASE detail' = detail
    BY <1>0, <2>1, <2>2, <2>3 DEF PanelsBelong
  <2>4. CASE detail' = FALSE
    BY <1>0, <2>1, <2>2, <2>4 DEF PanelsBelong
  <2>5. QED
    BY <1>0, <2>3, <2>4
<1>1. ASSUME NEW o \in Overlays, OpenOverlay(o) PROVE ShellInv'
  <2>1. /\ open = {} /\ editing = {} /\ open' = {o}
        /\ o \notin {"help", "delete"} => ~replaying
    BY <1>1 DEF OpenOverlay, Opens, Pressed, TopLevel, Overlays
  <2>2. OneOwner' /\ ReplayActsOnNothing'
    BY <1>1, <2>1 DEF OpenOverlay, OneOwner, ReplayActsOnNothing, NothingAsked, Asks, sourceVars
  <2>3. QED
    BY <1>0, <1>1, <2>2 DEF OpenOverlay, panelVars, places
<1>2. ASSUME NEW o \in Overlays, Close(o) PROVE ShellInv'
  <2>1. open = {o} /\ editing = {}
    BY <1>2, HandlerIs DEF Close, OneOwner, Overlays
  <2>2. open' = {} /\ editing' = {}
    BY <1>2, <2>1 DEF Close
  <2>3. OneOwner'
    BY <2>2 DEF OneOwner
  <2>4. ReplayActsOnNothing'
    <3>1. replaying => asked' = None
      BY <1>2, <2>1 DEF Close, Request, ReplayActsOnNothing
    <3>2. QED
      BY <1>2, <2>2, <3>1 DEF Close, ReplayActsOnNothing, sourceVars
  <2>5. QED
    BY <1>0, <1>2, <2>3, <2>4 DEF Close, Clamped, places
<1>3. CASE Pick
  <2>1. open' = {} /\ editing' = {}
    BY <1>3, HandlerIs DEF Pick, OneOwner, Overlays
  <2>2. QED
    BY <1>0, <1>3, <2>1 DEF Pick, OneOwner, ReplayActsOnNothing, NothingAsked, Asks, sourceVars, panelVars, places
<1>4. CASE EditFilter
  <2>1. open = {} /\ editing' = {tab} /\ HasFilter
    BY <1>4, PressedNeeds DEF EditFilter, Pressed, TopLevel
  <2>2. OneOwner'
    BY <1>4, <2>1 DEF EditFilter, OneOwner, HasFilter, Activity, places
  <2>3. QED
    BY <1>0, <1>4, <2>1, <2>2 DEF EditFilter, ReplayActsOnNothing, NothingAsked, Asks, panelVars, places
<1>5. CASE TypeInFilter \/ ApplySnapshot
  <2>1. /\ UNCHANGED <<places, ownerVars>> /\ asked' = None /\ replaying' = replaying /\ Clamped
    BY <1>5 DEF TypeInFilter, ApplySnapshot, NothingAsked, Asks, sourceVars
  <2>2. OneOwner' /\ ReplayActsOnNothing'
    BY <2>1 DEF OneOwner, ReplayActsOnNothing, HasFilter, Activity, places, ownerVars
  <2>3. QED
    BY <1>0, <2>1, <2>2 DEF Clamped, places
<1>6. CASE EndFilter
  <2>1. open' = {} /\ editing' = {}
    BY <1>6, HandlerIs DEF EndFilter, OneOwner, Overlays
  <2>2. QED
    BY <1>0, <1>6, <2>1 DEF EndFilter, Clamped, OneOwner, ReplayActsOnNothing, NothingAsked, Asks, sourceVars, places
<1>7. "confirm" \in Overlays /\ "delete" \in Overlays /\ "databases" \in Overlays
      /\ "servers" \in Overlays /\ "help" \in Overlays
  BY DEF Overlays
<1>8. QED
  BY <1>1, <1>2, <1>3, <1>4, <1>5, <1>6, <1>7
  DEF AnswerPrompt, LeaveDatabases, LeaveServers, CloseHelp

LEMMA NextShell == ASSUME ShellInv, [ShellNext]_shellVars PROVE ShellInv'
<1>1. CASE UNCHANGED shellVars
  BY <1>1 DEF shellVars, places, panelVars, ownerVars, sourceVars, ShellInv, ShellTypes, OneOwner,
              PanelsBelong, ReplayActsOnNothing, HasDetail, HasFilter, Activity, Tables
<1>2. QED
  BY <1>1, LensKeys, OverlayKeys DEF ShellNext

\* What a key does is what the screen suggests (handle_key, draw): it goes to
\* the overlay drawn on top, or to the filter of the list on the screen, and a
\* panel is open only where it is drawn.
THEOREM KeysAlwaysFollow == ShellSpec => []KeysFollowScreen
<1>1. ShellInv /\ [ShellNext]_shellVars => ShellInv'
  BY NextShell
<1>2. ShellInv => KeysFollowScreen
  BY OwnerDrawn DEF ShellInv, KeysFollowScreen
<1>3. QED
  BY <1>1, <1>2, InitShell, PTL DEF ShellSpec

\* In a replay nothing that acts on the server opens or is asked for, however
\* the replay was come to: what is refused there could not have been left open.
\* What is asked for is the poller's interval and a table's definition.
THEOREM ReplayNeverActs == ShellSpec => []ReplayActsOnNothing
<1>1. ShellInv /\ [ShellNext]_shellVars => ShellInv'
  BY NextShell
<1>2. ShellInv => ReplayActsOnNothing
  BY DEF ShellInv
<1>3. QED
  BY <1>1, <1>2, InitShell, PTL DEF ShellSpec

-----------------------------------------------------------------------------
(* The order of a list.                                                    *)

Keyed(r) == DOMAIN r \subseteq Ids /\ \A i \in DOMAIN r : r[i].key \in Nat /\ r[i].text \in Int

LEMMA Resorting ==
  ASSUME NEW r, Keyed(r), NEW m, NEW n, NEW all
  PROVE  LET S == Passing(r, n, all)
             o == Resorted(r, m, n, all)
         IN  /\ IsFiniteSet(S) /\ Cardinality(S) \in Nat
             /\ o \in [1..Cardinality(S) -> S]
             /\ \A i \in S : \E p \in 1..Cardinality(S) : o[p] = i
             /\ \A p, q \in 1..Cardinality(S) : p < q => o[p] # o[q] /\ Ahead(r, m, o[p], o[q])
<1> DEFINE S == Passing(r, n, all)
           o == Resorted(r, m, n, all)
           ahead == [i \in S |-> {j \in S \ {i} : Ahead(r, m, j, i)}]
<1>1. S \subseteq DOMAIN r /\ S \subseteq Ids /\ \A i \in S : i \in Nat /\ r[i].key \in Nat
  BY ListBounds DEF Passing, Keyed
<1>2. IsFiniteSet(S) /\ Cardinality(S) \in Nat
  BY <1>1, ListBounds, FS_Subset, FS_CardinalityType
<1> HIDE DEF S
<1>3. \A i, j, k \in S :
        /\ Ahead(r, m, i, j) /\ Ahead(r, m, j, k) => Ahead(r, m, i, k) /\ i # k
        /\ i # j => Ahead(r, m, i, j) \/ Ahead(r, m, j, i)
        /\ ~Ahead(r, m, i, i)
  BY <1>1 DEF Ahead
<1>4. Total(S, ahead)
  <2>1. \A i \in S : ahead[i] = {j \in S \ {i} : Ahead(r, m, j, i)}
    OBVIOUS
  <2>2. ahead \in [S -> SUBSET S]
    OBVIOUS
  <2> HIDE DEF ahead
  <2>3. QED
    BY <1>3, <2>1, <2>2 DEF Total
<1>5. \A p \in 1..Cardinality(S) : o[p] = CHOOSE i \in S : 1 + Cardinality(ahead[i]) = p
  <2>1. \A i \in S : ahead[i] = {j \in S \ {i} : Ahead(r, m, j, i)}
    OBVIOUS
  <2>2. \A p : (CHOOSE i \in S : 1 + Cardinality({j \in S \ {i} : Ahead(r, m, j, i)}) = p)
             = (CHOOSE i \in S : 1 + Cardinality(ahead[i]) = p)
    OBVIOUS
  <2>3. o = [p \in 1..Cardinality(S) |->
               CHOOSE i \in S : 1 + Cardinality({j \in S \ {i} : Ahead(r, m, j, i)}) = p]
    BY DEF Resorted, S
  <2>4. \A p \in 1..Cardinality(S) :
          o[p] = CHOOSE i \in S : 1 + Cardinality({j \in S \ {i} : Ahead(r, m, j, i)}) = p
    <3> HIDE DEF ahead, o
    <3>1. QED
      BY <2>3
  <2> HIDE DEF ahead, o
  <2>5. QED
    BY <2>2, <2>4
<1>6. Placed(S, ahead)
  <2> HIDE DEF ahead
  <2>1. QED
    BY <1>2, <1>4, Places
<1>7. \A i, j \in S : i \in ahead[j] => i # j /\ Ahead(r, m, i, j)
  OBVIOUS
<1> HIDE DEF ahead, o
<1>8. \A p \in 1..Cardinality(S) : o[p] \in S /\ 1 + Cardinality(ahead[o[p]]) = p
  BY <1>5, <1>6 DEF Placed
<1>9. o \in [1..Cardinality(S) -> S]
  <2>1. o = [p \in 1..Cardinality(S) |-> o[p]]
    <3> DEFINE at(p) == CHOOSE i \in S : 1 + Cardinality({j \in S \ {i} : Ahead(r, m, j, i)}) = p
    <3>1. o = [p \in 1..Cardinality(S) |-> at(p)]
      BY DEF Resorted, S, o
    <3> HIDE DEF at
    <3>2. QED
      BY <3>1
  <2>2. QED
    BY <1>8, <2>1
<1>10. ASSUME NEW i \in S PROVE \E p \in 1..Cardinality(S) : o[p] = i
  <2>1. PICK p \in 1..Cardinality(S) : p = 1 + Cardinality(ahead[i])
    BY <1>6 DEF Placed
  <2>2. o[p] = i
    BY <1>6, <1>8, <2>1 DEF Placed
  <2>3. QED
    BY <2>2
<1>11. ASSUME NEW p \in 1..Cardinality(S), NEW q \in 1..Cardinality(S), p < q
       PROVE  o[p] # o[q] /\ Ahead(r, m, o[p], o[q])
  BY <1>6, <1>7, <1>8, <1>11 DEF Placed
<1>12. QED
  BY <1>2, <1>9, <1>10, <1>11 DEF S, o

-----------------------------------------------------------------------------
(* The cursor.                                                             *)

\* CursorValid of any list.
CursorFits(o, c, l, shown) ==
  /\ c # None => c \in DOMAIN o
  /\ c = None /\ l # "Index" => o = <<>>
  /\ shown /\ Closes(l) => c # None

LEMMA Counted ==
  ASSUME NEW n \in Nat, NEW S, NEW o \in [1..n -> S]
  PROVE  /\ o \in Seq(S) /\ DOMAIN o = 1..n /\ Len(o) = n
         /\ o = <<>> <=> n = 0
<1>1. o \in Seq(S)
  BY SeqDef
<1>2. Len(o) \in Nat /\ DOMAIN o = 1..Len(o)
  BY <1>1, LenProperties
<1>3. Len(o) = n
  BY <1>2
<1>4. o = <<>> <=> Len(o) = 0
  BY <1>1, EmptySeq
<1>5. QED
  BY <1>1, <1>3, <1>4

AtOrNone(c) == c \in Nat \ {0} \/ c = None

LEMMA ClampFits ==
  ASSUME NEW n \in Nat, NEW S, NEW o \in [1..n -> S], NEW c, AtOrNone(c), NEW l,
         NEW shown \in BOOLEAN, shown => ~(Closes(l) /\ o = <<>>)
  PROVE  CursorFits(o, ClampedTo(o, c), l, shown)
<1>1. DOMAIN o = 1..n /\ Len(o) = n /\ (o = <<>> <=> n = 0) /\ None \notin Nat
  BY Counted, ListBounds
<1>2. CASE n = 0
  BY <1>1, <1>2 DEF ClampedTo, CursorFits
<1>3. CASE n # 0
  <2>1. ClampedTo(o, c) \in 1..n
    BY <1>1, <1>3 DEF ClampedTo, AtOrNone
  <2>2. QED
    BY <1>1, <1>3, <2>1 DEF CursorFits
<1>4. QED
  BY <1>2, <1>3

LEMMA TowardFits ==
  ASSUME NEW n \in Nat, order \in [1..n -> Ids], NEW d \in Int,
         CursorFits(order, cursor, lens, panel)
  PROVE  CursorFits(order, Toward(d), lens, panel)
<1>1. DOMAIN order = 1..n /\ Len(order) = n /\ (order = <<>> <=> n = 0) /\ None \notin Nat
  BY Counted, ListBounds
<1>2. CASE n = 0
  BY <1>1, <1>2 DEF Toward, CursorFits
<1>3. CASE n # 0
  <2>1. Toward(d) \in 1..n
    BY <1>1, <1>3 DEF Toward, CursorFits
  <2>2. QED
    BY <1>1, <1>3, <2>1 DEF CursorFits
<1>4. QED
  BY <1>2, <1>3

-----------------------------------------------------------------------------
(* The invariant of a list: what is shown is sorted afresh, and the cursor *)
(* and the panel fit it.                                                   *)

ListInv ==
  /\ rows \in AllRows(lens) /\ needle \in Nat /\ needleSaved \in Nat /\ panel \in BOOLEAN
  /\ order = Resorted(rows, mode, needle, leaves)
  /\ CursorFits(order, cursor, lens, panel)

LEMMA RowsKeyed ==
  ASSUME NEW l, NEW r \in AllRows(l)
  PROVE  Keyed(r)
<1>1. PICK S \in SUBSET Ids : r \in [S -> RowOf(l)]
  BY DEF AllRows
<1>2. \A row \in RowOf(l) : row.key \in Nat /\ row.text \in Int
  <2>1. \A row \in RowOf(l) : row.key \in SortKeys /\ row.text \in {0, MaxNeedle - 1}
    BY DEF RowOf
  <2>2. \A n \in {0, MaxNeedle - 1} : n \in Int
    BY ListBounds
  <2>3. QED
    BY <2>1, <2>2, ListBounds
<1>3. QED
  BY <1>1, <1>2 DEF Keyed

\* A list sorted afresh is of the length of what passes the filter.
LEMMA Resized ==
  ASSUME NEW r, Keyed(r), NEW m, NEW n, NEW all
  PROVE  /\ Cardinality(Passing(r, n, all)) \in Nat
         /\ Resorted(r, m, n, all) \in [1..Cardinality(Passing(r, n, all)) -> Ids]
<1>1. /\ Cardinality(Passing(r, n, all)) \in Nat
      /\ Resorted(r, m, n, all) \in [1..Cardinality(Passing(r, n, all)) -> Passing(r, n, all)]
  BY Resorting
<1>2. Passing(r, n, all) \subseteq Ids
  BY DEF Passing, Keyed
<1>3. QED
  BY <1>1, <1>2

LEMMA ClampStep ==
  ASSUME ListInv, NEW r \in AllRows(lens), NEW m, NEW n, NEW all,
         order' = Resorted(r, m, n, all), Clamp
  PROVE  CursorFits(order', cursor', lens, panel') /\ panel' \in BOOLEAN
<1>1. order' \in [1..Cardinality(Passing(r, n, all)) -> Ids] /\ Cardinality(Passing(r, n, all)) \in Nat
  BY RowsKeyed, Resized
<1>2. AtOrNone(cursor)
  <2>1. order \in [1..Cardinality(Passing(rows, needle, leaves)) -> Ids]
    BY RowsKeyed, Resized DEF ListInv
  <2>2. DOMAIN order = 1..Cardinality(Passing(rows, needle, leaves))
    BY <2>1
  <2>3. Cardinality(Passing(rows, needle, leaves)) \in Nat
    BY RowsKeyed, Resized DEF ListInv
  <2>4. QED
    BY <2>2, <2>3 DEF ListInv, CursorFits, AtOrNone
<1>3. panel \in BOOLEAN
  BY DEF ListInv
<1>4. panel' \in BOOLEAN /\ (panel' => ~(Closes(lens) /\ order' = <<>>))
  BY <1>3 DEF Clamp
<1>5. CursorFits(order', ClampedTo(order', cursor), lens, panel')
  BY <1>1, <1>2, <1>4, ClampFits
<1>6. QED
  BY <1>4, <1>5 DEF Clamp

LEMMA InitList == ListInit => ListInv
<1> SUFFICES ASSUME ListInit PROVE ListInv
  OBVIOUS
<1>1. rows \in AllRows(lens) /\ DOMAIN rows = {}
  BY DEF ListInit, AllRows
<1>2. Passing(rows, needle, leaves) = {}
  BY <1>1 DEF Passing
<1>3. Resorted(rows, mode, needle, leaves) = <<>>
  <2>1. Resorted(rows, mode, needle, leaves) \in [1..0 -> Ids]
    BY <1>1, <1>2, RowsKeyed, Resized, FS_EmptySet
  <2>2. QED
    BY <2>1, Counted
<1>4. QED
  BY <1>1, <1>3 DEF ListInit, ListInv, CursorFits

\* Going back from the Index Lens drops the filter, which only adds rows.
LEMMA JumpBackFits == ASSUME ListInv, JumpBack PROVE CursorFits(order', cursor', lens', panel')
<1> DEFINE few == Cardinality(Passing(rows, needle, leaves))
           all == Cardinality(Passing(rows, 0, leaves))
<1>1. /\ order' = Resorted(rows, mode, 0, leaves) /\ UNCHANGED <<cursor, lens, panel>>
      /\ lens = "Index" /\ ~panel
  BY DEF JumpBack, Refilter, Resort
<1>2. Keyed(rows) /\ order = Resorted(rows, mode, needle, leaves)
  BY RowsKeyed DEF ListInv
<1>3. /\ few \in Nat /\ all \in Nat /\ order \in [1..few -> Ids] /\ order' \in [1..all -> Ids]
  BY <1>1, <1>2, Resized
<1>4. Passing(rows, needle, leaves) \in SUBSET Passing(rows, 0, leaves)
  BY <1>2 DEF Passing, ListInv, Keyed
<1>5. few <= all
  BY <1>2, <1>4, Resorting, FS_Subset
<1>6. cursor # None => cursor \in 1..few
  BY <1>3 DEF ListInv, CursorFits
<1>7. QED
  BY <1>1, <1>3, <1>5, <1>6 DEF CursorFits

LEMMA NextList == ASSUME ListInv, [ListNext]_listVars PROVE ListInv'
<1> USE DEF ListInv
<1>1. ASSUME NEW r \in AllRows(lens), ReplaceRows(r) PROVE ListInv'
  <2>1. order' = Resorted(r, mode, needle, leaves) /\ Clamp
    BY <1>1 DEF ReplaceRows, Resort
  <2>2. CursorFits(order', cursor', lens, panel') /\ panel' \in BOOLEAN
    BY <2>1, ClampStep
  <2>3. QED
    BY <1>1, <2>1, <2>2 DEF ReplaceRows, filter
<1>2. CASE CycleSort
  <2>1. /\ order' = Resorted(rows, mode', needle, leaves)
        /\ UNCHANGED <<lens, rows, leaves, needle, needleSaved, cursor, panel>>
    BY <1>2 DEF CycleSort, Resort, filter
  <2>2. CursorFits(order', cursor, lens, panel)
    <3>1. PICK n \in Nat : order \in [1..n -> Ids] /\ order' \in [1..n -> Ids]
      BY <2>1, RowsKeyed, Resized
    <3>2. DOMAIN order' = DOMAIN order /\ (order' = <<>> <=> order = <<>>)
      BY <3>1, Counted
    <3>3. QED
      BY <3>2 DEF CursorFits
  <2>3. QED
    BY <2>1, <2>2
<1>3. CASE ToggleLeaves
  <2>1. order' = Resorted(rows, mode, needle, leaves') /\ Clamp
    BY <1>3 DEF ToggleLeaves, Resort
  <2>2. CursorFits(order', cursor', lens, panel') /\ panel' \in BOOLEAN
    BY <2>1, ClampStep
  <2>3. QED
    BY <1>3, <2>1, <2>2 DEF ToggleLeaves, filter
<1>4. CASE MoveCursor
  <2>1. PICK d \in Int : cursor' = Toward(d)
    <3>1. PICK d \in {-1, 1, -Page, Page, -Cardinality(Ids), Cardinality(Ids)} : cursor' = Toward(d)
      BY <1>4 DEF MoveCursor
    <3>2. Page \in Int /\ Cardinality(Ids) \in Int
      BY ListBounds, FS_CardinalityType
    <3>3. QED
      BY <3>1, <3>2
  <2>2. PICK n \in Nat : order \in [1..n -> Ids]
    BY RowsKeyed, Resized
  <2>3. CursorFits(order, cursor', lens, panel)
    BY <2>1, <2>2, TowardFits
  <2>4. QED
    BY <1>4, <2>3 DEF MoveCursor, filter
<1>5. ASSUME NEW n \in Nat, Refilter(n), Clamp, needleSaved' \in Nat,
             UNCHANGED <<lens, rows, mode, leaves>>
      PROVE  ListInv'
  <2>1. order' = Resorted(rows, mode, n, leaves) /\ needle' = n
    BY <1>5 DEF Refilter, Resort
  <2>2. CursorFits(order', cursor', lens, panel') /\ panel' \in BOOLEAN
    BY <1>5, <2>1, ClampStep
  <2>3. QED
    BY <1>5, <2>1, <2>2
<1>6. CASE TypeFilter
  <2>1. PICK n \in Nat : Refilter(n)
    BY <1>6 DEF TypeFilter
  <2>2. QED
    BY <1>5, <1>6, <2>1 DEF TypeFilter
<1>7. CASE RevertFilter \/ DropFilter
  BY <1>5, <1>7 DEF RevertFilter, DropFilter
<1>8. ASSUME NEW n \in 1..MaxNeedle, JumpHere(n) PROVE ListInv'
  <2>1. /\ order' = Resorted(rows, mode, n, leaves) /\ needle' = n /\ needleSaved' = n /\ n \in Nat
        /\ cursor' = ClampedTo(order', 1) /\ panel' = FALSE /\ UNCHANGED <<lens, rows, mode, leaves>>
    BY <1>8, ListBounds DEF JumpHere, Refilter, Resort
  <2>2. PICK c \in Nat : order' \in [1..c -> Ids]
    BY <2>1, RowsKeyed, Resized
  <2>3. AtOrNone(1)
    BY DEF AtOrNone
  <2>4. CursorFits(order', ClampedTo(order', 1), lens, FALSE)
    BY <2>2, <2>3, ClampFits
  <2>5. CursorFits(order', cursor', lens, panel')
    BY <2>1, <2>4 DEF CursorFits
  <2>6. QED
    BY <2>1, <2>5
<1>9. CASE JumpBack
  BY <1>9, JumpBackFits DEF JumpBack, Refilter, Resort
<1>10. CASE TogglePanel
  BY <1>10 DEF TogglePanel, HasRow, CursorFits, filter
<1>11. CASE UNCHANGED <<lens, rows, mode, leaves, needle, order, cursor, panel>> /\ needleSaved' \in Nat
  BY <1>11
<1>12. CASE BeginFilter \/ KeepFilter \/ CopyRow \/ AskFirst \/ AnswerYes \/ AnswerNo
            \/ UNCHANGED listVars
  BY <1>11, <1>12 DEF BeginFilter, KeepFilter, CopyRow, AskFirst, AnswerYes, AnswerNo, listVars, filter
<1>13. QED
  BY <1>1, <1>2, <1>3, <1>4, <1>6, <1>7, <1>8, <1>9, <1>10, <1>12 DEF ListNext

\* The list on the screen is the list the keys act on (resort_*,
\* clamp_selection): every key and every snapshot that changes the rows, the
\* sort or the filter sorts afresh, and the cursor and the panel fit what is
\* shown; for any rows, keys and filters.
THEOREM ListAlwaysSound == ListSpec => []ListSound
<1>1. ListInv /\ [ListNext]_listVars => ListInv'
  BY NextList
<1>2. ASSUME ListInv PROVE ListSound
  <2>1. Keyed(rows)
    BY <1>2, RowsKeyed DEF ListInv
  <2>2. /\ order \in [1..Cardinality(Passing(rows, needle, leaves)) -> Passing(rows, needle, leaves)]
        /\ \A i \in Passing(rows, needle, leaves) :
             \E p \in 1..Cardinality(Passing(rows, needle, leaves)) : order[p] = i
        /\ \A p, q \in 1..Cardinality(Passing(rows, needle, leaves)) :
             p < q => order[p] # order[q] /\ Ahead(rows, mode, order[p], order[q])
    BY <1>2, <2>1, Resorting DEF ListInv
  <2>3. OrderInStep
    BY <2>2 DEF OrderInStep
  <2>4. CursorValid
    BY <1>2 DEF ListInv, CursorFits, CursorValid
  <2>5. QED
    BY <2>3, <2>4 DEF ListSound
<1>3. QED
  BY <1>1, <1>2, InitList, PTL DEF ListSpec

Shown ==
  /\ prompt = None /\ prompt' # None => prompt' = Highlighted
  /\ done' # None /\ done'.what = "copy" => done'.row = Highlighted
  /\ done' # None /\ done'.what = "act" => done'.row = prompt

\* What is copied is the row highlighted, and what is signalled or deleted is
\* the row the prompt names (selected_*, the prompts): no other key and no
\* snapshot changes a prompt or does anything to a row.
THEOREM ActsAlwaysOnShown == ListSpec => ActsOnWhatIsShown
<1>1. [ListNext]_listVars => [Shown]_listVars
  <2> SUFFICES ASSUME ListNext PROVE Shown
    OBVIOUS
  <2>1. CASE done' = None /\ (UNCHANGED prompt \/ prompt' = None)
    BY <2>1 DEF Shown
  <2>2. CASE CopyRow
    BY <2>2 DEF CopyRow, FreeKeys, Did, SelectedRow, Highlighted, Shown
  <2>3. CASE AskFirst
    BY <2>3 DEF AskFirst, SelectedRow, Highlighted, Shown
  <2>4. CASE AnswerYes
    BY <2>4 DEF AnswerYes, Did, Shown
  <2>5. QED
    BY <2>1, <2>2, <2>3, <2>4
    DEF ListNext, ReplaceRows, CycleSort, ToggleLeaves, MoveCursor, BeginFilter, TypeFilter,
        KeepFilter, RevertFilter, DropFilter, JumpHere, JumpBack, TogglePanel, AnswerNo
<1>2. QED
  BY <1>1, PTL DEF ListSpec, ActsOnWhatIsShown, Shown
=============================================================================
