-------------------------------- MODULE Startup --------------------------------
(***************************************************************************)
(* How a start finds its services (main.rs, remote_config.rs, services.rs  *)
(* and `resolve' in settings.rs), over many starts: the remote list of     *)
(* services, fetched once a start, the cache of it, the local file, and    *)
(* the service the user names or picks.                                    *)
(*                                                                         *)
(* An entry is known by its name and by the edition of the list it comes   *)
(* from, 0 for the local file.  What an entry says is ConnSettings'.       *)
(***************************************************************************)
EXTENDS Integers, FiniteSets, Absent

CONSTANTS LocalNames,    \* services in the local file
          RemoteLists,   \* sets of services a remote list may hold
          Urls,          \* of remote lists
          MaxEditions    \* bound on the lists published

ASSUME StartupBounds == MaxEditions \in Nat /\ None \notin Urls

ServiceNames == LocalNames \cup UNION RemoteLists

VARIABLES
  lists,      \* per url the list published there: its edition, its names, and
              \* whether it can be parsed; None before
  editions,   \* lists published so far
  online,     \* the network works
  cache,      \* remote-services.toml: a list, or None
  localFile,  \* services.toml: its mode and how it keeps passwords, or None
  url,        \* --config-url, PG_LENS_CONFIG_URL or remote_config
  ambient,    \* PG_LENS_SERVICE or PGSERVICE
  named,      \* the services file is named by a flag or a variable
  session     \* the running program, or that the last start failed

startupVars == <<lists, editions, online, cache, localFile, url, ambient, named, session>>

List(n, names, sound) == [edition |-> n, names |-> names, sound |-> sound]
NoEntries == [n \in {} |-> 0]

Files == [mode : {"0600", "readable", "writable"}, secret : {"command", "plain", "both"}]

\* A session: what it is, the entry it connects by, the services it knows from
\* a remote list (None without one), whether it was told of a fallback.
Session(is, entry, overlay, warned) ==
  [is |-> is, entry |-> entry, overlay |-> overlay, warned |-> warned]
FailedStart == Session("failed", None, None, FALSE)
NoSession == Session("none", None, None, FALSE)

StartupInit ==
  /\ lists = [u \in Urls |-> None] /\ editions = 0
  /\ online = TRUE /\ cache = None /\ localFile = None
  /\ url = None /\ ambient = None /\ named = FALSE
  /\ session = NoSession

------------------------------------------------------------------------------
\* The world between and during sessions.
Publish(u, names, sound) ==
  /\ editions < MaxEditions /\ editions' = editions + 1
  /\ lists' = [lists EXCEPT ![u] = List(editions + 1, names, sound)]
  /\ UNCHANGED <<online, cache, localFile, url, ambient, named, session>>
Network ==
  /\ online' = ~online
  /\ UNCHANGED <<lists, editions, cache, localFile, url, ambient, named, session>>
EditFile ==
  /\ localFile' \in Files \cup {None}
  /\ UNCHANGED <<lists, editions, online, cache, url, ambient, named, session>>
ChangeSettings ==
  /\ session.is = "none"
  /\ url' \in Urls \cup {None} /\ ambient' \in {None} \cup ServiceNames /\ named' \in BOOLEAN
  /\ UNCHANGED <<lists, editions, online, cache, localFile, session>>

------------------------------------------------------------------------------
\* ServicesFile::load: what makes it refuse the file.
Unsafe(f) ==
  \/ f.mode = "writable"
  \/ f.secret = "both"
  \/ f.secret = "plain" /\ f.mode = "readable"

LocalEntries == [n \in LocalNames |-> 0]

\* merge_remote_over: an entry of the list replaces the file's whole.
Merged(locals, list) ==
  [n \in DOMAIN locals \cup list.names |->
     IF n \in list.names THEN list.edition ELSE locals[n]]

\* fetch_remote_bytes: the list, or None where it fails or there is none.
Fetched == IF online /\ url # None THEN lists[url] ELSE None

\* resolve_effective_services, given what was fetched and what was cached
\* before; None where the start fails.
Effective(fetched, cached) ==
  LET list == IF fetched # None THEN fetched ELSE cached
      locals == IF localFile = None THEN NoEntries ELSE LocalEntries
  IN  CASE localFile # None /\ Unsafe(localFile)   -> None
        [] ~(localFile # None /\ Unsafe(localFile)) /\ list # None ->
             IF list.sound THEN Merged(locals, list) ELSE None
        [] OTHER                         -> IF localFile = None THEN None ELSE locals

\* write_remote_cache: what came is kept, parsed or not, for any url.
Cached(fetched) == IF fetched # None THEN fetched ELSE cache

\* resolve, for a name: the entry's edition, or None where it fails.  Without
\* a remote list the file is read again.
EntryOf(n, overlay) ==
  IF overlay # None
  THEN IF n \in DOMAIN overlay THEN [name |-> n, edition |-> overlay[n]] ELSE None
  ELSE IF localFile # None /\ ~Unsafe(localFile) /\ n \in LocalNames
       THEN [name |-> n, edition |-> 0] ELSE None

\* Mutant: a flag is passed over too.
PassedOverFlagToo(flag, overlay) == overlay = None /\ localFile = None /\ ~named

\* A name of the environment with no file at all to look in is passed over,
\* with a warning, unless the file was named or a remote list is in use.
PassedOver(flag, overlay) == flag = None /\ overlay = None /\ localFile = None /\ ~named

Known(overlay) ==
  IF overlay # None THEN DOMAIN overlay
  ELSE IF localFile = None \/ (localFile # None /\ Unsafe(localFile)) THEN {} ELSE LocalNames

\* The session a start leads to; given tells that a connection string is.
SessionBegun(flag, given, overlay, warned) ==
  LET name == IF flag # None THEN flag ELSE ambient
      entry == EntryOf(name, overlay)
  IN  CASE flag # None /\ given -> FailedStart
        [] name # None /\ ~(flag # None /\ given) ->
             IF entry # None THEN Session("connected", entry, overlay, warned)
             ELSE IF PassedOver(flag, overlay) THEN Session("connected", None, overlay, TRUE)
             ELSE FailedStart
        [] name = None /\ ~given /\ Known(overlay) # {} -> Session("picker", None, overlay, warned)
        [] OTHER -> Session("connected", None, overlay, warned)

StartProgram(flag, given) ==
  /\ session.is = "none"
  /\ cache' = Cached(Fetched)
  /\ session' =
       IF url = None THEN SessionBegun(flag, given, None, FALSE)
       ELSE LET services == Effective(Fetched, cache)
            IN  IF services = None THEN FailedStart ELSE SessionBegun(flag, given, services, Fetched = None)
  /\ UNCHANGED <<lists, editions, online, localFile, url, ambient, named>>

\* A start cut short while it writes the cache: the file is empty, which parses
\* as a list of nothing, or holds a part, which does not.
StartCutShort ==
  /\ session.is = "none" /\ Fetched # None
  /\ cache' \in {List(Fetched.edition, {}, TRUE), List(Fetched.edition, {}, FALSE)}
  /\ UNCHANGED <<lists, editions, online, localFile, url, ambient, named, session>>

\* The picker, and later the server picker; a service that is no longer there
\* ends the program in the first and is refused in the second.
PickService(n) ==
  /\ session.is = "picker" /\ n \in ServiceNames
  /\ session' = IF EntryOf(n, session.overlay) = None THEN FailedStart
                ELSE [session EXCEPT !.is = "connected", !.entry = EntryOf(n, session.overlay)]
  /\ UNCHANGED <<lists, editions, online, cache, localFile, url, ambient, named>>
PickDefault ==
  /\ session.is = "picker" /\ session' = [session EXCEPT !.is = "connected"]
  /\ UNCHANGED <<lists, editions, online, cache, localFile, url, ambient, named>>
SwitchServer(n) ==
  /\ session.is = "connected" /\ EntryOf(n, session.overlay) # None
  /\ session' = [session EXCEPT !.entry = EntryOf(n, session.overlay)]
  /\ UNCHANGED <<lists, editions, online, cache, localFile, url, ambient, named>>
QuitProgram ==
  /\ session.is # "none" /\ session' = NoSession
  /\ UNCHANGED <<lists, editions, online, cache, localFile, url, ambient, named>>

StartupNext ==
  \/ \E u \in Urls, names \in RemoteLists, sound \in BOOLEAN : Publish(u, names, sound)
  \/ Network \/ EditFile \/ ChangeSettings
  \/ \E flag \in ServiceNames \cup {None}, given \in BOOLEAN : StartProgram(flag, given)
  \/ StartCutShort
  \/ (\E n \in ServiceNames : PickService(n) \/ SwitchServer(n)) \/ PickDefault \/ QuitProgram

StartupSpec == StartupInit /\ [][StartupNext]_startupVars

------------------------------------------------------------------------------
\* A named service is the one connected to, as the newest list in use has it,
\* or the start fails: it is never passed over, and the local entry is never
\* taken where the remote list has one, but for a name of the environment
\* while there is nothing anywhere to look it up in, and then with a warning.
\* A DSN given next to a flag fails.
UsesNamed(flag, given) ==
  LET name == IF flag # None THEN flag ELSE ambient
      list == IF Fetched # None THEN Fetched ELSE cache
      remote == url # None /\ list # None
  IN  /\ flag # None => ~given
      /\ name = None => session'.entry = None
      /\ name # None /\ session'.entry = None =>
           flag = None /\ url = None /\ localFile = None /\ session'.warned
      /\ name # None /\ session'.entry # None =>
           /\ session'.entry.name = name
           /\ session'.entry.edition =
                IF remote /\ name \in list.names THEN list.edition ELSE 0
NamedIsUsed ==
  [][session' # session => \A flag \in ServiceNames \cup {None}, given \in BOOLEAN :
       StartProgram(flag, given) /\ session'.is = "connected" => UsesNamed(flag, given)]_startupVars

\* A session that runs on anything else than the list published when it began
\* was told, and one that was told of nothing knows the newest edition.
TellsStale ==
  \/ session'.warned
  \/ online /\ \A n \in lists[url].names : session'.overlay[n] = lists[url].edition
StaleIsTold ==
  [][session' # session => \A flag \in ServiceNames \cup {None}, given \in BOOLEAN :
       StartProgram(flag, given) /\ url # None /\ session'.is # "failed" => TellsStale]_startupVars

\* The user gets the connection asked for, and is told when it may be out of
\* date (resolve_effective_services, resolve).
ChoiceHonoured == NamedIsUsed /\ StaleIsTold

------------------------------------------------------------------------------
\* "a failed fetch falls back to that cache (or the local file alone) with a
\* warning - it never blocks startup on a flaky network" (main.rs:222): a
\* start that asks for nothing in particular, with a good local file, fails
\* offline no more than it would without the remote list.
NeverBlocksStartup ==
  [][\A flag \in ServiceNames \cup {None} :
       StartProgram(flag, FALSE) /\ url # None /\ ~online /\ flag = None /\ ambient = None
       /\ localFile # None /\ ~Unsafe(localFile) => session'.is # "failed"]_startupVars
=============================================================================
