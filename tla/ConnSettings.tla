----------------------------- MODULE ConnSettings -----------------------------
(***************************************************************************)
(* Which value each field of a connection gets (`resolve' in settings.rs): *)
(* from the DSN, else from the selected service, else from the             *)
(* environment, else a default.  The code goes through the sources one     *)
(* after another and fills what is still empty.                            *)
(*                                                                         *)
(* A value is named for its source.  The host stands for the fields with a *)
(* default, the database for those without; the password may be a command  *)
(* to run, and a timeout of zero means none at all.                        *)
(***************************************************************************)
EXTENDS Integers, Absent

Fields == {"host", "database", "password", "timeout"}
Defaulted == {"host"}
Sources == {"dsn", "service", "env", "default"}
Configs == [Fields -> Sources \cup {None}]

ASSUME NoValue == None \notin Sources /\ None \notin [config : Configs, command : BOOLEAN]

\* How a source gives a field: a value, nothing, or what is special about it.
Ways(f, from) ==
  {"absent", "given"}
    \cup (IF f = "timeout" THEN {"zero"} ELSE {})
    \cup (IF f = "timeout" /\ from = "env" THEN {"unparsable"} ELSE {})
    \cup (IF f = "password" /\ from = "service" THEN {"command"} ELSE {})
SourceOf(from) == {s \in [Fields -> UNION {Ways(f, from) : f \in Fields}] :
                     \A f \in Fields : s[f] \in Ways(f, from)}

VARIABLES dsn, service, env    \* what the sources give; no service is one
                               \* that gives nothing
settingVars == <<dsn, service, env>>

NothingGiven == [f \in Fields |-> "absent"]

SettingsInit == dsn = NothingGiven /\ service = NothingGiven /\ env = NothingGiven

\* The user edits one field of one source before the next start.
Edit(f) ==
  \/ \E w \in Ways(f, "dsn") : dsn' = [dsn EXCEPT ![f] = w] /\ UNCHANGED <<service, env>>
  \/ \E w \in Ways(f, "service") : service' = [service EXCEPT ![f] = w] /\ UNCHANGED <<dsn, env>>
  \/ \E w \in Ways(f, "env") : env' = [env EXCEPT ![f] = w] /\ UNCHANGED <<dsn, service>>

\* resolve_service, for the server picker: the DSN is left out.
ForgetDsn == dsn' = NothingGiven /\ UNCHANGED <<service, env>>

SettingsNext == (\E f \in Fields : Edit(f)) \/ ForgetDsn
SettingsSpec == SettingsInit /\ [][SettingsNext]_settingVars

------------------------------------------------------------------------------
\* The configuration as it is filled: a value, or None while it is empty.

\* A zero timeout is empty to the parser of connection strings.
FromDsn == [f \in Fields |-> IF dsn[f] = "given" THEN "dsn" ELSE None]

\* apply_service
Filled(config, f) ==
  IF config[f] = None /\ service[f] = "given" THEN "service" ELSE config[f]
WithService(config) == [f \in Fields |-> Filled(config, f)]
PasswordCommand(config) == config["password"] = None /\ service["password"] = "command"
TimeoutPinned(config) == config["timeout"] = None /\ service["timeout"] = "zero"

\* Mutant: a password of the environment is taken next to the command.
RuledForPasswords(config, f) == config[f] = None /\ ~(f = "timeout" /\ TimeoutPinned(FromDsn))

\* ENV_RULES, each of which is skipped where the field is set or pinned.
Ruled(config, f) ==
  /\ config[f] = None
  /\ ~(f = "password" /\ PasswordCommand(FromDsn))
  /\ ~(f = "timeout" /\ TimeoutPinned(FromDsn))

WithEnv(config) ==
  [f \in Fields |-> IF Ruled(config, f) /\ env[f] = "given" THEN "env" ELSE config[f]]
Refused(config) == \E f \in Fields : Ruled(config, f) /\ env[f] = "unparsable"

WithDefaults(config) ==
  [f \in Fields |-> IF config[f] = None /\ f \in Defaulted THEN "default" ELSE config[f]]

Resolved ==
  LET config == WithService(FromDsn)
  IN  IF Refused(config) THEN None
      ELSE [config |-> WithDefaults(WithEnv(config)), command |-> PasswordCommand(FromDsn)]

------------------------------------------------------------------------------
\* Field by field, the value is that of the first source that says anything of
\* the field: no value of the environment, and no default, stands next to a
\* command or a zero of the service or hides one; a variable that cannot be
\* parsed stops the start exactly where it would have been used.  The one
\* exception is a zero timeout in the DSN, which counts as silence.
Says(from, f) ==
  CASE from = "dsn"     -> dsn[f] = "given"
    [] from = "service" -> service[f] # "absent"
    [] from = "env"     -> env[f] # "absent"
    [] from = "default" -> f \in Defaulted
Precedence == <<"dsn", "service", "env", "default">>
Speaks(f) == {p \in DOMAIN Precedence : Says(Precedence[p], f)}
First(f) == CHOOSE p \in Speaks(f) : \A q \in Speaks(f) : p <= q
Winner(f) == IF Speaks(f) = {} THEN None ELSE Precedence[First(f)]
Silent(f) ==
  \/ Winner(f) = "service" /\ service[f] \in {"zero", "command"}
  \/ Winner(f) = "env" /\ env[f] = "zero"

FieldsFromBest ==
  /\ Resolved = None <=> \E f \in Fields : Winner(f) = "env" /\ env[f] = "unparsable"
  /\ Resolved # None =>
       /\ \A f \in Fields : Resolved.config[f] = IF Silent(f) THEN None ELSE Winner(f)
       /\ Resolved.command <=> Winner("password") = "service" /\ service["password"] = "command"
=============================================================================
