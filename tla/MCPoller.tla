------------------------------ MODULE MCPoller ------------------------------
(* Model-checking constants of module Poller.                              *)
EXTENDS Poller, TLC

\* The databases of a server have one history file, as those of names that
\* differ in a replaced character (app.v1, app_v1) have.
KeyedFile == [t \in Target |-> t.server]
NoTarget == {}

\* A database the role may see in the picker but not connect to.
ClosedDatabase == {t \in Target : t.db = CHOOSE d \in Databases : TRUE}

\* Servers are interchangeable in the runs that check safety only.
ServerSymmetry == Permutations(Servers)
=============================================================================
