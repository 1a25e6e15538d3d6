-------------------------------- MODULE Absent --------------------------------
(***************************************************************************)
(* The absence of a value, Rust's Option::None, shared by the modules on   *)
(* what the core derives and remembers.                                    *)
(***************************************************************************)
CONSTANT None
=============================================================================
