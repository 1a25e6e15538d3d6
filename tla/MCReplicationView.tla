--------------------------- MODULE MCReplicationView ---------------------------
(* Kinds of slots for ReplicationView: every judgement, for several reasons. *)
EXTENDS ReplicationView

Kind(retained, active, lost, xmin) == [retained |-> retained, active |-> active, lost |-> lost, xmin |-> xmin]
MCSlotKinds == {Kind(None, TRUE, FALSE, 0), Kind(None, FALSE, TRUE, 0), Kind(1, FALSE, FALSE, 0),
                Kind(1, TRUE, FALSE, 2), Kind(2, TRUE, FALSE, 1)}
=============================================================================
