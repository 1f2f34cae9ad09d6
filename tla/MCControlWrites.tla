--------------------------- MODULE MCControlWrites ---------------------------
(***************************************************************************)
(* Small instances of ControlWrites.  The requests lie on both sides of    *)
(* zero, one beyond the charge limit, one within the discharge limit.      *)
(***************************************************************************)
EXTENDS ControlWrites

MCRequests == {-3, 1}

=============================================================================
