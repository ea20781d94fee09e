---------------------------- MODULE MCOwnership ----------------------------
(***************************************************************************)
(* Small instances of Ownership: two JSON contents of one identity and a   *)
(* third of another that may take its place.                               *)
(***************************************************************************)
EXTENDS OwnershipInvariant, TLC

CONSTANTS c1, c2, c3, i1, i2

MCIdOfReplaced == (c1 :> i1) @@ (c3 :> i2)
MCIdOfEdited == (c1 :> i1) @@ (c2 :> i1)

=============================================================================
