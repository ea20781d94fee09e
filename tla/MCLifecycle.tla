---------------------------- MODULE MCLifecycle ----------------------------
(***************************************************************************)
(* Small instances of Lifecycle.                                           *)
(***************************************************************************)
EXTENDS Lifecycle, TLC

\* The admins are alike, the calls are alike, and so are the credentials.
Alike == Permutations(Admins) \cup Permutations(Calls) \cup Permutations(Keys)

=============================================================================
