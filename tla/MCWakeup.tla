------------------------------ MODULE MCWakeup ------------------------------
(***************************************************************************)
(* Small instances of Wakeup.                                              *)
(***************************************************************************)
EXTENDS Wakeup, TLC

\* The two scans are alike, and so are the summaries of windows.
Alikes == Permutations(Scanners) \cup Permutations(Windows)

=============================================================================
