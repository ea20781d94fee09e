------------------------------- MODULE Custody -------------------------------
(***************************************************************************)
(* What the plugin promises the operator of a credential about its flag:   *)
(* who may change it next, and that the plugin remembers what it has on    *)
(* trial.                                                                  *)
(*                                                                         *)
(* The hand that set the flag last is the operator's, or one of the        *)
(* plugin's own: it disabled the credential, it enabled it on trial, or a  *)
(* probe has vouched for that.  While it is on trial the plugin is on the  *)
(* watch: what it keeps on disk tells any later scan of the trial.         *)
(***************************************************************************)
VARIABLES
  disabled,   \* the flag
  hand,       \* whose it is
  watching

vars == <<disabled, hand, watching>>

Init == disabled \in BOOLEAN /\ hand = "user" /\ watching = FALSE

\* The operator may do anything at any time, and it is the operator's flag then.
Edit ==
  /\ disabled' \in BOOLEAN
  /\ hand' = "user"
  /\ UNCHANGED watching

\* The plugin disables only what is enabled, and never what is on trial: the trial is
\* the business of the scan that began it, and of its successors.
Disable ==
  /\ ~disabled /\ hand \in {"user", "verified"}
  /\ disabled' = TRUE /\ hand' = "disable"
  /\ UNCHANGED watching

\* It enables only what it has disabled itself, and is on the watch before.
Enable ==
  /\ disabled /\ hand = "disable" /\ watching
  /\ disabled' = FALSE /\ hand' = "enable"
  /\ UNCHANGED watching

Vouch ==
  /\ hand = "enable"
  /\ hand' = "verified"
  /\ UNCHANGED <<disabled, watching>>

\* It takes back only what it has enabled itself.
TakeBack ==
  /\ ~disabled /\ hand \in {"enable", "verified"}
  /\ disabled' = TRUE /\ hand' = "disable"
  /\ UNCHANGED watching

\* The watch begins whenever the plugin likes, and never ends during a trial.
Watch ==
  /\ watching' \in BOOLEAN
  /\ hand = "enable" => watching'
  /\ UNCHANGED <<disabled, hand>>

Next == Edit \/ Disable \/ Enable \/ Vouch \/ TakeBack \/ Watch

Spec == Init /\ [][Next]_vars

=============================================================================
