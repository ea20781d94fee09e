---------------------------- MODULE MCProxyPlans ----------------------------
(***************************************************************************)
(* Small instances of ProxyPlans.                                          *)
(***************************************************************************)
EXTENDS ProxyPlans, TLC

CONSTANTS p1, p2, x1, x2

Direct(url)    == [url |-> url, mode |-> "direct", backup |-> None, active |-> {}]
To(url, other) == [url |-> url, mode |-> "profile", backup |-> other, active |-> {}]

\* A profile with another as its fallback, and two profiles that are alike.
MCCatalogs == {p1 :> To(x1, p2) @@ p2 :> Direct(x2), p1 :> Direct(x1) @@ p2 :> Direct(x1)}

\* The credentials are on the first proxy.
MCUses == {[c \in Creds |-> x1]}

\* The admins are alike, and so are the credentials, wherever these start alike.
Alike == Permutations(Admins) \cup Permutations(Creds)

=============================================================================
