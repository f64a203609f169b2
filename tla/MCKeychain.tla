------------------------------ MODULE MCKeychain ------------------------------
(***************************************************************************)
(* Keychain with two processes: on the default keychain, or on one file    *)
(* that one of them opens with Touch ID and the other with or without it.  *)
(***************************************************************************)
EXTENDS Keychain, TLC

CONSTANTS p1, p2

Both(a, b) == p1 :> a @@ p2 :> b
AnyKind == {Both("plain", "plain"), Both("touch", "named"), Both("touch", "touch")}
TouchOnly == {[p \in Proc |-> "touch"]}

AllFaults == {"call", "lock", "delete", "password"}
=============================================================================
