------------------------------ MODULE MCOPVault ------------------------------
(***************************************************************************)
(* OPVault with a service account and a Connect client on one vault, in    *)
(* which a person keeps two items that look like keyring items: one        *)
(* without the tag, one with another field.                                *)
(***************************************************************************)
EXTENDS OPVault, TLC

CONSTANTS c1, c2, k1, d1, MaxId

Ids == 1..MaxId

BothKinds == c1 :> "standard" @@ c2 :> "connect"

TwoLookalikes ==
  1 :> [key |-> k1, data |-> d1, tagged |-> FALSE, shaped |-> TRUE] @@
  2 :> [key |-> k1, data |-> d1, tagged |-> TRUE, shaped |-> FALSE]

AnyToken  == {"good", "bad", "none"}
AllFaults == {"request", "timeout"}
=============================================================================
