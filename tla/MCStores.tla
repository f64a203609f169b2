------------------------------- MODULE MCStores -------------------------------
(***************************************************************************)
(* Stores with two processes and two keys.                                 *)
(***************************************************************************)
EXTENDS Stores, TLC

CONSTANTS p1, p2

Both == {p1, p2}

\* The service "a:b" begins with "a", and a key may begin with "b".
TwoKeys == {<<"k">>, <<"b", "k">>}
ServicePairs == {p1 :> <<"a">> @@ p2 :> s : s \in {<<"a">>, <<"a", "b">>, <<"c">>}}
=============================================================================
