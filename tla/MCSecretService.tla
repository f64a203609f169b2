---------------------------- MODULE MCSecretService ----------------------------
(***************************************************************************)
(* SecretService with two processes that both start without a collection.  *)
(***************************************************************************)
EXTENDS SecretService, TLC

AllFaults == {"dbus", "dismiss", "lock", "delete"}

\* Nothing tells processes, keys or items apart.
Symmetry == Permutations(Proc) \cup Permutations(Key) \cup Permutations(Data)
=============================================================================
