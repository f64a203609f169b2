------------------------------ MODULE MCWinHello ------------------------------
(***************************************************************************)
(* WinHello on a small instance: two processes of one user.                *)
(***************************************************************************)
EXTENDS WinHello, TLC

\* Neither the specification nor a property tells the processes apart.
Alike == Permutations(Proc)

AllFaults == {"ncrypt", "cred", "exit", "delete", "restore"}
=============================================================================
