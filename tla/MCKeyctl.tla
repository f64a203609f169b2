------------------------------ MODULE MCKeyctl ------------------------------
(***************************************************************************)
(* KeyctlKeyring with two processes.  Each configuration says which scope, *)
(* session and service they have.                                          *)
(***************************************************************************)
EXTENDS KeyctlKeyring, TLC

CONSTANTS p1, p2, user, s1, s2, svc1, d1, d2, MaxId

Ids == 1..MaxId
Lengths == d1 :> 1 @@ d2 :> 2

UserScope   == [p \in Proc |-> user]
OwnSessions == [p \in Proc |-> IF p = p1 THEN s1 ELSE s2]
OneSession  == [p \in Proc |-> s1]
OneService  == [p \in Proc |-> svc1]
Unnamed     == [p \in Proc |-> NoService]

Always   == [p \in Proc |-> TRUE]
OnlyP1   == [p \in Proc |-> p = p1]

None == {}
AllFaults == {"syscall", "crash"}
=============================================================================
