--------------------------- MODULE KernelKeyrings ---------------------------
(***************************************************************************)
(* The Linux key-management calls that keyctl.go makes (external code: the *)
(* kernel).  A key or keyring is an Id, its serial number; Anchors are the *)
(* keyrings the kernel keeps for a user, a session, a process or a thread. *)
(* keyctl.go nests keyrings one deep, so a key is alive if an anchor holds *)
(* it, or a keyring that an anchor holds.                                  *)
(***************************************************************************)
EXTENDS Integers, FiniteSets

CONSTANTS Anchor, Id, NoKey

VARIABLES key,    \* Id -> [type, desc, data, perm], or NoKey
          link    \* the Ids that each keyring links

NoId == 0   \* no serial number

ASSUME KernelAssumption ==
  /\ Id \subseteq Nat \ {NoId} /\ IsFiniteSet(Id)
  /\ Anchor \cap Id = {} /\ NoId \notin Anchor

Alive(lk) == LET top == UNION {lk[a] : a \in Anchor}
             IN  top \cup UNION {lk[r] : r \in top}

\* A keyring reference is good: an anchor always is, an Id while it is alive.
Exists(r) == r \in Anchor \cup {i \in Id : key[i] # NoKey}

Matches(r, type, desc) == {i \in link[r] : key[i].type = type /\ key[i].desc = desc}

\* keyctl_search looks in the keyring itself, then in the keyrings it links.
Search(r, type, desc) ==
  LET direct == Matches(r, type, desc)
      nested == UNION {Matches(i, type, desc) : i \in {j \in link[r] : key[j].type = "keyring"}}
  IN  IF direct # {} THEN direct ELSE nested

\* The new links; a key that nothing links any more is destroyed.
Settle(lk, ky) ==
  /\ link' = [r \in Anchor \cup Id |-> IF r \in Anchor \cup Alive(lk) THEN lk[r] ELSE {}]
  /\ key' = [i \in Id |-> IF i \in Alive(lk) THEN ky[i] ELSE NoKey]

\* add_key gives n: a user key of that name is updated in place, a keyring of
\* that name is displaced by a new one.
AddKey(r, type, desc, data, n, free) ==
  LET old == Matches(r, type, desc) IN
  IF type = "user" /\ old # {}
  THEN /\ n \in old
       /\ key' = [key EXCEPT ![n].data = data]
       /\ UNCHANGED link
  ELSE /\ n \in free /\ \A j \in free : n <= j
       /\ Settle([link EXCEPT ![r] = (@ \ old) \cup {n}],
                 [key EXCEPT ![n] = [type |-> type, desc |-> desc, data |-> data, perm |-> FALSE]])

\* KEYCTL_LINK displaces the key of the same type and name.
Link(r, i) ==
  Settle([link EXCEPT ![r] = (@ \ Matches(r, key[i].type, key[i].desc)) \cup {i}], key)

Unlink(r, i) == Settle([link EXCEPT ![r] = @ \ {i}], key)

SetPerm(i) == key' = [key EXCEPT ![i].perm = TRUE] /\ UNCHANGED link
=============================================================================
