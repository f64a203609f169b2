--------------------------- MODULE KeyringContract ---------------------------
(***************************************************************************)
(* What the Keyring interface promises to several clients of one store,    *)
(* whatever the backend.  Every call takes effect at one instant between   *)
(* its beginning and its return, or fails.  A backend is allowed two       *)
(* weaknesses, and no others:                                              *)
(*   - a Set that has not succeeded yet may leave the item of its own key  *)
(*     damaged (Spoil), for the time of the call or, if it fails, for good;*)
(*   - a Remove may take effect together with pending Sets of the same     *)
(*     key, which are then answered as if they had come just before it.    *)
(* A damaged item is still listed; it is never reported as absent and      *)
(* never read as if it were another item.  Weak names what a backend gives *)
(* up further: "torn", a Set that succeeds may leave its item damaged;     *)
(* "list", Keys answers some of the keys that were there in the course of  *)
(* the call; "absent", a Remove that fails may say that there was nothing  *)
(* to remove; "again", a Remove of nothing succeeds; "stat", GetMetadata   *)
(* finds every key; "unseen", a Get or GetMetadata may say that there is   *)
(* nothing; "dropped", a Set or Remove that succeeds may have done nothing.*)
(***************************************************************************)
EXTENDS KeyringCalls

CONSTANTS Client,
          NoItem,    \* the key is not in the store
          Damaged,   \* the key is in the store, its item cannot be decoded
          Weak       \* what the backend gives up, of what is named above

VARIABLES items,   \* the store
          call,    \* the call a client is waiting for, or Idle
          due      \* the reply the client would get now

cvars == <<items, call, due>>

CTypeOK ==
  /\ items \in [Key -> Data \cup {NoItem, Damaged}]
  /\ call \in [Client -> Calls \cup {Idle}]
  /\ due \in [Client -> Replies]

CInit ==
  /\ items = [k \in Key |-> NoItem]
  /\ call = [c \in Client |-> Idle]
  /\ due = [c \in Client |-> Error]

\* What Get answers, given what the store holds for the key.
Answer(item) == IF item = NoItem THEN NotFound
                ELSE IF item = Damaged THEN Error ELSE Found(item)

Unseen == IF "unseen" \in Weak THEN {NotFound} ELSE {}

\* A call begins; until it takes effect it can only fail.
Begin(c) ==
  /\ call[c] = Idle
  /\ \E cl \in Calls : call' = [call EXCEPT ![c] = cl]
  /\ due' = [due EXCEPT ![c] = Error]
  /\ UNCHANGED items

Look(c) ==
  /\ call[c].op = "Get"
  /\ \E r \in {Answer(items[call[c].key])} \cup Unseen : due' = [due EXCEPT ![c] = r]
  /\ UNCHANGED <<items, call>>

Stat(c) ==
  /\ call[c].op = "GetMetadata"
  /\ \E r \in {IF items[call[c].key] = NoItem /\ "stat" \notin Weak THEN NotFound ELSE Ok}
               \cup Unseen :
       due' = [due EXCEPT ![c] = r]
  /\ UNCHANGED <<items, call>>

Gathered(c) == IF due[c] \in [kind : {"keys"}, keys : SUBSET Key] THEN due[c].keys ELSE {}

List(c) ==
  /\ call[c].op = "Keys"
  /\ LET all == {k \in Key : items[k] # NoItem} IN
     \E S \in IF "list" \in Weak THEN SUBSET (all \cup Gathered(c)) ELSE {all} :
       due' = [due EXCEPT ![c] = Listing(S)]
  /\ UNCHANGED <<items, call>>

Spoil(c) ==
  /\ call[c].op = "Set" /\ due[c] = Error
  /\ items' = [items EXCEPT ![call[c].key] = Damaged]
  /\ UNCHANGED <<call, due>>

\* A Set that fails may have stored its item all the same.
Store(c) ==
  /\ call[c].op = "Set" /\ due[c] = Error
  /\ \E v \in {call[c].data} \cup (IF "torn" \in Weak THEN {Damaged} ELSE {}) :
       items' = [items EXCEPT ![call[c].key] = v]
  /\ \E r \in {Ok, Error} : due' = [due EXCEPT ![c] = r]
  /\ UNCHANGED call

\* A Remove, too, may have taken effect and fail.
Erase(c) ==
  /\ call[c].op = "Remove" /\ due[c] = Error
  /\ items[call[c].key] # NoItem
  /\ items' = [items EXCEPT ![call[c].key] = NoItem]
  /\ \E over \in SUBSET {d \in Client : IsSetOf(call[d], call[c].key)}, r \in {Ok, Error} :
       due' = [d \in Client |-> IF d = c THEN r ELSE IF d \in over THEN Ok ELSE due[d]]
  /\ UNCHANGED call

Miss(c) ==
  /\ call[c].op = "Remove" /\ due[c] = Error
  /\ items[call[c].key] = NoItem \/ "absent" \in Weak
  /\ \E r \in {NotFound} \cup (IF "again" \in Weak THEN {Ok} ELSE {}) :
       due' = [due EXCEPT ![c] = r]
  /\ UNCHANGED <<items, call>>

Drop(c) ==
  /\ "dropped" \in Weak
  /\ call[c].op \in {"Set", "Remove"} /\ due[c] = Error
  /\ due' = [due EXCEPT ![c] = Ok]
  /\ UNCHANGED <<items, call>>

\* The call is going to fail; what it has changed stays changed.
Fail(c) ==
  /\ call[c] # Idle
  /\ due' = [due EXCEPT ![c] = Error]
  /\ UNCHANGED <<items, call>>

Return(c) ==
  /\ call[c] # Idle
  /\ call' = [call EXCEPT ![c] = Idle]
  /\ due' = [due EXCEPT ![c] = Error]
  /\ UNCHANGED items

CNext == \E c \in Client : \/ Begin(c) \/ Look(c) \/ Stat(c) \/ List(c)
                           \/ Spoil(c) \/ Store(c) \/ Erase(c) \/ Miss(c)
                           \/ Drop(c) \/ Fail(c) \/ Return(c)

CSpec == CInit /\ [][CNext]_cvars
=============================================================================
