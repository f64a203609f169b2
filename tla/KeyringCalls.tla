---------------------------- MODULE KeyringCalls ----------------------------
(***************************************************************************)
(* The vocabulary of the Keyring interface (keyring.go:114-138), shared by *)
(* the abstract contract and by every backend: the calls a program can     *)
(* make and the replies it can get.  Errors other than ErrKeyNotFound are  *)
(* one reply, Error: no caller of the interface can tell them apart.       *)
(***************************************************************************)
CONSTANTS Key,    \* the Item.Key values in use
          Data    \* the Item.Data values in use

Idle == [op |-> "idle"]

Calls == [op : {"Get", "GetMetadata", "Remove"}, key : Key]
           \cup [op : {"Set"}, key : Key, data : Data]
           \cup [op : {"Keys"}]

IsSetOf(call, k) == call.op = "Set" /\ call.key = k

Ok       == [kind |-> "ok"]         \* a nil error, or a Metadata
NotFound == [kind |-> "notfound"]   \* ErrKeyNotFound
Error    == [kind |-> "error"]      \* any other error
Found(d)   == [kind |-> "item", data |-> d]
Listing(S) == [kind |-> "keys", keys |-> S]

Replies == {Ok, NotFound, Error}
             \cup [kind : {"item"}, data : Data]
             \cup [kind : {"keys"}, keys : SUBSET Key]
=============================================================================
