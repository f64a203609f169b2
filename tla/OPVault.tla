-------------------------------- MODULE OPVault --------------------------------
(***************************************************************************)
(* The 1Password backends (opcommon.go, opstandard.go, opsrvaccount.go,    *)
(* opdesktop.go, opconnect.go): programs on several machines share a vault *)
(* that also holds a person's own items.  A vault has no keys: an item is  *)
(* found by its title, which is not unique, so every call first lists the  *)
(* vault and then fetches the listed items, one request each.  A step is   *)
(* one request, with the work between it and the request before.           *)
(*                                                                         *)
(* Clients are of two kinds.  "standard" is the SDK client that service    *)
(* accounts and the desktop application share (a desktop client has no     *)
(* token: its user approves or refuses); "connect" talks to a Connect      *)
(* server.  All use the same title prefix, tag and field title.            *)
(***************************************************************************)
EXTENDS KeyringCalls, Integers, FiniteSets

CONSTANTS Client, Kind,   \* Client -> {"standard", "connect"}
          ItemId,         \* ids of vault items, reused when nobody holds them
          Gone,           \* no item has the id
          Personal,       \* the person's items, by id
          Answers,        \* what GetOPToken may bring: "good", "bad", "none"
          Faults          \* which of "request", "timeout" may happen

\* tagged: the item is an API credential with the configured tag; shaped: its only
\* concealed field has the configured title.  All items here are active: the SDK
\* clients ask for no others and check it (opstandard.go:64-80), Connect does not
\* look at the state (opconnect.go:164-168), and its server is taken to list no
\* archived ones.
ItemRecord == [key : Key, data : Data, tagged : BOOLEAN, shaped : BOOLEAN]
NewItem(k, d) == [key |-> k, data |-> d, tagged |-> TRUE, shaped |-> TRUE]
IsKeyringItem(item) == item.tagged /\ item.shaped

ASSUME OPAssumption ==
  /\ ItemId \subseteq Nat
  /\ Kind \in [Client -> {"standard", "connect"}]
  /\ Gone \notin ItemRecord
  /\ DOMAIN Personal \subseteq ItemId
  /\ \A i \in DOMAIN Personal : Personal[i] \in ItemRecord /\ ~IsKeyringItem(Personal[i])
  /\ Answers \subseteq {"good", "bad", "none"}
  /\ Faults \subseteq {"request", "timeout"}

VARIABLES vault,      \* ItemId -> ItemRecord, or Gone
          session,    \* the Client field: "none", or made with a "good" or "bad" token
          call, pc,
          todo,       \* listed items that are still to be fetched
          got,        \* the keyring items among the fetched ones, with their ids
          seen,       \* history: what the call has found in the vault, as a reply
          result,
          overlapped  \* history: the keys that two Sets were under way for at once

vars == <<vault, session, call, pc, todo, got, seen, result, overlapped>>

Fetched == [id : ItemId, key : Key, data : Data]

TypeOK ==
  /\ vault \in [ItemId -> ItemRecord \cup {Gone}]
  /\ session \in [Client -> {"none", "good", "bad"}]
  /\ call \in [Client -> Calls \cup {Idle}]
  /\ pc \in [Client -> {"idle", "metadata", "list", "fetch", "return"}]
  /\ todo \in [Client -> SUBSET ItemId]
  /\ got \in [Client -> SUBSET Fetched]
  /\ seen \in [Client -> Replies] /\ result \in [Client -> Replies]
  /\ overlapped \subseteq Key

Init ==
  /\ vault = [i \in ItemId |-> IF i \in DOMAIN Personal THEN Personal[i] ELSE Gone]
  /\ session = [c \in Client |-> "none"]
  /\ call = [c \in Client |-> Idle]
  /\ pc = [c \in Client |-> "idle"]
  /\ todo = [c \in Client |-> {}] /\ got = [c \in Client |-> {}]
  /\ seen = [c \in Client |-> Error] /\ result = [c \in Client |-> Error]
  /\ overlapped = {}

-----------------------------------------------------------------------------
Go(c, step) == pc' = [pc EXCEPT ![c] = step]

Reply(c, r) ==
  /\ Go(c, "return")
  /\ result' = [result EXCEPT ![c] = r]
  /\ todo' = [todo EXCEPT ![c] = {}] /\ got' = [got EXCEPT ![c] = {}]
  /\ seen' = [seen EXCEPT ![c] = Error]

SetPending(k) == \E d \in Client : IsSetOf(call[d], k)

Call(c) ==
  /\ pc[c] = "idle"
  /\ \E cl \in Calls :
       /\ call' = [call EXCEPT ![c] = cl]
       /\ overlapped' = overlapped \cup {k \in Key : IsSetOf(cl, k) /\ SetPending(k)}
       /\ Go(c, IF cl.op = "GetMetadata" THEN "metadata" ELSE "list")
  /\ UNCHANGED <<vault, session, todo, got, seen, result>>

\* An empty Metadata and a nil error, whether the key exists or not.
GetMetadata(c) ==
  /\ pc[c] = "metadata"
  /\ Reply(c, Ok)
  /\ UNCHANGED <<vault, session, call, overlapped>>

\* InitializeClient and InitializeOPConnectClient, when there is no client yet.
NewClient(c) ==
  /\ pc[c] = "list" /\ session[c] = "none"
  /\ "good" \in Answers
  /\ session' = [session EXCEPT ![c] = "good"]
  /\ UNCHANGED <<vault, call, pc, todo, got, seen, result, overlapped>>

\* connect.NewClient does not look at the token; onepassword.NewClient does.
NewClientWrongToken(c) ==
  /\ pc[c] = "list" /\ session[c] = "none"
  /\ Kind[c] = "connect" /\ "bad" \in Answers
  /\ session' = [session EXCEPT ![c] = "bad"]
  /\ UNCHANGED <<vault, call, pc, todo, got, seen, result, overlapped>>

NoClient(c) ==
  /\ pc[c] = "list" /\ session[c] = "none"
  /\ "none" \in Answers \/ (Kind[c] = "standard" /\ "bad" \in Answers)
  /\ Reply(c, Error)
  /\ UNCHANGED <<vault, session, call, overlapped>>

-----------------------------------------------------------------------------
Present == {i \in ItemId : vault[i] # Gone}

\* GetItemsByTitle, which only Connect has, asks for one title.
Listed(c) == {i \in Present : Kind[c] = "connect" /\ call[c].op # "Keys"
                                => vault[i].key = call[c].key}

\* The overviews that are kept: by tag and category.
Overviews(c) == {i \in Listed(c) : vault[i].tagged}

KeyringIds == {i \in Present : IsKeyringItem(vault[i])}
IdsOf(k)   == {i \in KeyringIds : vault[i].key = k}

List(c) ==
  /\ pc[c] = "list" /\ session[c] = "good"
  /\ todo' = [todo EXCEPT ![c] = Overviews(c)]
  /\ got' = [got EXCEPT ![c] = {}]
  /\ seen' = [seen EXCEPT ![c] =
                CASE call[c].op = "Keys" -> Listing({vault[i].key : i \in KeyringIds})
                  [] call[c].op # "Keys" /\ IdsOf(call[c].key) = {} -> NotFound
                  [] OTHER -> Error]
  /\ Go(c, "fetch")
  /\ UNCHANGED <<vault, session, call, result, overlapped>>

\* A listed item has been deleted: the whole call fails, for any other key too.
FetchGone(c) ==
  /\ pc[c] = "fetch" /\ session[c] = "good"
  /\ \E i \in todo[c] : vault[i] = Gone
  /\ Reply(c, Error)
  /\ UNCHANGED <<vault, session, call, overlapped>>

\* Mutant: an item is taken whatever its fields are.
FieldsMatchAlways(item) == TRUE

FieldsMatch(item) == item.shaped

Fetch(c) ==
  /\ pc[c] = "fetch" /\ session[c] = "good"
  /\ \E i \in todo[c] :
       /\ vault[i] # Gone
       /\ todo' = [todo EXCEPT ![c] = @ \ {i}]
       /\ got' = [got EXCEPT ![c] = IF FieldsMatch(vault[i])
                    THEN @ \cup {[id |-> i, key |-> vault[i].key, data |-> vault[i].data]}
                    ELSE @]
       /\ seen' = [seen EXCEPT ![c] =
                     IF call[c].op = "Get" /\ IdsOf(call[c].key) = {i}
                     THEN Found(vault[i].data) ELSE @]
  /\ UNCHANGED <<vault, session, call, pc, result, overlapped>>

\* GetOPItem: what was fetched and has the title of the key.
Matching(c) == {it \in got[c] : it.key = call[c].key}

Complete(c) == pc[c] = "fetch" /\ session[c] = "good" /\ todo[c] = {}

FindsNone(c) ==
  /\ Complete(c) /\ call[c].op \in {"Get", "Remove"} /\ Matching(c) = {}
  /\ Reply(c, NotFound)
  /\ UNCHANGED <<vault, session, call, overlapped>>

\* OPErrItemMultiple, of Get, Set and Remove.
FindsMany(c) ==
  /\ Complete(c) /\ call[c].op # "Keys" /\ Cardinality(Matching(c)) > 1
  /\ Reply(c, Error)
  /\ UNCHANGED <<vault, session, call, overlapped>>

\* Mutant: the field value is not decoded.
GetUndecoded(c) ==
  /\ Complete(c) /\ call[c].op = "Get"
  /\ \E it \in Matching(c) : Matching(c) = {it} /\ Reply(c, Found(it))
  /\ UNCHANGED <<vault, session, call, overlapped>>

Get(c) ==
  /\ Complete(c) /\ call[c].op = "Get"
  /\ \E it \in Matching(c) : Matching(c) = {it} /\ Reply(c, Found(it.data))
  /\ UNCHANGED <<vault, session, call, overlapped>>

Titles(c) == {it.key : it \in got[c]}

\* Two items of one title, whichever, are OPErrItemTitleDuplicate.
Keys(c) ==
  /\ Complete(c) /\ call[c].op = "Keys"
  /\ Reply(c, IF Cardinality(Titles(c)) = Cardinality(got[c])
              THEN Listing(Titles(c)) ELSE Error)
  /\ UNCHANGED <<vault, session, call, overlapped>>

-----------------------------------------------------------------------------
\* A request that changes the vault has done so when its answer comes; a
\* timeout can take the answer away.
Answered(c) == \E r \in {Ok} \cup (IF "timeout" \in Faults THEN {Error} ELSE {}) : Reply(c, r)

\* A new id is one that the vault and the calls under way do not know.
Known == Present \cup DOMAIN Personal
           \cup UNION {todo[d] \cup {it.id : it \in got[d]} : d \in Client}
FirstFree(i) == i \notin Known /\ \A j \in ItemId \ Known : i <= j

Create(c) ==
  /\ Complete(c) /\ call[c].op = "Set" /\ Matching(c) = {}
  /\ \E i \in ItemId : /\ FirstFree(i)
                       /\ vault' = [vault EXCEPT ![i] = NewItem(call[c].key, call[c].data)]
  /\ Answered(c)
  /\ UNCHANGED <<session, call, overlapped>>

\* The update goes to the id that was fetched, over whatever it holds by now.
Put(c) ==
  /\ Complete(c) /\ call[c].op = "Set"
  /\ \E it \in Matching(c) :
       /\ Matching(c) = {it} /\ vault[it.id] # Gone
       /\ vault' = [vault EXCEPT ![it.id].data = call[c].data]
  /\ Answered(c)
  /\ UNCHANGED <<session, call, overlapped>>

Delete(c) ==
  /\ Complete(c) /\ call[c].op = "Remove"
  /\ \E it \in Matching(c) :
       /\ Matching(c) = {it} /\ vault[it.id] # Gone
       /\ vault' = [vault EXCEPT ![it.id] = Gone]
  /\ Answered(c)
  /\ UNCHANGED <<session, call, overlapped>>

ChangeGone(c) ==
  /\ Complete(c) /\ call[c].op \in {"Set", "Remove"}
  /\ \E it \in Matching(c) : Matching(c) = {it} /\ vault[it.id] = Gone
  /\ Reply(c, Error)
  /\ UNCHANGED <<vault, session, call, overlapped>>

-----------------------------------------------------------------------------
\* Mutant: Get and Remove take a failed listing for an empty one.
RequestFailsNotFound(c) ==
  /\ session[c] = "good" /\ "request" \in Faults /\ pc[c] = "list"
  /\ Reply(c, IF call[c].op \in {"Get", "Remove"} THEN NotFound ELSE Error)
  /\ UNCHANGED <<vault, session, call, overlapped>>

\* Mutant: Set goes on, and creates, when its listing has failed.
RequestFailsSetCreates(c) ==
  /\ session[c] = "good" /\ "request" \in Faults
  /\ pc[c] = "list" /\ call[c].op = "Set"
  /\ \E i \in ItemId : /\ FirstFree(i)
                       /\ vault' = [vault EXCEPT ![i] = NewItem(call[c].key, call[c].data)]
  /\ Answered(c)
  /\ UNCHANGED <<session, call, overlapped>>

\* A request fails: the server refuses the token, or cannot be reached.
RequestFails(c) ==
  /\ session[c] = "bad" \/ (session[c] = "good" /\ "request" \in Faults)
  /\ \/ pc[c] = "list"
     \/ pc[c] = "fetch" /\ todo[c] # {}
     \/ Complete(c) /\ call[c].op \in {"Set", "Remove"} /\ Cardinality(Matching(c)) < 2
        /\ (call[c].op = "Remove" => Matching(c) # {})
  /\ Reply(c, Error)
  /\ UNCHANGED <<vault, session, call, overlapped>>

\* The methods of OPConnectKeyring have value receivers: the client that the
\* call has made is lost with its copy of the struct.
Keeps(c) == Kind[c] = "standard"

Return(c) ==
  /\ pc[c] = "return"
  /\ Go(c, "idle")
  /\ call' = [call EXCEPT ![c] = Idle]
  /\ session' = [session EXCEPT ![c] = IF Keeps(c) THEN @ ELSE "none"]
  /\ result' = [result EXCEPT ![c] = Error]
  /\ UNCHANGED <<vault, todo, got, seen, overlapped>>

\* The person deletes an item of theirs, in an app of 1Password.
PersonDeletes(i) ==
  /\ vault[i] # Gone
  /\ vault' = [vault EXCEPT ![i] = Gone]
  /\ UNCHANGED <<session, call, pc, todo, got, seen, result, overlapped>>

-----------------------------------------------------------------------------
Step(c) == \/ GetMetadata(c) \/ NewClient(c) \/ NewClientWrongToken(c) \/ NoClient(c)
           \/ List(c) \/ FetchGone(c) \/ Fetch(c)
           \/ FindsNone(c) \/ FindsMany(c) \/ Get(c) \/ Keys(c)
           \/ Create(c) \/ Put(c) \/ Delete(c) \/ ChangeGone(c)
           \/ RequestFails(c) \/ Return(c)

Next == \/ \E c \in Client : Call(c) \/ Step(c)
        \/ \E i \in DOMAIN Personal : PersonDeletes(i)

Spec == Init /\ [][Next]_vars

-----------------------------------------------------------------------------
\* How the vault and a client's step show in the contract.  Two items of one
\* title are an item that nobody can read.
ItemOf(k) == IF IdsOf(k) = {} THEN "no item"
             ELSE IF Cardinality(IdsOf(k)) > 1 THEN "damaged"
             ELSE vault[CHOOSE i \in IdsOf(k) : TRUE].data

Due(c) == CASE pc[c] = "return" -> result[c]
            [] pc[c] = "fetch" /\ call[c].op # "Set" -> seen[c]
            [] OTHER -> Error

Stored == [k \in Key |-> ItemOf(k)]
DueNow == [c \in Client |-> Due(c)]

C == INSTANCE KeyringContract
       WITH items <- Stored, due <- DueNow,
            NoItem <- "no item", Damaged <- "damaged", Weak <- {"stat"}

\* Seen by title, the vault is a store with the promises of the Keyring
\* interface (keyring.go:114-125) until two Sets of one key first overlap: each
\* call takes effect at one of its requests although it makes many, and a call
\* that fails or times out has done all of its work or none.  GetMetadata alone
\* finds every key (opstandard.go:129-131).
Contract == C!CInit /\ [][overlapped' = {} => C!CNext]_<<Stored, call, DueNow>>

\* Two items have one title only if two Sets of that key were once under way
\* together: a Set that times out and is repeated, a Remove or a failure between
\* its listing and its write never makes a second item (opstandard.go:136-173).
OneItemUnlessOverlap == \A k \in Key \ overlapped : Cardinality(IdsOf(k)) <= 1

\* No call changes or deletes an item of the person's, whatever its title: tag,
\* category and fields keep them apart (opstandard.go:78-110, opconnect.go:164-194).
PersonalUntouched ==
  [][\A i \in DOMAIN Personal : vault'[i] = vault[i] \/ PersonDeletes(i)]_vars
=============================================================================
