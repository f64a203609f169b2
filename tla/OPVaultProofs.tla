----------------------------- MODULE OPVaultProofs -----------------------------
(***************************************************************************)
(* Proofs about OPVault, for any clients of both kinds, keys, items of the *)
(* person and faults.  That a title is not used twice is inductive with    *)
(* what is known of the one Set of the key that is under way (SetKnows):   *)
(* each keyring item of the key is one it still has to fetch or has got.   *)
(* That the vault is a keyring rests on that and on what a call knows by   *)
(* its listing and its fetches (FoundInv).                                 *)
(***************************************************************************)
EXTENDS OPVault, TLAPS, FiniteSetTheorems

\* A call carries the arguments of its operation.
LEMMA CallArguments ==
  \A cl \in Calls :
    /\ cl.op \in {"Get", "GetMetadata", "Remove", "Set", "Keys"}
    /\ cl.op \in {"Get", "GetMetadata", "Remove", "Set"} => cl.key \in Key
    /\ cl.op = "Set" => cl.data \in Data
  BY DEF Calls

\* A client without a call is in none of them.
LEMMA IdleIsNoCall == Idle \notin Calls /\ Idle.op = "idle"
  BY DEF Idle, Calls

\* What a backend can answer is a reply of the interface.
LEMMA ReplyTypes ==
  /\ Ok \in Replies /\ NotFound \in Replies /\ Error \in Replies
  /\ \A d \in Data : Found(d) \in Replies
  /\ \A S \in SUBSET Key : Listing(S) \in Replies
  BY DEF Replies, Ok, NotFound, Error, Found, Listing

StepOfCall ==
  \A c \in Client :
    /\ pc[c] = "idle" <=> call[c] = Idle
    /\ pc[c] = "metadata" => call[c].op = "GetMetadata"
    /\ pc[c] \in {"list", "fetch"} => call[c].op \in {"Get", "Set", "Remove", "Keys"}

TypeInv == TypeOK /\ StepOfCall

\* What is left of the person's items is as it was, and no call has got one.
PersonalInv ==
  /\ \A i \in DOMAIN Personal : vault[i] \in {Gone, Personal[i]}
  /\ \A c \in Client :
       /\ \A i \in todo[c] \cap DOMAIN Personal : Personal[i].tagged
       /\ \A it \in got[c] : it.id \notin DOMAIN Personal

OneItem(k) == \A i, j \in IdsOf(k) : i = j

OneSet(k) == \A c, d \in Client : IsSetOf(call[c], k) /\ IsSetOf(call[d], k) => c = d

SetKnows(k) ==
  \A c \in Client :
    IsSetOf(call[c], k) /\ pc[c] = "fetch"
      => \A i \in IdsOf(k) : i \in todo[c] \/ \E it \in Matching(c) : it.id = i

TitleInv == \A k \in Key \ overlapped : OneItem(k) /\ OneSet(k) /\ SetKnows(k)

-----------------------------------------------------------------------------
LEMMA InitTypeInv == Init => TypeInv
<1> SUFFICES ASSUME Init PROVE TypeInv
  OBVIOUS
<1>1. vault \in [ItemId -> ItemRecord \cup {Gone}]
  BY OPAssumption DEF Init
<1>2. TypeOK
  BY <1>1, ReplyTypes DEF Init, TypeOK
<1>3. StepOfCall
  BY DEF Init, StepOfCall
<1> QED
  BY <1>2, <1>3 DEF TypeInv

\* A step that answers.
LEMMA ReplyTypeInv ==
  ASSUME TypeInv, NEW c \in Client, pc[c] # "idle", NEW r \in Replies, Reply(c, r),
         vault' \in [ItemId -> ItemRecord \cup {Gone}], UNCHANGED <<session, call, overlapped>>
  PROVE  TypeInv'
<1>1. TypeOK'
  BY ReplyTypes DEF Reply, Go, TypeInv, TypeOK
<1>2. StepOfCall'
  BY DEF Reply, Go, TypeInv, TypeOK, StepOfCall
<1> QED
  BY <1>1, <1>2 DEF TypeInv

\* What a call on one key finds in its arguments.
LEMMA KeyedCall ==
  ASSUME TypeInv, NEW c \in Client, pc[c] \in {"list", "fetch"}
  PROVE  /\ call[c].op # "Keys" => call[c].key \in Key
         /\ call[c].op = "Set" => call[c].data \in Data
<1>1. call[c] \in Calls
  BY DEF TypeInv, TypeOK, StepOfCall
<1> QED
  BY <1>1, CallArguments

\* The items that a call has got are where they were.
LEMMA MatchingType ==
  ASSUME TypeInv, NEW c \in Client, NEW it \in Matching(c)
  PROVE  /\ it \in got[c] /\ it \in Fetched /\ it.id \in ItemId
         /\ it.data \in Data /\ it.key = call[c].key
  BY DEF Matching, Fetched, TypeInv, TypeOK

LEMMA CallTypeInv == ASSUME TypeInv, NEW c \in Client, Call(c) PROVE TypeInv'
<1>1. PICK cl \in Calls :
        /\ call' = [call EXCEPT ![c] = cl]
        /\ overlapped' = overlapped \cup {k \in Key : IsSetOf(cl, k) /\ SetPending(k)}
        /\ Go(c, IF cl.op = "GetMetadata" THEN "metadata" ELSE "list")
  BY DEF Call
<1>2. TypeOK'
  BY <1>1 DEF Call, Go, TypeInv, TypeOK
<1>3. StepOfCall'
  BY <1>1, CallArguments, IdleIsNoCall DEF Call, Go, TypeInv, TypeOK, StepOfCall
<1> QED
  BY <1>2, <1>3 DEF TypeInv

LEMMA ListTypeInv == ASSUME TypeInv, NEW c \in Client, List(c) PROVE TypeInv'
<1>1. /\ pc[c] = "list" /\ call[c].op \in {"Get", "Set", "Remove", "Keys"} /\ call[c] # Idle
  BY IdleIsNoCall DEF List, TypeInv, StepOfCall
<1>2. Overviews(c) \in SUBSET ItemId
  BY DEF Overviews, Listed, Present
<1>3. {vault[i].key : i \in KeyringIds} \in SUBSET Key
  BY DEF KeyringIds, Present, ItemRecord, TypeInv, TypeOK
<1>4. seen' \in [Client -> Replies]
  BY <1>3, ReplyTypes DEF List, TypeInv, TypeOK
<1>5. TypeOK'
  BY <1>2, <1>4 DEF List, Go, TypeInv, TypeOK
<1>6. StepOfCall'
  BY <1>1 DEF List, Go, TypeInv, TypeOK, StepOfCall
<1> QED
  BY <1>5, <1>6 DEF TypeInv

LEMMA FetchTypeInv == ASSUME TypeInv, NEW c \in Client, Fetch(c) PROVE TypeInv'
<1>1. PICK i \in todo[c] :
       /\ vault[i] # Gone
       /\ todo' = [todo EXCEPT ![c] = @ \ {i}]
       /\ got' = [got EXCEPT ![c] = IF FieldsMatch(vault[i])
                    THEN @ \cup {[id |-> i, key |-> vault[i].key, data |-> vault[i].data]}
                    ELSE @]
       /\ seen' = [seen EXCEPT ![c] =
                     IF call[c].op = "Get" /\ IdsOf(call[c].key) = {i}
                     THEN Found(vault[i].data) ELSE @]
  BY DEF Fetch
<1>2. i \in ItemId /\ vault[i].key \in Key /\ vault[i].data \in Data
  BY <1>1 DEF ItemRecord, TypeInv, TypeOK
<1>3. [id |-> i, key |-> vault[i].key, data |-> vault[i].data] \in Fetched
  BY <1>2 DEF Fetched
<1>4. Found(vault[i].data) \in Replies
  BY <1>2, ReplyTypes
<1>5. todo' \in [Client -> SUBSET ItemId] /\ got' \in [Client -> SUBSET Fetched]
      /\ seen' \in [Client -> Replies]
  BY <1>1, <1>3, <1>4 DEF TypeInv, TypeOK
<1> QED
  BY <1>5 DEF Fetch, TypeInv, TypeOK, StepOfCall

\* The vault after a step that changes it.
LEMMA ChangedVaultType ==
  ASSUME TypeInv, NEW c \in Client, Create(c) \/ Put(c) \/ Delete(c)
  PROVE  vault' \in [ItemId -> ItemRecord \cup {Gone}]
<1>1. /\ pc[c] = "fetch" /\ call[c].op \in {"Set", "Remove"} /\ call[c].key \in Key
      /\ call[c].op = "Set" => call[c].data \in Data
  BY KeyedCall DEF Create, Put, Delete, Complete
<1>2. CASE Create(c)
  <2>1. NewItem(call[c].key, call[c].data) \in ItemRecord
    BY <1>1, <1>2 DEF Create, NewItem, ItemRecord
  <2> QED
    BY <1>2, <2>1 DEF Create, TypeInv, TypeOK
<1>3. CASE Put(c)
  <2>1. PICK it \in Matching(c) :
          vault[it.id] # Gone /\ vault' = [vault EXCEPT ![it.id].data = call[c].data]
    BY <1>3 DEF Put
  <2>2. it.id \in ItemId /\ vault[it.id] \in ItemRecord
    BY <2>1, MatchingType DEF TypeInv, TypeOK
  <2>3. call[c].data \in Data
    BY <1>1, <1>3 DEF Put
  <2>4. [vault[it.id] EXCEPT !.data = call[c].data] \in ItemRecord
    BY <2>2, <2>3 DEF ItemRecord
  <2> QED
    BY <2>1, <2>2, <2>4 DEF TypeInv, TypeOK
<1>4. CASE Delete(c)
  BY <1>4 DEF Delete, TypeInv, TypeOK
<1> QED
  BY <1>2, <1>3, <1>4

LEMMA AnsweredReply == ASSUME NEW c, Answered(c) PROVE \E r \in {Ok, Error} : Reply(c, r)
  BY DEF Answered

LEMMA StepTypeInv == ASSUME TypeInv, NEW c \in Client, Step(c) PROVE TypeInv'
<1>a. vault \in [ItemId -> ItemRecord \cup {Gone}]
  BY DEF TypeInv, TypeOK
<1>1. CASE GetMetadata(c) \/ NoClient(c) \/ FetchGone(c) \/ FindsNone(c) \/ FindsMany(c)
           \/ ChangeGone(c) \/ RequestFails(c)
  <2>1. /\ pc[c] # "idle" /\ UNCHANGED <<vault, session, call, overlapped>>
        /\ \E r \in {Ok, NotFound, Error} : Reply(c, r)
    BY <1>1 DEF GetMetadata, NoClient, FetchGone, FindsNone, FindsMany, ChangeGone,
                RequestFails, Complete
  <2> QED
    BY <2>1, <1>a, ReplyTypes, ReplyTypeInv
<1>2. CASE NewClient(c) \/ NewClientWrongToken(c)
  BY <1>2 DEF NewClient, NewClientWrongToken, TypeInv, TypeOK, StepOfCall
<1>3. CASE List(c)
  BY <1>3, ListTypeInv
<1>4. CASE Fetch(c)
  BY <1>4, FetchTypeInv
<1>5. CASE Get(c)
  <2>1. PICK it \in Matching(c) : Reply(c, Found(it.data))
    BY <1>5 DEF Get
  <2>2. Found(it.data) \in Replies
    BY <2>1, MatchingType, ReplyTypes
  <2> QED
    BY <1>5, <1>a, <2>1, <2>2, ReplyTypeInv DEF Get, Complete
<1>6. CASE Keys(c)
  <2>1. Titles(c) \in SUBSET Key
    BY DEF Titles, Fetched, TypeInv, TypeOK
  <2>2. PICK r \in {Listing(Titles(c)), Error} : Reply(c, r)
    BY <1>6 DEF Keys
  <2> QED
    BY <1>6, <1>a, <2>1, <2>2, ReplyTypes, ReplyTypeInv DEF Keys, Complete
<1>7. CASE Create(c) \/ Put(c) \/ Delete(c)
  <2>1. Answered(c) /\ pc[c] = "fetch" /\ UNCHANGED <<session, call, overlapped>>
    BY <1>7 DEF Create, Put, Delete, Complete
  <2> QED
    BY <1>7, <2>1, AnsweredReply, ChangedVaultType, ReplyTypes, ReplyTypeInv
<1>8. CASE Return(c)
  BY <1>8, ReplyTypes, IdleIsNoCall DEF Return, Go, TypeInv, TypeOK, StepOfCall
<1> QED
  BY <1>1, <1>2, <1>3, <1>4, <1>5, <1>6, <1>7, <1>8 DEF Step

LEMMA NextTypeInv == TypeInv /\ [Next]_vars => TypeInv'
<1> SUFFICES ASSUME TypeInv, [Next]_vars PROVE TypeInv'
  OBVIOUS
<1>1. CASE UNCHANGED vars
  BY <1>1 DEF vars, TypeInv, TypeOK, StepOfCall
<1>2. ASSUME NEW c \in Client, Call(c) PROVE TypeInv'
  BY <1>2, CallTypeInv
<1>3. ASSUME NEW c \in Client, Step(c) PROVE TypeInv'
  BY <1>3, StepTypeInv
<1>4. ASSUME NEW i \in DOMAIN Personal, PersonDeletes(i) PROVE TypeInv'
  BY <1>4 DEF PersonDeletes, TypeInv, TypeOK, StepOfCall
<1> QED
  BY <1>1, <1>2, <1>3, <1>4 DEF Next

\* Every variable of the 1Password backends keeps its type: no method goes on with
\* an item, a listing or an overview that its call does not have
\* (opstandard.go:112-217, opconnect.go:196-310).
THEOREM Typing == Spec => []TypeOK
<1>1. TypeInv => TypeOK
  BY DEF TypeInv
<1> QED
  BY <1>1, InitTypeInv, NextTypeInv, PTL DEF Spec

-----------------------------------------------------------------------------
\* A step in which no call gets anything.
LEMMA NothingGot ==
  ASSUME TypeInv, NEW c \in Client,
         \/ Call(c) \/ GetMetadata(c) \/ NewClient(c) \/ NewClientWrongToken(c) \/ NoClient(c)
         \/ FetchGone(c) \/ FindsNone(c) \/ FindsMany(c) \/ Get(c) \/ Keys(c)
         \/ Create(c) \/ Put(c) \/ Delete(c) \/ ChangeGone(c) \/ RequestFails(c) \/ Return(c)
  PROVE  \A d \in Client : todo'[d] \subseteq todo[d] /\ got'[d] \subseteq got[d]
<1>1. (\E r : Reply(c, r)) \/ UNCHANGED <<todo, got>>
  BY AnsweredReply DEF Call, GetMetadata, NewClient, NewClientWrongToken, NoClient,
         FetchGone, FindsNone, FindsMany, Get, Keys, Create, Put, Delete, ChangeGone,
         RequestFails, Return
<1> QED
  BY <1>1 DEF Reply, TypeInv, TypeOK

LEMMA NextPersonalInv ==
  ASSUME TypeInv, PersonalInv, [Next]_vars
  PROVE  /\ PersonalInv'
         /\ \A i \in DOMAIN Personal : vault'[i] = vault[i] \/ PersonDeletes(i)
<1> DEFINE Untouched == \A i \in DOMAIN Personal : vault'[i] = vault[i]
<1>1. CASE UNCHANGED vars
  BY <1>1 DEF vars, PersonalInv
<1>2. ASSUME NEW c \in Client,
             \/ Call(c) \/ GetMetadata(c) \/ NewClient(c) \/ NewClientWrongToken(c)
             \/ NoClient(c) \/ FetchGone(c) \/ FindsNone(c) \/ FindsMany(c) \/ Get(c) \/ Keys(c)
             \/ ChangeGone(c) \/ RequestFails(c) \/ Return(c)
      PROVE  PersonalInv' /\ Untouched
  <2>1. UNCHANGED vault
    BY <1>2 DEF Call, GetMetadata, NewClient, NewClientWrongToken, NoClient, FetchGone,
                FindsNone, FindsMany, Get, Keys, ChangeGone, RequestFails, Return
  <2> QED
    BY <1>2, <2>1, NothingGot DEF PersonalInv
<1>3. ASSUME NEW c \in Client, List(c) PROVE PersonalInv' /\ Untouched
  <2>1. /\ UNCHANGED vault
        /\ todo' = [todo EXCEPT ![c] = Overviews(c)] /\ got' = [got EXCEPT ![c] = {}]
    BY <1>3 DEF List
  <2>2. \A i \in Overviews(c) \cap DOMAIN Personal : Personal[i].tagged
    BY DEF Overviews, Listed, Present, PersonalInv
  <2> QED
    BY <2>1, <2>2 DEF PersonalInv, TypeInv, TypeOK
<1>4. ASSUME NEW c \in Client, Fetch(c) PROVE PersonalInv' /\ Untouched
  <2>1. PICK i \in todo[c] :
          /\ vault[i] # Gone
          /\ todo' = [todo EXCEPT ![c] = @ \ {i}]
          /\ got' = [got EXCEPT ![c] = IF FieldsMatch(vault[i])
                       THEN @ \cup {[id |-> i, key |-> vault[i].key, data |-> vault[i].data]}
                       ELSE @]
    BY <1>4 DEF Fetch
  <2>2. UNCHANGED vault
    BY <1>4 DEF Fetch
  <2>3. FieldsMatch(vault[i]) => i \notin DOMAIN Personal
    BY <2>1, OPAssumption DEF FieldsMatch, PersonalInv, IsKeyringItem
  <2> QED
    BY <2>1, <2>2, <2>3 DEF PersonalInv, TypeInv, TypeOK
<1>5. ASSUME NEW c \in Client, Create(c) \/ Put(c) \/ Delete(c)
      PROVE  PersonalInv' /\ Untouched
  <2>1. PICK i \in ItemId \ DOMAIN Personal : \A j \in ItemId \ {i} : vault'[j] = vault[j]
    <3>1. CASE Create(c)
      BY <3>1 DEF Create, FirstFree, Known, TypeInv, TypeOK
    <3>2. CASE Put(c) \/ Delete(c)
      <4>1. PICK it \in Matching(c) : \A j \in ItemId \ {it.id} : vault'[j] = vault[j]
        BY <3>2 DEF Put, Delete, TypeInv, TypeOK
      <4> QED
        BY <4>1, MatchingType DEF PersonalInv
    <3> QED
      BY <1>5, <3>1, <3>2
  <2>2. Untouched
    BY <2>1, OPAssumption
  <2> QED
    BY <1>5, <2>2, NothingGot DEF PersonalInv
<1>6. ASSUME NEW i \in DOMAIN Personal, PersonDeletes(i)
      PROVE  PersonalInv' /\ \A j \in DOMAIN Personal \ {i} : vault'[j] = vault[j]
  BY <1>6, OPAssumption DEF PersonDeletes, PersonalInv, TypeInv, TypeOK
<1>7. CASE Untouched /\ PersonalInv'
  BY <1>7
<1>8. CASE \E i \in DOMAIN Personal : PersonDeletes(i)
  BY <1>6, <1>8
<1> QED
  BY <1>1, <1>2, <1>3, <1>4, <1>5, <1>7, <1>8 DEF Next, Step, vars

\* No call of any client changes or deletes an item of the person's, whatever their
\* titles and fields are, as long as they are not those of a keyring item
\* (opstandard.go:78-110, opconnect.go:164-194).
THEOREM PersonalUntouchedHolds == Spec => PersonalUntouched
<1>1. Init => PersonalInv
  BY OPAssumption DEF Init, PersonalInv
<1>2. TypeInv /\ PersonalInv /\ [Next]_vars => (TypeInv /\ PersonalInv)'
  BY NextTypeInv, NextPersonalInv
<1>3. TypeInv /\ PersonalInv /\ [Next]_vars
        => [\A i \in DOMAIN Personal : vault'[i] = vault[i] \/ PersonDeletes(i)]_vars
  BY NextPersonalInv
<1> QED
  BY <1>1, <1>2, <1>3, InitTypeInv, PTL DEF Spec, PersonalUntouched

-----------------------------------------------------------------------------
\* A step that makes no keyring item and takes no client past its listing.
LEMMA QuietStep ==
  ASSUME TypeInv, TitleInv, NEW c \in Client,
         \A k \in Key : IdsOf(k)' \subseteq IdsOf(k),
         \A d \in Client : call'[d] \in {call[d], Idle},
         \A d \in Client \ {c} : pc'[d] = pc[d] /\ todo'[d] = todo[d] /\ got'[d] = got[d],
         pc'[c] # "fetch" \/ (pc[c] = "fetch" /\ UNCHANGED <<call, todo, got>>),
         UNCHANGED overlapped
  PROVE  TitleInv'
<1> SUFFICES ASSUME NEW k \in Key \ overlapped
             PROVE  OneItem(k)' /\ OneSet(k)' /\ SetKnows(k)'
  BY DEF TitleInv
<1>1. \A d \in Client : IsSetOf(call'[d], k) => call'[d] = call[d]
  BY IdleIsNoCall DEF IsSetOf
<1>2. OneItem(k)'
  BY DEF TitleInv, OneItem
<1>3. OneSet(k)'
  BY <1>1 DEF TitleInv, OneSet
<1>4. SetKnows(k)'
  BY <1>1 DEF TitleInv, SetKnows, Matching
<1> QED
  BY <1>2, <1>3, <1>4

\* A vault that only loses items, or the data of them, has no new keyring item.
LEMMA SameOrGone ==
  ASSUME TypeInv, \A i \in ItemId : \/ vault'[i] = vault[i]
                                    \/ vault'[i] = Gone
                                    \/ /\ vault[i] # Gone
                                       /\ vault'[i].key = vault[i].key
                                       /\ vault'[i].tagged = vault[i].tagged
                                       /\ vault'[i].shaped = vault[i].shaped
  PROVE  \A k \in Key : IdsOf(k)' \subseteq IdsOf(k)
  BY DEF IdsOf, KeyringIds, Present, IsKeyringItem

LEMMA NextTitleInv == ASSUME TypeInv, TitleInv, [Next]_vars PROVE TitleInv'
<1>1. CASE UNCHANGED vars
  BY <1>1 DEF vars, TitleInv, OneItem, OneSet, SetKnows, Matching, IdsOf, KeyringIds, Present
<1>2. ASSUME NEW c \in Client, Call(c) PROVE TitleInv'
  <2>1. PICK cl \in Calls :
          /\ call' = [call EXCEPT ![c] = cl]
          /\ overlapped' = overlapped \cup {k \in Key : IsSetOf(cl, k) /\ SetPending(k)}
          /\ Go(c, IF cl.op = "GetMetadata" THEN "metadata" ELSE "list")
    BY <1>2 DEF Call
  <2> SUFFICES ASSUME NEW k \in Key \ overlapped'
               PROVE  OneItem(k)' /\ OneSet(k)' /\ SetKnows(k)'
    BY DEF TitleInv
  <2>2. k \in Key \ overlapped /\ (IsSetOf(cl, k) => ~SetPending(k))
    BY <2>1
  <2>3. OneItem(k)'
    BY <1>2, <2>2 DEF Call, TitleInv, OneItem, IdsOf, KeyringIds, Present
  <2>4. OneSet(k)'
    BY <2>1, <2>2 DEF TitleInv, OneSet, SetPending, TypeInv, TypeOK
  <2>5. SetKnows(k)'
    <3> SUFFICES ASSUME NEW d \in Client, IsSetOf(call'[d], k), pc'[d] = "fetch",
                        NEW i \in IdsOf(k)'
                 PROVE  i \in todo'[d] \/ \E it \in Matching(d)' : it.id = i
      BY DEF SetKnows
    <3>1. d # c /\ call'[d] = call[d] /\ pc[d] = "fetch"
      BY <2>1 DEF Go, TypeInv, TypeOK
    <3>2. i \in IdsOf(k) /\ UNCHANGED <<todo, got>>
      BY <1>2 DEF Call, IdsOf, KeyringIds, Present
    <3> QED
      BY <2>2, <3>1, <3>2 DEF TitleInv, SetKnows, Matching
  <2> QED
    BY <2>3, <2>4, <2>5
<1>3. ASSUME NEW c \in Client,
             \/ GetMetadata(c) \/ NoClient(c) \/ FetchGone(c) \/ FindsNone(c) \/ FindsMany(c)
             \/ Get(c) \/ Keys(c) \/ Put(c) \/ Delete(c) \/ ChangeGone(c) \/ RequestFails(c)
      PROVE  TitleInv'
  <2>1. (\E r : Reply(c, r)) /\ UNCHANGED <<call, overlapped>>
    BY <1>3, AnsweredReply DEF GetMetadata, NoClient, FetchGone, FindsNone, FindsMany, Get,
       Keys, Put, Delete, ChangeGone, RequestFails
  <2>2. \A k \in Key : IdsOf(k)' \subseteq IdsOf(k)
    <3>1. CASE UNCHANGED vault
      BY <3>1, SameOrGone
    <3>2. CASE Put(c)
      <4>1. PICK it \in Matching(c) :
              vault[it.id] # Gone /\ vault' = [vault EXCEPT ![it.id].data = call[c].data]
        BY <3>2 DEF Put
      <4>2. it.id \in ItemId /\ vault[it.id] \in ItemRecord
        BY <4>1, MatchingType DEF TypeInv, TypeOK
      <4>3. /\ vault'[it.id].key = vault[it.id].key
            /\ vault'[it.id].tagged = vault[it.id].tagged
            /\ vault'[it.id].shaped = vault[it.id].shaped
        BY <4>1, <4>2 DEF ItemRecord, TypeInv, TypeOK
      <4> QED
        BY <4>1, <4>2, <4>3, SameOrGone DEF TypeInv, TypeOK
    <3>3. CASE Delete(c)
      BY <3>3, SameOrGone DEF Delete, TypeInv, TypeOK
    <3> QED
      BY <1>3, <3>1, <3>2, <3>3 DEF GetMetadata, NoClient, FetchGone, FindsNone, FindsMany,
         Get, Keys, ChangeGone, RequestFails
  <2> QED
    BY <2>1, <2>2, QuietStep DEF Reply, Go, TypeInv, TypeOK
<1>4. ASSUME NEW c \in Client, NewClient(c) \/ NewClientWrongToken(c) PROVE TitleInv'
  BY <1>4, SameOrGone, QuietStep DEF NewClient, NewClientWrongToken
<1>5. ASSUME NEW c \in Client, Return(c) PROVE TitleInv'
  BY <1>5, SameOrGone, QuietStep DEF Return, Go, TypeInv, TypeOK
<1>6. ASSUME NEW i \in DOMAIN Personal, PersonDeletes(i) PROVE TitleInv'
  <2>1. \A k \in Key : IdsOf(k)' \subseteq IdsOf(k)
    BY <1>6, OPAssumption, SameOrGone DEF PersonDeletes, TypeInv, TypeOK
  <2> QED
    BY <1>6, <2>1 DEF PersonDeletes, TitleInv, OneItem, OneSet, SetKnows, Matching
<1>7. ASSUME NEW c \in Client, List(c) PROVE TitleInv'
  <2> SUFFICES ASSUME NEW k \in Key \ overlapped
               PROVE  OneItem(k)' /\ OneSet(k)' /\ SetKnows(k)'
    BY <1>7 DEF List, TitleInv
  <2>1. OneItem(k)' /\ OneSet(k)'
    BY <1>7 DEF List, TitleInv, OneItem, OneSet, IdsOf, KeyringIds, Present
  <2>2. IsSetOf(call[c], k) => IdsOf(k) \subseteq Overviews(c)
    BY DEF IsSetOf, IdsOf, KeyringIds, IsKeyringItem, Overviews, Listed
  <2>3. SetKnows(k)'
    <3> SUFFICES ASSUME NEW d \in Client, IsSetOf(call[d], k), pc'[d] = "fetch",
                        NEW i \in IdsOf(k)
                 PROVE  i \in todo'[d] \/ \E it \in Matching(d)' : it.id = i
      BY <1>7 DEF List, SetKnows, IdsOf, KeyringIds, Present
    <3>1. CASE d = c
      BY <1>7, <2>2, <3>1 DEF List, TypeInv, TypeOK
    <3>2. CASE d # c
      BY <1>7, <3>2 DEF List, Go, TitleInv, SetKnows, Matching, TypeInv, TypeOK
    <3> QED
      BY <3>1, <3>2
  <2> QED
    BY <2>1, <2>3
<1>8. ASSUME NEW c \in Client, Fetch(c) PROVE TitleInv'
  <2>1. PICK i \in todo[c] :
          /\ todo' = [todo EXCEPT ![c] = @ \ {i}]
          /\ got' = [got EXCEPT ![c] = IF FieldsMatch(vault[i])
                       THEN @ \cup {[id |-> i, key |-> vault[i].key, data |-> vault[i].data]}
                       ELSE @]
    BY <1>8 DEF Fetch
  <2> SUFFICES ASSUME NEW k \in Key \ overlapped
               PROVE  OneItem(k)' /\ OneSet(k)' /\ SetKnows(k)'
    BY <1>8 DEF Fetch, TitleInv
  <2>2. OneItem(k)' /\ OneSet(k)'
    BY <1>8 DEF Fetch, TitleInv, OneItem, OneSet, IdsOf, KeyringIds, Present
  <2>3. i \in IdsOf(k) /\ IsSetOf(call[c], k) => \E it \in Matching(c)' : it.id = i
    <3> SUFFICES ASSUME i \in IdsOf(k), IsSetOf(call[c], k)
                 PROVE  \E it \in Matching(c)' : it.id = i
      OBVIOUS
    <3> DEFINE new == [id |-> i, key |-> vault[i].key, data |-> vault[i].data]
    <3>1. FieldsMatch(vault[i]) /\ vault[i].key = k /\ call[c].key = k
      BY DEF FieldsMatch, IdsOf, KeyringIds, IsKeyringItem, IsSetOf
    <3>2. new \in got'[c] /\ UNCHANGED call
      BY <1>8, <2>1, <3>1 DEF Fetch, TypeInv, TypeOK
    <3> QED
      BY <3>1, <3>2 DEF Matching
  <2>4. \A d \in Client : Matching(d) \subseteq Matching(d)'
    BY <1>8, <2>1 DEF Fetch, Matching, TypeInv, TypeOK
  <2>5. SetKnows(k)'
    <3> SUFFICES ASSUME NEW d \in Client, IsSetOf(call[d], k), pc[d] = "fetch",
                        NEW j \in IdsOf(k)
                 PROVE  j \in todo'[d] \/ \E it \in Matching(d)' : it.id = j
      BY <1>8 DEF Fetch, SetKnows, IdsOf, KeyringIds, Present
    <3>1. j \in todo[d] \/ \E it \in Matching(d) : it.id = j
      BY DEF TitleInv, SetKnows
    <3> QED
      BY <2>1, <2>3, <2>4, <3>1 DEF TypeInv, TypeOK
  <2> QED
    BY <2>2, <2>5
<1>9. ASSUME NEW c \in Client, Create(c) PROVE TitleInv'
  <2>1. PICK n \in ItemId :
          vault[n] = Gone /\ vault' = [vault EXCEPT ![n] = NewItem(call[c].key, call[c].data)]
    BY <1>9 DEF Create, FirstFree, Known, Present
  <2>2. /\ pc[c] = "fetch" /\ call[c].op = "Set" /\ todo[c] = {} /\ Matching(c) = {}
        /\ \E r : Reply(c, r)
        /\ UNCHANGED <<call, overlapped>>
    BY <1>9, AnsweredReply DEF Create, Complete
  <2>3. /\ vault'[n] = NewItem(call[c].key, call[c].data) /\ vault'[n] # Gone
        /\ \A i \in ItemId \ {n} : vault'[i] = vault[i]
    <3>1. NewItem(call[c].key, call[c].data) \in ItemRecord
      BY <2>2, KeyedCall DEF NewItem, ItemRecord
    <3> QED
      BY <2>1, <3>1, OPAssumption DEF TypeInv, TypeOK
  <2> SUFFICES ASSUME NEW k \in Key \ overlapped
               PROVE  OneItem(k)' /\ OneSet(k)' /\ SetKnows(k)'
    BY <2>2 DEF TitleInv
  <2>4. OneSet(k)'
    BY <2>2 DEF TitleInv, OneSet
  <2>5. CASE call[c].key = k
    <3>1. IsSetOf(call[c], k)
      BY <2>2, <2>5 DEF IsSetOf
    <3>2. IdsOf(k) = {}
      BY <2>2, <3>1 DEF TitleInv, SetKnows
    <3>3. IdsOf(k)' \subseteq {n}
      BY <2>3, <3>2 DEF IdsOf, KeyringIds, Present
    <3>4. \A d \in Client : IsSetOf(call'[d], k) => pc'[d] # "fetch"
      BY <2>2, <3>1 DEF Reply, Go, TitleInv, OneSet, TypeInv, TypeOK
    <3> QED
      BY <2>4, <3>3, <3>4 DEF OneItem, SetKnows
  <2>6. CASE call[c].key # k
    <3>1. IdsOf(k)' \subseteq IdsOf(k)
      BY <2>3, <2>6 DEF IdsOf, KeyringIds, Present, NewItem
    <3>2. \A d \in Client : IsSetOf(call[d], k)
             => d # c /\ pc'[d] = pc[d] /\ todo'[d] = todo[d] /\ Matching(d)' = Matching(d)
      BY <2>2, <2>6 DEF IsSetOf, Reply, Go, Matching, TypeInv, TypeOK
    <3> QED
      BY <2>2, <2>4, <3>1, <3>2 DEF TitleInv, OneItem, SetKnows
  <2> QED
    BY <2>5, <2>6
<1> QED
  BY <1>1, <1>2, <1>3, <1>4, <1>5, <1>6, <1>7, <1>8, <1>9 DEF Next, Step

LEMMA OneOrNone == ASSUME NEW S, \A i, j \in S : i = j PROVE Cardinality(S) <= 1
<1>1. CASE S = {}
  BY <1>1, FS_EmptySet
<1>2. CASE S # {}
  <2>1. PICK x \in S : S = {x}
    BY <1>2
  <2> QED
    BY <2>1, FS_Singleton
<1> QED
  BY <1>1, <1>2

\* For any number of clients of either kind, one title has one keyring item unless
\* two Sets of that key were under way together, whatever fails, times out, is
\* repeated or is deleted in between (opstandard.go:136-173, opconnect.go:235-290).
THEOREM OneItemHolds == Spec => []OneItemUnlessOverlap
<1>1. Init => TitleInv
  BY OPAssumption
     DEF Init, TitleInv, OneItem, OneSet, SetKnows, IdsOf, KeyringIds, Present, IsSetOf, Idle
<1>2. TitleInv => OneItemUnlessOverlap
  BY OneOrNone DEF TitleInv, OneItem, OneItemUnlessOverlap
<1>3. TypeInv /\ TitleInv /\ [Next]_vars => (TypeInv /\ TitleInv)'
  BY NextTypeInv, NextTitleInv
<1> QED
  BY <1>1, <1>2, <1>3, InitTypeInv, PTL DEF Spec

-----------------------------------------------------------------------------
(***************************************************************************)
(* The vault as a keyring.  What a call will answer is settled, while its  *)
(* requests go on, by what it has found: FoundInv says how that shows.     *)
(***************************************************************************)

\* "no item" and "damaged" stand for what Get does not answer.
DataApart == "no item" \notin Data /\ "damaged" \notin Data

NoStep == UNCHANGED <<Stored, call, DueNow>>

\* The ids a call knows of are those of the same items, or of none.
Kept(c) ==
  /\ \A i \in todo[c] : vault[i] = Gone \/ vault[i].tagged
  /\ \A it \in got[c] : vault[it.id] = Gone \/ it.id \in IdsOf(it.key)

\* A Keys that will not fail has got, or will get, the titles it has listed.
Tallied(c) ==
  \/ \E i \in todo[c] : vault[i] = Gone
  \/ seen[c] = Listing(Titles(c) \cup {vault[i].key : i \in todo[c] \cap KeyringIds})

\* A Get or Remove that will not fail has its item, or will get it, if it listed one.
Searched(c) ==
  LET k == call[c].key
      ahead == todo[c] \cap IdsOf(k)
  IN  /\ seen[c] = NotFound => Matching(c) = {} /\ ahead = {}
      /\ seen[c] # NotFound => \/ Matching(c) # {} \/ ahead # {}
                               \/ \E i \in todo[c] : vault[i] = Gone
      /\ Matching(c) # {} => ahead = {}
      /\ call[c].op = "Get" => \A it \in Matching(c) : seen[c] = Found(it.data)
      /\ call[c].op = "Remove" => seen[c] \in {NotFound, Error}

FoundInv ==
  \A c \in Client : pc[c] = "fetch" =>
    /\ Kept(c)
    /\ call[c].op = "Keys" => Tallied(c)
    /\ overlapped = {} /\ call[c].op \in {"Get", "Remove"} => Searched(c)

\* The vault has, under an id, the same item with other data at most, or none any more.
Evolves(i) ==
  \/ vault'[i] = Gone
  \/ /\ vault[i] # Gone /\ vault'[i] # Gone
     /\ vault'[i].key = vault[i].key
     /\ vault'[i].tagged = vault[i].tagged /\ vault'[i].shaped = vault[i].shaped

\* An id that a call knows of is given to no other item.
LEMMA KnownIds ==
  ASSUME TypeInv, [Next]_vars
  PROVE  \A i \in ItemId \cap Known : Evolves(i)
<1>1. CASE UNCHANGED vault
  BY <1>1 DEF Evolves
<1>2. ASSUME NEW c \in Client, Create(c) PROVE \A i \in ItemId \cap Known : Evolves(i)
  <2>1. PICK n \in ItemId :
          FirstFree(n) /\ vault' = [vault EXCEPT ![n] = NewItem(call[c].key, call[c].data)]
    BY <1>2 DEF Create
  <2>2. n \notin Known
    BY <2>1 DEF FirstFree
  <2> QED
    BY <2>1, <2>2 DEF Evolves, TypeInv, TypeOK
<1>3. ASSUME NEW c \in Client, Put(c) PROVE \A i \in ItemId : Evolves(i)
  <2>1. PICK it \in Matching(c) :
          vault[it.id] # Gone /\ vault' = [vault EXCEPT ![it.id].data = call[c].data]
    BY <1>3 DEF Put
  <2>2. it.id \in ItemId /\ vault[it.id] \in ItemRecord
    BY <2>1, MatchingType DEF TypeInv, TypeOK
  <2>3. call[c].data \in Data
    BY <1>3, KeyedCall DEF Put, Complete
  <2>4. vault'[it.id] \in ItemRecord /\ vault'[it.id] # Gone
    BY <2>1, <2>2, <2>3, OPAssumption DEF ItemRecord, TypeInv, TypeOK
  <2>5. /\ vault'[it.id].key = vault[it.id].key
        /\ vault'[it.id].tagged = vault[it.id].tagged
        /\ vault'[it.id].shaped = vault[it.id].shaped
    BY <2>1, <2>2 DEF ItemRecord, TypeInv, TypeOK
  <2>6. \A i \in ItemId \ {it.id} : vault'[i] = vault[i]
    BY <2>1, <2>2 DEF TypeInv, TypeOK
  <2> QED
    BY <2>1, <2>4, <2>5, <2>6 DEF Evolves
<1>4. ASSUME NEW c \in Client, Delete(c) PROVE \A i \in ItemId : Evolves(i)
  BY <1>4 DEF Delete, Evolves, TypeInv, TypeOK
<1>5. ASSUME NEW j \in DOMAIN Personal, PersonDeletes(j) PROVE \A i \in ItemId : Evolves(i)
  BY <1>5 DEF PersonDeletes, Evolves, TypeInv, TypeOK
<1>6. ASSUME NEW c \in Client, Call(c) \/ Step(c)
      PROVE  UNCHANGED vault \/ Create(c) \/ Put(c) \/ Delete(c)
  BY <1>6 DEF Step, Call, GetMetadata, NewClient, NewClientWrongToken, NoClient, List, FetchGone,
     Fetch, FindsNone, FindsMany, Get, Keys, ChangeGone, RequestFails, Return
<1> QED
  BY <1>1, <1>2, <1>3, <1>4, <1>5, <1>6 DEF Next, vars

\* What a client knows of the vault stays true while others change it.
LEMMA Watched ==
  ASSUME TypeInv, FoundInv, NEW c \in Client,
         pc'[c] = pc[c], call'[c] = call[c], todo'[c] = todo[c], got'[c] = got[c],
         seen'[c] = seen[c], overlapped' = {} => overlapped = {},
         \A i \in ItemId \cap Known : Evolves(i), pc[c] = "fetch"
  PROVE  /\ Kept(c)'
         /\ call'[c].op = "Keys" => Tallied(c)'
         /\ overlapped' = {} /\ call'[c].op \in {"Get", "Remove"} => Searched(c)'
<1>1. /\ todo[c] \subseteq ItemId /\ \A i \in todo[c] : Evolves(i)
      /\ \A it \in got[c] : it.id \in ItemId /\ Evolves(it.id)
  BY DEF Known, Fetched, TypeInv, TypeOK
<1>2. /\ \A i \in todo[c] : vault[i] = Gone => vault'[i] = Gone
      /\ \A i \in todo[c], k \in Key : i \in IdsOf(k)' => i \in IdsOf(k)
      /\ \A i \in todo[c], k \in Key : i \in IdsOf(k) => i \in IdsOf(k)' \/ vault'[i] = Gone
  BY <1>1 DEF Evolves, IdsOf, KeyringIds, Present, IsKeyringItem
<1>3. Matching(c)' = Matching(c) /\ Titles(c)' = Titles(c)
  BY DEF Matching, Titles
<1>4. Kept(c)'
  BY <1>1 DEF FoundInv, Kept, Evolves, IdsOf, KeyringIds, Present, IsKeyringItem
<1>5. ASSUME call[c].op = "Keys" PROVE Tallied(c)'
  <2>1. CASE \E i \in todo[c] : vault'[i] = Gone
    BY <2>1 DEF Tallied
  <2>2. CASE ~\E i \in todo[c] : vault'[i] = Gone
    <3>1. \A i \in todo[c] : /\ vault'[i].key = vault[i].key
                             /\ i \in KeyringIds' <=> i \in KeyringIds
      BY <1>1, <2>2 DEF Evolves, KeyringIds, Present, IsKeyringItem
    <3>2. {vault'[i].key : i \in todo[c] \cap KeyringIds'}
            = {vault[i].key : i \in todo[c] \cap KeyringIds}
      BY <3>1
    <3>3. seen[c] = Listing(Titles(c) \cup {vault[i].key : i \in todo[c] \cap KeyringIds})
      BY <1>2, <1>5, <2>2 DEF FoundInv, Tallied
    <3> QED
      BY <1>3, <3>2, <3>3 DEF Tallied
  <2> QED
    BY <2>1, <2>2
<1>6. ASSUME overlapped' = {}, call[c].op \in {"Get", "Remove"} PROVE Searched(c)'
  <2>1. call[c].key \in Key
    BY <1>6, KeyedCall
  <2>2. Searched(c)
    BY <1>6 DEF FoundInv
  <2> QED
    BY <1>2, <1>3, <2>1, <2>2 DEF Searched
<1> QED
  BY <1>4, <1>5, <1>6

LEMMA ListFinds ==
  ASSUME TypeInv, NEW c \in Client, List(c)
  PROVE  /\ Kept(c)'
         /\ call'[c].op = "Keys" => Tallied(c)'
         /\ call'[c].op \in {"Get", "Remove"} => Searched(c)'
<1>1. /\ todo'[c] = Overviews(c) /\ got'[c] = {} /\ UNCHANGED <<vault, call>>
      /\ seen'[c] = CASE call[c].op = "Keys" -> Listing({vault[i].key : i \in KeyringIds})
                      [] call[c].op # "Keys" /\ IdsOf(call[c].key) = {} -> NotFound
                      [] OTHER -> Error
  BY DEF List, TypeInv, TypeOK
<1>2. \A k : IdsOf(k)' = IdsOf(k)
  BY <1>1 DEF IdsOf, KeyringIds, Present
<1>3. KeyringIds' = KeyringIds /\ Matching(c)' = {} /\ Titles(c)' = {}
  BY <1>1 DEF KeyringIds, Present, Matching, Titles
<1>4. Kept(c)'
  BY <1>1 DEF Kept, Overviews
<1>5. ASSUME call[c].op = "Keys" PROVE Tallied(c)'
  <2>1. KeyringIds \subseteq Overviews(c)
    BY <1>5 DEF KeyringIds, IsKeyringItem, Overviews, Listed
  <2>2. {vault[i].key : i \in Overviews(c) \cap KeyringIds} = {vault[i].key : i \in KeyringIds}
    BY <2>1
  <2>3. seen'[c] = Listing({vault[i].key : i \in KeyringIds})
    BY <1>1, <1>5
  <2>4. {} \cup {vault[i].key : i \in KeyringIds} = {vault[i].key : i \in KeyringIds}
    OBVIOUS
  <2> QED
    BY <1>1, <1>3, <2>2, <2>3, <2>4 DEF Tallied
<1>6. ASSUME call[c].op \in {"Get", "Remove"} PROVE Searched(c)'
  <2>1. IdsOf(call[c].key) \subseteq Overviews(c)
    BY DEF IdsOf, KeyringIds, IsKeyringItem, Overviews, Listed
  <2>2. seen'[c] = IF IdsOf(call[c].key) = {} THEN NotFound ELSE Error
    BY <1>1, <1>6
  <2>3. Error # NotFound
    BY DEF Error, NotFound
  <2> QED
    BY <1>1, <1>2, <1>3, <2>1, <2>2, <2>3 DEF Searched
<1> QED
  BY <1>1, <1>4, <1>5, <1>6

LEMMA FetchFinds ==
  ASSUME TypeInv, TitleInv, FoundInv, NEW c \in Client, Fetch(c)
  PROVE  /\ Kept(c)'
         /\ call'[c].op = "Keys" => Tallied(c)'
         /\ overlapped' = {} /\ call'[c].op \in {"Get", "Remove"} => Searched(c)'
<1>1. PICK i \in todo[c] :
        /\ vault[i] # Gone
        /\ todo' = [todo EXCEPT ![c] = @ \ {i}]
        /\ got' = [got EXCEPT ![c] = IF FieldsMatch(vault[i])
                     THEN @ \cup {[id |-> i, key |-> vault[i].key, data |-> vault[i].data]}
                     ELSE @]
        /\ seen' = [seen EXCEPT ![c] =
                      IF call[c].op = "Get" /\ IdsOf(call[c].key) = {i}
                      THEN Found(vault[i].data) ELSE @]
  BY DEF Fetch
<1> DEFINE new == [id |-> i, key |-> vault[i].key, data |-> vault[i].data]
<1>2. /\ todo'[c] = todo[c] \ {i} /\ i \in ItemId
      /\ got'[c] = IF FieldsMatch(vault[i]) THEN got[c] \cup {new} ELSE got[c]
      /\ seen'[c] = IF call[c].op = "Get" /\ IdsOf(call[c].key) = {i}
                    THEN Found(vault[i].data) ELSE seen[c]
  BY <1>1 DEF TypeInv, TypeOK
<1>3. pc[c] = "fetch" /\ UNCHANGED <<vault, call, overlapped>> /\ Kept(c)
  BY DEF Fetch, FoundInv
<1>4. KeyringIds' = KeyringIds /\ \A k : IdsOf(k)' = IdsOf(k)
  BY <1>3 DEF IdsOf, KeyringIds, Present
<1>5. FieldsMatch(vault[i]) <=> i \in KeyringIds
  BY <1>1, <1>2, <1>3 DEF Kept, FieldsMatch, KeyringIds, Present, IsKeyringItem
<1>6. Kept(c)'
  BY <1>1, <1>2, <1>3, <1>4, <1>5 DEF Kept, IdsOf
<1>7. ASSUME call[c].op = "Keys" PROVE Tallied(c)'
  <2>1. CASE \E j \in todo[c] : vault[j] = Gone
    BY <1>1, <1>2, <1>3, <2>1 DEF Tallied
  <2>2. CASE ~\E j \in todo[c] : vault[j] = Gone
    <3>1. seen[c] = Listing(Titles(c) \cup {vault[j].key : j \in todo[c] \cap KeyringIds})
      BY <1>3, <1>7, <2>2 DEF FoundInv, Tallied
    <3>2. seen'[c] = seen[c]
      BY <1>2, <1>7
    <3>3. Titles(c) \cup {vault[j].key : j \in todo[c] \cap KeyringIds}
            = Titles(c)' \cup {vault'[j].key : j \in todo'[c] \cap KeyringIds'}
      <4>1. CASE i \in KeyringIds
        <5>1. got'[c] = got[c] \cup {new} /\ new.key = vault[i].key
          BY <1>2, <1>5, <4>1
        <5>2. Titles(c)' = Titles(c) \cup {vault[i].key}
          BY <5>1 DEF Titles
        <5>3. todo[c] \cap KeyringIds = (todo'[c] \cap KeyringIds') \cup {i}
          BY <1>2, <1>4, <4>1
        <5> QED
          BY <1>3, <5>2, <5>3
      <4>2. CASE i \notin KeyringIds
        <5>1. Titles(c)' = Titles(c)
          BY <1>2, <1>5, <4>2 DEF Titles
        <5>2. todo[c] \cap KeyringIds = todo'[c] \cap KeyringIds'
          BY <1>2, <1>4, <4>2
        <5> QED
          BY <1>3, <5>1, <5>2
      <4> QED
        BY <4>1, <4>2
    <3> QED
      BY <3>1, <3>2, <3>3 DEF Tallied
  <2> QED
    BY <2>1, <2>2
<1>8. ASSUME overlapped = {}, call[c].op \in {"Get", "Remove"} PROVE Searched(c)'
  <2> DEFINE k == call[c].key
             ahead == todo[c] \cap IdsOf(k)
  <2>1. Searched(c) /\ OneItem(k)
    BY <1>3, <1>8, KeyedCall DEF FoundInv, TitleInv
  <2>2. CASE i \in IdsOf(k)
    <3>1. IdsOf(k) = {i} /\ i \in ahead
      BY <2>1, <2>2 DEF OneItem
    <3>2. Matching(c) = {} /\ seen[c] # NotFound
      BY <2>1, <3>1 DEF Searched
    <3>3. FieldsMatch(vault[i]) /\ new.key = k
      BY <1>5, <2>2 DEF IdsOf
    <3>4. Matching(c)' = {new} /\ todo'[c] \cap IdsOf(k)' = {}
      BY <1>2, <1>3, <1>4, <3>1, <3>2, <3>3 DEF Matching
    <3>5. seen'[c] = IF call[c].op = "Get" THEN Found(new.data) ELSE seen[c]
      BY <1>2, <3>1
    <3>6. Found(new.data) # NotFound
      BY DEF Found, NotFound
    <3>7. call[c].op = "Remove" => seen[c] \in {NotFound, Error}
      BY <2>1 DEF Searched
    <3> HIDE DEF new
    <3>8. call'[c] = call[c]
      BY <1>3
    <3> QED
      BY <1>8, <3>2, <3>4, <3>5, <3>6, <3>7, <3>8 DEF Searched
  <2>3. CASE i \notin IdsOf(k)
    <3>1. Matching(c)' = Matching(c)
      BY <1>2, <1>3, <1>5, <2>3 DEF Matching, IdsOf
    <3>2. todo'[c] \cap IdsOf(k)' = ahead
      BY <1>2, <1>3, <1>4, <2>3
    <3>3. seen'[c] = seen[c]
      BY <1>2, <2>3
    <3>4. (\E j \in todo[c] : vault[j] = Gone) => \E j \in todo'[c] : vault'[j] = Gone
      BY <1>1, <1>2, <1>3
    <3>5. call'[c].key = k /\ call'[c].op = call[c].op
      BY <1>3
    <3> QED
      BY <2>1, <3>1, <3>2, <3>3, <3>4, <3>5 DEF Searched
  <2> QED
    BY <2>2, <2>3
<1> QED
  BY <1>3, <1>6, <1>7, <1>8

\* What another client's step leaves alone.
LEMMA OthersStay ==
  ASSUME TypeInv, NEW c \in Client, Call(c) \/ Step(c), NEW d \in Client \ {c}
  PROVE  /\ pc'[d] = pc[d] /\ call'[d] = call[d] /\ todo'[d] = todo[d]
         /\ got'[d] = got[d] /\ seen'[d] = seen[d] /\ result'[d] = result[d]
<1>1. CASE \E r : Reply(c, r) /\ UNCHANGED call
  BY <1>1 DEF Reply, Go, TypeInv, TypeOK
<1>2. CASE Call(c) \/ NewClient(c) \/ NewClientWrongToken(c) \/ List(c) \/ Fetch(c) \/ Return(c)
  BY <1>2 DEF Call, NewClient, NewClientWrongToken, List, Fetch, Return, Go, TypeInv, TypeOK
<1> QED
  BY <1>1, <1>2, AnsweredReply DEF Step, GetMetadata, NoClient, FetchGone, FindsNone, FindsMany,
     Get, Keys, Create, Put, Delete, ChangeGone, RequestFails

\* A client that is fetching after its own step has listed or fetched.
LEMMA FetchingStep ==
  ASSUME TypeInv, NEW c \in Client, Call(c) \/ Step(c), pc'[c] = "fetch"
  PROVE  List(c) \/ Fetch(c)
<1>1. ASSUME NEW r, Reply(c, r) PROVE FALSE
  BY <1>1 DEF Reply, Go, TypeInv, TypeOK
<1>2. ~Call(c) /\ ~NewClient(c) /\ ~NewClientWrongToken(c) /\ ~Return(c)
  BY DEF Call, NewClient, NewClientWrongToken, Return, Go, TypeInv, TypeOK
<1> QED
  BY <1>1, <1>2, AnsweredReply DEF Step, GetMetadata, NoClient, FetchGone, FindsNone, FindsMany,
     Get, Keys, Create, Put, Delete, ChangeGone, RequestFails

\* That two Sets of a key have overlapped is not forgotten.
LEMMA OverlapStays == [Next]_vars /\ overlapped' = {} => overlapped = {}
<1>1. ASSUME NEW c, Call(c) PROVE overlapped \subseteq overlapped'
  BY <1>1 DEF Call
<1> QED
  BY <1>1 DEF Next, Step, vars, GetMetadata, NewClient, NewClientWrongToken, NoClient, List,
     FetchGone, Fetch, FindsNone, FindsMany, Get, Keys, Create, Put, Delete, ChangeGone,
     RequestFails, Return, PersonDeletes

LEMMA NextFoundInv == ASSUME TypeInv, TitleInv, FoundInv, [Next]_vars PROVE FoundInv'
<1> DEFINE Knows(d) == /\ Kept(d)
                       /\ call[d].op = "Keys" => Tallied(d)
                       /\ overlapped = {} /\ call[d].op \in {"Get", "Remove"} => Searched(d)
<1> SUFFICES ASSUME NEW d \in Client, pc'[d] = "fetch" PROVE Knows(d)'
  BY DEF FoundInv
<1>1. /\ \A i \in ItemId \cap Known : Evolves(i)
      /\ overlapped' = {} => overlapped = {}
  BY KnownIds, OverlapStays
<1>2. CASE /\ pc'[d] = pc[d] /\ call'[d] = call[d] /\ todo'[d] = todo[d]
           /\ got'[d] = got[d] /\ seen'[d] = seen[d]
  <2>1. pc[d] = "fetch"
    BY <1>2
  <2> QED
    BY <1>1, <1>2, <2>1, Watched
<1>3. CASE Call(d) \/ Step(d)
  BY <1>3, FetchingStep, ListFinds, FetchFinds
<1> QED
  BY <1>2, <1>3, OthersStay DEF Next, vars, PersonDeletes

-----------------------------------------------------------------------------
\* The contract speaks of calls and replies as the backend does.
LEMMA SameWords ==
  /\ C!Idle = Idle /\ C!Ok = Ok /\ C!NotFound = NotFound /\ C!Error = Error
  /\ C!Calls = Calls
  /\ \A d : C!Found(d) = Found(d)
  /\ \A S : C!Listing(S) = Listing(S)
  /\ \A cl, k : C!IsSetOf(cl, k) = IsSetOf(cl, k)
  BY DEF C!Idle, C!Ok, C!NotFound, C!Error, C!Calls, C!Found, C!Listing, C!IsSetOf,
         Idle, Ok, NotFound, Error, Calls, Found, Listing, IsSetOf

LEMMA OnlyOne ==
  ASSUME NEW S, NEW x \in S, \A i, j \in S : i = j
  PROVE  ~(Cardinality(S) > 1) /\ (CHOOSE i \in S : TRUE) = x
<1>1. S = {x}
  OBVIOUS
<1>2. Cardinality(S) = 1
  BY <1>1, FS_Singleton
<1> QED
  BY <1>1, <1>2

\* A key has the data of its item, now and after a step.
LEMMA StoredIs ==
  ASSUME NEW k \in Key
  PROVE  /\ IdsOf(k) = {} => Stored[k] = "no item"
         /\ OneItem(k) => \A i \in IdsOf(k) : Stored[k] = vault[i].data
         /\ IdsOf(k)' = {} => Stored'[k] = "no item"
         /\ OneItem(k)' => \A i \in IdsOf(k)' : Stored'[k] = vault'[i].data
<1>1. Stored[k] = ItemOf(k) /\ Stored'[k] = ItemOf(k)'
  BY DEF Stored
<1>2. ASSUME OneItem(k), NEW i \in IdsOf(k) PROVE ItemOf(k) = vault[i].data
  BY <1>2, OnlyOne DEF ItemOf, OneItem
<1>3. ASSUME OneItem(k)', NEW i \in IdsOf(k)' PROVE ItemOf(k)' = vault'[i].data
  <2>1. /\ ~(Cardinality(IdsOf(k)') > 1)
        /\ (CHOOSE j \in IdsOf(k)' : TRUE) = i
    BY <1>3, OnlyOne DEF OneItem
  <2> QED
    BY <1>3, <2>1 DEF ItemOf
<1> QED
  BY <1>1, <1>2, <1>3 DEF ItemOf

LEMMA SameStored == ASSUME UNCHANGED vault PROVE UNCHANGED Stored
<1>1. ASSUME NEW k \in Key PROVE ItemOf(k)' = ItemOf(k)
  <2>1. IdsOf(k)' = IdsOf(k)
    BY DEF IdsOf, KeyringIds, Present
  <2>2. (CHOOSE i \in IdsOf(k)' : TRUE) = (CHOOSE i \in IdsOf(k) : TRUE)
    BY <2>1
  <2> QED
    BY <2>1, <2>2 DEF ItemOf
<1> QED
  BY <1>1 DEF Stored

\* A change under one id is not seen by the keys it is no item of.
LEMMA OtherKeys ==
  ASSUME NEW n \in ItemId, \A i \in ItemId \ {n} : vault'[i] = vault[i],
         NEW k \in Key, n \notin IdsOf(k), n \notin IdsOf(k)'
  PROVE  Stored'[k] = Stored[k]
<1>1. IdsOf(k)' = IdsOf(k) /\ \A i \in IdsOf(k) : vault'[i] = vault[i]
  BY DEF IdsOf, KeyringIds, Present
<1>2. ItemOf(k)' = ItemOf(k)
  <2>1. CASE IdsOf(k) = {}
    BY <1>1, <2>1 DEF ItemOf
  <2>2. CASE IdsOf(k) # {}
    <3>1. (CHOOSE i \in IdsOf(k) : TRUE) \in IdsOf(k)
      BY <2>2
    <3>2. (CHOOSE i \in IdsOf(k)' : TRUE) = (CHOOSE i \in IdsOf(k) : TRUE)
      BY <1>1
    <3> QED
      BY <1>1, <2>2, <3>1, <3>2 DEF ItemOf
  <2> QED
    BY <2>1, <2>2
<1> QED
  BY <1>2 DEF Stored

\* What a change under one id does, for the key that has its only item there.
LEMMA OneStored ==
  ASSUME NEW n \in ItemId, \A i \in ItemId \ {n} : vault'[i] = vault[i], NEW k \in Key,
         \A j \in Key \ {k} : n \notin IdsOf(j) /\ n \notin IdsOf(j)'
  PROVE  Stored' = [Stored EXCEPT ![k] = Stored'[k]]
<1>1. \A j \in Key \ {k} : Stored'[j] = Stored[j]
  BY OtherKeys
<1>2. Stored = [j \in Key |-> Stored[j]] /\ Stored' = [j \in Key |-> Stored'[j]]
  BY DEF Stored
<1> QED
  BY <1>1, <1>2

\* A key without an item is one that Get does not answer.
LEMMA Absent ==
  ASSUME TypeInv, DataApart, NEW k \in Key, OneItem(k)
  PROVE  /\ Stored[k] # "no item" <=> IdsOf(k) # {}
         /\ IdsOf(k) # {} => Stored[k] \in Data /\ Stored[k] # "damaged"
<1>1. \A i \in IdsOf(k) : vault[i].data \in Data
  BY DEF IdsOf, KeyringIds, Present, ItemRecord, TypeInv, TypeOK
<1> QED
  BY <1>1, StoredIs DEF DataApart

LEMMA ReplyDue ==
  ASSUME TypeInv, NEW c \in Client, NEW r, Reply(c, r), UNCHANGED call
  PROVE  DueNow' = [DueNow EXCEPT ![c] = r]
<1>1. \A d \in Client : /\ pc'[d] = IF d = c THEN "return" ELSE pc[d]
                        /\ result'[d] = IF d = c THEN r ELSE result[d]
                        /\ d # c => seen'[d] = seen[d]
  BY DEF Reply, Go, TypeInv, TypeOK
<1> QED
  BY <1>1 DEF DueNow, Due

LEMMA NotDue ==
  ASSUME NEW c \in Client, pc[c] # "return", pc[c] = "fetch" => call[c].op = "Set"
  PROVE  DueNow[c] = Error
  BY DEF DueNow, Due

-----------------------------------------------------------------------------
LEMMA BeginStep == ASSUME TypeInv, NEW c \in Client, Call(c) PROVE C!CNext
<1>1. PICK cl \in Calls : /\ call' = [call EXCEPT ![c] = cl]
                          /\ Go(c, IF cl.op = "GetMetadata" THEN "metadata" ELSE "list")
  BY DEF Call
<1>2. \A d \in Client : /\ d # c => pc'[d] = pc[d] /\ call'[d] = call[d]
                        /\ pc'[c] \in {"metadata", "list"}
  BY <1>1 DEF Go, TypeInv, TypeOK
<1>3. DueNow' = [DueNow EXCEPT ![c] = Error] /\ call[c] = Idle /\ UNCHANGED Stored
  BY <1>2, SameStored DEF Call, DueNow, Due, TypeInv, StepOfCall
<1>4. C!Begin(c)
  BY <1>1, <1>3, SameWords DEF C!Begin
<1> QED
  BY <1>4 DEF C!CNext

LEMMA FailStep ==
  ASSUME TypeInv, NEW c \in Client, Reply(c, Error), pc[c] # "idle", UNCHANGED <<vault, call>>
  PROVE  C!CNext
<1>1. DueNow' = [DueNow EXCEPT ![c] = Error] /\ call[c] # Idle /\ UNCHANGED Stored
  BY ReplyDue, SameStored DEF TypeInv, StepOfCall
<1>2. C!Fail(c)
  BY <1>1, SameWords DEF C!Fail
<1> QED
  BY <1>2 DEF C!CNext

\* A reply that was due is one more step that nobody sees.
LEMMA DueStep ==
  ASSUME TypeInv, NEW c \in Client, NEW r, Reply(c, r), DueNow[c] = r, UNCHANGED <<vault, call>>
  PROVE  NoStep
<1>1. DueNow' = [DueNow EXCEPT ![c] = DueNow[c]]
  BY ReplyDue
<1> QED
  BY <1>1, SameStored DEF NoStep, DueNow

LEMMA MetadataStep == ASSUME TypeInv, NEW c \in Client, GetMetadata(c) PROVE C!CNext
<1>1. call[c].op = "GetMetadata" /\ UNCHANGED <<Stored, call>>
  BY SameStored DEF GetMetadata, TypeInv, StepOfCall
<1>2. DueNow' = [DueNow EXCEPT ![c] = Ok]
  BY ReplyDue DEF GetMetadata
<1>3. C!Stat(c)
  BY <1>1, <1>2, SameWords DEF C!Stat
<1> QED
  BY <1>3 DEF C!CNext

LEMMA ClientStep ==
  ASSUME NEW c \in Client, NewClient(c) \/ NewClientWrongToken(c) PROVE NoStep
  BY SameStored DEF NewClient, NewClientWrongToken, NoStep, DueNow, Due

\* A listing settles what Keys answers, and a Get or Remove of an absent key.
LEMMA ListStep ==
  ASSUME TypeInv, TitleInv, DataApart, overlapped = {}, NEW c \in Client, List(c)
  PROVE  NoStep \/ C!CNext
<1>1. /\ pc[c] = "list" /\ call[c].op \in {"Get", "Set", "Remove", "Keys"}
      /\ UNCHANGED <<Stored, call>>
  BY SameStored DEF List, TypeInv, StepOfCall
<1>2. DueNow[c] = Error
  BY <1>1, NotDue
<1> DEFINE titles == {vault[i].key : i \in KeyringIds}
           answer == CASE call[c].op = "Keys" -> Listing(titles)
                       [] call[c].op # "Keys" /\ IdsOf(call[c].key) = {} -> NotFound
                       [] OTHER -> Error
<1>3. \A d \in Client : /\ pc'[d] = IF d = c THEN "fetch" ELSE pc[d]
                        /\ seen'[d] = IF d = c THEN answer ELSE seen[d]
  BY DEF List, Go, TypeInv, TypeOK
<1> HIDE DEF answer
<1>4. DueNow' = [DueNow EXCEPT ![c] = IF call[c].op = "Set" THEN Error ELSE answer]
  BY <1>1, <1>3 DEF List, DueNow, Due
<1>5. CASE call[c].op = "Keys"
  <2>1. {k \in Key : Stored[k] # "no item"} = titles
    <3>1. \A i \in KeyringIds : vault[i].key \in Key
      BY DEF KeyringIds, Present, ItemRecord, TypeInv, TypeOK
    <3>2. \A k \in Key : Stored[k] # "no item" <=> IdsOf(k) # {}
      BY Absent DEF TitleInv
    <3> QED
      BY <3>1, <3>2 DEF IdsOf
  <2>2. DueNow' = [DueNow EXCEPT ![c] = Listing(titles)]
    BY <1>4, <1>5 DEF answer
  <2> HIDE DEF titles
  <2>3. C!List(c)
    BY <1>1, <1>5, <2>1, <2>2, SameWords DEF C!List
  <2> QED
    BY <2>3 DEF C!CNext
<1>6. CASE call[c].op \in {"Get", "Remove"} /\ IdsOf(call[c].key) = {}
  <2>1. DueNow' = [DueNow EXCEPT ![c] = NotFound]
    BY <1>4, <1>6 DEF answer
  <2>2. Stored[call[c].key] = "no item"
    BY <1>1, <1>6, KeyedCall, StoredIs
  <2>3. C!Look(c) \/ C!Miss(c)
    BY <1>1, <1>2, <1>6, <2>1, <2>2, SameWords DEF C!Look, C!Miss, C!Answer
  <2> QED
    BY <2>3 DEF C!CNext
<1>7. CASE \/ call[c].op = "Set"
           \/ call[c].op \in {"Get", "Remove"} /\ IdsOf(call[c].key) # {}
  <2>1. DueNow' = [DueNow EXCEPT ![c] = DueNow[c]]
    BY <1>2, <1>4, <1>7 DEF answer
  <2> QED
    BY <1>1, <2>1 DEF NoStep, DueNow
<1> QED
  BY <1>1, <1>5, <1>6, <1>7

\* The fetch of its item settles what Get answers.
LEMMA FetchStep ==
  ASSUME TypeInv, TitleInv, DataApart, overlapped = {}, NEW c \in Client, Fetch(c)
  PROVE  NoStep \/ C!CNext
<1>1. PICK i \in todo[c] :
        seen' = [seen EXCEPT ![c] =
                   IF call[c].op = "Get" /\ IdsOf(call[c].key) = {i}
                   THEN Found(vault[i].data) ELSE @]
  BY DEF Fetch
<1>2. UNCHANGED <<Stored, call, pc, result>> /\ pc[c] = "fetch"
  BY SameStored DEF Fetch
<1>3. CASE call[c].op = "Get" /\ IdsOf(call[c].key) = {i}
  <2>1. \A d \in Client : seen'[d] = IF d = c THEN Found(vault[i].data) ELSE seen[d]
    BY <1>1, <1>3 DEF TypeInv, TypeOK
  <2>2. DueNow' = [DueNow EXCEPT ![c] = Found(vault[i].data)]
    BY <1>2, <1>3, <2>1 DEF DueNow, Due
  <2>3. /\ call[c].key \in Key /\ OneItem(call[c].key)
        /\ i \in IdsOf(call[c].key) /\ IdsOf(call[c].key) # {}
    BY <1>2, <1>3, KeyedCall DEF TitleInv
  <2>4. Stored[call[c].key] = vault[i].data /\ Stored[call[c].key] \in Data
    BY <2>3, StoredIs, Absent
  <2>5. C!Answer(Stored[call[c].key]) = Found(vault[i].data)
    BY <2>4, SameWords DEF C!Answer, DataApart
  <2>6. C!Look(c)
    BY <1>2, <1>3, <2>2, <2>5 DEF C!Look
  <2> QED
    BY <2>6 DEF C!CNext
<1>4. CASE ~(call[c].op = "Get" /\ IdsOf(call[c].key) = {i})
  <2>1. UNCHANGED seen
    BY <1>1, <1>4 DEF TypeInv, TypeOK
  <2> QED
    BY <1>2, <2>1 DEF NoStep, DueNow, Due
<1> QED
  BY <1>3, <1>4

\* A call that has fetched its items answers what its listing, or a fetch, has found.
LEMMA CompleteStep ==
  ASSUME TypeInv, FoundInv, overlapped = {}, NEW c \in Client, FindsNone(c) \/ Get(c) \/ Keys(c)
  PROVE  NoStep \/ C!CNext
<1>1. /\ pc[c] = "fetch" /\ todo[c] = {} /\ UNCHANGED <<vault, call>>
  BY DEF FindsNone, Get, Keys, Complete
<1>2. call[c].op # "Set" => DueNow[c] = seen[c]
  BY <1>1 DEF DueNow, Due
<1>3. CASE FindsNone(c)
  <2>1. call[c].op \in {"Get", "Remove"} /\ Matching(c) = {} /\ Reply(c, NotFound)
    BY <1>3 DEF FindsNone
  <2>2. seen[c] = NotFound
    BY <1>1, <2>1 DEF FoundInv, Searched
  <2> QED
    BY <1>1, <1>2, <2>1, <2>2, DueStep
<1>4. CASE Get(c)
  <2>1. PICK it \in Matching(c) : Reply(c, Found(it.data)) /\ call[c].op = "Get"
    BY <1>4 DEF Get
  <2>2. seen[c] = Found(it.data)
    BY <1>1, <2>1 DEF FoundInv, Searched
  <2> QED
    BY <1>1, <1>2, <2>1, <2>2, DueStep
<1>5. CASE Keys(c)
  <2>1. call[c].op = "Keys" /\ \E r \in {Listing(Titles(c)), Error} : Reply(c, r)
    BY <1>5 DEF Keys
  <2>2. seen[c] = Listing(Titles(c))
    <3>1. {vault[i].key : i \in todo[c] \cap KeyringIds} = {}
      BY <1>1
    <3>2. Titles(c) \cup {vault[i].key : i \in todo[c] \cap KeyringIds} = Titles(c)
      BY <3>1
    <3> QED
      BY <1>1, <2>1, <3>2 DEF FoundInv, Tallied
  <2> QED
    BY <1>1, <1>2, <2>1, <2>2, DueStep, FailStep
<1> QED
  BY <1>3, <1>4, <1>5

\* The write of a Set, whose answer may be lost.
LEMMA StoreStep ==
  ASSUME TypeInv, NEW c \in Client, pc[c] = "fetch", call[c].op = "Set", Answered(c),
         UNCHANGED call, Stored' = [Stored EXCEPT ![call[c].key] = call[c].data]
  PROVE  C!CNext
<1>1. DueNow[c] = Error
  BY NotDue
<1>2. PICK r \in {Ok, Error} : DueNow' = [DueNow EXCEPT ![c] = r]
  BY AnsweredReply, ReplyDue
<1>3. C!Store(c)
  BY <1>1, <1>2, SameWords DEF C!Store
<1> QED
  BY <1>3 DEF C!CNext

LEMMA CreateStep ==
  ASSUME TypeInv, TitleInv, TitleInv', overlapped' = {}, overlapped = {},
         NEW c \in Client, Create(c)
  PROVE  C!CNext
<1> DEFINE k == call[c].key
<1>1. PICK n \in ItemId : vault[n] = Gone /\ vault' = [vault EXCEPT ![n] = NewItem(k, call[c].data)]
  BY DEF Create, FirstFree, Known, Present
<1>2. /\ pc[c] = "fetch" /\ call[c].op = "Set" /\ UNCHANGED call /\ Answered(c)
      /\ k \in Key /\ call[c].data \in Data
  BY KeyedCall DEF Create, Complete
<1>3. NewItem(k, call[c].data) \in ItemRecord
  BY <1>2 DEF NewItem, ItemRecord
<1>4. /\ vault'[n] = NewItem(k, call[c].data) /\ vault'[n] # Gone
      /\ \A i \in ItemId \ {n} : vault'[i] = vault[i]
  BY <1>1, <1>3, OPAssumption DEF TypeInv, TypeOK
<1>5. n \in IdsOf(k)' /\ \A j \in Key \ {k} : n \notin IdsOf(j) /\ n \notin IdsOf(j)'
  BY <1>1, <1>2, <1>4 DEF IdsOf, KeyringIds, Present, NewItem, IsKeyringItem
<1>6. OneItem(k)'
  BY <1>2 DEF TitleInv
<1>7. Stored'[k] = call[c].data
  <2>1. vault'[n].data = call[c].data
    BY <1>4 DEF NewItem
  <2> QED
    BY <1>2, <1>5, <1>6, <2>1, StoredIs
<1>8. Stored' = [Stored EXCEPT ![k] = call[c].data]
  BY <1>2, <1>4, <1>5, <1>7, OneStored
<1> QED
  BY <1>2, <1>8, StoreStep

\* The item that a call is going to change is the keyring item of its key.
LEMMA ItemToChange ==
  ASSUME TypeInv, FoundInv, NEW c \in Client, pc[c] = "fetch",
         NEW it \in Matching(c), vault[it.id] # Gone
  PROVE  it.id \in IdsOf(call[c].key)
  BY MatchingType DEF FoundInv, Kept

LEMMA PutStep ==
  ASSUME TypeInv, TitleInv', FoundInv, overlapped' = {}, NEW c \in Client, Put(c)
  PROVE  C!CNext
<1> DEFINE k == call[c].key
<1>1. PICK it \in Matching(c) :
        vault[it.id] # Gone /\ vault' = [vault EXCEPT ![it.id].data = call[c].data]
  BY DEF Put
<1>2. /\ pc[c] = "fetch" /\ call[c].op = "Set" /\ UNCHANGED call /\ Answered(c)
      /\ k \in Key /\ call[c].data \in Data
  BY KeyedCall DEF Put, Complete
<1> DEFINE n == it.id
<1>3. n \in ItemId /\ vault[n] \in ItemRecord /\ n \in IdsOf(k)
  BY <1>1, <1>2, MatchingType, ItemToChange DEF TypeInv, TypeOK
<1>4. /\ vault'[n] = [vault[n] EXCEPT !.data = call[c].data]
      /\ \A i \in ItemId \ {n} : vault'[i] = vault[i]
  BY <1>1, <1>3 DEF TypeInv, TypeOK
<1>5. vault'[n] \in ItemRecord /\ vault'[n].data = call[c].data
      /\ vault'[n].key = vault[n].key /\ vault'[n].tagged = vault[n].tagged
      /\ vault'[n].shaped = vault[n].shaped
  BY <1>2, <1>3, <1>4 DEF ItemRecord
<1>6. n \in IdsOf(k)' /\ \A j \in Key \ {k} : n \notin IdsOf(j) /\ n \notin IdsOf(j)'
  BY <1>2, <1>3, <1>5, OPAssumption DEF IdsOf, KeyringIds, Present, IsKeyringItem
<1>7. OneItem(k)'
  BY <1>2 DEF TitleInv
<1>8. Stored'[k] = call[c].data
  BY <1>2, <1>5, <1>6, <1>7, StoredIs
<1>9. Stored' = [Stored EXCEPT ![k] = call[c].data]
  BY <1>2, <1>3, <1>4, <1>6, <1>8, OneStored
<1> QED
  BY <1>2, <1>9, StoreStep

LEMMA DeleteStep ==
  ASSUME TypeInv, TitleInv, FoundInv, DataApart, overlapped = {}, NEW c \in Client, Delete(c)
  PROVE  C!CNext
<1> DEFINE k == call[c].key
<1>1. PICK it \in Matching(c) : vault[it.id] # Gone /\ vault' = [vault EXCEPT ![it.id] = Gone]
  BY DEF Delete
<1>2. /\ pc[c] = "fetch" /\ call[c].op = "Remove" /\ UNCHANGED call /\ Answered(c) /\ k \in Key
  BY KeyedCall DEF Delete, Complete
<1> DEFINE n == it.id
<1>3. n \in ItemId /\ n \in IdsOf(k)
  BY <1>1, <1>2, MatchingType, ItemToChange
<1>4. vault'[n] = Gone /\ \A i \in ItemId \ {n} : vault'[i] = vault[i]
  BY <1>1, <1>3 DEF TypeInv, TypeOK
<1>5. \A j \in Key \ {k} : n \notin IdsOf(j) /\ n \notin IdsOf(j)'
  BY <1>3, <1>4 DEF IdsOf, KeyringIds, Present
<1>6. OneItem(k)
  BY <1>2 DEF TitleInv
<1>7. IdsOf(k)' = {}
  BY <1>2, <1>3, <1>4, <1>6 DEF OneItem, IdsOf, KeyringIds, Present
<1>8. Stored[k] # "no item" /\ Stored'[k] = "no item"
  BY <1>2, <1>3, <1>6, <1>7, Absent, StoredIs
<1>9. Stored' = [Stored EXCEPT ![k] = "no item"]
  BY <1>2, <1>3, <1>4, <1>5, <1>8, OneStored
<1>10. DueNow[c] = Error
  <2>1. seen[c] = Error
    BY <1>2 DEF FoundInv, Searched
  <2> QED
    BY <1>2, <2>1 DEF DueNow, Due
<1>11. PICK r \in {Ok, Error} : DueNow' = [DueNow EXCEPT ![c] = r]
  BY <1>2, AnsweredReply, ReplyDue
<1>12. PICK over \in SUBSET {d \in Client : IsSetOf(call[d], k)} :
         DueNow' = [d \in Client |-> IF d = c THEN r ELSE IF d \in over THEN Ok ELSE DueNow[d]]
  <2> DEFINE none == {d \in Client : FALSE}
  <2>1. none \in SUBSET {d \in Client : IsSetOf(call[d], k)} /\ \A d \in Client : d \notin none
    OBVIOUS
  <2> HIDE DEF none
  <2>2. DueNow' = [d \in Client |-> IF d = c THEN r ELSE IF d \in none THEN Ok ELSE DueNow[d]]
    BY <1>11, <2>1 DEF DueNow
  <2> QED
    BY <2>1, <2>2
<1>13. C!Erase(c)
  BY <1>2, <1>8, <1>9, <1>10, <1>12, SameWords DEF C!Erase
<1> QED
  BY <1>13 DEF C!CNext

LEMMA ReturnStep == ASSUME TypeInv, NEW c \in Client, Return(c) PROVE C!CNext
<1>1. \A d \in Client : /\ pc'[d] = IF d = c THEN "idle" ELSE pc[d]
                        /\ result'[d] = IF d = c THEN Error ELSE result[d]
                        /\ d # c => call'[d] = call[d]
  BY DEF Return, Go, TypeInv, TypeOK
<1>2. DueNow' = [DueNow EXCEPT ![c] = Error]
  BY <1>1 DEF Return, DueNow, Due
<1>3. call[c] # Idle /\ UNCHANGED Stored
  BY SameStored DEF Return, TypeInv, StepOfCall
<1>4. C!Return(c)
  BY <1>2, <1>3, SameWords DEF Return, C!Return
<1> QED
  BY <1>4 DEF C!CNext

\* The person's items are no keyring items, so that the contract does not see them go.
LEMMA PersonStep ==
  ASSUME TypeInv, PersonalInv, NEW i \in DOMAIN Personal, PersonDeletes(i) PROVE NoStep
<1>1. /\ i \in ItemId /\ vault'[i] = Gone /\ \A j \in ItemId \ {i} : vault'[j] = vault[j]
  BY OPAssumption DEF PersonDeletes, TypeInv, TypeOK
<1>2. \A k \in Key : i \notin IdsOf(k) /\ i \notin IdsOf(k)'
  BY <1>1, OPAssumption DEF PersonalInv, IdsOf, KeyringIds, Present
<1>3. \A k \in Key : Stored'[k] = Stored[k]
  BY <1>1, <1>2, OtherKeys
<1>4. UNCHANGED Stored
  BY <1>3 DEF Stored
<1> QED
  BY <1>4 DEF PersonDeletes, NoStep, DueNow, Due

-----------------------------------------------------------------------------
LEMMA InitRefines == Init => C!CInit
<1> SUFFICES ASSUME Init PROVE C!CInit
  OBVIOUS
<1>1. \A k \in Key : IdsOf(k) = {}
  BY OPAssumption DEF Init, IdsOf, KeyringIds, Present
<1>2. Stored = [k \in Key |-> "no item"] /\ DueNow = [c \in Client |-> Error]
  BY <1>1 DEF Init, Stored, ItemOf, DueNow, Due
<1> QED
  BY <1>2, SameWords DEF Init, C!CInit

OPInv == TypeInv /\ PersonalInv /\ TitleInv /\ FoundInv

LEMMA NextOPInv == OPInv /\ [Next]_vars => OPInv'
  BY NextTypeInv, NextPersonalInv, NextTitleInv, NextFoundInv DEF OPInv

LEMMA NextRefines ==
  ASSUME OPInv, OPInv', DataApart, [Next]_vars, overlapped' = {}
  PROVE  NoStep \/ C!CNext
<1>1. overlapped = {} /\ TypeInv /\ PersonalInv /\ TitleInv /\ FoundInv /\ TitleInv'
  BY OverlapStays DEF OPInv
<1>2. CASE UNCHANGED vars
  BY <1>2, SameStored DEF vars, NoStep, DueNow, Due
<1>3. ASSUME NEW c \in Client,
             NoClient(c) \/ FetchGone(c) \/ FindsMany(c) \/ ChangeGone(c) \/ RequestFails(c)
      PROVE  C!CNext
  <2>1. Reply(c, Error) /\ pc[c] # "idle" /\ UNCHANGED <<vault, call>>
    BY <1>3 DEF NoClient, FetchGone, FindsMany, ChangeGone, RequestFails, Complete
  <2> QED
    BY <1>1, <2>1, FailStep
<1>4. ASSUME NEW c \in Client, Call(c) \/ Step(c) PROVE NoStep \/ C!CNext
  BY <1>1, <1>3, <1>4, BeginStep, MetadataStep, ClientStep, ListStep, FetchStep, CompleteStep,
     CreateStep, PutStep, DeleteStep, ReturnStep DEF Step
<1>5. ASSUME NEW i \in DOMAIN Personal, PersonDeletes(i) PROVE NoStep
  BY <1>1, <1>5, PersonStep
<1> QED
  BY <1>2, <1>4, <1>5 DEF Next

\* Seen by title, the vault is the store of the Keyring interface (keyring.go:114-125)
\* for any number of clients, whatever requests fail, time out or meet an item deleted
\* in between, until two Sets of one key overlap (opstandard.go:112-217,
\* opconnect.go:196-310).
THEOREM ContractHolds == DataApart => (Spec => Contract)
<1> SUFFICES ASSUME DataApart PROVE Spec => Contract
  OBVIOUS
<1>1. Init => OPInv
  <2> SUFFICES ASSUME Init PROVE OPInv
    OBVIOUS
  <2>1. PersonalInv
    BY OPAssumption DEF Init, PersonalInv
  <2>2. TitleInv /\ FoundInv
    BY OPAssumption DEF Init, TitleInv, OneItem, OneSet, SetKnows, IdsOf, KeyringIds, Present,
       IsSetOf, Idle, FoundInv
  <2> QED
    BY <2>1, <2>2, InitTypeInv DEF OPInv
<1>2. OPInv /\ OPInv' /\ [Next]_vars => [overlapped' = {} => C!CNext]_<<Stored, call, DueNow>>
  BY NextRefines DEF NoStep
<1> QED
  BY <1>1, <1>2, NextOPInv, InitRefines, PTL DEF Spec, Contract
=============================================================================
