-------------------------- MODULE SecretServiceProofs --------------------------
(***************************************************************************)
(* Proofs about SecretService, for any processes, keys, items, D-Bus paths *)
(* and faults.  That there is one collection is inductive with what is     *)
(* known of the processes that are about to create it (OneCreator): until  *)
(* the history variable raced is set there is one at most, and it is right *)
(* that there is no collection yet.  The collection is shown to be a       *)
(* keyring step by step, also after that: it takes only that the one of    *)
(* the configured name is there (NamedExists).                             *)
(***************************************************************************)
EXTENDS SecretService, TLAPS

\* A call carries the arguments of its operation.
LEMMA CallArguments ==
  \A cl \in Calls :
    /\ cl.op \in {"Get", "GetMetadata", "Remove", "Set", "Keys"}
    /\ cl.op \in {"Get", "GetMetadata", "Remove", "Set"} => cl.key \in Key
    /\ cl.op = "Set" => cl.data \in Data
  BY DEF Calls

\* A client without a call is in none of them.
LEMMA IdleIsNoCall == Idle \notin Calls /\ Idle.op = "idle"
  BY DEF Idle, Calls

\* What a backend can answer is a reply of the interface.
LEMMA ReplyTypes ==
  /\ Ok \in Replies /\ NotFound \in Replies /\ Error \in Replies
  /\ \A d \in Data : Found(d) \in Replies
  /\ \A S \in SUBSET Key : Listing(S) \in Replies
  BY DEF Replies, Ok, NotFound, Error, Found, Listing

StepOfCall ==
  \A p \in Proc :
    /\ pc[p] \in {"closed", "idle"} <=> call[p] = Idle
    /\ pc[p] = "metadata" => call[p].op = "GetMetadata"
    /\ pc[p] \in {"open", "unlock"} => call[p].op \in {"Get", "Set", "Remove", "Keys"}
    /\ pc[p] = "search" => call[p].op \in {"Get", "Remove"}
    /\ pc[p] = "secret" => call[p].op = "Get"
    /\ pc[p] = "delete" => call[p].op = "Remove"
    /\ pc[p] \in {"create", "store"} => call[p].op = "Set"
    /\ pc[p] \in {"items", "label"} => call[p].op = "Keys"
    /\ pc[p] = "label" => seen[p] \in [kind : {"keys"}, keys : SUBSET Key]

TypeInv == TypeOK /\ StepOfCall

OneCreator ==
  ~raced => /\ \A p \in Proc : pc[p] = "create" => named = NoColl
            /\ \A p, q \in Proc : pc[p] = "create" /\ pc[q] = "create" => p = q

CollectionInv == OneCreator /\ OneCollection

NamedExists == named \in exists \cup {NoColl}

-----------------------------------------------------------------------------
LEMMA InitTypeInv == Init => TypeInv
<1> SUFFICES ASSUME Init PROVE TypeInv
  OBVIOUS
<1>1. TypeOK
  BY ReplyTypes DEF Init, TypeOK, PCs, Empty
<1>2. StepOfCall
  BY DEF Init, StepOfCall
<1> QED
  BY <1>1, <1>2 DEF TypeInv

DaemonTyped ==
  /\ named \in CollId \cup {NoColl}
  /\ exists \in SUBSET CollId /\ locked \in SUBSET CollId
  /\ items \in [CollId -> [Key -> Data \cup {NoItem}]]

\* A step that answers.
LEMMA ReplyTypeInv ==
  ASSUME TypeInv, NEW p \in Proc, pc[p] \notin {"closed", "idle"}, NEW r \in Replies, Reply(p, r),
         DaemonTyped', UNCHANGED <<handle, call, deleted>>, raced' \in BOOLEAN
  PROVE  TypeInv'
<1>1. TypeOK'
  BY ReplyTypes DEF Reply, Go, TypeInv, TypeOK, DaemonTyped, PCs
<1>2. StepOfCall'
  BY DEF Reply, Go, TypeInv, TypeOK, StepOfCall
<1> QED
  BY <1>1, <1>2 DEF TypeInv

\* A step that goes on with the call.
LEMMA GoTypeInv ==
  ASSUME TypeInv, NEW p \in Proc, pc[p] \notin {"closed", "idle"},
         NEW step \in PCs \ {"closed", "idle", "metadata", "open", "label"}, Go(p, step),
         step = "unlock" => call[p].op \in {"Get", "Set", "Remove", "Keys"},
         step = "search" => call[p].op \in {"Get", "Remove"},
         step = "secret" => call[p].op = "Get",
         step = "delete" => call[p].op = "Remove",
         step \in {"create", "store"} => call[p].op = "Set",
         step = "items" => call[p].op = "Keys",
         DaemonTyped', handle' \in [Proc -> CollId \cup {NoColl}], raced' \in BOOLEAN,
         UNCHANGED <<call, result, seen, labels, deleted>>
  PROVE  TypeInv'
<1>1. TypeOK'
  BY DEF Go, TypeInv, TypeOK, DaemonTyped
<1>2. StepOfCall'
  <2> SUFFICES ASSUME NEW q \in Proc PROVE StepOfCall!(q)'
    BY DEF StepOfCall
  <2>1. CASE q = p
    BY <2>1 DEF Go, TypeInv, TypeOK, StepOfCall
  <2>2. CASE q # p
    BY <2>2 DEF Go, TypeInv, TypeOK, StepOfCall
  <2> QED
    BY <2>1, <2>2
<1> QED
  BY <1>1, <1>2 DEF TypeInv

\* What a step of a call on one key finds in its arguments.
LEMMA KeyedCall ==
  ASSUME TypeInv, NEW p \in Proc, pc[p] \in {"search", "secret", "delete", "create", "store"}
  PROVE  call[p].key \in Key /\ (pc[p] = "store" => call[p].data \in Data)
<1>1. call[p] \in Calls /\ call[p].op \in {"Get", "Remove", "Set"}
      /\ (pc[p] = "store" => call[p].op = "Set")
  BY DEF TypeInv, TypeOK, StepOfCall
<1> QED
  BY <1>1, CallArguments

LEMMA FoundType ==
  ASSUME TypeInv, NEW p \in Proc
  PROVE  FoundCollection(p) \in CollId \cup {NoColl}
  BY DEF FoundCollection, TypeInv, TypeOK

LEMMA CreatedTyped ==
  ASSUME TypeInv, NEW i \in CollId, Created(i)
  PROVE  DaemonTyped'
  BY DEF Created, DaemonTyped, TypeInv, TypeOK, Empty

LEMMA CallTypeInv == ASSUME TypeInv, NEW p \in Proc, Call(p) PROVE TypeInv'
<1>1. PICK cl \in Calls : /\ call' = [call EXCEPT ![p] = cl]
                          /\ Go(p, IF cl.op = "GetMetadata" THEN "metadata" ELSE "open")
  BY DEF Call
<1>2. TypeOK'
  BY <1>1 DEF Call, Go, TypeInv, TypeOK, PCs, daemonVars
<1>3. StepOfCall'
  <2> SUFFICES ASSUME NEW q \in Proc PROVE StepOfCall!(q)'
    BY DEF StepOfCall
  <2>1. CASE q = p
    BY <1>1, <2>1, CallArguments, IdleIsNoCall DEF Call, Go, TypeInv, TypeOK, StepOfCall
  <2>2. CASE q # p
    BY <1>1, <2>2 DEF Call, Go, TypeInv, TypeOK, StepOfCall
  <2> QED
    BY <2>1, <2>2
<1> QED
  BY <1>2, <1>3 DEF TypeInv

\* The steps of Keys between the list of items and the answer.
LEMMA LabelTypeInv ==
  ASSUME TypeInv, NEW p \in Proc, Items(p) \/ Label(p) \/ LabelError(p)
  PROVE  TypeInv'
<1> USE DEF daemonVars
<1> DEFINE AllKeys == [kind : {"keys"}, keys : SUBSET Key]
<1>1. \A S \in SUBSET Key : Listing(S) \in AllKeys /\ Listing(S).keys = S
  BY DEF Listing
<1>2. AllKeys \subseteq Replies /\ \A r \in AllKeys : r.keys \in SUBSET Key
  BY DEF Replies
<1>3. /\ pc[p] \in {"items", "label"} /\ call[p].op = "Keys" /\ call[p] # Idle
  BY IdleIsNoCall DEF Items, Label, LabelError, TypeInv, StepOfCall
<1>4. /\ labels' \in [Proc -> SUBSET Key]
      /\ seen' \in [Proc -> Replies] /\ seen'[p] \in AllKeys
      /\ \A q \in Proc \ {p} : seen'[q] = seen[q]
  <2>1. CASE Items(p)
    BY <2>1, <1>1, <1>2 DEF Items, KeysIn, TypeInv, TypeOK
  <2>2. CASE Label(p)
    <3>1. PICK k \in labels[p] :
            /\ labels' = [labels EXCEPT ![p] = @ \ {k}]
            /\ seen' = [seen EXCEPT ![p] =
                          IF Labelled(p, k) THEN Listing(seen[p].keys \cup {k}) ELSE seen[p]]
      BY <2>2 DEF Label
    <3>2. k \in Key /\ seen[p] \in AllKeys /\ seen[p].keys \in SUBSET Key
      BY <2>2, <3>1, <1>2 DEF Label, TypeInv, TypeOK, StepOfCall
    <3>3. Listing(seen[p].keys \cup {k}) \in AllKeys
      BY <3>2, <1>1
    <3> QED
      BY <1>2, <3>1, <3>2, <3>3 DEF TypeInv, TypeOK
  <2>3. CASE LabelError(p)
    BY <2>3 DEF LabelError, TypeInv, TypeOK, StepOfCall
  <2> QED
    BY <2>1, <2>2, <2>3
<1>5. /\ pc' = [pc EXCEPT ![p] = "label"]
      /\ UNCHANGED <<daemonVars, handle, call, result, raced, deleted>>
  BY DEF Items, Label, LabelError, Go, TypeInv, TypeOK
<1>6. TypeOK'
  BY <1>4, <1>5 DEF TypeInv, TypeOK, PCs
<1>7. StepOfCall'
  BY <1>3, <1>4, <1>5 DEF TypeInv, TypeOK, StepOfCall
<1> QED
  BY <1>6, <1>7 DEF TypeInv

LEMMA StepTypeInv == ASSUME TypeInv, NEW p \in Proc, Step(p) PROVE TypeInv'
<1> USE DEF daemonVars
<1>a. UNCHANGED daemonVars => DaemonTyped'
  BY DEF TypeInv, TypeOK, DaemonTyped
<1>b. raced \in BOOLEAN /\ handle \in [Proc -> CollId \cup {NoColl}]
  BY DEF TypeInv, TypeOK
<1>1. CASE GetMetadata(p) \/ Dismissed(p) \/ ObjectFails(p) \/ DBusError(p)
  <2>1. pc[p] \notin {"closed", "idle"} /\ Reply(p, Error)
        /\ UNCHANGED <<daemonVars, handle, call, raced, deleted>>
    BY <1>1 DEF GetMetadata, Dismissed, ObjectFails, DBusError
  <2> QED
    BY <2>1, <1>a, <1>b, ReplyTypes, ReplyTypeInv
<1>2. CASE OpenSecrets(p)
  <2>1. /\ AfterOpen(call[p].op) \in {"search", "unlock"}
        /\ AfterOpen(call[p].op) = "search" => call[p].op \in {"Get", "Remove"}
        /\ call[p].op \in {"Get", "Set", "Remove", "Keys"} /\ pc[p] = "open"
    BY <1>2 DEF OpenSecrets, AfterOpen, TypeInv, StepOfCall
  <2>2. handle' \in [Proc -> CollId \cup {NoColl}]
    BY <1>2, <1>b, FoundType DEF OpenSecrets
  <2> QED
    BY <1>2, <1>a, <1>b, <2>1, <2>2, GoTypeInv DEF OpenSecrets, PCs
<1>3. CASE NoCollection(p)
  <2>1. CASE call[p].op = "Set"
    BY <1>3, <1>a, <1>b, <2>1, GoTypeInv DEF NoCollection, PCs
  <2>2. CASE call[p].op # "Set"
    BY <1>3, <1>a, <1>b, <2>2, ReplyTypes, ReplyTypeInv DEF NoCollection
  <2> QED
    BY <2>1, <2>2
<1>4. CASE CreateCollection(p)
  <2>1. PICK i \in CollId : Created(i) /\ handle' = [handle EXCEPT ![p] = i]
    BY <1>4 DEF CreateCollection
  <2>2. DaemonTyped' /\ handle' \in [Proc -> CollId \cup {NoColl}]
    BY <1>b, <2>1, CreatedTyped
  <2>3. pc[p] = "create" /\ call[p].op = "Set"
    BY <1>4 DEF CreateCollection, TypeInv, StepOfCall
  <2> QED
    BY <1>4, <1>b, <2>2, <2>3, GoTypeInv DEF CreateCollection, PCs
<1>5. CASE Unlock(p)
  <2>1. /\ AfterUnlock(call[p].op) \in {"secret", "delete", "store", "items"}
        /\ AfterUnlock(call[p].op) = "secret" => call[p].op = "Get"
        /\ AfterUnlock(call[p].op) = "delete" => call[p].op = "Remove"
        /\ AfterUnlock(call[p].op) = "store" => call[p].op = "Set"
        /\ AfterUnlock(call[p].op) = "items" => call[p].op = "Keys"
        /\ pc[p] = "unlock"
    BY <1>5 DEF Unlock, AfterUnlock, TypeInv, StepOfCall
  <2>2. DaemonTyped'
    BY <1>5 DEF Unlock, DaemonTyped, TypeInv, TypeOK
  <2> QED
    BY <1>5, <1>b, <2>1, <2>2, GoTypeInv DEF Unlock, PCs
<1>6. CASE SearchItems(p)
  <2>1. pc[p] = "search" /\ call[p].op \in {"Get", "Remove"}
    BY <1>6 DEF SearchItems, TypeInv, StepOfCall
  <2>2. CASE ItemOf(p) = NoItem
    BY <1>6, <1>a, <1>b, <2>1, <2>2, ReplyTypes, ReplyTypeInv DEF SearchItems, NothingFound
  <2>3. CASE ItemOf(p) # NoItem
    BY <1>6, <1>a, <1>b, <2>1, <2>3, GoTypeInv DEF SearchItems, PCs
  <2> QED
    BY <2>2, <2>3
<1>7. CASE GetSecret(p)
  <2>1. ItemOf(p) \in Data
    BY <1>7, KeyedCall DEF GetSecret, ItemOf, Usable, TypeInv, TypeOK
  <2> QED
    BY <1>7, <1>a, <1>b, <2>1, ReplyTypes, ReplyTypeInv DEF GetSecret
<1>8. CASE CreateItem(p) \/ Delete(p)
  <2>1. handle[p] \in CollId /\ call[p].key \in Key
        /\ (CreateItem(p) => call[p].data \in Data)
    BY <1>8, KeyedCall DEF CreateItem, Delete, Usable, TypeInv, TypeOK
  <2>2. DaemonTyped'
    BY <1>8, <2>1 DEF CreateItem, Delete, DaemonTyped, TypeInv, TypeOK
  <2> QED
    BY <1>8, <1>b, <2>2, ReplyTypes, ReplyTypeInv DEF CreateItem, Delete
<1>9. CASE Items(p) \/ Label(p) \/ LabelError(p)
  BY <1>9, LabelTypeInv
<1>10. CASE Keys(p)
  <2>1. seen[p] \in Replies
    BY DEF TypeInv, TypeOK
  <2> QED
    BY <1>10, <1>a, <1>b, <2>1, ReplyTypeInv DEF Keys
<1>11. CASE Return(p)
  BY <1>11, ReplyTypes DEF Return, Go, TypeInv, TypeOK, StepOfCall, PCs
<1>12. CASE AnswerLost(p)
  <2>1. /\ pc[p] \notin {"closed", "idle"} /\ Reply(p, Error)
        /\ UNCHANGED <<handle, call, raced, deleted>>
    BY <1>12 DEF AnswerLost
  <2>2. DaemonTyped'
    <3>1. CASE pc[p] = "create"
      BY <1>12, <3>1, CreatedTyped DEF AnswerLost
    <3>2. CASE pc[p] = "unlock"
      BY <1>12, <3>2 DEF AnswerLost, DaemonTyped, TypeInv, TypeOK
    <3>3. CASE pc[p] \in {"store", "delete"}
      <4>1. handle[p] \in CollId /\ call[p].key \in Key
            /\ (pc[p] = "store" => call[p].data \in Data)
        BY <1>12, <3>3, KeyedCall DEF AnswerLost, Usable, TypeInv, TypeOK
      <4> QED
        BY <1>12, <3>3, <4>1 DEF AnswerLost, DaemonTyped, TypeInv, TypeOK
    <3> QED
      BY <1>12, <3>1, <3>2, <3>3 DEF AnswerLost
  <2> QED
    BY <1>b, <2>1, <2>2, ReplyTypes, ReplyTypeInv
<1> QED
  BY <1>1, <1>2, <1>3, <1>4, <1>5, <1>6, <1>7, <1>8, <1>9, <1>10, <1>11, <1>12 DEF Step

LEMMA NextTypeInv == TypeInv /\ [Next]_vars => TypeInv'
<1> SUFFICES ASSUME TypeInv, [Next]_vars PROVE TypeInv'
  OBVIOUS
<1> USE DEF daemonVars
<1>1. CASE UNCHANGED vars
  BY <1>1 DEF vars, TypeInv, TypeOK, StepOfCall
<1>2. ASSUME NEW p \in Proc, Open(p) PROVE TypeInv'
  BY <1>2, FoundType DEF Open, Go, TypeInv, TypeOK, StepOfCall, PCs
<1>3. ASSUME NEW p \in Proc, Call(p) PROVE TypeInv'
  BY <1>3, CallTypeInv
<1>4. ASSUME NEW p \in Proc, Step(p) PROVE TypeInv'
  BY <1>4, StepTypeInv
<1>5. CASE Lock
  BY <1>5 DEF Lock, TypeInv, TypeOK, StepOfCall
<1>6. CASE DeleteCollection
  BY <1>6 DEF DeleteCollection, Empty, TypeInv, TypeOK, StepOfCall
<1> QED
  BY <1>1, <1>2, <1>3, <1>4, <1>5, <1>6 DEF Next

\* Every variable of the Secret Service backend keeps its type: no method of
\* secretservice.go:118-273 goes on with an item, a collection or a list of labels
\* that its call does not have.
THEOREM Typing == Spec => []TypeOK
<1>1. TypeInv => TypeOK
  BY DEF TypeInv
<1> QED
  BY <1>1, InitTypeInv, NextTypeInv, PTL DEF Spec

-----------------------------------------------------------------------------
\* A step that lets the collections and the handles be, and creates none.
LEMMA QuietStep ==
  ASSUME TypeInv, CollectionInv, NEW p \in Proc, NEW step, Go(p, step), step # "create",
         UNCHANGED <<named, exists, handle, raced, deleted>>
  PROVE  CollectionInv'
  BY DEF Go, CollectionInv, OneCreator, OneCollection, TypeInv, TypeOK

LEMMA NextCollectionInv ==
  ASSUME TypeInv, CollectionInv, [Next]_vars
  PROVE  CollectionInv'
<1> USE DEF daemonVars
<1>1. CASE UNCHANGED vars
  BY <1>1 DEF vars, CollectionInv, OneCreator, OneCollection
<1>2. ASSUME NEW p \in Proc, Open(p) \/ OpenSecrets(p) PROVE CollectionInv'
  <2>0. pc[p] = "open" => AfterOpen(call[p].op) \in {"search", "unlock"}
    BY DEF AfterOpen, TypeInv, StepOfCall
  <2>1. PICK step : Go(p, step) /\ step # "create"
    BY <1>2, <2>0 DEF Open, OpenSecrets
  <2>2. /\ handle' = [handle EXCEPT ![p] = FoundCollection(p)]
        /\ UNCHANGED <<named, exists, raced, deleted>>
    BY <1>2 DEF Open, OpenSecrets
  <2>3. ~raced /\ ~deleted => FoundCollection(p) \in {named, NoColl}
    BY DEF FoundCollection, CollectionInv, OneCollection
  <2> QED
    BY <2>1, <2>2, <2>3 DEF Go, CollectionInv, OneCreator, OneCollection, TypeInv, TypeOK
<1>3. ASSUME NEW p \in Proc, NoCollection(p) PROVE CollectionInv'
  <2>1. CASE call[p].op = "Set"
    <3>1. named = NoColl /\ pc[p] = "open"
      BY <1>3 DEF NoCollection, FoundCollection, CollectionInv
    <3>2. ~raced' => ~raced /\ \A q \in Proc : pc[q] # "create"
      BY <1>3, <2>1 DEF NoCollection
    <3> QED
      BY <1>3, <2>1, <3>1, <3>2
         DEF NoCollection, Go, CollectionInv, OneCreator, OneCollection, TypeInv, TypeOK
  <2>2. CASE call[p].op # "Set"
    BY <1>3, <2>2, QuietStep DEF NoCollection, Reply
  <2> QED
    BY <2>1, <2>2
<1>4. ASSUME NEW p \in Proc, CreateCollection(p) PROVE CollectionInv'
  <2>1. CASE raced'
    BY <2>1 DEF CollectionInv, OneCreator, OneCollection
  <2>2. CASE ~raced'
    <3>1. /\ named = NoColl /\ exists = {} /\ ~raced
          /\ \A q \in Proc : pc[q] = "create" => q = p
          /\ ~deleted => \A q \in Proc : handle[q] = NoColl
      BY <1>4, <2>2 DEF CreateCollection, CollectionInv, OneCreator, OneCollection
    <3>2. PICK i \in CollId : /\ exists' = {i} /\ named' = i
                              /\ handle' = [handle EXCEPT ![p] = i]
      BY <1>4, <3>1 DEF CreateCollection, Created
    <3>3. i # NoColl
      BY SecretAssumption
    <3>4. \A q \in Proc : pc'[q] # "create"
      BY <1>4, <3>1 DEF CreateCollection, Go, TypeInv, TypeOK
    <3>5. deleted' = deleted
      BY <1>4 DEF CreateCollection
    <3> QED
      BY <3>1, <3>2, <3>3, <3>4, <3>5
         DEF CollectionInv, OneCreator, OneCollection, TypeInv, TypeOK
  <2> QED
    BY <2>1, <2>2
<1>5. ASSUME NEW p \in Proc, Call(p) PROVE CollectionInv'
  <2>1. PICK step : Go(p, step) /\ step # "create"
    BY <1>5 DEF Call
  <2> QED
    BY <1>5, <2>1, QuietStep DEF Call
<1>6. ASSUME NEW p \in Proc,
             \/ GetMetadata(p) \/ Unlock(p) \/ Dismissed(p) \/ SearchItems(p) \/ GetSecret(p)
             \/ CreateItem(p) \/ Delete(p) \/ Items(p) \/ Keys(p)
             \/ ObjectFails(p) \/ DBusError(p) \/ Return(p)
      PROVE  CollectionInv'
  <2>0. pc[p] = "unlock" => AfterUnlock(call[p].op) \in {"secret", "delete", "store", "items"}
    BY DEF AfterUnlock, TypeInv, StepOfCall
  <2>1. \E step : Go(p, step) /\ step # "create"
    <3>1. CASE Unlock(p)
      BY <3>1, <2>0 DEF Unlock
    <3>2. CASE SearchItems(p) \/ Items(p) \/ Return(p)
      BY <3>2 DEF SearchItems, Items, Return, Reply
    <3>3. CASE GetMetadata(p) \/ Dismissed(p) \/ GetSecret(p) \/ CreateItem(p)
               \/ Delete(p) \/ Keys(p) \/ ObjectFails(p) \/ DBusError(p)
      BY <3>3 DEF GetMetadata, Dismissed, GetSecret, CreateItem, Delete, Keys, ObjectFails,
                  DBusError, Reply
    <3> QED
      BY <1>6, <3>1, <3>2, <3>3
  <2>2. UNCHANGED <<named, exists, handle, raced, deleted>>
    BY <1>6 DEF GetMetadata, Unlock, Dismissed, SearchItems, GetSecret, CreateItem,
                Delete, Items, Keys, ObjectFails, DBusError, Return
  <2> QED
    BY <2>1, <2>2, QuietStep
<1>7. ASSUME NEW p \in Proc, Label(p) \/ LabelError(p) PROVE CollectionInv'
  BY <1>7 DEF Label, LabelError, CollectionInv, OneCreator, OneCollection
<1>8. CASE Lock
  BY <1>8 DEF Lock, CollectionInv, OneCreator, OneCollection
<1>10. ASSUME NEW p \in Proc, AnswerLost(p) PROVE CollectionInv'
  <2>1. Go(p, "return") /\ UNCHANGED <<handle, raced, deleted>>
    BY <1>10 DEF AnswerLost, Reply
  <2>2. CASE pc[p] # "create"
    <3>1. UNCHANGED <<named, exists>>
      BY <1>10, <2>2 DEF AnswerLost
    <3> QED
      BY <2>1, <3>1, QuietStep
  <2>3. CASE pc[p] = "create" /\ ~raced
    <3>1. /\ named = NoColl /\ exists = {}
          /\ \A q \in Proc : pc[q] = "create" => q = p
          /\ ~deleted => \A q \in Proc : handle[q] = NoColl
      BY <2>3 DEF CollectionInv, OneCreator, OneCollection
    <3>2. PICK i \in CollId : exists' = {i} /\ named' = i
      BY <1>10, <2>3, <3>1 DEF AnswerLost, Created
    <3>3. i # NoColl
      BY SecretAssumption
    <3>4. \A q \in Proc : pc'[q] # "create"
      BY <2>1, <3>1 DEF Go, TypeInv, TypeOK
    <3> QED
      BY <2>1, <3>1, <3>2, <3>3, <3>4 DEF CollectionInv, OneCreator, OneCollection
  <2>4. CASE raced
    BY <2>1, <2>4 DEF CollectionInv, OneCreator, OneCollection
  <2> QED
    BY <2>2, <2>3, <2>4
<1>9. CASE DeleteCollection
  BY <1>9 DEF DeleteCollection, CollectionInv, OneCreator, OneCollection
<1> QED
  BY <1>1, <1>2, <1>3, <1>4, <1>5, <1>6, <1>7, <1>8, <1>9, <1>10 DEF Next, Step

\* There is one collection of the configured name, on which every process works,
\* for any number of processes that open the keyring and store items, unless two of
\* them have been between openSecrets and CreateCollection (secretservice.go:183-185)
\* at the same time.
THEOREM OneCollectionHolds == Spec => []OneCollection
<1>1. Init => CollectionInv
  BY DEF Init, CollectionInv, OneCreator, OneCollection
<1>2. CollectionInv => OneCollection
  BY DEF CollectionInv
<1>3. TypeInv /\ CollectionInv /\ [Next]_vars => (TypeInv /\ CollectionInv)'
  BY NextTypeInv, NextCollectionInv
<1> QED
  BY <1>1, <1>2, <1>3, InitTypeInv, PTL DEF Spec

-----------------------------------------------------------------------------
(***************************************************************************)
(* The collection as a keyring: each step is a step of the contract or     *)
(* none, from what is proved above about types and collections.            *)
(***************************************************************************)

\* "no item" stands for what Get does not answer, "damaged" does not occur.
DataApart == "no item" \notin Data /\ "damaged" \notin Data

NoStep == UNCHANGED <<Stored, call, DueNow>>

\* The contract speaks of calls and replies as the backend does.
LEMMA SameWords ==
  /\ C!Idle = Idle /\ C!Ok = Ok /\ C!NotFound = NotFound /\ C!Error = Error
  /\ C!Calls = Calls
  /\ \A d : C!Found(d) = Found(d)
  /\ \A S : C!Listing(S) = Listing(S)
  /\ \A cl, k : C!IsSetOf(cl, k) = IsSetOf(cl, k)
  BY DEF C!Idle, C!Ok, C!NotFound, C!Error, C!Calls, C!Found, C!Listing, C!IsSetOf,
         Idle, Ok, NotFound, Error, Calls, Found, Listing, IsSetOf

\* An item of the collection, as the contract sees it.
LEMMA StoredCases ==
  ASSUME TypeOK, DataApart, NEW k \in Key
  PROVE  /\ named = NoColl => Stored[k] = "no item"
         /\ named # NoColl =>
              /\ items[named][k] = NoItem => Stored[k] = "no item"
              /\ items[named][k] # NoItem => Stored[k] = items[named][k] /\ Stored[k] \in Data
<1>1. Stored[k] = IF named = NoColl \/ items[named][k] = NoItem
                  THEN "no item" ELSE items[named][k]
  BY DEF Stored
<1>2. named # NoColl => items[named][k] \in Data \cup {NoItem}
  BY DEF TypeOK
<1> QED
  BY <1>1, <1>2

LEMMA SameStored == ASSUME UNCHANGED <<named, items>> PROVE UNCHANGED Stored
  BY DEF Stored

\* A change of one item of the collection of the configured name.
LEMMA OneStored ==
  ASSUME TypeOK, NEW k \in Key, NEW d, named # NoColl, UNCHANGED named,
         items' = [items EXCEPT ![named][k] = d]
  PROVE  Stored' = [Stored EXCEPT ![k] = IF d = NoItem THEN "no item" ELSE d]
<1>1. \A j \in Key : items'[named][j] = IF j = k THEN d ELSE items[named][j]
  BY DEF TypeOK
<1>2. \A j \in Key : Stored'[j] = IF j = k THEN (IF d = NoItem THEN "no item" ELSE d)
                                 ELSE Stored[j]
  BY <1>1 DEF Stored
<1> QED
  BY <1>2 DEF Stored

\* A collection that a process can use, and has not strayed to, is that of the name.
LEMMA HandleIsNamed ==
  ASSUME TypeInv, NEW p \in Proc, handle[p] \in exists, handle[p] \notin exists \ {named}
  PROVE  named # NoColl /\ handle[p] = named
  BY SecretAssumption DEF TypeInv, TypeOK

LEMMA Answered ==
  ASSUME TypeInv, NEW p \in Proc, NEW r, Reply(p, r)
  PROVE  DueNow' = [DueNow EXCEPT ![p] = r]
<1>1. \A q \in Proc : /\ pc'[q] = IF q = p THEN "return" ELSE pc[q]
                      /\ result'[q] = IF q = p THEN r ELSE result[q]
                      /\ q # p => seen'[q] = seen[q]
  BY DEF Reply, Go, TypeInv, TypeOK
<1> QED
  BY <1>1 DEF DueNow, Due

\* A step that goes on answers nothing yet.
LEMMA GoesOn ==
  ASSUME TypeInv, NEW p \in Proc, NEW step, Go(p, step), step \notin {"return", "label"},
         pc[p] \notin {"return", "label"}, UNCHANGED <<result, seen>>
  PROVE  UNCHANGED DueNow
<1>1. \A q \in Proc : pc'[q] = IF q = p THEN step ELSE pc[q]
  BY DEF Go, TypeInv, TypeOK
<1> QED
  BY <1>1 DEF DueNow, Due

LEMMA NotDue ==
  ASSUME NEW p \in Proc, pc[p] \notin {"return", "label"} PROVE DueNow[p] = Error
  BY DEF DueNow, Due

-----------------------------------------------------------------------------
LEMMA OpenStep == ASSUME TypeInv, NEW p \in Proc, Open(p) PROVE NoStep
<1>1. UNCHANGED DueNow
  BY GoesOn DEF Open
<1> QED
  BY <1>1, SameStored DEF Open, daemonVars, NoStep

LEMMA BeginStep == ASSUME TypeInv, NEW p \in Proc, Call(p) PROVE C!CNext
<1>1. PICK cl \in Calls : /\ call' = [call EXCEPT ![p] = cl]
                          /\ Go(p, IF cl.op = "GetMetadata" THEN "metadata" ELSE "open")
  BY DEF Call
<1>2. UNCHANGED <<Stored, DueNow>> /\ DueNow[p] = Error
  BY <1>1, GoesOn, SameStored, NotDue DEF Call, daemonVars
<1>3. DueNow' = [DueNow EXCEPT ![p] = Error] /\ call[p] = Idle
  BY <1>2 DEF DueNow, Call, TypeInv, StepOfCall
<1>4. C!Begin(p)
  BY <1>1, <1>2, <1>3, SameWords DEF C!Begin
<1> QED
  BY <1>4 DEF C!CNext

LEMMA FailStep ==
  ASSUME TypeInv, NEW p \in Proc, GetMetadata(p) \/ Dismissed(p) \/ ObjectFails(p) \/ DBusError(p)
  PROVE  C!CNext
<1>1. /\ pc[p] \notin {"closed", "idle"} /\ Reply(p, Error)
      /\ UNCHANGED <<named, items, call>>
  BY DEF GetMetadata, Dismissed, ObjectFails, DBusError, daemonVars
<1>2. DueNow' = [DueNow EXCEPT ![p] = Error] /\ call[p] # Idle /\ UNCHANGED Stored
  BY <1>1, Answered, SameStored DEF TypeInv, StepOfCall
<1>3. C!Fail(p)
  BY <1>1, <1>2, SameWords DEF C!Fail
<1> QED
  BY <1>3 DEF C!CNext

\* Steps on the way to the item, which nobody sees.
LEMMA OnTheWayStep ==
  ASSUME TypeInv, NEW p \in Proc, OpenSecrets(p) \/ Unlock(p) \/ LabelError(p)
  PROVE  NoStep
<1>1. CASE OpenSecrets(p)
  <2>1. AfterOpen(call[p].op) \in {"search", "unlock"}
    BY <1>1 DEF OpenSecrets, AfterOpen, TypeInv, StepOfCall
  <2>2. UNCHANGED DueNow
    BY <1>1, <2>1, GoesOn DEF OpenSecrets
  <2> QED
    BY <1>1, <2>2, SameStored DEF OpenSecrets, daemonVars, NoStep
<1>2. CASE Unlock(p)
  <2>1. AfterUnlock(call[p].op) \in {"secret", "delete", "store", "items"}
    BY <1>2 DEF Unlock, AfterUnlock, TypeInv, StepOfCall
  <2>2. UNCHANGED DueNow
    BY <1>2, <2>1, GoesOn DEF Unlock
  <2> QED
    BY <1>2, <2>2, SameStored DEF Unlock, NoStep
<1>3. CASE LabelError(p)
  BY <1>3, SameStored DEF LabelError, daemonVars, NoStep, DueNow, Due
<1> QED
  BY <1>1, <1>2, <1>3

\* Without a collection nothing is stored.
LEMMA NoCollectionStep ==
  ASSUME TypeInv, DataApart, NEW p \in Proc, NoCollection(p)
  PROVE  NoStep \/ C!CNext
<1>1. named = NoColl /\ pc[p] = "open" /\ UNCHANGED <<Stored, call>>
  BY SameStored DEF NoCollection, FoundCollection, daemonVars, TypeInv, TypeOK
<1>2. \A k \in Key : Stored[k] = "no item"
  BY <1>1, StoredCases DEF TypeInv
<1>3. CASE call[p].op = "Set"
  BY <1>1, <1>3, GoesOn DEF NoCollection, NoStep
<1>4. CASE call[p].op = "Keys"
  <2>1. DueNow' = [DueNow EXCEPT ![p] = Listing({})]
    BY <1>4, Answered DEF NoCollection
  <2>2. {k \in Key : Stored[k] # "no item"} = {}
    BY <1>2
  <2>3. C!List(p)
    BY <1>1, <1>4, <2>1, <2>2, SameWords DEF C!List
  <2> QED
    BY <2>3 DEF C!CNext
<1>5. CASE call[p].op \in {"Get", "Remove"}
  <2>1. call[p] \in Calls /\ call[p].key \in Key
    BY <1>1, <1>5, CallArguments DEF TypeInv, TypeOK, StepOfCall
  <2>2. DueNow' = [DueNow EXCEPT ![p] = NotFound] /\ DueNow[p] = Error
    BY <1>1, <1>5, Answered, NotDue DEF NoCollection
  <2>3. Stored[call[p].key] = "no item"
    BY <1>2, <2>1
  <2>4. C!Look(p) \/ C!Miss(p)
    BY <1>1, <1>5, <2>2, <2>3, SameWords DEF C!Look, C!Miss, C!Answer
  <2> QED
    BY <2>4 DEF C!CNext
<1> QED
  BY <1>1, <1>3, <1>4, <1>5 DEF TypeInv, StepOfCall

\* The first collection of the name is empty; one that is created beside it is
\* not looked at.
LEMMA CreatedUnseen ==
  ASSUME TypeInv, NamedExists, NEW i \in CollId, Created(i)
  PROVE  UNCHANGED Stored
<1>1. CASE named = NoColl
  <2>1. \A k \in Key : items'[named'][k] = NoItem
    BY <1>1 DEF Created, Empty, TypeInv, TypeOK
  <2> QED
    BY <1>1, <2>1 DEF Stored
<1>2. CASE named # NoColl
  <2>1. i # named /\ named \in CollId /\ UNCHANGED named
    BY <1>2 DEF Created, NewCollections, NamedExists, TypeInv, TypeOK
  <2>2. items'[named] = items[named]
    BY <2>1 DEF Created, TypeInv, TypeOK
  <2> QED
    BY <2>1, <2>2 DEF Stored
<1> QED
  BY <1>1, <1>2

LEMMA CreateCollectionStep ==
  ASSUME TypeInv, NamedExists, NEW p \in Proc, CreateCollection(p)
  PROVE  NoStep
<1>1. UNCHANGED <<call, DueNow>>
  BY GoesOn DEF CreateCollection
<1>2. UNCHANGED Stored
  BY CreatedUnseen DEF CreateCollection
<1> QED
  BY <1>1, <1>2 DEF NoStep

LEMMA SearchStep ==
  ASSUME TypeInv, DataApart, NEW p \in Proc, handle[p] \notin exists \ {named}, SearchItems(p)
  PROVE  NoStep \/ C!CNext
<1>1. /\ pc[p] = "search" /\ call[p].op \in {"Get", "Remove"} /\ call[p].key \in Key
      /\ named # NoColl /\ handle[p] = named /\ UNCHANGED <<Stored, call>>
  BY KeyedCall, HandleIsNamed, SameStored DEF SearchItems, daemonVars, TypeInv, StepOfCall
<1>2. CASE ItemOf(p) = NoItem
  <2>1. DueNow' = [DueNow EXCEPT ![p] = NothingFound(call[p].op)] /\ DueNow[p] = Error
    BY <1>1, <1>2, Answered, NotDue DEF SearchItems
  <2>2. Stored[call[p].key] = "no item"
    BY <1>1, <1>2, StoredCases DEF ItemOf, TypeInv
  <2>3. C!Look(p) \/ C!Miss(p)
    BY <1>1, <2>1, <2>2, SameWords DEF C!Look, C!Miss, C!Answer, NothingFound
  <2> QED
    BY <2>3 DEF C!CNext
<1>3. CASE ItemOf(p) # NoItem
  BY <1>1, <1>3, GoesOn DEF SearchItems, NoStep
<1> QED
  BY <1>2, <1>3

LEMMA GetStep ==
  ASSUME TypeInv, DataApart, NEW p \in Proc, handle[p] \notin exists \ {named}, GetSecret(p)
  PROVE  C!CNext
<1>1. /\ call[p].op = "Get" /\ call[p].key \in Key
      /\ named # NoColl /\ handle[p] = named /\ UNCHANGED <<Stored, call>>
  BY KeyedCall, HandleIsNamed, SameStored
     DEF GetSecret, Usable, daemonVars, TypeInv, StepOfCall
<1>2. Stored[call[p].key] = ItemOf(p) /\ Stored[call[p].key] \in Data
  BY <1>1, StoredCases DEF GetSecret, ItemOf, TypeInv
<1>3. DueNow' = [DueNow EXCEPT ![p] = Found(ItemOf(p))]
  BY Answered DEF GetSecret
<1>4. C!Answer(Stored[call[p].key]) = Found(ItemOf(p))
  BY <1>2, SameWords DEF C!Answer, DataApart
<1>5. C!Look(p)
  BY <1>1, <1>3, <1>4 DEF C!Look
<1> QED
  BY <1>5 DEF C!CNext

LEMMA SetStep ==
  ASSUME TypeInv, DataApart, NEW p \in Proc, handle[p] \notin exists \ {named}, CreateItem(p)
  PROVE  C!CNext
<1>1. /\ pc[p] = "store" /\ call[p].op = "Set" /\ call[p].key \in Key /\ call[p].data \in Data
      /\ named # NoColl /\ handle[p] = named
  BY KeyedCall, HandleIsNamed DEF CreateItem, Usable, TypeInv, StepOfCall
<1>2. DueNow' = [DueNow EXCEPT ![p] = Ok] /\ DueNow[p] = Error
  BY <1>1, Answered, NotDue DEF CreateItem
<1>3. Stored' = [Stored EXCEPT ![call[p].key] = call[p].data]
  <2>1. call[p].data # NoItem
    BY <1>1, SecretAssumption
  <2>2. items' = [items EXCEPT ![named][call[p].key] = call[p].data] /\ UNCHANGED named
    BY <1>1 DEF CreateItem
  <2> QED
    BY <1>1, <2>1, <2>2, OneStored DEF TypeInv
<1>4. UNCHANGED call
  BY DEF CreateItem
<1>5. C!Store(p)
  BY <1>1, <1>2, <1>3, <1>4, SameWords DEF C!Store
<1> QED
  BY <1>5 DEF C!CNext

LEMMA DeleteStep ==
  ASSUME TypeInv, DataApart, NEW p \in Proc, handle[p] \notin exists \ {named}, Delete(p)
  PROVE  C!CNext
<1>1. /\ pc[p] = "delete" /\ call[p].op = "Remove" /\ call[p].key \in Key
      /\ named # NoColl /\ handle[p] = named
  BY KeyedCall, HandleIsNamed DEF Delete, Usable, TypeInv, StepOfCall
<1>2. DueNow' = [DueNow EXCEPT ![p] = Ok] /\ DueNow[p] = Error
  BY <1>1, Answered, NotDue DEF Delete
<1>3. Stored[call[p].key] # "no item"
  <2>1. Stored[call[p].key] \in Data
    BY <1>1, StoredCases DEF Delete, ItemOf, TypeInv
  <2> QED
    BY <2>1 DEF DataApart
<1>4. Stored' = [Stored EXCEPT ![call[p].key] = "no item"]
  <2>1. items' = [items EXCEPT ![named][call[p].key] = NoItem] /\ UNCHANGED named
    BY <1>1 DEF Delete
  <2> QED
    BY <1>1, <2>1, OneStored DEF TypeInv
<1>5. PICK over \in SUBSET {q \in Proc : IsSetOf(call[q], call[p].key)} :
        DueNow' = [q \in Proc |-> IF q = p THEN Ok ELSE IF q \in over THEN Ok ELSE DueNow[q]]
  <2> DEFINE none == {q \in Proc : FALSE}
  <2>1. none \in SUBSET {q \in Proc : IsSetOf(call[q], call[p].key)} /\ \A q \in Proc : q \notin none
    OBVIOUS
  <2> HIDE DEF none
  <2>2. DueNow' = [q \in Proc |-> IF q = p THEN Ok ELSE IF q \in none THEN Ok ELSE DueNow[q]]
    BY <1>2, <2>1 DEF DueNow
  <2> QED
    BY <2>1, <2>2
<1>6. UNCHANGED call
  BY DEF Delete
<1>7. C!Erase(p)
  BY <1>1, <1>2, <1>3, <1>4, <1>5, <1>6, SameWords DEF C!Erase
<1> QED
  BY <1>7 DEF C!CNext

\* A call whose answer is lost fails, after it has had its effect.
LEMMA LostStep ==
  ASSUME TypeInv, DataApart, NamedExists, NEW p \in Proc, AnswerLost(p)
  PROVE  C!CNext
<1>1. /\ Reply(p, Error) /\ UNCHANGED call
      /\ pc[p] \in {"create", "unlock", "store", "delete"}
  BY DEF AnswerLost
<1>2. DueNow' = [DueNow EXCEPT ![p] = Error] /\ call[p] # Idle /\ DueNow[p] = Error
  BY <1>1, Answered, NotDue DEF TypeInv, StepOfCall
<1>3. ASSUME UNCHANGED Stored PROVE C!CNext
  <2>1. C!Fail(p)
    BY <1>1, <1>2, <1>3, SameWords DEF C!Fail
  <2> QED
    BY <2>1 DEF C!CNext
<1>4. CASE pc[p] = "create"
  <2>1. PICK i \in CollId : Created(i)
    BY <1>4 DEF AnswerLost
  <2> QED
    BY <1>3, <2>1, CreatedUnseen
<1>5. CASE pc[p] = "unlock"
  BY <1>3, <1>5, SameStored DEF AnswerLost
<1>6. CASE pc[p] \in {"store", "delete"} /\ handle[p] # named
  <2>1. UNCHANGED named /\ handle[p] \in CollId
    BY <1>6 DEF AnswerLost, Usable, TypeInv, TypeOK
  <2>2. named # NoColl => items'[named] = items[named]
    BY <1>6, <2>1 DEF AnswerLost, TypeInv, TypeOK
  <2>3. UNCHANGED Stored
    BY <2>1, <2>2 DEF Stored
  <2> QED
    BY <1>3, <2>3
<1>7. CASE pc[p] \in {"store", "delete"} /\ handle[p] = named
  <2>1. /\ call[p].key \in Key /\ named # NoColl /\ handle[p] = named /\ UNCHANGED named
        /\ pc[p] = "store" => call[p].op = "Set" /\ call[p].data \in Data
        /\ pc[p] = "delete" => call[p].op = "Remove" /\ ItemOf(p) # NoItem
    BY <1>7, KeyedCall, HandleIsNamed DEF AnswerLost, Usable, TypeInv, StepOfCall
  <2>2. items' = [items EXCEPT ![named][call[p].key] =
                    IF pc[p] = "store" THEN call[p].data ELSE NoItem]
    BY <1>7, <2>1 DEF AnswerLost
  <2>3. CASE pc[p] = "store"
    <3>1. call[p].data # NoItem
      BY <2>1, <2>3, SecretAssumption
    <3>2. Stored' = [Stored EXCEPT ![call[p].key] = call[p].data]
      BY <2>1, <2>2, <2>3, <3>1, OneStored DEF TypeInv
    <3>3. C!Store(p)
      BY <1>1, <1>2, <2>1, <2>3, <3>2, SameWords DEF C!Store
    <3> QED
      BY <3>3 DEF C!CNext
  <2>4. CASE pc[p] = "delete"
    <3>1. Stored[call[p].key] # "no item"
      <4>1. Stored[call[p].key] \in Data
        BY <2>1, <2>4, StoredCases DEF ItemOf, TypeInv
      <4> QED
        BY <4>1 DEF DataApart
    <3>2. Stored' = [Stored EXCEPT ![call[p].key] = "no item"]
      BY <2>1, <2>2, <2>4, OneStored DEF TypeInv
    <3>3. PICK over \in SUBSET {q \in Proc : IsSetOf(call[q], call[p].key)} :
            DueNow' = [q \in Proc |-> IF q = p THEN Error ELSE IF q \in over THEN Ok ELSE DueNow[q]]
      <4> DEFINE none == {q \in Proc : FALSE}
      <4>1. none \in SUBSET {q \in Proc : IsSetOf(call[q], call[p].key)}
            /\ \A q \in Proc : q \notin none
        OBVIOUS
      <4> HIDE DEF none
      <4>2. DueNow' = [q \in Proc |-> IF q = p THEN Error ELSE IF q \in none THEN Ok ELSE DueNow[q]]
        BY <1>2, <4>1 DEF DueNow
      <4> QED
        BY <4>1, <4>2
    <3>4. C!Erase(p)
      BY <1>1, <1>2, <2>1, <2>4, <3>1, <3>2, <3>3, SameWords DEF C!Erase
    <3> QED
      BY <3>4 DEF C!CNext
  <2> QED
    BY <1>7, <2>3, <2>4
<1> QED
  BY <1>1, <1>4, <1>5, <1>6, <1>7

\* The steps of Keys: what is listed was there when it was listed.
LEMMA KeysStep ==
  ASSUME TypeInv, DataApart, NEW p \in Proc, Items(p) \/ Label(p) \/ Keys(p),
         Label(p) => handle[p] \notin exists \ {named}
  PROVE  NoStep \/ C!CNext
<1> DEFINE all == {k \in Key : Stored[k] # "no item"}
<1>1. call[p].op = "Keys" /\ UNCHANGED <<Stored, call>>
  BY SameStored DEF Items, Label, Keys, daemonVars, TypeInv, StepOfCall
<1>2. ASSUME NEW S \in SUBSET (all \cup C!Gathered(p)), DueNow' = [DueNow EXCEPT ![p] = Listing(S)]
      PROVE  C!CNext
  <2>1. C!List(p)
    BY <1>1, <1>2, SameWords DEF C!List
  <2> QED
    BY <2>1 DEF C!CNext
<1>3. CASE Items(p)
  <2>1. \A q \in Proc : /\ pc'[q] = IF q = p THEN "label" ELSE pc[q]
                        /\ seen'[q] = IF q = p THEN Listing({}) ELSE seen[q]
    BY <1>3 DEF Items, Go, TypeInv, TypeOK
  <2>2. DueNow' = [DueNow EXCEPT ![p] = Listing({})]
    BY <1>3, <2>1 DEF Items, DueNow, Due
  <2> QED
    BY <1>2, <2>2
<1>4. CASE Label(p)
  <2>1. PICK k \in labels[p] :
          seen' = [seen EXCEPT ![p] =
                     IF Labelled(p, k) THEN Listing(seen[p].keys \cup {k}) ELSE seen[p]]
    BY <1>4 DEF Label
  <2>2. /\ pc[p] = "label" /\ UNCHANGED <<pc, result>> /\ k \in Key
        /\ seen[p] \in [kind : {"keys"}, keys : SUBSET Key]
    BY <1>4, <2>1 DEF Label, TypeInv, TypeOK, StepOfCall
  <2>3. CASE Labelled(p, k)
    <3>1. named # NoColl /\ handle[p] = named
      BY <1>4, <2>3, HandleIsNamed DEF Labelled
    <3>2. Stored[k] \in Data
      BY <2>2, <2>3, <3>1, StoredCases DEF Labelled, TypeInv
    <3>3. k \in all
      BY <2>2, <3>2 DEF DataApart
    <3>4. C!Gathered(p) = seen[p].keys
      BY <2>2 DEF C!Gathered, DueNow, Due
    <3>5. \A q \in Proc :
            seen'[q] = IF q = p THEN Listing(seen[p].keys \cup {k}) ELSE seen[q]
      BY <2>1, <2>3 DEF TypeInv, TypeOK
    <3>6. DueNow' = [DueNow EXCEPT ![p] = Listing(seen[p].keys \cup {k})]
      BY <2>2, <3>5 DEF DueNow, Due
    <3>7. seen[p].keys \cup {k} \in SUBSET (all \cup C!Gathered(p))
      BY <3>3, <3>4
    <3> QED
      BY <1>2, <3>6, <3>7
  <2>4. CASE ~Labelled(p, k)
    <3>1. UNCHANGED seen
      BY <2>1, <2>4 DEF TypeInv, TypeOK
    <3>2. UNCHANGED DueNow
      BY <2>2, <3>1 DEF DueNow, Due
    <3> QED
      BY <1>1, <3>2 DEF NoStep
  <2> QED
    BY <2>3, <2>4
<1>5. CASE Keys(p)
  <2>1. DueNow' = [DueNow EXCEPT ![p] = seen[p]] /\ DueNow[p] = seen[p]
    BY <1>5, Answered DEF Keys, DueNow, Due
  <2>2. UNCHANGED DueNow
    BY <2>1 DEF DueNow
  <2> QED
    BY <1>1, <2>2 DEF NoStep
<1> QED
  BY <1>3, <1>4, <1>5

LEMMA ReturnStep == ASSUME TypeInv, NEW p \in Proc, Return(p) PROVE C!CNext
<1>1. \A q \in Proc : pc'[q] = IF q = p THEN "idle" ELSE pc[q]
  BY DEF Return, Go, TypeInv, TypeOK
<1>2. \A q \in Proc : result'[q] = IF q = p THEN Error ELSE result[q]
  BY DEF Return, TypeInv, TypeOK
<1>3. DueNow' = [DueNow EXCEPT ![p] = Error]
  BY <1>1, <1>2 DEF Return, DueNow, Due
<1>4. call[p] # Idle /\ UNCHANGED Stored
  BY SameStored DEF Return, daemonVars, TypeInv, StepOfCall
<1>5. C!Return(p)
  BY <1>3, <1>4, SameWords DEF Return, C!Return
<1> QED
  BY <1>5 DEF C!CNext

-----------------------------------------------------------------------------
LEMMA InitRefines == Init => C!CInit
<1> SUFFICES ASSUME Init PROVE C!CInit
  OBVIOUS
<1>1. Stored = [k \in Key |-> "no item"] /\ DueNow = [p \in Proc |-> Error]
  BY DEF Init, Stored, DueNow, Due
<1> QED
  BY <1>1, SameWords DEF Init, C!CInit

LEMMA NextNamedExists == TypeInv /\ NamedExists /\ [Next]_vars => NamedExists'
<1> SUFFICES ASSUME TypeInv, NamedExists, [Next]_vars PROVE NamedExists'
  OBVIOUS
<1>1. CASE \E i \in CollId : Created(i)
  BY <1>1 DEF Created, NamedExists
<1>2. CASE DeleteCollection
  BY <1>2 DEF DeleteCollection, NamedExists
<1>3. CASE UNCHANGED <<named, exists>>
  BY <1>3 DEF NamedExists
<1>4. \/ \E i \in CollId : Created(i)
      \/ DeleteCollection
      \/ UNCHANGED <<named, exists>>
  BY DEF Next, Step, vars, daemonVars, Open, Call, GetMetadata, OpenSecrets, NoCollection,
         CreateCollection, Unlock, Dismissed, SearchItems, GetSecret, CreateItem, Delete, Items,
         Label, Keys, ObjectFails, DBusError, AnswerLost, LabelError, Return, Lock
<1> QED
  BY <1>1, <1>2, <1>3, <1>4

LEMMA NextRefines ==
  ASSUME TypeInv, NamedExists, DataApart, [Next]_vars
  PROVE  NoStep \/ DeleteCollection \/ (\E p \in Proc : Strayed(p)) \/ C!CNext
<1>1. CASE UNCHANGED vars
  BY <1>1, SameStored DEF vars, daemonVars, NoStep, DueNow, Due
<1>2. ASSUME NEW p \in Proc, Open(p) \/ Call(p) \/ Step(p)
      PROVE  NoStep \/ Strayed(p) \/ C!CNext
  <2>1. CASE SearchItems(p) \/ GetSecret(p) \/ CreateItem(p) \/ Delete(p) \/ Label(p)
    <3>1. CASE handle[p] \in exists \ {named}
      BY <2>1, <3>1 DEF Strayed
    <3>2. CASE handle[p] \notin exists \ {named}
      BY <2>1, <3>2, SearchStep, GetStep, SetStep, DeleteStep, KeysStep
    <3> QED
      BY <3>1, <3>2
  <2>2. CASE \/ Open(p) \/ Call(p) \/ GetMetadata(p) \/ OpenSecrets(p) \/ NoCollection(p)
             \/ CreateCollection(p) \/ Unlock(p) \/ Dismissed(p) \/ ObjectFails(p)
             \/ DBusError(p) \/ AnswerLost(p) \/ LabelError(p) \/ Return(p)
    BY <2>2, OpenStep, BeginStep, FailStep, OnTheWayStep, NoCollectionStep,
       CreateCollectionStep, ReturnStep, LostStep
  <2>3. CASE (Items(p) \/ Keys(p)) /\ ~Label(p)
    BY <2>3, KeysStep
  <2> QED
    BY <1>2, <2>1, <2>2, <2>3 DEF Step
<1>3. CASE Lock
  BY <1>3, SameStored DEF Lock, NoStep, DueNow, Due
<1> QED
  BY <1>1, <1>2, <1>3 DEF Next

\* The collection is the store of the Keyring interface (keyring.go:114-125) for any
\* number of processes, however it is locked, its prompts refused and its calls
\* failing or their answers lost, and emptied only by who deletes it, but for the
\* calls on a second collection that processes have created at once
\* (secretservice.go:183).
THEOREM ContractHolds == DataApart => (Spec => Contract)
<1> SUFFICES ASSUME DataApart PROVE Spec => Contract
  OBVIOUS
<1>1. Init => NamedExists
  BY DEF Init, NamedExists
<1>2. TypeInv /\ NamedExists /\ [Next]_vars
        => [DeleteCollection \/ (\E p \in Proc : Strayed(p)) \/ C!CNext]_<<Stored, call, DueNow>>
  BY NextRefines DEF NoStep
<1> QED
  BY <1>1, <1>2, InitTypeInv, NextTypeInv, NextNamedExists, InitRefines, PTL DEF Spec, Contract
=============================================================================
