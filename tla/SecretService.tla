----------------------------- MODULE SecretService -----------------------------
(***************************************************************************)
(* The Secret Service backend (secretservice.go): processes keep items in  *)
(* one collection of a desktop daemon, reached over D-Bus.  A step is one  *)
(* D-Bus call or one prompt.  The daemon is external: it may lock a        *)
(* collection at any time, a person may delete it, and a collection that   *)
(* is created under a name in use gets a path of its own, one under a free *)
(* name may get that of a collection which has gone.  The collection a     *)
(* process works on is the last one that openSecrets found at the path of  *)
(* the configured name, or that the process created.                       *)
(***************************************************************************)
EXTENDS KeyringCalls

CONSTANTS Proc,
          CollId, NoColl,   \* the daemon's collections, by D-Bus path
          NoItem,
          Faults            \* which of "dbus", "dismiss", "lock", "delete" may happen

ASSUME SecretAssumption ==
  /\ NoColl \notin CollId /\ NoItem \notin Data
  /\ Faults \subseteq {"dbus", "dismiss", "lock", "delete"}

VARIABLES named,       \* the collection at the path of the configured name
          exists, locked,
          items,       \* the items of every collection
          handle,      \* secretsKeyring.collection, of every process
          call, pc, result,
          seen,        \* history: what the call has found, as a reply
          labels,      \* Keys: items whose label is still to be asked for
          raced,       \* history: two processes were creating the collection at once
          deleted      \* history: a person has deleted it

daemonVars == <<named, exists, locked, items>>
vars == <<daemonVars, handle, call, pc, result, seen, labels, raced, deleted>>

PCs == {"closed", "idle", "open", "create", "unlock", "search", "secret",
        "store", "delete", "items", "label", "metadata", "return"}

TypeOK ==
  /\ named \in CollId \cup {NoColl}
  /\ exists \in SUBSET CollId /\ locked \in SUBSET CollId
  /\ items \in [CollId -> [Key -> Data \cup {NoItem}]]
  /\ handle \in [Proc -> CollId \cup {NoColl}]
  /\ call \in [Proc -> Calls \cup {Idle}]
  /\ pc \in [Proc -> PCs]
  /\ result \in [Proc -> Replies] /\ seen \in [Proc -> Replies]
  /\ labels \in [Proc -> SUBSET Key]
  /\ raced \in BOOLEAN /\ deleted \in BOOLEAN

Empty == [k \in Key |-> NoItem]

Init ==
  /\ named = NoColl /\ exists = {} /\ locked = {}
  /\ items = [i \in CollId |-> Empty]
  /\ handle = [p \in Proc |-> NoColl]
  /\ call = [p \in Proc |-> Idle] /\ pc = [p \in Proc |-> "closed"]
  /\ result = [p \in Proc |-> Error] /\ seen = [p \in Proc |-> Error]
  /\ labels = [p \in Proc |-> {}]
  /\ raced = FALSE /\ deleted = FALSE

-----------------------------------------------------------------------------
Go(p, step) == pc' = [pc EXCEPT ![p] = step]

Reply(p, r) ==
  /\ Go(p, "return")
  /\ result' = [result EXCEPT ![p] = r]
  /\ seen' = [seen EXCEPT ![p] = Error] /\ labels' = [labels EXCEPT ![p] = {}]

\* openSecrets: the collection at the path, and what was there before when
\* there is none: the field is never reset.
FoundCollection(p) == IF named = NoColl THEN handle[p] ELSE named

\* The opener calls openSecrets, as every method does again.
Open(p) ==
  /\ pc[p] = "closed"
  /\ handle' = [handle EXCEPT ![p] = FoundCollection(p)]
  /\ Go(p, "idle")
  /\ UNCHANGED <<daemonVars, call, result, seen, labels, raced, deleted>>

Call(p) ==
  /\ pc[p] = "idle"
  /\ \E cl \in Calls : /\ call' = [call EXCEPT ![p] = cl]
                       /\ Go(p, IF cl.op = "GetMetadata" THEN "metadata" ELSE "open")
  /\ UNCHANGED <<daemonVars, handle, result, seen, labels, raced, deleted>>

GetMetadata(p) ==
  /\ pc[p] = "metadata"
  /\ Reply(p, Error)   \* ErrMetadataNeedsCredentials
  /\ UNCHANGED <<daemonVars, handle, call, raced, deleted>>

\* Mutant: Set creates the collection without looking at what was found.
AfterOpenCreating(op) == CASE op \in {"Get", "Remove"} -> "search"
                           [] op = "Set" -> "create"
                           [] op = "Keys" -> "unlock"

AfterOpen(op) == CASE op \in {"Get", "Remove"} -> "search"
                   [] op \in {"Set", "Keys"} -> "unlock"

OpenSecrets(p) ==
  /\ pc[p] = "open" /\ FoundCollection(p) # NoColl
  /\ handle' = [handle EXCEPT ![p] = FoundCollection(p)]
  /\ Go(p, AfterOpen(call[p].op))
  /\ UNCHANGED <<daemonVars, call, result, seen, labels, raced, deleted>>

\* errCollectionNotFound, as each method takes it; Set creates the collection.
NoCollection(p) ==
  /\ pc[p] = "open" /\ FoundCollection(p) = NoColl
  /\ IF call[p].op = "Set"
     THEN /\ Go(p, "create")
          /\ raced' = (raced \/ \E q \in Proc : pc[q] = "create")
          /\ UNCHANGED <<result, seen, labels>>
     ELSE /\ Reply(p, IF call[p].op = "Keys" THEN Listing({}) ELSE NotFound)
          /\ UNCHANGED raced
  /\ UNCHANGED <<daemonVars, handle, call, deleted>>

\* Paths that neither the daemon nor a process knows.
NewCollections == CollId \ (exists \cup {handle[q] : q \in Proc})

\* Paths of collections that have gone, at which a process still looks.
GoneCollections == {handle[q] : q \in Proc} \ (exists \cup {NoColl})

\* CreateCollection gives a new collection: elsewhere if the path is taken, and if
\* it is free, there again or at a path that is new as well.
Created(i) ==
  /\ NewCollections # {}
  /\ i \in {CHOOSE j \in NewCollections : TRUE} \cup (IF named = NoColl THEN GoneCollections ELSE {})
  /\ exists' = exists \cup {i}
  /\ items' = [items EXCEPT ![i] = Empty]
  /\ named' = IF named = NoColl THEN i ELSE named
  /\ UNCHANGED locked

CreateCollection(p) ==
  /\ pc[p] = "create"
  /\ \E i \in CollId : Created(i) /\ handle' = [handle EXCEPT ![p] = i]
  /\ Go(p, "unlock")
  /\ UNCHANGED <<call, result, seen, labels, raced, deleted>>

-----------------------------------------------------------------------------
\* Mutant: Remove has a step of its own that nothing implements.
AfterUnlockSearching(op) == CASE op = "Get" -> "secret"
                              [] op = "Remove" -> "found"
                              [] op = "Set" -> "store"
                              [] op = "Keys" -> "items"

\* Locked and, if need be, Unlock: of the item for Get and Remove, of the
\* collection for Set and Keys; the daemon locks the one with the other.
AfterUnlock(op) == CASE op = "Get" -> "secret"
                     [] op = "Remove" -> "delete"
                     [] op = "Set" -> "store"
                     [] op = "Keys" -> "items"

Unlock(p) ==
  /\ pc[p] = "unlock" /\ handle[p] \in exists
  /\ locked' = locked \ {handle[p]}
  /\ Go(p, AfterUnlock(call[p].op))
  /\ UNCHANGED <<named, exists, items, handle, call, result, seen, labels, raced, deleted>>

Dismissed(p) ==
  /\ "dismiss" \in Faults
  /\ pc[p] = "unlock" /\ handle[p] \in locked
  /\ Reply(p, Error)
  /\ UNCHANGED <<daemonVars, handle, call, raced, deleted>>

ItemOf(p) == items[handle[p]][call[p].key]

\* No item: Remove has nothing to do and succeeds.
NothingFound(op) == IF op = "Get" THEN NotFound ELSE Ok

SearchItems(p) ==
  /\ pc[p] = "search" /\ handle[p] \in exists
  /\ IF ItemOf(p) = NoItem
     THEN Reply(p, NothingFound(call[p].op))
     ELSE Go(p, "unlock") /\ UNCHANGED <<result, seen, labels>>
  /\ UNCHANGED <<daemonVars, handle, call, raced, deleted>>

Usable(p) == handle[p] \in exists \ locked

GetSecret(p) ==
  /\ pc[p] = "secret" /\ Usable(p) /\ ItemOf(p) # NoItem
  /\ Reply(p, Found(ItemOf(p)))
  /\ UNCHANGED <<daemonVars, handle, call, raced, deleted>>

\* CreateItem with replace.
CreateItem(p) ==
  /\ pc[p] = "store" /\ Usable(p)
  /\ items' = [items EXCEPT ![handle[p]][call[p].key] = call[p].data]
  /\ Reply(p, Ok)
  /\ UNCHANGED <<named, exists, locked, handle, call, raced, deleted>>

Delete(p) ==
  /\ pc[p] = "delete" /\ Usable(p) /\ ItemOf(p) # NoItem
  /\ items' = [items EXCEPT ![handle[p]][call[p].key] = NoItem]
  /\ Reply(p, Ok)
  /\ UNCHANGED <<named, exists, locked, handle, call, raced, deleted>>

KeysIn(i) == {k \in Key : items[i][k] # NoItem}

Items(p) ==
  /\ pc[p] = "items" /\ handle[p] \in exists
  /\ labels' = [labels EXCEPT ![p] = KeysIn(handle[p])]
  /\ seen' = [seen EXCEPT ![p] = Listing({})]
  /\ Go(p, "label")
  /\ UNCHANGED <<daemonVars, handle, call, result, raced, deleted>>

\* Mutant: an item whose label cannot be read is listed all the same.
LabelledAlways(p, k) == TRUE

\* An item that has gone has no label, and Keys drops that error.
Labelled(p, k) == handle[p] \in exists /\ items[handle[p]][k] # NoItem

Label(p) ==
  /\ pc[p] = "label"
  /\ \E k \in labels[p] :
       /\ labels' = [labels EXCEPT ![p] = @ \ {k}]
       /\ seen' = [seen EXCEPT ![p] = IF Labelled(p, k) THEN Listing(@.keys \cup {k}) ELSE @]
  /\ UNCHANGED <<daemonVars, handle, call, pc, result, raced, deleted>>

Keys(p) ==
  /\ pc[p] = "label" /\ labels[p] = {}
  /\ Reply(p, seen[p])
  /\ UNCHANGED <<daemonVars, handle, call, raced, deleted>>

\* The object of the call is gone, or locked again.
ObjectFails(p) ==
  /\ \/ pc[p] \in {"unlock", "search", "items"} /\ handle[p] \notin exists
     \/ pc[p] \in {"secret", "delete", "store"} /\ ~Usable(p)
     \/ pc[p] \in {"secret", "delete"} /\ Usable(p) /\ ItemOf(p) = NoItem
  /\ Reply(p, Error)
  /\ UNCHANGED <<daemonVars, handle, call, raced, deleted>>

\* Any D-Bus call can fail; one that asks for a label is dropped from the list.
DBusError(p) ==
  /\ "dbus" \in Faults
  /\ pc[p] \in {"open", "create", "unlock", "search", "secret", "store", "delete", "items"}
  /\ Reply(p, Error)
  /\ UNCHANGED <<daemonVars, handle, call, raced, deleted>>

\* The call has been made, and its answer is lost.
AnswerLost(p) ==
  /\ "dbus" \in Faults
  /\ \/ pc[p] = "create" /\ \E i \in CollId : Created(i)
     \/ /\ pc[p] = "unlock" /\ handle[p] \in exists
        /\ locked' = locked \ {handle[p]}
        /\ UNCHANGED <<named, exists, items>>
     \/ /\ \/ pc[p] = "store" /\ Usable(p)
           \/ pc[p] = "delete" /\ Usable(p) /\ ItemOf(p) # NoItem
        /\ items' = [items EXCEPT ![handle[p]][call[p].key] =
                       IF pc[p] = "store" THEN call[p].data ELSE NoItem]
        /\ UNCHANGED <<named, exists, locked>>
  /\ Reply(p, Error)
  /\ UNCHANGED <<handle, call, raced, deleted>>

LabelError(p) ==
  /\ "dbus" \in Faults /\ pc[p] = "label"
  /\ \E k \in labels[p] : labels' = [labels EXCEPT ![p] = @ \ {k}]
  /\ UNCHANGED <<daemonVars, handle, call, pc, result, seen, raced, deleted>>

Return(p) ==
  /\ pc[p] = "return"
  /\ Go(p, "idle")
  /\ call' = [call EXCEPT ![p] = Idle]
  /\ result' = [result EXCEPT ![p] = Error]
  /\ UNCHANGED <<daemonVars, handle, seen, labels, raced, deleted>>

-----------------------------------------------------------------------------
\* The desktop locks the collections: a timeout, the screen, the person.
Lock ==
  /\ "lock" \in Faults /\ locked # exists
  /\ locked' = exists
  /\ UNCHANGED <<named, exists, items, handle, call, pc, result, seen, labels, raced, deleted>>

\* A person deletes the collection.
DeleteCollection ==
  /\ "delete" \in Faults /\ named # NoColl
  /\ exists' = exists \ {named} /\ locked' = locked \ {named}
  /\ items' = [items EXCEPT ![named] = Empty]
  /\ named' = NoColl
  /\ deleted' = TRUE
  /\ UNCHANGED <<handle, call, pc, result, seen, labels, raced>>

-----------------------------------------------------------------------------
Step(p) == \/ GetMetadata(p) \/ OpenSecrets(p) \/ NoCollection(p) \/ CreateCollection(p)
           \/ Unlock(p) \/ Dismissed(p) \/ SearchItems(p) \/ GetSecret(p)
           \/ CreateItem(p) \/ Delete(p) \/ Items(p) \/ Label(p) \/ Keys(p)
           \/ ObjectFails(p) \/ DBusError(p) \/ AnswerLost(p) \/ LabelError(p) \/ Return(p)

Next == \/ \E p \in Proc : Open(p) \/ Call(p) \/ Step(p)
        \/ Lock \/ DeleteCollection

Spec == Init /\ [][Next]_vars

-----------------------------------------------------------------------------
Stored == [k \in Key |-> IF named = NoColl \/ items[named][k] = NoItem
                         THEN "no item" ELSE items[named][k]]

Due(p) == CASE pc[p] = "return" -> result[p]
            [] pc[p] = "label" -> seen[p]
            [] OTHER -> Error

DueNow == [p \in Proc |-> Due(p)]

C == INSTANCE KeyringContract
       WITH Client <- Proc, items <- Stored, due <- DueNow,
            NoItem <- "no item", Damaged <- "damaged", Weak <- {"list", "again"}

\* A process works on a collection that is not the one of the configured name: it
\* has created it while another process created that one, or found it before.
Strayed(p) ==
  /\ handle[p] \in exists \ {named}
  /\ SearchItems(p) \/ GetSecret(p) \/ CreateItem(p) \/ Delete(p) \/ Label(p)

\* The collection is a store with the promises of the Keyring interface
\* (keyring.go:114-125), which a person empties by deleting it: locking it between
\* any two D-Bus calls, refusing to unlock it, and the handle of a collection that
\* has gone, which openSecrets keeps (secretservice.go:91), only make calls fail.
\* When two processes create the collection at once (line 183), only the calls that
\* work on the one without the name are not held to it.  Remove of a missing key
\* succeeds (lines 224-227), and Keys leaves out an item that goes while its label
\* is asked for (lines 266-271).
Contract ==
  C!CInit /\ [][DeleteCollection \/ (\E p \in Proc : Strayed(p)) \/ C!CNext]_<<Stored, call, DueNow>>

\* There is one collection of the configured name, and every process works on it
\* or on none, unless two processes were creating it at once: openSecrets
\* (secretservice.go:76-100) finds again what any of them has created.
OneCollection ==
  ~raced => /\ exists = {named} \ {NoColl}
            /\ ~deleted => \A p \in Proc : handle[p] \in {named, NoColl}
=============================================================================
