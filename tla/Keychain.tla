-------------------------------- MODULE Keychain --------------------------------
(***************************************************************************)
(* The keychain backends of macOS and iOS (keychain_macos.go,              *)
(* keychain_ios.go).  Processes of one person share a keychain: the        *)
(* default one ("plain", the only one on iOS), or a keychain file that a   *)
(* Set creates and whose password the person gives ("named").  With Touch  *)
(* ID ("touch") a Set unlocks the file with a passphrase that an entry of  *)
(* the login keychain holds, and sets that entry up when there is none.    *)
(*                                                                         *)
(* A step is one call of the Security framework, one prompt or one touch.  *)
(* The framework is external: go-keychain answers a query that finds       *)
(* nothing with no results and no error; a locked keychain refuses calls   *)
(* unless the person unlocks it first.                                     *)
(***************************************************************************)
EXTENDS KeyringCalls

CONSTANTS Proc,
          Kinds,             \* what the processes may be configured as
          Passphrase, NoPass,
          NoItem,
          NoEntry, OtherEntry,  \* nothing; the entry of another keychain file
          Faults             \* "call", "lock", "delete", "password"

ASSUME KeychainAssumption ==
  /\ Kinds \subseteq [Proc -> {"plain"}] \cup [Proc -> {"named", "touch"}]
  /\ NoPass \notin Passphrase /\ NoItem \notin Data
  /\ NoEntry \notin Passphrase /\ OtherEntry \notin Passphrase /\ NoEntry # OtherEntry
  /\ Faults \subseteq {"call", "lock", "delete", "password"}

VARIABLES kind,          \* the configuration of every process
          file,          \* the keychain: "none", "open" or "locked"
          password,      \* what unlocks it
          items,
          entry,         \* the login keychain under touchIDService and touchIDAccount
          authenticated, \* keychain.isTouchIDAuthenticated, by process
          typed,         \* the passphrase a Set goes on with
          call, pc, result,
          changed        \* history: the person has changed the password or deleted the
                         \* file, or somebody opened it under a passphrase being tried

sharedVars == <<file, password, items, entry, changed>>
vars == <<kind, sharedVars, authenticated, typed, call, pc, result>>

PCs == {"idle", "query", "metadata", "status", "delete", "list",
        "askNew", "create", "touch", "lookup", "askOld", "lock", "tryNew", "keep", "unlock",
        "add", "find", "update", "return"}

TypeOK ==
  /\ kind \in Kinds
  /\ file \in {"none", "open", "locked"}
  /\ password \in Passphrase
  /\ items \in [Key -> Data \cup {NoItem}]
  /\ entry \in Passphrase \cup {NoEntry, OtherEntry}
  /\ authenticated \in [Proc -> BOOLEAN]
  /\ typed \in [Proc -> Passphrase \cup {NoPass}]
  /\ call \in [Proc -> Calls \cup {Idle}] /\ pc \in [Proc -> PCs]
  /\ result \in [Proc -> Replies]
  /\ changed \in BOOLEAN

Empty == [k \in Key |-> NoItem]

Plain(p) == kind[p] = "plain"

\* The default keychain is there; the file may be there, from an earlier program.
Init ==
  /\ kind \in Kinds
  /\ file \in IF \E p \in Proc : Plain(p) THEN {"open"} ELSE {"none", "open"}
  /\ password \in Passphrase
  /\ items = Empty
  /\ entry \in {NoEntry, OtherEntry}
  /\ authenticated = [p \in Proc |-> FALSE]
  /\ typed = [p \in Proc |-> NoPass]
  /\ call = [p \in Proc |-> Idle] /\ pc = [p \in Proc |-> "idle"]
  /\ result = [p \in Proc |-> Error]
  /\ changed = FALSE

-----------------------------------------------------------------------------
Go(p, step) == pc' = [pc EXCEPT ![p] = step]

Reply(p, r) == /\ Go(p, "return")
               /\ result' = [result EXCEPT ![p] = r]

\* With a keychain file, Set, Remove and Keys look for it first.
FirstStep(p, op) == CASE op = "Get" -> "query"
                      [] op = "GetMetadata" -> "metadata"
                      [] ~Plain(p) /\ op \in {"Set", "Remove", "Keys"} -> "status"
                      [] Plain(p) /\ op = "Set" -> "add"
                      [] Plain(p) /\ op = "Remove" -> "delete"
                      [] Plain(p) /\ op = "Keys" -> "list"

Call(p) ==
  /\ pc[p] = "idle"
  /\ \E cl \in Calls : call' = [call EXCEPT ![p] = cl] /\ Go(p, FirstStep(p, cl.op))
  /\ UNCHANGED <<kind, sharedVars, authenticated, typed, result>>

Held(k) == IF file = "none" THEN NoItem ELSE items[k]

Query(p) ==
  /\ pc[p] = "query" /\ file # "locked"
  /\ Reply(p, IF Held(call[p].key) = NoItem THEN NotFound ELSE Found(Held(call[p].key)))
  /\ UNCHANGED <<kind, sharedVars, authenticated, typed, call>>

GetMetadata(p) ==
  /\ pc[p] = "metadata" /\ Plain(p)
  /\ Reply(p, IF Held(call[p].key) = NoItem THEN NotFound ELSE Ok)
  /\ UNCHANGED <<kind, sharedVars, authenticated, typed, call>>

\* GetMetadata gives the query no search list: the keychains it looks in are the
\* person's, with this file among them or without.
MetadataElsewhere(p) ==
  /\ pc[p] = "metadata" /\ ~Plain(p)
  /\ \E r \in {Ok, NotFound} : Reply(p, r)
  /\ UNCHANGED <<kind, sharedVars, authenticated, typed, call>>

\* A query that fails has no results, which is tested before the error.
QueryFails(p) ==
  /\ \/ pc[p] = "query" /\ (file = "locked" \/ "call" \in Faults)
     \/ pc[p] = "metadata" /\ "call" \in Faults
  /\ Reply(p, NotFound)
  /\ UNCHANGED <<kind, sharedVars, authenticated, typed, call>>

-----------------------------------------------------------------------------
\* createOrOpen for Set; Remove and Keys go on with a file that is there.
AfterStatus(p) == CASE call[p].op = "Remove" -> "delete"
                    [] call[p].op = "Keys" -> "list"
                    [] call[p].op = "Set" /\ kind[p] = "touch" /\ ~authenticated[p] -> "touch"
                    [] OTHER -> "add"

Status(p) ==
  /\ pc[p] = "status" /\ file # "none"
  /\ Go(p, AfterStatus(p))
  /\ UNCHANGED <<kind, sharedVars, authenticated, typed, call, result>>

\* errSecNoSuchKeychain
NoKeychain(p) ==
  /\ pc[p] = "status" /\ file = "none"
  /\ IF call[p].op = "Set"
     THEN Go(p, "askNew") /\ UNCHANGED result
     ELSE Reply(p, IF call[p].op = "Keys" THEN Listing({}) ELSE NotFound)
  /\ UNCHANGED <<kind, sharedVars, authenticated, typed, call>>

\* Mutant: the passphrase is stored in the login keychain untried.
AfterAnswerUntried(step) == CASE step = "askNew" -> "create" [] step = "askOld" -> "keep"

AfterAnswer(step) == CASE step = "askNew" -> "create" [] step = "askOld" -> "lock"

\* The person is asked for the password of a new keychain, or of this one.
Ask(p) ==
  /\ pc[p] \in {"askNew", "askOld"}
  /\ \E w \in Passphrase : typed' = [typed EXCEPT ![p] = w]
  /\ Go(p, AfterAnswer(pc[p]))
  /\ UNCHANGED <<kind, sharedVars, authenticated, call, result>>

\* NewKeychain fails on a file that has come in between.
Create(p) ==
  /\ pc[p] = "create"
  /\ IF file = "none"
     THEN /\ file' = "open" /\ password' = typed[p] /\ items' = Empty
          /\ Go(p, "add") /\ UNCHANGED result
     ELSE Reply(p, Error) /\ UNCHANGED <<file, password, items>>
  /\ UNCHANGED <<kind, entry, authenticated, typed, call, changed>>

\* openWithTouchID: the flag is set before anything has been unlocked.
Touch(p) ==
  /\ pc[p] = "touch"
  /\ authenticated' = [authenticated EXCEPT ![p] = TRUE]
  /\ Go(p, "lookup")
  /\ UNCHANGED <<kind, sharedVars, typed, call, result>>

\* Mutant: the entry is looked up without its label.
LookupUnlabelled(p) ==
  /\ pc[p] = "lookup"
  /\ IF entry # NoEntry
     THEN typed' = [typed EXCEPT ![p] = entry] /\ Go(p, "unlock")
     ELSE Go(p, "askOld") /\ UNCHANGED typed
  /\ UNCHANGED <<kind, sharedVars, authenticated, call, result>>

\* The entry is looked up with its label, which names the keychain file.
Lookup(p) ==
  /\ pc[p] = "lookup"
  /\ IF entry \in Passphrase
     THEN typed' = [typed EXCEPT ![p] = entry] /\ Go(p, "unlock")
     ELSE Go(p, "askOld") /\ UNCHANGED typed
  /\ UNCHANGED <<kind, sharedVars, authenticated, call, result>>

\* setupTouchID locks the keychain to try the passphrase on it.
Lock(p) ==
  /\ pc[p] = "lock" /\ file # "none"
  /\ file' = "locked"
  /\ Go(p, "tryNew")
  /\ UNCHANGED <<kind, password, items, entry, changed, authenticated, typed, call, result>>

\* Somebody else opens a keychain on which a passphrase is being tried.
Spoils(others) == changed' = (changed \/ \E q \in others : pc[q] = "tryNew")

\* An open keychain takes any passphrase.
Unlock(p) ==
  /\ pc[p] \in {"tryNew", "unlock"} /\ file # "none" /\ (file = "open" \/ typed[p] = password)
  /\ file' = "open"
  /\ Spoils(Proc \ {p})
  /\ Go(p, IF pc[p] = "tryNew" THEN "keep" ELSE "add")
  /\ UNCHANGED <<kind, password, items, entry, authenticated, typed, call, result>>

\* A wrong passphrase leaves the keychain locked, and the flag set.
OpeningFails(p) ==
  /\ \/ pc[p] \in {"lock", "tryNew", "unlock"} /\ file = "none"
     \/ pc[p] \in {"tryNew", "unlock"} /\ file = "locked" /\ typed[p] # password
  /\ Reply(p, Error)
  /\ UNCHANGED <<kind, sharedVars, authenticated, typed, call>>

\* An entry is a duplicate whatever its label.
Keep(p) ==
  /\ pc[p] = "keep"
  /\ IF entry = NoEntry
     THEN entry' = typed[p] /\ Go(p, "add") /\ UNCHANGED result
     ELSE Reply(p, Error) /\ UNCHANGED entry
  /\ UNCHANGED <<kind, file, password, items, changed, authenticated, typed, call>>

-----------------------------------------------------------------------------
Add(p) ==
  /\ pc[p] = "add" /\ file = "open"
  /\ IF items[call[p].key] = NoItem
     THEN items' = [items EXCEPT ![call[p].key] = call[p].data] /\ Reply(p, Ok)
     ELSE Go(p, "find") /\ UNCHANGED <<items, result>>
  /\ UNCHANGED <<kind, file, password, entry, changed, authenticated, typed, call>>

\* updateItem queries for the duplicate ...
Find(p) ==
  /\ pc[p] = "find"
  /\ IF Held(call[p].key) = NoItem THEN Reply(p, Error) ELSE Go(p, "update") /\ UNCHANGED result
  /\ UNCHANGED <<kind, sharedVars, authenticated, typed, call>>

\* Mutant: what is not there to be updated counts as updated.
UpdateUnlooked(p) ==
  /\ pc[p] = "update" /\ file # "locked"
  /\ items' = IF Held(call[p].key) = NoItem THEN items
              ELSE [items EXCEPT ![call[p].key] = call[p].data]
  /\ Reply(p, Ok)
  /\ UNCHANGED <<kind, file, password, entry, changed, authenticated, typed, call>>

\* ... and updates it, if it is still there.
Update(p) ==
  /\ pc[p] = "update" /\ file # "locked"
  /\ IF Held(call[p].key) = NoItem
     THEN Reply(p, Error) /\ UNCHANGED items
     ELSE items' = [items EXCEPT ![call[p].key] = call[p].data] /\ Reply(p, Ok)
  /\ UNCHANGED <<kind, file, password, entry, changed, authenticated, typed, call>>

Delete(p) ==
  /\ pc[p] = "delete" /\ file # "none"
  /\ Reply(p, IF items[call[p].key] = NoItem THEN NotFound ELSE Ok)
  /\ items' = [items EXCEPT ![call[p].key] = NoItem]
  /\ UNCHANGED <<kind, file, password, entry, changed, authenticated, typed, call>>

Keys(p) ==
  /\ pc[p] = "list" /\ file # "none"
  /\ Reply(p, Listing({k \in Key : items[k] # NoItem}))
  /\ UNCHANGED <<kind, sharedVars, authenticated, typed, call>>

\* Any other call that the keychain refuses, because it is locked or has gone, or
\* for a reason of its own; a prompt that is cancelled, a finger not recognised.
CallFails(p) ==
  /\ \/ pc[p] \in {"add", "update", "delete"} /\ file = "locked"
     \/ pc[p] \in {"add", "delete", "list"} /\ file = "none"
     \/ pc[p] \in PCs \ {"idle", "query", "metadata", "return"} /\ "call" \in Faults
  /\ Reply(p, Error)
  /\ UNCHANGED <<kind, sharedVars, authenticated, typed, call>>

Return(p) ==
  /\ pc[p] = "return"
  /\ Go(p, "idle")
  /\ call' = [call EXCEPT ![p] = Idle] /\ result' = [result EXCEPT ![p] = Error]
  /\ typed' = [typed EXCEPT ![p] = NoPass]
  /\ UNCHANGED <<kind, sharedVars, authenticated>>

-----------------------------------------------------------------------------
\* The person, and the time-out of the keychain.
PersonLocks ==
  /\ "lock" \in Faults /\ file = "open"
  /\ file' = "locked"
  /\ UNCHANGED <<kind, password, items, entry, changed, authenticated, typed, call, pc, result>>

PersonUnlocks ==
  /\ "lock" \in Faults /\ file = "locked"
  /\ file' = "open"
  /\ Spoils(Proc)
  /\ UNCHANGED <<kind, password, items, entry, authenticated, typed, call, pc, result>>

\* Deletes the keychain file, or the entry in the login keychain.
PersonDeletes ==
  /\ "delete" \in Faults
  /\ \/ /\ \A p \in Proc : ~Plain(p)
        /\ file' = "none" /\ items' = Empty /\ changed' = TRUE
        /\ UNCHANGED entry
     \/ /\ entry' = NoEntry
        /\ UNCHANGED <<file, items, changed>>
  /\ UNCHANGED <<kind, password, authenticated, typed, call, pc, result>>

PersonChangesPassword ==
  /\ "password" \in Faults
  /\ password' \in Passphrase /\ changed' = TRUE
  /\ UNCHANGED <<kind, file, items, entry, authenticated, typed, call, pc, result>>

-----------------------------------------------------------------------------
Step(p) == \/ Call(p) \/ Query(p) \/ GetMetadata(p) \/ MetadataElsewhere(p) \/ QueryFails(p)
           \/ Status(p) \/ NoKeychain(p) \/ Ask(p) \/ Create(p) \/ Touch(p) \/ Lookup(p)
           \/ Lock(p) \/ Unlock(p) \/ OpeningFails(p) \/ Keep(p)
           \/ Add(p) \/ Find(p) \/ Update(p) \/ Delete(p) \/ Keys(p)
           \/ CallFails(p) \/ Return(p)

Person == PersonLocks \/ PersonUnlocks \/ PersonDeletes \/ PersonChangesPassword

Next == (\E p \in Proc : Step(p)) \/ Person

Spec == Init /\ [][Next]_vars

-----------------------------------------------------------------------------
Stored == [k \in Key |-> IF Held(k) = NoItem THEN "no item" ELSE Held(k)]
DueNow == [p \in Proc |-> IF pc[p] = "return" THEN result[p] ELSE Error]

C == INSTANCE KeyringContract
       WITH Client <- Proc, items <- Stored, due <- DueNow,
            NoItem <- "no item", Damaged <- "damaged", Weak <- {}
W == INSTANCE KeyringContract
       WITH Client <- Proc, items <- Stored, due <- DueNow,
            NoItem <- "no item", Damaged <- "damaged", Weak <- {"unseen", "stat"}

\* The keychain keeps the promises of the Keyring interface (keyring.go:114-125):
\* a Set adds or updates at one instant or fails, also when it has to create or
\* unlock the file first, when two processes do, or when the item goes between
\* the two (keychain_macos.go:226).  Only a query that fails calls an item missing
\* that is there (line 91), and only GetMetadata of a keychain file may look
\* elsewhere (line 112).
Contract ==
  C!CInit /\ [][~Person => IF \E p \in Proc : QueryFails(p) \/ MetadataElsewhere(p)
                           THEN W!CNext ELSE C!CNext]_<<Stored, call, DueNow>>

\* The passphrase in the login keychain is the one that opens the keychain file,
\* whoever has set it up: what does not unlock the keychain that was locked for the
\* purpose is not stored (keychain_macos.go:407-428).  Afterwards the person may
\* change the password or delete the file; and the keychain must not be opened by
\* somebody else between the two calls, since any passphrase unlocks an open one.
StoredPassphraseOpens ==
  entry \in Passphrase /\ file # "none" /\ ~changed => entry = password

\* keychain_macos.go:338, "already unlocked, return keychain": where the flag spares
\* a Set the unlocking, the keychain is unlocked, if nobody else locks it.
AlreadyUnlocked ==
  \A p \in Proc : pc[p] = "add" /\ call[p].op = "Set" /\ authenticated[p] => file # "locked"
=============================================================================
