------------------------------- MODULE WinHello -------------------------------
(***************************************************************************)
(* The Windows Hello backend (winhello.go, winhello/): items are envelopes *)
(* in the Windows Credential Manager, each sealed with a key of its own    *)
(* that is wrapped by one Passport key, shared by all processes of the     *)
(* user.  A process finds or makes that key once and from then on keeps    *)
(* its name (Backend.wrapper); every use of it opens it anew.              *)
(*                                                                         *)
(* A step is one call of the credential store or a run of NCrypt calls     *)
(* that only the process itself can see.  The provider is external: with   *)
(* the flags the code gives (0) it neither creates nor finalizes a key     *)
(* under a name that is taken.  A person may delete the Passport key, by   *)
(* resetting the PIN for one, and may move credentials about.              *)
(***************************************************************************)
EXTENDS KeyringCalls

CONSTANTS Proc,
          KeyId, NoKey,      \* the Passport keys that ever have the name
          NoCred, Foreign,   \* no credential; one that holds no envelope
          Elsewhere,         \* an item of another service
          Faults             \* "ncrypt", "cred", "exit", "delete", "restore"

Envelope == [key : KeyId, name : Key \cup {Elsewhere}, data : Data]
Cred     == Envelope \cup {NoCred, Foreign}

ASSUME HelloAssumption ==
  /\ NoKey \notin KeyId /\ Elsewhere \notin Key
  /\ NoCred \notin Envelope /\ Foreign \notin Envelope /\ NoCred # Foreign
  /\ Faults \subseteq {"ncrypt", "cred", "exit", "delete", "restore"}

VARIABLES store,     \* the credentials of the service, by key
          passport,  \* the Passport key there is
          shape,     \* the properties it was finalized with
          wrapper,   \* Backend.wrapper is set, by process
          held,      \* NCrypt handles a call has and has not freed
          draft,     \* properties of the key that a call is making
          opened,    \* the Passport key that a call has opened
          buf,       \* the credential a Get has read, or a Set is to write
          call, pc, result,
          lost,      \* history: the Passport key has been deleted
          hit        \* history: processes in whose call it was

ownVars == <<wrapper, held, draft, opened, buf>>
vars == <<store, passport, shape, ownVars, call, pc, result, lost, hit>>

PCs == {"idle", "read", "probe", "create", "initialize", "finalize", "free",
        "open", "unwrap", "wrap", "write", "lookup", "delete", "list",
        "metadata", "return"}

Cache == {"NgcCacheType", "NgcCacheTypeProperty"}
Property == {"Length", "Key Usage", "Use Context"} \cup Cache
Handles  == {"provider", "key"}

TypeOK ==
  /\ store \in [Key -> Cred]
  /\ passport \in KeyId \cup {NoKey} /\ shape \in SUBSET Property
  /\ wrapper \in [Proc -> BOOLEAN]
  /\ held \in [Proc -> SUBSET Handles] /\ draft \in [Proc -> SUBSET Property]
  /\ opened \in [Proc -> KeyId \cup {NoKey}] /\ buf \in [Proc -> Cred]
  /\ call \in [Proc -> Calls \cup {Idle}] /\ pc \in [Proc -> PCs]
  /\ result \in [Proc -> Replies]
  /\ lost \in BOOLEAN /\ hit \in SUBSET Proc

Init ==
  /\ store = [k \in Key |-> NoCred] /\ passport = NoKey /\ shape = {}
  /\ wrapper = [p \in Proc |-> FALSE]
  /\ held = [p \in Proc |-> {}] /\ draft = [p \in Proc |-> {}]
  /\ opened = [p \in Proc |-> NoKey] /\ buf = [p \in Proc |-> NoCred]
  /\ call = [p \in Proc |-> Idle] /\ pc = [p \in Proc |-> "idle"]
  /\ result = [p \in Proc |-> Error]
  /\ lost = FALSE /\ hit = {}

-----------------------------------------------------------------------------
Go(p, step) == pc' = [pc EXCEPT ![p] = step]

Reply(p, r) == Go(p, "return") /\ result' = [result EXCEPT ![p] = r]

\* ensureWrapper and openWrapper: a wrapper that is set is used as it is.
Prepare(p) == IF wrapper[p] THEN "open" ELSE "probe"

FirstStep(p, op) == CASE op = "Get" -> "read"
                      [] op = "GetMetadata" -> "metadata"
                      [] op = "Set" -> Prepare(p)
                      [] op = "Remove" -> "lookup"
                      [] op = "Keys" -> "list"

Call(p) ==
  /\ pc[p] = "idle"
  /\ \E cl \in Calls : call' = [call EXCEPT ![p] = cl] /\ Go(p, FirstStep(p, cl.op))
  /\ UNCHANGED <<store, passport, shape, ownVars, result, lost, hit>>

GetMetadata(p) ==
  /\ pc[p] = "metadata"
  /\ Reply(p, Error)   \* ErrMetadataNotSupported
  /\ UNCHANGED <<store, passport, shape, ownVars, call, lost, hit>>

\* Get reads the credential first, and only then looks for the Passport key.
Read(p) ==
  /\ pc[p] = "read"
  /\ LET cred == store[call[p].key] IN
     IF cred = NoCred
     THEN Reply(p, NotFound) /\ UNCHANGED buf
     ELSE Go(p, Prepare(p)) /\ buf' = [buf EXCEPT ![p] = cred] /\ UNCHANGED result
  /\ UNCHANGED <<store, passport, shape, wrapper, held, draft, opened, call, lost, hit>>

-----------------------------------------------------------------------------
\* openWinHelloPassportKey: a probe that opens the provider and the key and frees
\* both at once.  It is one step, and what it holds in between is not in held.
KeyFound(p) ==
  /\ pc[p] = "probe" /\ passport # NoKey
  /\ wrapper' = [wrapper EXCEPT ![p] = TRUE]
  /\ Go(p, "open")
  /\ UNCHANGED <<store, passport, shape, held, draft, opened, buf, call, result, lost, hit>>

\* Get fails: an item whose key is gone is not a missing item.  Set goes on to
\* make the key, with a provider handle of its own.
KeyMissing(p) ==
  /\ pc[p] = "probe" /\ passport = NoKey
  /\ IF call[p].op = "Get"
     THEN Reply(p, Error) /\ UNCHANGED held
     ELSE /\ Go(p, "create")
          /\ held' = [held EXCEPT ![p] = {"provider"}]
          /\ UNCHANGED result
  /\ UNCHANGED <<store, passport, shape, wrapper, draft, opened, buf, call, lost, hit>>

\* Mutant: a key that cannot be finalized is forgotten, and so is its handle.
FreedForgetting(step) == CASE step = "create" -> {"provider"}
                           [] step = "finalize" -> {"provider"}
                           [] OTHER -> Handles

\* The handles that are freed when the NCrypt call of a step fails.
Freed(step) == CASE step = "create" -> {"provider"}
                 [] OTHER -> Handles

Abandon(p) ==
  /\ held' = [held EXCEPT ![p] = @ \ Freed(pc[p])]
  /\ opened' = [opened EXCEPT ![p] = NoKey]
  /\ draft' = [draft EXCEPT ![p] = {}]
  /\ Reply(p, Error)

\* A key under creation is seen by nobody until it is finalized.
Create(p) ==
  /\ pc[p] = "create" /\ passport = NoKey
  /\ held' = [held EXCEPT ![p] = Handles]
  /\ Go(p, "initialize")
  /\ UNCHANGED <<store, passport, shape, wrapper, draft, opened, buf, call, result, lost, hit>>

\* Mutant: the error of the older property name is dropped.
AcceptedLoosely(refused) == refused \subseteq Cache

\* Every property must be set, the cache policy under one of its two names.
Accepted(refused) == refused \subseteq Cache /\ refused # Cache

\* The older name is tried only when the newer one is refused.
Initialize(p) ==
  /\ pc[p] = "initialize"
  /\ \E refused \in SUBSET Property :
       /\ "ncrypt" \notin Faults => refused = {}
       /\ IF Accepted(refused)
          THEN /\ draft' = [draft EXCEPT ![p] =
                     (Property \ refused) \ (IF "NgcCacheType" \in refused THEN {}
                                             ELSE {"NgcCacheTypeProperty"})]
               /\ Go(p, "finalize")
               /\ UNCHANGED <<held, opened, result>>
          ELSE Abandon(p)
  /\ UNCHANGED <<store, passport, shape, wrapper, buf, call, lost, hit>>

\* A Passport key that no envelope and no handle has seen yet.
NewKeys == {i \in KeyId : /\ \A k \in Key : store[k] \in Envelope => store[k].key # i
                          /\ \A p \in Proc : /\ buf[p] \in Envelope => buf[p].key # i
                                             /\ opened[p] # i}

\* Mutant: a key that is there already is overwritten.
FinalizeOver(p) ==
  /\ pc[p] = "finalize"
  /\ \E i \in NewKeys : passport' = i
  /\ shape' = draft[p]
  /\ draft' = [draft EXCEPT ![p] = {}]
  /\ Go(p, "free")
  /\ UNCHANGED <<store, wrapper, held, opened, buf, call, result, lost, hit>>

Finalize(p) ==
  /\ pc[p] = "finalize" /\ passport = NoKey
  /\ NewKeys # {}
  /\ passport' = CHOOSE i \in NewKeys : TRUE
  /\ shape' = draft[p]
  /\ draft' = [draft EXCEPT ![p] = {}]
  /\ Go(p, "free")
  /\ UNCHANGED <<store, wrapper, held, opened, buf, call, result, lost, hit>>

\* Another process has made the key since the probe; Set does not look again.
KeyTaken(p) ==
  /\ pc[p] \in {"create", "finalize"} /\ passport # NoKey
  /\ Abandon(p)
  /\ UNCHANGED <<store, passport, shape, wrapper, buf, call, lost, hit>>

Free(p) ==
  /\ pc[p] = "free"
  /\ held' = [held EXCEPT ![p] = {}]
  /\ wrapper' = [wrapper EXCEPT ![p] = TRUE]
  /\ Go(p, "open")
  /\ UNCHANGED <<store, passport, shape, draft, opened, buf, call, result, lost, hit>>

-----------------------------------------------------------------------------
\* Mutant: the name an envelope was sealed for is not compared.
ValidAnywhere(cred, k) == cred \in Envelope

\* decryptWinHelloEnvelope before the key is used: the credential is an
\* envelope, and was sealed for this very item.
Valid(cred, k) == cred \in Envelope /\ cred.name = k

EnvelopeRejected(p) ==
  /\ pc[p] = "open" /\ call[p].op = "Get" /\ ~Valid(buf[p], call[p].key)
  /\ Reply(p, Error)
  /\ UNCHANGED <<store, passport, shape, ownVars, call, lost, hit>>

\* Mutant: the handle that is opened is not looked at.
OpenUnchecked(p) ==
  /\ pc[p] = "open" /\ (call[p].op = "Get" => Valid(buf[p], call[p].key))
  /\ opened' = [opened EXCEPT ![p] = passport]
  /\ held' = [held EXCEPT ![p] = Handles]
  /\ Go(p, IF call[p].op = "Get" THEN "unwrap" ELSE "wrap")
  /\ UNCHANGED <<store, passport, shape, wrapper, draft, buf, call, result, lost, hit>>

\* withOperationKey: a provider and a key handle for this one use.
Open(p) ==
  /\ pc[p] = "open" /\ (call[p].op = "Get" => Valid(buf[p], call[p].key))
  /\ passport # NoKey
  /\ opened' = [opened EXCEPT ![p] = passport]
  /\ held' = [held EXCEPT ![p] = Handles]
  /\ Go(p, IF call[p].op = "Get" THEN "unwrap" ELSE "wrap")
  /\ UNCHANGED <<store, passport, shape, wrapper, draft, buf, call, result, lost, hit>>

\* The key has gone since the wrapper was set; the wrapper stays.
OpenMissing(p) ==
  /\ pc[p] = "open" /\ (call[p].op = "Get" => Valid(buf[p], call[p].key))
  /\ passport = NoKey
  /\ Reply(p, Error)
  /\ UNCHANGED <<store, passport, shape, ownVars, call, lost, hit>>

Used(p) == /\ held' = [held EXCEPT ![p] = {}]
           /\ opened' = [opened EXCEPT ![p] = NoKey]

\* The person approves, and the content key of another Passport key is refused.
Unwrap(p) ==
  /\ pc[p] = "unwrap"
  /\ Reply(p, IF buf[p].key = opened[p] THEN Found(buf[p].data) ELSE Error)
  /\ Used(p)
  /\ UNCHANGED <<store, passport, shape, wrapper, draft, buf, call, lost, hit>>

Wrap(p) ==
  /\ pc[p] = "wrap"
  /\ buf' = [buf EXCEPT ![p] = [key |-> opened[p], name |-> call[p].key,
                                data |-> call[p].data]]
  /\ Used(p)
  /\ Go(p, "write")
  /\ UNCHANGED <<store, passport, shape, wrapper, draft, call, result, lost, hit>>

Write(p) ==
  /\ pc[p] = "write"
  /\ store' = [store EXCEPT ![call[p].key] = buf[p]]
  /\ Reply(p, Ok)
  /\ UNCHANGED <<passport, shape, ownVars, call, lost, hit>>

-----------------------------------------------------------------------------
\* Remove gets the credential and deletes it; gone at either call is not found.
Lookup(p) ==
  /\ pc[p] = "lookup"
  /\ IF store[call[p].key] = NoCred
     THEN Reply(p, NotFound) ELSE Go(p, "delete") /\ UNCHANGED result
  /\ UNCHANGED <<store, passport, shape, ownVars, call, lost, hit>>

Delete(p) ==
  /\ pc[p] = "delete"
  /\ Reply(p, IF store[call[p].key] = NoCred THEN NotFound ELSE Ok)
  /\ store' = [store EXCEPT ![call[p].key] = NoCred]
  /\ UNCHANGED <<passport, shape, ownVars, call, lost, hit>>

Keys(p) ==
  /\ pc[p] = "list"
  /\ Reply(p, Listing({k \in Key : store[k] # NoCred}))
  /\ UNCHANGED <<store, passport, shape, ownVars, call, lost, hit>>

Leave(p) ==
  /\ Go(p, "idle")
  /\ call' = [call EXCEPT ![p] = Idle] /\ result' = [result EXCEPT ![p] = Error]
  /\ buf' = [buf EXCEPT ![p] = NoCred]
  /\ hit' = hit \ {p}

Return(p) ==
  /\ pc[p] = "return"
  /\ Leave(p)
  /\ UNCHANGED <<store, passport, shape, wrapper, held, draft, opened, lost>>

-----------------------------------------------------------------------------
\* An NCrypt call fails, or the person does not approve.  A handle that cannot
\* be freed is not tried again.
NCryptFails(p) ==
  /\ "ncrypt" \in Faults
  /\ pc[p] \in {"probe", "create", "finalize", "free", "open", "unwrap", "wrap"}
  /\ Abandon(p)
  /\ UNCHANGED <<store, passport, shape, wrapper, buf, call, lost, hit>>

CredFails(p) ==
  /\ "cred" \in Faults
  /\ pc[p] \in {"read", "write", "lookup", "delete", "list"}
  /\ Reply(p, Error)
  /\ UNCHANGED <<store, passport, shape, ownVars, call, lost, hit>>

\* The process ends, and with it its handles and a key not yet finalized.
Exit(p) ==
  /\ "exit" \in Faults
  /\ Leave(p)
  /\ wrapper' = [wrapper EXCEPT ![p] = FALSE]
  /\ held' = [held EXCEPT ![p] = {}] /\ draft' = [draft EXCEPT ![p] = {}]
  /\ opened' = [opened EXCEPT ![p] = NoKey]
  /\ UNCHANGED <<store, passport, shape, lost>>

DeletePassport ==
  /\ "delete" \in Faults /\ passport # NoKey
  /\ passport' = NoKey /\ shape' = {}
  /\ lost' = TRUE
  /\ hit' = {p \in Proc : pc[p] # "idle"}
  /\ UNCHANGED <<store, ownVars, call, pc, result>>

\* What a tool that copies credentials may put under the name of k: an envelope
\* that was sealed for another item or service, or something else altogether.
Misplaced(k) == {e \in Envelope : e.key = passport /\ e.name # k}
                  \cup {store[j] : j \in Key} \cup {Foreign}

Restore(k) ==
  /\ "restore" \in Faults
  /\ \E c \in Misplaced(k) : store' = [store EXCEPT ![k] = c]
  /\ UNCHANGED <<passport, shape, ownVars, call, pc, result, lost, hit>>

-----------------------------------------------------------------------------
Step(p) == \/ Call(p) \/ GetMetadata(p) \/ Read(p) \/ KeyFound(p) \/ KeyMissing(p)
           \/ Create(p) \/ Initialize(p) \/ Finalize(p) \/ KeyTaken(p) \/ Free(p)
           \/ EnvelopeRejected(p) \/ Open(p) \/ OpenMissing(p)
           \/ Unwrap(p) \/ Wrap(p) \/ Write(p)
           \/ Lookup(p) \/ Delete(p) \/ Keys(p) \/ Return(p)
           \/ NCryptFails(p) \/ CredFails(p) \/ Exit(p)

Outside == DeletePassport \/ \E k \in Key : Restore(k)

Next == (\E p \in Proc : Step(p)) \/ Outside

Spec == Init /\ [][Next]_vars

-----------------------------------------------------------------------------
\* An item is what the Passport key there is can open under its own name.
Opens(cred, k) == cred \in Envelope /\ cred.name = k /\ cred.key = passport

Stored == [k \in Key |-> IF store[k] = NoCred THEN "no item"
                         ELSE IF Opens(store[k], k) THEN store[k].data ELSE "damaged"]

Due(p) == CASE pc[p] = "return" -> result[p]
            [] /\ call[p].op = "Get" /\ pc[p] \in {"probe", "open", "unwrap"}
               /\ Opens(buf[p], call[p].key) -> Found(buf[p].data)
            [] OTHER -> Error

DueNow == [p \in Proc |-> Due(p)]

C == INSTANCE KeyringContract
       WITH Client <- Proc, items <- Stored, due <- DueNow,
            NoItem <- "no item", Damaged <- "damaged", Weak <- {}

Overtaken(p) == Unwrap(p) \/ Write(p)

\* Every step of a process keeps the promises of the Keyring interface
\* (keyring.go:114-125): also while processes make the Passport key together, with
\* wrappers that were set before the key was replaced, and whatever NCrypt call
\* fails.  Items that no longer open are errors, not missing, and none is
\* answered under a name it was not sealed for.  Only two steps of a call during
\* which the Passport key is deleted may do otherwise (Overtaken): its Get unwraps
\* by a handle it still has, its Set writes what is sealed for the deleted key.
Contract ==
  C!CInit /\ [][C!CNext \/ Outside \/ \E p \in hit : Overtaken(p)]_<<Stored, call, DueNow>>

\* As long as nobody deletes the Passport key, every envelope in the store or on
\* its way there is sealed with it, whoever made the key and however many tried
\* to (winhello/passport.go:65-110).
OneKeyServes ==
  ~lost => /\ \A k \in Key : store[k] \in Envelope => store[k].key = passport
           /\ \A p \in Proc : pc[p] = "write" => buf[p].key = passport

\* A Passport key that can be opened has all the properties it was to be created
\* with, the cache policy under one of its names (winhello/passport.go:137-179).
KeyWhole ==
  passport # NoKey => /\ Property \ Cache \subseteq shape
                      /\ shape \cap Cache # {}

\* When a call returns, by whichever of the error paths, it has given back every
\* NCrypt handle it was given (winhello/passport.go:42-44, 82-104; wrap.go:92-110).
HandlesFreed == \A p \in Proc : pc[p] \in {"idle", "return"} => held[p] = {}
=============================================================================
