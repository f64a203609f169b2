---------------------------- MODULE WinHelloProofs ----------------------------
(***************************************************************************)
(* Proofs about WinHello, for any processes, items, Passport keys and      *)
(* faults.  The inductive invariant has three parts: which call a step     *)
(* belongs to and what it finds (StepOfCall), which handles it holds       *)
(* (HeldByStep), and that a key about to be finalized has its properties   *)
(* and that every handle and envelope is of the Passport key there is,     *)
(* as long as that has not been deleted (SealedInv).  That the credentials *)
(* are a keyring needs a weaker fact that outlives a deletion: what a call *)
(* knows of the key if the deletion was not in the course of it            *)
(* (CalledInv).                                                            *)
(***************************************************************************)
EXTENDS WinHello, TLAPS

\* A call carries the arguments of its operation.
LEMMA CallArguments ==
  \A cl \in Calls :
    /\ cl.op \in {"Get", "GetMetadata", "Remove", "Set", "Keys"}
    /\ cl.op \in {"Get", "GetMetadata", "Remove", "Set"} => cl.key \in Key
    /\ cl.op = "Set" => cl.data \in Data
  BY DEF Calls

\* A client without a call is in none of them.
LEMMA IdleIsNoCall == Idle \notin Calls /\ Idle.op = "idle"
  BY DEF Idle, Calls

\* What a backend can answer is a reply of the interface.
LEMMA ReplyTypes ==
  /\ Ok \in Replies /\ NotFound \in Replies /\ Error \in Replies
  /\ \A d \in Data : Found(d) \in Replies
  /\ \A S \in SUBSET Key : Listing(S) \in Replies
  BY DEF Replies, Ok, NotFound, Error, Found, Listing

StepOfCall ==
  \A p \in Proc :
    /\ pc[p] = "idle" <=> call[p] = Idle
    /\ pc[p] \in {"read", "unwrap"} => call[p].op = "Get"
    /\ pc[p] \in {"create", "initialize", "finalize", "free", "wrap", "write"}
         => call[p].op = "Set"
    /\ pc[p] \in {"probe", "open"} => call[p].op \in {"Get", "Set"}
    /\ pc[p] \in {"lookup", "delete"} => call[p].op = "Remove"
    /\ pc[p] = "list" => call[p].op = "Keys"
    /\ pc[p] \in {"unwrap", "write"} => buf[p] \in Envelope
    /\ pc[p] \in {"unwrap", "wrap"} => opened[p] \in KeyId

TypeInv == TypeOK /\ StepOfCall

HeldByStep ==
  \A p \in Proc :
    /\ pc[p] \notin {"create", "initialize", "finalize", "free", "unwrap", "wrap"}
         => held[p] = {}
    /\ pc[p] = "create" => held[p] \subseteq {"provider"}

Whole(props) == Property \ Cache \subseteq props /\ props \cap Cache # {}

DraftWhole == \A p \in Proc : pc[p] = "finalize" => Whole(draft[p])

HandlesOfPassport ==
  ~lost => \A p \in Proc : pc[p] = "wrap" => opened[p] = passport

SealedInv == DraftWhole /\ KeyWhole /\ HandlesOfPassport /\ OneKeyServes

-----------------------------------------------------------------------------
\* Envelopes are made of a key, a name and data, and are neither of the others.
LEMMA EnvelopeFields ==
  /\ \A e \in Envelope : e.key \in KeyId /\ e.data \in Data
  /\ \A i \in KeyId, k \in Key, d \in Data : [key |-> i, name |-> k, data |-> d] \in Envelope
  /\ Envelope \subseteq Cred /\ NoCred \in Cred /\ Foreign \in Cred
  BY DEF Envelope, Cred

LEMMA InitTypeInv == Init => TypeInv
<1> SUFFICES ASSUME Init PROVE TypeInv
  OBVIOUS
<1>1. TypeOK
  BY ReplyTypes, EnvelopeFields DEF Init, TypeOK, PCs
<1>2. StepOfCall
  BY DEF Init, StepOfCall
<1> QED
  BY <1>1, <1>2 DEF TypeInv

\* A step that only answers.
LEMMA ReplyTypeInv ==
  ASSUME TypeInv, NEW p \in Proc, pc[p] # "idle", NEW r \in Replies, Reply(p, r),
         held' \in [Proc -> SUBSET Handles], draft' \in [Proc -> SUBSET Property],
         opened' \in [Proc -> KeyId \cup {NoKey}],
         \A q \in Proc \ {p} : opened'[q] = opened[q],
         store' \in [Key -> Cred],
         UNCHANGED <<passport, shape, wrapper, buf, call, lost, hit>>
  PROVE  TypeInv'
  BY DEF Reply, Go, TypeInv, TypeOK, StepOfCall, PCs

LEMMA NextTypeInv == TypeInv /\ [Next]_vars => TypeInv'
<1> SUFFICES ASSUME TypeInv, [Next]_vars PROVE TypeInv'
  OBVIOUS
<1> USE DEF ownVars
<1>1. CASE UNCHANGED vars
  BY <1>1 DEF vars, TypeInv, TypeOK, StepOfCall
<1>2. ASSUME NEW p \in Proc, Call(p) PROVE TypeInv'
  BY <1>2, CallArguments, IdleIsNoCall, Zenon, SMTT(30)
     DEF Call, Go, FirstStep, Prepare, TypeInv, TypeOK, StepOfCall, PCs
<1>3. ASSUME NEW p \in Proc, GetMetadata(p) PROVE TypeInv'
  BY <1>3, ReplyTypes, ReplyTypeInv DEF GetMetadata, TypeInv, TypeOK
<1>4. ASSUME NEW p \in Proc, Read(p) PROVE TypeInv'
  <2>1. call[p] \in Calls /\ call[p].op = "Get" /\ call[p].key \in Key
    BY <1>4, CallArguments, IdleIsNoCall DEF Read, TypeInv, TypeOK, StepOfCall
  <2>2. CASE store[call[p].key] = NoCred
    BY <1>4, <2>2, ReplyTypes, ReplyTypeInv DEF Read, TypeInv, TypeOK
  <2>3. CASE store[call[p].key] # NoCred
    BY <1>4, <2>1, <2>3 DEF Read, Go, Prepare, TypeInv, TypeOK, StepOfCall, PCs
  <2> QED
    BY <2>2, <2>3
<1>5. ASSUME NEW p \in Proc, KeyFound(p) PROVE TypeInv'
  BY <1>5 DEF KeyFound, Go, TypeInv, TypeOK, StepOfCall, PCs
<1>6. ASSUME NEW p \in Proc, KeyMissing(p) PROVE TypeInv'
  BY <1>6, ReplyTypes DEF KeyMissing, Reply, Go, TypeInv, TypeOK, StepOfCall, PCs, Handles
<1>7. ASSUME NEW p \in Proc, Create(p) PROVE TypeInv'
  BY <1>7 DEF Create, Go, TypeInv, TypeOK, StepOfCall, PCs
<1>8. ASSUME NEW p \in Proc, Abandon(p), pc[p] # "idle",
             UNCHANGED <<store, passport, shape, wrapper, buf, call, lost, hit>>
      PROVE  TypeInv'
  <2>1. /\ held' \in [Proc -> SUBSET Handles] /\ draft' \in [Proc -> SUBSET Property]
        /\ opened' \in [Proc -> KeyId \cup {NoKey}]
        /\ \A q \in Proc \ {p} : opened'[q] = opened[q]
    BY <1>8 DEF Abandon, TypeInv, TypeOK
  <2> QED
    BY <1>8, <2>1, ReplyTypes, ReplyTypeInv DEF Abandon, TypeInv, TypeOK
<1>9. ASSUME NEW p \in Proc, Initialize(p) PROVE TypeInv'
  <2>1. CASE Abandon(p)
    BY <1>9, <2>1, <1>8 DEF Initialize
  <2>2. CASE ~Abandon(p)
    BY <1>9, <2>2 DEF Initialize, Go, TypeInv, TypeOK, StepOfCall, PCs
  <2> QED
    BY <2>1, <2>2
<1>10. ASSUME NEW p \in Proc, Finalize(p) PROVE TypeInv'
  <2>1. passport' \in KeyId
    BY <1>10 DEF Finalize, NewKeys
  <2> QED
    BY <1>10, <2>1 DEF Finalize, Go, TypeInv, TypeOK, StepOfCall, PCs
<1>11. ASSUME NEW p \in Proc, KeyTaken(p) PROVE TypeInv'
  BY <1>11, <1>8 DEF KeyTaken
<1>12. ASSUME NEW p \in Proc, Free(p) PROVE TypeInv'
  BY <1>12 DEF Free, Go, TypeInv, TypeOK, StepOfCall, PCs
<1>13. ASSUME NEW p \in Proc, EnvelopeRejected(p) PROVE TypeInv'
  BY <1>13, ReplyTypes, ReplyTypeInv DEF EnvelopeRejected, TypeInv, TypeOK
<1>14. ASSUME NEW p \in Proc, Open(p) PROVE TypeInv'
  BY <1>14 DEF Open, Valid, Go, TypeInv, TypeOK, StepOfCall, PCs
<1>15. ASSUME NEW p \in Proc, OpenMissing(p) PROVE TypeInv'
  BY <1>15, ReplyTypes, ReplyTypeInv DEF OpenMissing, TypeInv, TypeOK
<1>16. ASSUME NEW p \in Proc, Unwrap(p) PROVE TypeInv'
  <2>1. buf[p].data \in Data
    BY <1>16, EnvelopeFields DEF Unwrap, TypeInv, StepOfCall
  <2>2. /\ held' \in [Proc -> SUBSET Handles] /\ opened' \in [Proc -> KeyId \cup {NoKey}]
        /\ \A q \in Proc \ {p} : opened'[q] = opened[q]
    BY <1>16 DEF Unwrap, Used, TypeInv, TypeOK
  <2>3. CASE buf[p].key = opened[p]
    BY <1>16, <2>1, <2>2, <2>3, ReplyTypes, ReplyTypeInv DEF Unwrap, TypeInv, TypeOK
  <2>4. CASE buf[p].key # opened[p]
    BY <1>16, <2>2, <2>4, ReplyTypes, ReplyTypeInv DEF Unwrap, TypeInv, TypeOK
  <2> QED
    BY <2>3, <2>4
<1>17. ASSUME NEW p \in Proc, Wrap(p) PROVE TypeInv'
  <2>1. call[p] \in Calls /\ call[p].key \in Key /\ call[p].data \in Data
    BY <1>17, CallArguments, IdleIsNoCall DEF Wrap, TypeInv, TypeOK, StepOfCall
  <2>2. [key |-> opened[p], name |-> call[p].key, data |-> call[p].data] \in Envelope
    BY <1>17, <2>1, EnvelopeFields DEF Wrap, TypeInv, StepOfCall
  <2>3. buf' \in [Proc -> Cred] /\ buf'[p] \in Envelope /\ \A q \in Proc \ {p} : buf'[q] = buf[q]
    BY <1>17, <2>2, EnvelopeFields DEF Wrap, TypeInv, TypeOK
  <2> QED
    BY <1>17, <2>3 DEF Wrap, Used, Go, TypeInv, TypeOK, StepOfCall, PCs
<1>18. ASSUME NEW p \in Proc, Write(p) PROVE TypeInv'
  BY <1>18, ReplyTypes, ReplyTypeInv DEF Write, TypeInv, TypeOK
<1>19. ASSUME NEW p \in Proc, Lookup(p) PROVE TypeInv'
  BY <1>19, ReplyTypes DEF Lookup, Reply, Go, TypeInv, TypeOK, StepOfCall, PCs
<1>20. ASSUME NEW p \in Proc, Delete(p) PROVE TypeInv'
  BY <1>20, ReplyTypes, EnvelopeFields DEF Delete, Reply, Go, TypeInv, TypeOK, StepOfCall, PCs
<1>21. ASSUME NEW p \in Proc, Keys(p) PROVE TypeInv'
  BY <1>21, ReplyTypes, ReplyTypeInv DEF Keys, TypeInv, TypeOK
<1>22. ASSUME NEW p \in Proc, Return(p) PROVE TypeInv'
  BY <1>22, ReplyTypes, IdleIsNoCall, EnvelopeFields
     DEF Return, Leave, Go, TypeInv, TypeOK, StepOfCall, PCs
<1>23. ASSUME NEW p \in Proc, NCryptFails(p) PROVE TypeInv'
  BY <1>23, <1>8 DEF NCryptFails
<1>24. ASSUME NEW p \in Proc, CredFails(p) PROVE TypeInv'
  BY <1>24, ReplyTypes, ReplyTypeInv DEF CredFails, TypeInv, TypeOK
<1>25. ASSUME NEW p \in Proc, Exit(p) PROVE TypeInv'
  BY <1>25, ReplyTypes, IdleIsNoCall, EnvelopeFields
     DEF Exit, Leave, Go, TypeInv, TypeOK, StepOfCall, PCs
<1>26. ASSUME DeletePassport PROVE TypeInv'
  BY <1>26 DEF DeletePassport, TypeInv, TypeOK, StepOfCall
<1>27. ASSUME NEW k \in Key, Restore(k) PROVE TypeInv'
  BY <1>27, EnvelopeFields DEF Restore, Misplaced, TypeInv, TypeOK, StepOfCall
<1> QED
  BY <1>1, <1>2, <1>3, <1>4, <1>5, <1>6, <1>7, <1>9, <1>10, <1>11, <1>12, <1>13, <1>14,
     <1>15, <1>16, <1>17, <1>18, <1>19, <1>20, <1>21, <1>22, <1>23, <1>24, <1>25, <1>26, <1>27
     DEF Next, Step, Outside

\* Every variable of the Windows Hello backend keeps its type: no step opens,
\* unwraps or writes what its call does not have.
THEOREM Typing == Spec => []TypeOK
<1>1. TypeInv => TypeOK
  BY DEF TypeInv
<1> QED
  BY <1>1, InitTypeInv, NextTypeInv, PTL DEF Spec

-----------------------------------------------------------------------------
\* What a failing NCrypt call leaves a call with: nothing.
LEMMA AbandonFrees ==
  ASSUME TypeInv, HeldByStep, NEW p \in Proc, Abandon(p)
  PROVE  held'[p] = {} /\ \A q \in Proc \ {p} : held'[q] = held[q]
<1>1. held' = [held EXCEPT ![p] = held[p] \ Freed(pc[p])]
  BY DEF Abandon
<1>2. held[p] \subseteq Freed(pc[p])
  BY DEF Freed, Handles, HeldByStep, TypeInv, TypeOK
<1> QED
  BY <1>1, <1>2 DEF TypeInv, TypeOK

LEMMA NextHeldByStep == TypeInv /\ HeldByStep /\ [Next]_vars => HeldByStep'
<1> SUFFICES ASSUME TypeInv, HeldByStep, [Next]_vars PROVE HeldByStep'
  OBVIOUS
<1> USE DEF ownVars
<1>1. CASE UNCHANGED vars
  BY <1>1 DEF vars, HeldByStep
<1>2. ASSUME NEW p \in Proc, Call(p) PROVE HeldByStep'
  BY <1>2, CallArguments, Zenon, SMTT(30)
     DEF Call, Go, FirstStep, Prepare, HeldByStep, TypeInv, TypeOK
<1>3. ASSUME NEW p \in Proc,
             \/ GetMetadata(p) \/ Read(p) \/ KeyFound(p) \/ EnvelopeRejected(p)
             \/ OpenMissing(p) \/ Write(p) \/ Lookup(p) \/ Delete(p) \/ Keys(p)
             \/ Return(p) \/ CredFails(p)
      PROVE  HeldByStep'
  <2>1. UNCHANGED held /\ held[p] = {}
    BY <1>3 DEF GetMetadata, Read, KeyFound, EnvelopeRejected, OpenMissing, Write, Lookup,
                Delete, Keys, Return, CredFails, HeldByStep
  <2>2. \A q \in Proc \ {p} : pc'[q] = pc[q]
    BY <1>3 DEF GetMetadata, Read, KeyFound, EnvelopeRejected, OpenMissing, Write, Lookup,
                Delete, Keys, Return, CredFails, Leave, Reply, Go, TypeInv, TypeOK
  <2> QED
    BY <2>1, <2>2 DEF HeldByStep
<1>4. ASSUME NEW p \in Proc, \/ KeyMissing(p) \/ Create(p) \/ Finalize(p) \/ Free(p) \/ Open(p)
                             \/ Unwrap(p) \/ Wrap(p) \/ Exit(p)
      PROVE  HeldByStep'
  BY <1>4 DEF KeyMissing, Create, Finalize, Free, Open, Unwrap, Wrap, Exit, Used, Leave,
              Reply, Go, HeldByStep, TypeInv, TypeOK
<1>5. ASSUME NEW p \in Proc, Abandon(p) PROVE HeldByStep'
  BY <1>5, AbandonFrees DEF Abandon, Reply, Go, HeldByStep, TypeInv, TypeOK
<1>6. ASSUME NEW p \in Proc, Initialize(p) PROVE HeldByStep'
  <2>1. CASE Abandon(p)
    BY <2>1, <1>5
  <2>2. CASE ~Abandon(p)
    BY <1>6, <2>2 DEF Initialize, Go, HeldByStep, TypeInv, TypeOK
  <2> QED
    BY <2>1, <2>2
<1>7. ASSUME NEW p \in Proc, KeyTaken(p) \/ NCryptFails(p) PROVE HeldByStep'
  BY <1>5, <1>7 DEF KeyTaken, NCryptFails
<1>8. ASSUME DeletePassport \/ \E k \in Key : Restore(k) PROVE HeldByStep'
  BY <1>8 DEF DeletePassport, Restore, HeldByStep
<1> QED
  BY <1>1, <1>2, <1>3, <1>4, <1>6, <1>7, <1>8 DEF Next, Step, Outside

\* Whatever fails, a call that returns has given back its NCrypt handles.
THEOREM HandlesFreedHolds == Spec => []HandlesFreed
<1>1. Init => HeldByStep
  BY DEF Init, HeldByStep
<1>2. HeldByStep => HandlesFreed
  BY DEF HeldByStep, HandlesFreed
<1> QED
  BY <1>1, <1>2, InitTypeInv, NextTypeInv, NextHeldByStep, PTL DEF Spec

-----------------------------------------------------------------------------
\* Setting the properties fails unless the key ends up with all of them.
LEMMA InitializeWhole ==
  ASSUME TypeInv, NEW p \in Proc, Initialize(p)
  PROVE  /\ pc'[p] = "finalize" => Whole(draft'[p])
         /\ \A q \in Proc \ {p} : draft'[q] = draft[q] /\ pc'[q] = pc[q] /\ opened'[q] = opened[q]
         /\ pc'[p] \in {"finalize", "return"}
<1>1. CASE Abandon(p)
  BY <1>1 DEF Abandon, Reply, Go, TypeInv, TypeOK
<1>2. CASE ~Abandon(p)
  <2>1. PICK refused \in SUBSET Property :
          /\ refused \subseteq Cache /\ refused # Cache
          /\ draft' = [draft EXCEPT ![p] =
                (Property \ refused) \ (IF "NgcCacheType" \in refused THEN {}
                                        ELSE {"NgcCacheTypeProperty"})]
          /\ Go(p, "finalize")
          /\ UNCHANGED opened
    BY <1>2 DEF Initialize, Accepted
  <2>2. Whole(draft'[p])
    <3>1. CASE "NgcCacheType" \in refused
      <4>1. draft'[p] = Property \ refused /\ "NgcCacheTypeProperty" \notin refused
        BY <2>1, <3>1 DEF TypeInv, TypeOK, Cache
      <4> QED
        BY <2>1, <4>1 DEF Whole, Property, Cache
    <3>2. CASE "NgcCacheType" \notin refused
      <4>1. draft'[p] = (Property \ refused) \ {"NgcCacheTypeProperty"}
        BY <2>1, <3>2 DEF TypeInv, TypeOK
      <4> QED
        BY <2>1, <3>2, <4>1 DEF Whole, Property, Cache
    <3> QED
      BY <3>1, <3>2
  <2> QED
    BY <2>1, <2>2 DEF Go, TypeInv, TypeOK
<1> QED
  BY <1>1, <1>2

\* A step that leaves the key, the envelopes and the key handles alone.
LEMMA QuietStep ==
  ASSUME TypeInv, SealedInv, NEW p \in Proc,
         pc'[p] \notin {"finalize", "wrap", "write"},
         \A q \in Proc \ {p} : pc'[q] = pc[q] /\ draft'[q] = draft[q] /\ opened'[q] = opened[q]
                                /\ buf'[q] = buf[q],
         UNCHANGED <<store, passport, shape, lost>>
  PROVE  SealedInv'
<1>1. DraftWhole' /\ KeyWhole' /\ HandlesOfPassport'
  BY DEF SealedInv, DraftWhole, KeyWhole, HandlesOfPassport
<1>2. OneKeyServes'
  BY DEF SealedInv, OneKeyServes
<1> QED
  BY <1>1, <1>2 DEF SealedInv

\* Nothing is sealed with a key that has yet to be made.
LEMMA FinalizeSealed ==
  ASSUME TypeInv, SealedInv, NEW p \in Proc, Finalize(p)
  PROVE  SealedInv'
<1>1. passport = NoKey /\ NoKey \notin KeyId
  BY HelloAssumption DEF Finalize
<1>2. KeyWhole' /\ DraftWhole'
  BY DEF Finalize, Go, SealedInv, DraftWhole, KeyWhole, Whole, TypeInv, TypeOK
<1>3. CASE lost
  BY <1>2, <1>3 DEF Finalize, SealedInv, HandlesOfPassport, OneKeyServes
<1>4. CASE ~lost
  <2>1. \A q \in Proc : pc[q] # "wrap" /\ pc[q] # "write"
    BY <1>1, <1>4, EnvelopeFields
       DEF SealedInv, HandlesOfPassport, OneKeyServes, TypeInv, StepOfCall
  <2>2. \A k \in Key : store[k] \notin Envelope
    BY <1>1, <1>4, EnvelopeFields DEF SealedInv, OneKeyServes
  <2>3. \A q \in Proc : pc'[q] # "wrap" /\ pc'[q] # "write"
    BY <2>1 DEF Finalize, Go, TypeInv, TypeOK
  <2>4. HandlesOfPassport' /\ OneKeyServes'
    BY <2>2, <2>3 DEF Finalize, HandlesOfPassport, OneKeyServes
  <2> QED
    BY <1>2, <2>4 DEF SealedInv
<1> QED
  BY <1>3, <1>4

LEMMA NextSealedInv == TypeInv /\ SealedInv /\ [Next]_vars => SealedInv'
<1> SUFFICES ASSUME TypeInv, SealedInv, [Next]_vars PROVE SealedInv'
  OBVIOUS
<1> USE DEF ownVars
<1>1. CASE UNCHANGED vars
  BY <1>1 DEF vars, SealedInv, DraftWhole, KeyWhole, HandlesOfPassport, OneKeyServes
<1>2. ASSUME NEW p \in Proc, Call(p) PROVE SealedInv'
  <2>1. pc'[p] \in {"read", "metadata", "open", "probe", "lookup", "list"}
    BY <1>2, CallArguments, Zenon, SMTT(30)
       DEF Call, Go, FirstStep, Prepare, TypeInv, TypeOK
  <2> QED
    BY <1>2, <2>1, QuietStep DEF Call, Go, TypeInv, TypeOK
<1>3. ASSUME NEW p \in Proc,
             \/ GetMetadata(p) \/ Read(p) \/ KeyFound(p) \/ KeyMissing(p) \/ Create(p)
             \/ Free(p) \/ EnvelopeRejected(p) \/ OpenMissing(p) \/ Unwrap(p)
             \/ Lookup(p) \/ Keys(p) \/ Return(p) \/ CredFails(p) \/ Exit(p)
      PROVE  SealedInv'
  <2>1. pc'[p] \notin {"finalize", "wrap", "write"}
    BY <1>3 DEF GetMetadata, Read, KeyFound, KeyMissing, Create, Free, EnvelopeRejected,
                OpenMissing, Unwrap, Lookup, Keys, Return, CredFails, Exit, Leave, Reply,
                Go, Prepare, TypeInv, TypeOK
  <2>2. \A q \in Proc \ {p} : pc'[q] = pc[q] /\ draft'[q] = draft[q] /\ opened'[q] = opened[q]
                               /\ buf'[q] = buf[q]
    BY <1>3 DEF GetMetadata, Read, KeyFound, KeyMissing, Create, Free, EnvelopeRejected,
                OpenMissing, Unwrap, Lookup, Keys, Return, CredFails, Exit, Leave, Reply,
                Go, Used, TypeInv, TypeOK
  <2>3. UNCHANGED <<store, passport, shape, lost>>
    BY <1>3 DEF GetMetadata, Read, KeyFound, KeyMissing, Create, Free, EnvelopeRejected,
                OpenMissing, Unwrap, Lookup, Keys, Return, CredFails, Exit
  <2> QED
    BY <2>1, <2>2, <2>3, QuietStep
<1>4. ASSUME NEW p \in Proc, Abandon(p),
             UNCHANGED <<store, passport, shape, wrapper, buf, call, lost, hit>>
      PROVE  SealedInv'
  BY <1>4, QuietStep DEF Abandon, Reply, Go, TypeInv, TypeOK
<1>5. ASSUME NEW p \in Proc, KeyTaken(p) \/ NCryptFails(p) PROVE SealedInv'
  BY <1>4, <1>5 DEF KeyTaken, NCryptFails
<1>6. ASSUME NEW p \in Proc, Initialize(p) PROVE SealedInv'
  BY <1>6, InitializeWhole
     DEF Initialize, SealedInv, DraftWhole, KeyWhole, HandlesOfPassport, OneKeyServes
<1>7. ASSUME NEW p \in Proc, Finalize(p) PROVE SealedInv'
  BY <1>7, FinalizeSealed
<1>8. ASSUME NEW p \in Proc, Open(p) PROVE SealedInv'
  BY <1>8 DEF Open, Go, SealedInv, DraftWhole, KeyWhole, HandlesOfPassport, OneKeyServes,
              TypeInv, TypeOK
<1>9. ASSUME NEW p \in Proc, Wrap(p) PROVE SealedInv'
  BY <1>9 DEF Wrap, Used, Go, SealedInv, DraftWhole, KeyWhole, HandlesOfPassport,
              OneKeyServes, TypeInv, TypeOK
<1>10. ASSUME NEW p \in Proc, Write(p) \/ Delete(p) PROVE SealedInv'
  BY <1>10, HelloAssumption
     DEF Write, Delete, Reply, Go, SealedInv, DraftWhole, KeyWhole, HandlesOfPassport,
         OneKeyServes, TypeInv, TypeOK
<1>11. CASE DeletePassport
  BY <1>11 DEF DeletePassport, SealedInv, DraftWhole, KeyWhole, HandlesOfPassport, OneKeyServes
<1>12. ASSUME NEW k \in Key, Restore(k) PROVE SealedInv'
  <2>1. ~lost => \A c \in Misplaced(k) : c \in Envelope => c.key = passport
    BY HelloAssumption DEF Misplaced, SealedInv, OneKeyServes
  <2> QED
    BY <1>12, <2>1 DEF Restore, SealedInv, DraftWhole, KeyWhole, HandlesOfPassport,
                       OneKeyServes, TypeInv, TypeOK
<1> QED
  BY <1>1, <1>2, <1>3, <1>5, <1>6, <1>7, <1>8, <1>9, <1>10, <1>11, <1>12
     DEF Next, Step, Outside

LEMMA InitSealedInv == Init => SealedInv
  BY HelloAssumption
     DEF Init, SealedInv, DraftWhole, KeyWhole, HandlesOfPassport, OneKeyServes

\* A Passport key that exists has every property it needs, whichever settings
\* the provider refused on the way.
THEOREM KeyWholeHolds == Spec => []KeyWhole
<1>1. SealedInv => KeyWhole
  BY DEF SealedInv
<1> QED
  BY <1>1, InitTypeInv, NextTypeInv, InitSealedInv, NextSealedInv, PTL DEF Spec

\* Until the Passport key is deleted, all that any process has sealed or is about
\* to store is sealed with the key that every process opens.
THEOREM OneKeyServesHolds == Spec => []OneKeyServes
<1>1. SealedInv => OneKeyServes
  BY DEF SealedInv
<1> QED
  BY <1>1, InitTypeInv, NextTypeInv, InitSealedInv, NextSealedInv, PTL DEF Spec

-----------------------------------------------------------------------------
(***************************************************************************)
(* The credentials as a keyring.  Of a call during which the Passport key  *)
(* has not been deleted: what it has opened is the key there is, and what  *)
(* it is about to write is its own item, sealed with that key.             *)
(***************************************************************************)
CalledInv ==
  \A p \in Proc \ hit :
    /\ pc[p] \in {"unwrap", "wrap"} => opened[p] = passport
    /\ pc[p] = "unwrap" => Valid(buf[p], call[p].key)
    /\ pc[p] = "write" => buf[p] = [key |-> passport, name |-> call[p].key,
                                    data |-> call[p].data]

\* "no item" and "damaged" stand for what Get does not answer.
DataApart == "no item" \notin Data /\ "damaged" \notin Data

NoStep == UNCHANGED <<Stored, call, DueNow>>

\* What another process's step leaves alone, and that it does not replace the key.
LEMMA OthersStay ==
  ASSUME TypeInv, NEW p \in Proc, Step(p), NEW q \in Proc \ {p}
  PROVE  /\ pc'[q] = pc[q] /\ call'[q] = call[q] /\ result'[q] = result[q]
         /\ opened'[q] = opened[q] /\ buf'[q] = buf[q]
         /\ q \in hit' <=> q \in hit
         /\ passport # NoKey => passport' = passport
<1>1. CASE Abandon(p) /\ UNCHANGED <<passport, buf, call, hit>>
  BY <1>1 DEF Abandon, Reply, Go, TypeInv, TypeOK
<1> USE DEF ownVars, Go, Reply, TypeInv, TypeOK
<1>2. CASE \/ Call(p) \/ GetMetadata(p) \/ Read(p) \/ KeyFound(p) \/ KeyMissing(p)
           \/ Create(p) \/ Finalize(p) \/ Free(p) \/ EnvelopeRejected(p) \/ Open(p)
  BY <1>2 DEF Call, GetMetadata, Read, KeyFound, KeyMissing, Create, Finalize, Free,
              EnvelopeRejected, Open
<1>3. CASE \/ OpenMissing(p) \/ Unwrap(p) \/ Wrap(p) \/ Write(p) \/ Lookup(p) \/ Delete(p)
           \/ Keys(p) \/ Return(p) \/ CredFails(p) \/ Exit(p)
  BY <1>3 DEF OpenMissing, Unwrap, Wrap, Write, Lookup, Delete, Keys, Return, CredFails, Exit,
              Used, Leave
<1>4. CASE Initialize(p) /\ ~Abandon(p)
  BY <1>4 DEF Initialize
<1> QED
  BY <1>1, <1>2, <1>3, <1>4 DEF Step, Initialize, KeyTaken, NCryptFails

LEMMA NextCalledInv == TypeInv /\ CalledInv /\ [Next]_vars => CalledInv'
<1> SUFFICES ASSUME TypeInv, CalledInv, [Next]_vars PROVE CalledInv'
  OBVIOUS
<1> DEFINE Known(q) ==
             /\ pc[q] \in {"unwrap", "wrap"} => opened[q] = passport
             /\ pc[q] = "unwrap" => Valid(buf[q], call[q].key)
             /\ pc[q] = "write" => buf[q] = [key |-> passport, name |-> call[q].key,
                                             data |-> call[q].data]
<1> USE DEF ownVars
<1>1. CASE UNCHANGED vars
  BY <1>1 DEF vars, CalledInv, Valid
<1>2. ASSUME NEW p \in Proc, Step(p), NEW q \in Proc \ {p}, q \notin hit' PROVE Known(q)'
  <2>1. Known(q)
    BY <1>2, OthersStay DEF CalledInv
  <2>2. CASE passport # NoKey
    BY <1>2, <2>1, <2>2, OthersStay DEF Valid
  <2>3. CASE passport = NoKey
    <3>1. pc[q] \notin {"unwrap", "wrap", "write"}
      BY <2>1, <2>3, HelloAssumption, EnvelopeFields DEF TypeInv, StepOfCall
    <3> QED
      BY <1>2, <3>1, OthersStay
  <2> QED
    BY <2>2, <2>3
<1>3. ASSUME NEW p \in Proc, Step(p), p \notin hit' PROVE Known(p)'
  <2>1. CASE Open(p)
    BY <2>1 DEF Open, Go, Valid, TypeInv, TypeOK, StepOfCall
  <2>2. CASE Wrap(p)
    BY <1>3, <2>2 DEF Wrap, Used, Go, CalledInv, TypeInv, TypeOK
  <2>3. CASE Call(p)
    <3>1. pc'[p] \in {"read", "metadata", "open", "probe", "lookup", "list"}
      BY <2>3, CallArguments, Zenon, SMTT(30)
         DEF Call, Go, FirstStep, Prepare, TypeInv, TypeOK
    <3> QED
      BY <3>1
  <2>4. CASE Abandon(p)
    BY <2>4 DEF Abandon, Reply, Go, TypeInv, TypeOK
  <2>5. CASE \/ GetMetadata(p) \/ Read(p) \/ KeyFound(p) \/ KeyMissing(p) \/ Create(p)
             \/ Finalize(p) \/ Free(p) \/ EnvelopeRejected(p) \/ OpenMissing(p)
    BY <2>5 DEF GetMetadata, Read, KeyFound, KeyMissing, Create, Finalize, Free,
                EnvelopeRejected, OpenMissing, Prepare, Reply, Go, TypeInv, TypeOK
  <2>6. CASE \/ Unwrap(p) \/ Write(p) \/ Lookup(p) \/ Delete(p) \/ Keys(p) \/ Return(p)
             \/ CredFails(p) \/ Exit(p)
    BY <2>6 DEF Unwrap, Write, Lookup, Delete, Keys, Return, CredFails, Exit, Leave, Reply, Go,
                TypeInv, TypeOK
  <2>7. CASE Initialize(p) /\ ~Abandon(p)
    BY <2>7 DEF Initialize, Go, TypeInv, TypeOK
  <2> QED
    BY <1>3, <2>1, <2>2, <2>3, <2>4, <2>5, <2>6, <2>7 DEF Step, Initialize, KeyTaken, NCryptFails
<1>4. CASE DeletePassport
  BY <1>4 DEF DeletePassport, CalledInv, TypeInv, TypeOK
<1>5. ASSUME NEW k \in Key, Restore(k) PROVE CalledInv'
  BY <1>5 DEF Restore, CalledInv, Valid
<1>6. CASE \E p \in Proc : Step(p)
  BY <1>2, <1>3, <1>6 DEF CalledInv
<1> QED
  BY <1>1, <1>4, <1>5, <1>6 DEF Next, Outside

-----------------------------------------------------------------------------
\* The contract speaks of calls and replies as the backend does.
LEMMA SameWords ==
  /\ C!Idle = Idle /\ C!Ok = Ok /\ C!NotFound = NotFound /\ C!Error = Error
  /\ C!Calls = Calls
  /\ \A d : C!Found(d) = Found(d)
  /\ \A S : C!Listing(S) = Listing(S)
  /\ \A cl, k : C!IsSetOf(cl, k) = IsSetOf(cl, k)
  BY DEF C!Idle, C!Ok, C!NotFound, C!Error, C!Calls, C!Found, C!Listing, C!IsSetOf,
         Idle, Ok, NotFound, Error, Calls, Found, Listing, IsSetOf

\* A credential, as the contract sees it.
LEMMA StoredCases ==
  ASSUME TypeInv, DataApart, NEW k \in Key
  PROVE  /\ Stored[k] = "no item" <=> store[k] = NoCred
         /\ Opens(store[k], k) => Stored[k] = store[k].data /\ Stored[k] \in Data
         /\ store[k] # NoCred /\ ~Opens(store[k], k) => Stored[k] = "damaged"
         /\ store[k] \in Envelope => store[k] # NoCred
<1>1. Stored[k] = IF store[k] = NoCred THEN "no item"
                  ELSE IF Opens(store[k], k) THEN store[k].data ELSE "damaged"
  BY DEF Stored
<1>2. Opens(store[k], k) => store[k].data \in Data /\ store[k] \in Envelope
  BY EnvelopeFields DEF Opens
<1> QED
  BY <1>1, <1>2, HelloAssumption DEF DataApart

LEMMA SameStored == ASSUME UNCHANGED <<store, passport>> PROVE UNCHANGED Stored
  BY DEF Stored, Opens

\* A change of one credential.
LEMMA OneStored ==
  ASSUME TypeInv, NEW k \in Key, NEW cred, UNCHANGED passport,
         store' = [store EXCEPT ![k] = cred]
  PROVE  Stored' = [Stored EXCEPT ![k] = IF cred = NoCred THEN "no item"
                                         ELSE IF Opens(cred, k) THEN cred.data ELSE "damaged"]
<1>1. \A j \in Key : store'[j] = IF j = k THEN cred ELSE store[j]
  BY DEF TypeInv, TypeOK
<1>2. \A j \in Key : j # k => Stored'[j] = Stored[j]
  BY <1>1 DEF Stored, Opens
<1>3. Stored'[k] = IF cred = NoCred THEN "no item"
                   ELSE IF Opens(cred, k) THEN cred.data ELSE "damaged"
  <2>1. store'[k] = cred
    BY <1>1
  <2>2. Opens(store[k], k)' <=> Opens(cred, k)
    BY <2>1 DEF Opens
  <2>3. Stored'[k] = IF store'[k] = NoCred THEN "no item"
                     ELSE IF Opens(store[k], k)' THEN store'[k].data ELSE "damaged"
    BY DEF Stored
  <2> QED
    BY <2>1, <2>2, <2>3
<1> HIDE DEF Opens
<1> QED
  BY <1>2, <1>3 DEF Stored

LEMMA ReplyDue ==
  ASSUME TypeInv, NEW p \in Proc, NEW r, Reply(p, r), UNCHANGED <<call, buf, passport>>
  PROVE  DueNow' = [DueNow EXCEPT ![p] = r]
<1>1. \A q \in Proc : /\ pc'[q] = IF q = p THEN "return" ELSE pc[q]
                      /\ result'[q] = IF q = p THEN r ELSE result[q]
  BY DEF Reply, Go, TypeInv, TypeOK
<1>2. \A q \in Proc : Opens(buf[q], call[q].key)' = Opens(buf[q], call[q].key)
  BY DEF Opens
<1> QED
  BY <1>1, <1>2 DEF DueNow, Due

\* A step that goes on answers nothing new.
LEMMA GoesOn ==
  ASSUME TypeInv, NEW p \in Proc, NEW step, Go(p, step), UNCHANGED <<call, result, passport>>,
         pc[p] # "return", step # "return",
         \A q \in Proc : q # p \/ call[p].op = "Get" => buf'[q] = buf[q],
         call[p].op = "Get" => {pc[p], step} \subseteq {"probe", "open", "unwrap"}
  PROVE  UNCHANGED DueNow
<1>1. \A q \in Proc : pc'[q] = IF q = p THEN step ELSE pc[q]
  BY DEF Go, TypeInv, TypeOK
<1>2. \A q \in Proc : buf'[q] = buf[q] => Opens(buf[q], call[q].key)' = Opens(buf[q], call[q].key)
  BY DEF Opens
<1>3. Due(p)' = Due(p)
  BY <1>1, <1>2 DEF Due
<1>4. \A q \in Proc \ {p} : Due(q)' = Due(q)
  BY <1>1, <1>2 DEF Due
<1> QED
  BY <1>3, <1>4 DEF DueNow

LEMMA NotDue ==
  ASSUME NEW p \in Proc, pc[p] # "return",
         call[p].op # "Get" \/ pc[p] \notin {"probe", "open", "unwrap"}
  PROVE  DueNow[p] = Error
  BY DEF DueNow, Due

-----------------------------------------------------------------------------
LEMMA BeginStep == ASSUME TypeInv, NEW p \in Proc, Call(p) PROVE C!CNext
<1>1. PICK cl \in Calls : call' = [call EXCEPT ![p] = cl] /\ Go(p, FirstStep(p, cl.op))
  BY DEF Call
<1>2. cl.op \in {"Get", "GetMetadata", "Remove", "Set", "Keys"}
  BY CallArguments
<1>3. /\ FirstStep(p, cl.op) # "return"
      /\ cl.op = "Get" => FirstStep(p, cl.op) = "read"
  BY <1>2 DEF FirstStep, Prepare
<1>4. \A q \in Proc : /\ q # p => pc'[q] = pc[q] /\ call'[q] = call[q]
                      /\ pc'[p] = FirstStep(p, cl.op) /\ call'[p] = cl
  BY <1>1 DEF Go, TypeInv, TypeOK
<1>5. UNCHANGED <<store, passport, buf, result>> /\ call[p] = Idle
  BY DEF Call, ownVars, TypeInv, StepOfCall
<1>6. Due(p)' = Error
  <2>1. /\ pc'[p] # "return"
        /\ ~(call'[p].op = "Get" /\ pc'[p] \in {"probe", "open", "unwrap"})
    <3>1. pc'[p] = FirstStep(p, cl.op) /\ call'[p] = cl
      BY <1>4
    <3>2. CASE cl.op = "Get"
      BY <1>3, <3>1, <3>2
    <3>3. CASE cl.op # "Get"
      BY <1>3, <3>1, <3>3
    <3> QED
      BY <3>2, <3>3
  <2> QED
    BY <2>1 DEF Due
<1>7. \A q \in Proc \ {p} : Due(q)' = Due(q)
  BY <1>4, <1>5 DEF Due, Opens
<1>8. DueNow' = [DueNow EXCEPT ![p] = Error]
  BY <1>6, <1>7 DEF DueNow
<1>9. C!Begin(p)
  BY <1>1, <1>5, <1>8, SameStored, SameWords DEF C!Begin
<1> QED
  BY <1>9 DEF C!CNext

LEMMA FailStep ==
  ASSUME TypeInv, NEW p \in Proc, Reply(p, Error), pc[p] # "idle",
         UNCHANGED <<store, passport, buf, call>>
  PROVE  C!CNext
<1>1. DueNow' = [DueNow EXCEPT ![p] = Error] /\ call[p] # Idle /\ UNCHANGED Stored
  BY ReplyDue, SameStored DEF TypeInv, StepOfCall
<1>2. C!Fail(p)
  BY <1>1, SameWords DEF C!Fail
<1> QED
  BY <1>2 DEF C!CNext

\* The error paths: whatever has been done by then, nobody else sees.
LEMMA FailingSteps ==
  ASSUME TypeInv, NEW p \in Proc,
         \/ GetMetadata(p) \/ KeyTaken(p) \/ EnvelopeRejected(p) \/ OpenMissing(p)
         \/ NCryptFails(p) \/ CredFails(p) \/ (Initialize(p) /\ Abandon(p))
  PROVE  C!CNext
<1>1. Reply(p, Error) /\ pc[p] # "idle" /\ UNCHANGED <<store, passport, buf, call>>
  BY DEF GetMetadata, KeyTaken, EnvelopeRejected, OpenMissing, NCryptFails, CredFails,
         Initialize, Abandon, ownVars
<1> QED
  BY <1>1, FailStep

\* A Get is settled when it has read the credential.
LEMMA ReadStep ==
  ASSUME TypeInv, DataApart, NEW p \in Proc, Read(p) PROVE C!CNext
<1>1. /\ pc[p] = "read" /\ call[p].op = "Get" /\ call[p].key \in Key
      /\ UNCHANGED <<Stored, call, passport>>
  BY CallArguments, IdleIsNoCall, SameStored DEF Read, TypeInv, TypeOK, StepOfCall
<1> DEFINE k == call[p].key
<1>2. CASE store[k] = NoCred
  <2>1. DueNow' = [DueNow EXCEPT ![p] = NotFound]
    BY <1>1, <1>2, ReplyDue DEF Read
  <2>2. C!Answer(Stored[k]) = NotFound
    BY <1>1, <1>2, StoredCases, SameWords DEF C!Answer
  <2>3. C!Look(p)
    BY <1>1, <2>1, <2>2 DEF C!Look
  <2> QED
    BY <2>3 DEF C!CNext
<1>3. CASE store[k] # NoCred
  <2>1. \A q \in Proc : /\ pc'[q] = IF q = p THEN Prepare(p) ELSE pc[q]
                        /\ buf'[q] = IF q = p THEN store[k] ELSE buf[q]
    BY <1>3 DEF Read, Go, TypeInv, TypeOK
  <2>2. UNCHANGED <<result, passport, call>> /\ Prepare(p) \in {"probe", "open"}
    BY <1>3 DEF Read, Prepare
  <2>3. \A q \in Proc \ {p} : Due(q)' = Due(q)
    BY <2>1, <2>2 DEF Due, Opens
  <2>4. Due(p)' = C!Answer(Stored[k])
    <3>1. buf'[p] = store[k] /\ call'[p] = call[p] /\ pc'[p] \in {"probe", "open"}
      BY <2>1, <2>2
    <3>2. Opens(buf[p], call[p].key)' = Opens(store[k], k)
      BY <2>2, <3>1 DEF Opens
    <3>3. CASE Opens(store[k], k)
      <4>1. C!Answer(Stored[k]) = Found(store[k].data)
        BY <1>1, <3>3, StoredCases, SameWords DEF C!Answer, DataApart
      <4> QED
        BY <1>1, <3>1, <3>2, <3>3, <4>1 DEF Due
    <3>4. CASE ~Opens(store[k], k)
      <4>1. C!Answer(Stored[k]) = Error
        BY <1>1, <1>3, <3>4, StoredCases, SameWords DEF C!Answer
      <4> QED
        BY <1>1, <3>1, <3>2, <3>4, <4>1 DEF Due
    <3> QED
      BY <3>3, <3>4
  <2>5. DueNow' = [DueNow EXCEPT ![p] = C!Answer(Stored[k])]
    BY <2>3, <2>4 DEF DueNow
  <2>6. C!Look(p)
    BY <1>1, <2>5 DEF C!Look
  <2> QED
    BY <2>6 DEF C!CNext
<1> QED
  BY <1>2, <1>3

\* Steps on the way to the Passport key, which nobody else sees.
LEMMA OnTheWayStep ==
  ASSUME TypeInv, NEW p \in Proc,
         \/ KeyFound(p) \/ Create(p) \/ Free(p) \/ Open(p) \/ Wrap(p)
         \/ KeyMissing(p) /\ call[p].op # "Get"
         \/ Initialize(p) /\ ~Abandon(p)
  PROVE  NoStep
<1>1. PICK step \in {"open", "initialize", "unwrap", "wrap", "write", "create", "finalize"} :
        /\ Go(p, step) /\ pc[p] # "return"
        /\ call[p].op = "Get" => {pc[p], step} \subseteq {"probe", "open", "unwrap"}
        /\ UNCHANGED <<store, passport, call, result>>
        /\ \A q \in Proc : q # p \/ call[p].op = "Get" => buf'[q] = buf[q]
  BY DEF KeyFound, Create, Free, Open, Wrap, KeyMissing, Initialize, TypeInv, TypeOK, StepOfCall
<1>2. UNCHANGED DueNow
  BY <1>1, GoesOn
<1> QED
  BY <1>1, <1>2, SameStored DEF NoStep

\* No key, no item that opens: the Get was to fail already.
LEMMA MissingStep ==
  ASSUME TypeInv, NEW p \in Proc, KeyMissing(p) PROVE NoStep \/ C!CNext
<1>1. CASE call[p].op = "Get"
  <2>1. Reply(p, Error) /\ pc[p] # "idle" /\ UNCHANGED <<store, passport, buf, call>>
    BY <1>1 DEF KeyMissing
  <2> QED
    BY <2>1, FailStep
<1>2. CASE call[p].op # "Get"
  BY <1>2, OnTheWayStep
<1> QED
  BY <1>1, <1>2

\* A new key opens nothing that is there.
LEMMA FinalizeStep == ASSUME TypeInv, NEW p \in Proc, Finalize(p) PROVE NoStep
<1>1. passport = NoKey /\ passport' \in NewKeys /\ UNCHANGED <<store, buf, call, result>>
  BY DEF Finalize
<1>2. /\ \A k \in Key : ~Opens(store[k], k) /\ ~Opens(store[k], k)'
      /\ \A q \in Proc : ~Opens(buf[q], call[q].key) /\ ~Opens(buf[q], call[q].key)'
  BY <1>1, HelloAssumption, EnvelopeFields DEF NewKeys, Opens
<1>3. \A q \in Proc : pc'[q] = IF q = p THEN "free" ELSE pc[q]
  BY DEF Finalize, Go, TypeInv, TypeOK
<1>4. UNCHANGED DueNow
  BY <1>1, <1>2, <1>3 DEF Finalize, DueNow, Due
<1>5. UNCHANGED Stored
  BY <1>1, <1>2 DEF Stored
<1> QED
  BY <1>1, <1>4, <1>5 DEF NoStep

\* What is unwrapped is what was read, or the Get fails.
LEMMA UnwrapStep ==
  ASSUME TypeInv, CalledInv, NEW p \in Proc, p \notin hit, Unwrap(p) PROVE NoStep \/ C!CNext
<1>1. /\ pc[p] = "unwrap" /\ call[p].op = "Get" /\ buf[p] \in Envelope
      /\ opened[p] = passport /\ Valid(buf[p], call[p].key)
      /\ UNCHANGED <<store, passport, buf, call>>
  BY DEF Unwrap, CalledInv, TypeInv, StepOfCall
<1>2. CASE buf[p].key = opened[p]
  <2>1. Opens(buf[p], call[p].key)
    BY <1>1, <1>2 DEF Opens, Valid
  <2>2. DueNow[p] = Found(buf[p].data)
    BY <1>1, <2>1 DEF DueNow, Due
  <2>3. DueNow' = [DueNow EXCEPT ![p] = DueNow[p]]
    BY <1>1, <1>2, <2>2, ReplyDue DEF Unwrap
  <2> QED
    BY <1>1, <2>3, SameStored DEF NoStep, DueNow
<1>3. CASE buf[p].key # opened[p]
  BY <1>1, <1>3, FailStep DEF Unwrap
<1> QED
  BY <1>2, <1>3

LEMMA WriteStep ==
  ASSUME TypeInv, CalledInv, NEW p \in Proc, p \notin hit, Write(p) PROVE C!CNext
<1>1. /\ pc[p] = "write" /\ call[p].op = "Set" /\ buf[p] \in Envelope
      /\ call[p].key \in Key /\ call[p].data \in Data
      /\ UNCHANGED <<passport, buf, call>>
  BY CallArguments, IdleIsNoCall DEF Write, ownVars, TypeInv, TypeOK, StepOfCall
<1>2. buf[p] = [key |-> passport, name |-> call[p].key, data |-> call[p].data]
  BY <1>1 DEF CalledInv
<1>3. Opens(buf[p], call[p].key) /\ buf[p].data = call[p].data /\ buf[p] # NoCred
  BY <1>1, <1>2, HelloAssumption DEF Opens
<1>4. Stored' = [Stored EXCEPT ![call[p].key] = call[p].data]
  BY <1>1, <1>3, OneStored DEF Write
<1>5. DueNow' = [DueNow EXCEPT ![p] = Ok] /\ DueNow[p] = Error
  BY <1>1, ReplyDue, NotDue DEF Write
<1>6. C!Store(p)
  BY <1>1, <1>4, <1>5, SameWords DEF C!Store
<1> QED
  BY <1>6 DEF C!CNext

\* Remove answers that there is nothing when either of its calls finds nothing.
LEMMA RemoveStep ==
  ASSUME TypeInv, DataApart, NEW p \in Proc, Lookup(p) \/ Delete(p) PROVE NoStep \/ C!CNext
<1>1. /\ pc[p] \in {"lookup", "delete"} /\ call[p].op = "Remove" /\ call[p].key \in Key
      /\ DueNow[p] = Error /\ UNCHANGED <<passport, buf, call>>
  BY CallArguments, IdleIsNoCall, NotDue
     DEF Lookup, Delete, ownVars, TypeInv, TypeOK, StepOfCall
<1> DEFINE k == call[p].key
<1>2. CASE store[k] = NoCred
  <2>1. Reply(p, NotFound) /\ UNCHANGED store
    BY <1>1, <1>2 DEF Lookup, Delete, TypeInv, TypeOK
  <2>2. DueNow' = [DueNow EXCEPT ![p] = NotFound] /\ UNCHANGED Stored
    BY <1>1, <2>1, ReplyDue, SameStored
  <2>3. Stored[k] = "no item"
    BY <1>1, <1>2, StoredCases
  <2>4. C!Miss(p)
    BY <1>1, <2>2, <2>3, SameWords DEF C!Miss
  <2> QED
    BY <2>4 DEF C!CNext
<1>3. CASE store[k] # NoCred /\ Lookup(p)
  <2>1. Go(p, "delete") /\ UNCHANGED <<store, result>>
    BY <1>3 DEF Lookup
  <2>2. UNCHANGED DueNow
    BY <1>1, <2>1, GoesOn
  <2> QED
    BY <1>1, <2>1, <2>2, SameStored DEF NoStep
<1>4. CASE store[k] # NoCred /\ Delete(p)
  <2>1. DueNow' = [DueNow EXCEPT ![p] = Ok]
    BY <1>1, <1>4, ReplyDue DEF Delete
  <2>2. Stored' = [Stored EXCEPT ![k] = "no item"] /\ Stored[k] # "no item"
    BY <1>1, <1>4, OneStored, StoredCases DEF Delete
  <2>3. PICK over \in SUBSET {q \in Proc : IsSetOf(call[q], k)} :
          DueNow' = [q \in Proc |-> IF q = p THEN Ok ELSE IF q \in over THEN Ok ELSE DueNow[q]]
    <3> DEFINE none == {q \in Proc : FALSE}
    <3>1. /\ none \in SUBSET {q \in Proc : IsSetOf(call[q], k)}
          /\ \A q \in Proc : q \notin none
      OBVIOUS
    <3> HIDE DEF none
    <3>2. DueNow' = [q \in Proc |-> IF q = p THEN Ok ELSE IF q \in none THEN Ok ELSE DueNow[q]]
      BY <2>1, <3>1 DEF DueNow
    <3> QED
      BY <3>1, <3>2
  <2>4. C!Erase(p)
    BY <1>1, <2>2, <2>3, SameWords DEF C!Erase
  <2> QED
    BY <2>4 DEF C!CNext
<1> QED
  BY <1>2, <1>3, <1>4

LEMMA KeysStep == ASSUME TypeInv, DataApart, NEW p \in Proc, Keys(p) PROVE C!CNext
<1>1. call[p].op = "Keys" /\ UNCHANGED <<Stored, call>>
  <2>1. pc[p] = "list" /\ UNCHANGED <<store, passport, call>>
    BY DEF Keys, ownVars
  <2>2. call[p].op = "Keys"
    BY <2>1 DEF TypeInv, StepOfCall
  <2> QED
    BY <2>1, <2>2, SameStored
<1>2. {k \in Key : store[k] # NoCred} = {k \in Key : Stored[k] # "no item"}
  BY StoredCases
<1>3. DueNow' = [DueNow EXCEPT ![p] = Listing({k \in Key : Stored[k] # "no item"})]
  BY <1>2, ReplyDue DEF Keys, ownVars
<1>4. C!List(p)
  BY <1>1, <1>3, SameWords DEF C!List
<1> QED
  BY <1>4 DEF C!CNext

\* A call returns, or its process ends; one without a call ends unseen.
LEMMA LeaveStep ==
  ASSUME TypeInv, NEW p \in Proc, Return(p) \/ Exit(p) PROVE NoStep \/ C!CNext
<1>1. Leave(p) /\ UNCHANGED <<store, passport>> /\ (Return(p) => pc[p] = "return")
  BY DEF Return, Exit
<1>2. \A q \in Proc : /\ pc'[q] = IF q = p THEN "idle" ELSE pc[q]
                      /\ result'[q] = IF q = p THEN Error ELSE result[q]
                      /\ call'[q] = IF q = p THEN Idle ELSE call[q]
                      /\ q # p => buf'[q] = buf[q]
  BY <1>1 DEF Leave, Go, TypeInv, TypeOK
<1>3. Due(p)' = Error /\ \A q \in Proc \ {p} : Due(q)' = Due(q)
  BY <1>1, <1>2 DEF Due, Opens
<1>4. DueNow' = [DueNow EXCEPT ![p] = Error] /\ UNCHANGED Stored
  BY <1>1, <1>3, SameStored DEF DueNow
<1>5. CASE call[p] # Idle
  <2>1. C!Return(p)
    BY <1>1, <1>4, <1>5, SameWords DEF Leave, C!Return
  <2> QED
    BY <2>1 DEF C!CNext
<1>6. CASE call[p] = Idle
  <2>1. pc[p] = "idle"
    BY <1>6 DEF TypeInv, StepOfCall
  <2>2. DueNow[p] = Error
    BY <2>1 DEF DueNow, Due
  <2>3. UNCHANGED <<call, DueNow>>
    BY <1>1, <1>4, <1>6, <2>2 DEF Leave, DueNow, TypeInv, TypeOK
  <2> QED
    BY <1>4, <2>3 DEF NoStep
<1> QED
  BY <1>5, <1>6

-----------------------------------------------------------------------------
LEMMA InitRefines == Init => C!CInit
<1> SUFFICES ASSUME Init PROVE C!CInit
  OBVIOUS
<1>1. Stored = [k \in Key |-> "no item"] /\ DueNow = [p \in Proc |-> Error]
  BY DEF Init, Stored, DueNow, Due
<1> QED
  BY <1>1, SameWords DEF Init, C!CInit

LEMMA StepRefines ==
  ASSUME TypeInv, CalledInv, DataApart, NEW p \in Proc, Step(p)
  PROVE  NoStep \/ C!CNext \/ (p \in hit /\ Overtaken(p))
<1>1. CASE \/ GetMetadata(p) \/ KeyTaken(p) \/ EnvelopeRejected(p) \/ OpenMissing(p)
           \/ NCryptFails(p) \/ CredFails(p) \/ (Initialize(p) /\ Abandon(p))
  BY <1>1, FailingSteps
<1>2. CASE \/ KeyFound(p) \/ Create(p) \/ Free(p) \/ Open(p) \/ Wrap(p)
           \/ Initialize(p) /\ ~Abandon(p)
  BY <1>2, OnTheWayStep
<1>3. CASE Unwrap(p) \/ Write(p)
  BY <1>3, UnwrapStep, WriteStep DEF Overtaken
<1>4. CASE \/ Call(p) \/ Read(p) \/ KeyMissing(p) \/ Finalize(p) \/ Lookup(p) \/ Delete(p)
           \/ Keys(p) \/ Return(p) \/ Exit(p)
  BY <1>4, BeginStep, ReadStep, MissingStep, FinalizeStep, RemoveStep, KeysStep, LeaveStep
<1> QED
  BY <1>1, <1>2, <1>3, <1>4 DEF Step

\* Every step of any number of processes is one of the Keyring interface
\* (keyring.go:114-125), whatever NCrypt call fails and wherever a process ends, but
\* the unwrapping and the writing of a call that the deletion of the Passport key has
\* met (winhello/backend.go:58-146).
THEOREM ContractHolds == DataApart => (Spec => Contract)
<1> SUFFICES ASSUME DataApart PROVE Spec => Contract
  OBVIOUS
<1>1. Init => CalledInv
  BY DEF Init, CalledInv
<1>2. TypeInv /\ CalledInv /\ [Next]_vars
        => [C!CNext \/ Outside \/ \E p \in hit : Overtaken(p)]_<<Stored, call, DueNow>>
  <2> SUFFICES ASSUME TypeInv, CalledInv, [Next]_vars
               PROVE  NoStep \/ C!CNext \/ Outside \/ \E p \in hit : Overtaken(p)
    BY DEF NoStep
  <2>1. CASE UNCHANGED vars
    <3>1. UNCHANGED <<store, passport, buf, call, pc, result>>
      BY <2>1 DEF vars, ownVars
    <3> QED
      BY <3>1, SameStored DEF NoStep, DueNow, Due, Opens
  <2>2. CASE Next
    BY <2>2, StepRefines DEF Next
  <2> QED
    BY <2>1, <2>2
<1> QED
  BY <1>1, <1>2, InitTypeInv, NextTypeInv, NextCalledInv, InitRefines, PTL DEF Spec, Contract
=============================================================================
