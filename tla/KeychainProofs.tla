---------------------------- MODULE KeychainProofs ----------------------------
(***************************************************************************)
(* Proofs about Keychain, for any processes, configurations, items,        *)
(* passphrases and faults.  That the stored passphrase opens the keychain  *)
(* is inductive with what a Set knows while it tries one (Tried): the      *)
(* keychain it has locked is still locked before it is unlocked, and the   *)
(* passphrase that unlocked it is the password until it is stored.         *)
(***************************************************************************)
EXTENDS Keychain, TLAPS

\* A call carries the arguments of its operation.
LEMMA CallArguments ==
  \A cl \in Calls :
    /\ cl.op \in {"Get", "GetMetadata", "Remove", "Set", "Keys"}
    /\ cl.op \in {"Get", "GetMetadata", "Remove", "Set"} => cl.key \in Key
    /\ cl.op = "Set" => cl.data \in Data
  BY DEF Calls

\* A client without a call is in none of them.
LEMMA IdleIsNoCall == Idle \notin Calls /\ Idle.op = "idle"
  BY DEF Idle, Calls

\* What a backend can answer is a reply of the interface.
LEMMA ReplyTypes ==
  /\ Ok \in Replies /\ NotFound \in Replies /\ Error \in Replies
  /\ \A d \in Data : Found(d) \in Replies
  /\ \A S \in SUBSET Key : Listing(S) \in Replies
  BY DEF Replies, Ok, NotFound, Error, Found, Listing

SetSteps == {"askNew", "create", "touch", "lookup", "askOld", "lock", "tryNew", "keep",
             "unlock", "add", "find", "update"}

StepOfCall ==
  \A p \in Proc :
    /\ pc[p] = "idle" <=> call[p] = Idle
    /\ pc[p] \in SetSteps => call[p].op = "Set"
    /\ pc[p] = "query" => call[p].op = "Get"
    /\ pc[p] = "metadata" => call[p].op = "GetMetadata"
    /\ pc[p] = "status" => call[p].op \in {"Set", "Remove", "Keys"}
    /\ pc[p] = "delete" => call[p].op = "Remove"
    /\ pc[p] = "list" => call[p].op = "Keys"
    /\ pc[p] \in {"create", "lock", "tryNew", "keep", "unlock"} => typed[p] \in Passphrase

TypeInv == TypeOK /\ StepOfCall

Tried ==
  ~changed => \A p \in Proc :
    /\ pc[p] = "tryNew" => file = "locked"
    /\ pc[p] = "keep" => file # "none" /\ typed[p] = password

EntryOpens == entry \in Passphrase /\ ~changed => file # "none" /\ entry = password

TriedInv == Tried /\ EntryOpens

-----------------------------------------------------------------------------
LEMMA InitTypeInv == Init => TypeInv
<1> SUFFICES ASSUME Init PROVE TypeInv
  OBVIOUS
<1>1. TypeOK
  BY ReplyTypes DEF Init, TypeOK, PCs, Empty
<1>2. StepOfCall
  BY DEF Init, StepOfCall, SetSteps
<1> QED
  BY <1>1, <1>2 DEF TypeInv

\* A step of a call that only answers.
LEMMA ReplyTypeInv ==
  ASSUME TypeInv, NEW p \in Proc, pc[p] # "idle", NEW r \in Replies, Reply(p, r),
         UNCHANGED <<kind, authenticated, typed, call>>,
         file' \in {"none", "open", "locked"}, password' \in Passphrase,
         items' \in [Key -> Data \cup {NoItem}],
         entry' \in Passphrase \cup {NoEntry, OtherEntry}, changed' \in BOOLEAN
  PROVE  TypeInv'
  BY DEF Reply, Go, TypeInv, TypeOK, StepOfCall, PCs, SetSteps

\* A step of a call that goes on to another.
LEMMA GoTypeInv ==
  ASSUME TypeInv, NEW p \in Proc, pc[p] # "idle", NEW step \in PCs \ {"idle"}, Go(p, step),
         step \in SetSteps => call[p].op = "Set",
         step \notin {"query", "metadata", "status"},
         step = "delete" => call[p].op = "Remove", step = "list" => call[p].op = "Keys",
         step \in {"create", "lock", "tryNew", "keep", "unlock"} => typed'[p] \in Passphrase,
         typed' \in [Proc -> Passphrase \cup {NoPass}],
         \A q \in Proc \ {p} : typed'[q] = typed[q],
         authenticated' \in [Proc -> BOOLEAN],
         UNCHANGED <<kind, call, result>>,
         file' \in {"none", "open", "locked"}, password' \in Passphrase,
         items' \in [Key -> Data \cup {NoItem}],
         entry' \in Passphrase \cup {NoEntry, OtherEntry}, changed' \in BOOLEAN
  PROVE  TypeInv'
<1>1. TypeOK'
  BY DEF Go, TypeInv, TypeOK
<1>2. StepOfCall'
  <2> SUFFICES ASSUME NEW q \in Proc PROVE StepOfCall!(q)'
    BY DEF StepOfCall
  <2>1. CASE q = p
    BY <2>1 DEF Go, TypeInv, TypeOK, StepOfCall, SetSteps
  <2>2. CASE q # p
    BY <2>2 DEF Go, TypeInv, TypeOK, StepOfCall, SetSteps
  <2> QED
    BY <2>1, <2>2
<1> QED
  BY <1>1, <1>2 DEF TypeInv

LEMMA CallTypeInv == ASSUME TypeInv, NEW p \in Proc, Call(p) PROVE TypeInv'
<1> USE DEF sharedVars
<1>1. PICK cl \in Calls : call' = [call EXCEPT ![p] = cl] /\ Go(p, FirstStep(p, cl.op))
  BY DEF Call
<1>2. FirstStep(p, cl.op) \in {"query", "metadata", "status", "add", "delete", "list"}
      /\ (FirstStep(p, cl.op) = "query" => cl.op = "Get")
      /\ (FirstStep(p, cl.op) = "metadata" => cl.op = "GetMetadata")
      /\ (FirstStep(p, cl.op) = "status" => cl.op \in {"Set", "Remove", "Keys"})
      /\ (FirstStep(p, cl.op) = "add" => cl.op = "Set")
      /\ (FirstStep(p, cl.op) = "delete" => cl.op = "Remove")
      /\ (FirstStep(p, cl.op) = "list" => cl.op = "Keys")
  BY CallArguments DEF FirstStep
<1>3. TypeOK'
  BY <1>1, <1>2 DEF Call, Go, TypeInv, TypeOK, PCs
<1>4. StepOfCall'
  <2> SUFFICES ASSUME NEW q \in Proc PROVE StepOfCall!(q)'
    BY DEF StepOfCall
  <2>1. CASE q = p
    BY <1>1, <1>2, <2>1, IdleIsNoCall DEF Call, Go, TypeInv, TypeOK, StepOfCall, SetSteps
  <2>2. CASE q # p
    BY <1>1, <2>2 DEF Call, Go, TypeInv, TypeOK, StepOfCall, SetSteps
  <2> QED
    BY <2>1, <2>2
<1> QED
  BY <1>3, <1>4 DEF TypeInv

\* What a step of a call finds in its arguments.
LEMMA ArgumentTypes ==
  ASSUME TypeInv, NEW p \in Proc, pc[p] # "idle"
  PROVE  /\ call[p] \in Calls
         /\ pc[p] \in {"query", "metadata", "delete"} \cup SetSteps => call[p].key \in Key
         /\ pc[p] \in SetSteps => call[p].data \in Data
<1>1. call[p] \in Calls
  BY DEF TypeInv, TypeOK, StepOfCall
<1>2. pc[p] \in {"query", "metadata", "delete"} \cup SetSteps
        => call[p].op \in {"Get", "GetMetadata", "Remove", "Set"}
  BY DEF TypeInv, StepOfCall
<1>3. pc[p] \in SetSteps => call[p].op = "Set"
  BY DEF TypeInv, StepOfCall
<1> QED
  BY <1>1, <1>2, <1>3, CallArguments

LEMMA StepTypeInv == ASSUME TypeInv, NEW p \in Proc, Step(p) PROVE TypeInv'
<1> USE DEF sharedVars
<1> DEFINE SharedTyped == /\ file' \in {"none", "open", "locked"} /\ password' \in Passphrase
                          /\ items' \in [Key -> Data \cup {NoItem}]
                          /\ entry' \in Passphrase \cup {NoEntry, OtherEntry}
                          /\ changed' \in BOOLEAN
<1>a. UNCHANGED sharedVars => SharedTyped
  BY DEF TypeInv, TypeOK
<1>1. CASE Call(p)
  BY <1>1, CallTypeInv
<1>2. CASE Query(p)
  <2>1. pc[p] # "idle" /\ call[p].key \in Key
    BY <1>2, ArgumentTypes DEF Query
  <2>2. Held(call[p].key) = NoItem \/ Held(call[p].key) \in Data
    BY <2>1 DEF Held, TypeInv, TypeOK
  <2> QED
    BY <1>2, <1>a, <2>1, <2>2, ReplyTypes, ReplyTypeInv DEF Query
<1>3. CASE GetMetadata(p)
  BY <1>3, <1>a, ReplyTypes, ReplyTypeInv DEF GetMetadata
<1>4. CASE MetadataElsewhere(p)
  BY <1>4, <1>a, ReplyTypes, ReplyTypeInv DEF MetadataElsewhere
<1>5. CASE QueryFails(p)
  BY <1>5, <1>a, ReplyTypes, ReplyTypeInv DEF QueryFails
<1>6. CASE Status(p)
  <2>1. /\ AfterStatus(p) \in {"delete", "list", "touch", "add"}
        /\ AfterStatus(p) = "delete" => call[p].op = "Remove"
        /\ AfterStatus(p) = "list" => call[p].op = "Keys"
        /\ AfterStatus(p) \in {"touch", "add"} => call[p].op = "Set"
    BY <1>6 DEF AfterStatus, Status, TypeInv, StepOfCall
  <2> QED
    BY <1>6, <1>a, <2>1, GoTypeInv DEF Status, PCs, SetSteps, TypeInv, TypeOK
<1>7. CASE NoKeychain(p)
  <2>1. CASE call[p].op = "Set"
    BY <1>7, <1>a, <2>1, GoTypeInv DEF NoKeychain, PCs, SetSteps, TypeInv, TypeOK
  <2>2. CASE call[p].op # "Set"
    BY <1>7, <1>a, <2>2, ReplyTypes, ReplyTypeInv DEF NoKeychain
  <2> QED
    BY <2>1, <2>2
<1>8. CASE Ask(p)
  <2>1. AfterAnswer(pc[p]) \in {"create", "lock"} /\ call[p].op = "Set" /\ pc[p] # "idle"
    BY <1>8 DEF Ask, AfterAnswer, TypeInv, StepOfCall, SetSteps
  <2>2. /\ typed' \in [Proc -> Passphrase \cup {NoPass}] /\ typed'[p] \in Passphrase
        /\ \A q \in Proc \ {p} : typed'[q] = typed[q]
    BY <1>8 DEF Ask, TypeInv, TypeOK
  <2> QED
    BY <1>8, <1>a, <2>1, <2>2, GoTypeInv DEF Ask, PCs, SetSteps, TypeInv, TypeOK
<1>9. CASE Create(p)
  <2>1. /\ pc[p] # "idle" /\ call[p].op = "Set" /\ typed[p] \in Passphrase
    BY <1>9 DEF Create, TypeInv, StepOfCall, SetSteps
  <2>2. SharedTyped
    BY <1>9, <2>1 DEF Create, TypeInv, TypeOK, Empty
  <2>3. CASE file = "none"
    BY <1>9, <2>1, <2>2, <2>3, GoTypeInv DEF Create, PCs, SetSteps, TypeInv, TypeOK
  <2>4. CASE file # "none"
    BY <1>9, <2>1, <2>2, <2>4, ReplyTypes, ReplyTypeInv DEF Create
  <2> QED
    BY <2>3, <2>4
<1>10. CASE Touch(p)
  <2>1. call[p].op = "Set" /\ authenticated' \in [Proc -> BOOLEAN]
    BY <1>10 DEF Touch, TypeInv, TypeOK, StepOfCall, SetSteps
  <2> QED
    BY <1>10, <1>a, <2>1, GoTypeInv DEF Touch, PCs, SetSteps, TypeInv, TypeOK
<1>11. CASE Lookup(p)
  <2>1. call[p].op = "Set" /\ pc[p] # "idle"
    BY <1>11 DEF Lookup, TypeInv, StepOfCall, SetSteps
  <2>2. CASE entry \in Passphrase
    <3>1. /\ typed' \in [Proc -> Passphrase \cup {NoPass}] /\ typed'[p] \in Passphrase
          /\ \A q \in Proc \ {p} : typed'[q] = typed[q]
      BY <1>11, <2>2 DEF Lookup, TypeInv, TypeOK
    <3> QED
      BY <1>11, <1>a, <2>1, <2>2, <3>1, GoTypeInv DEF Lookup, PCs, SetSteps, TypeInv, TypeOK
  <2>3. CASE entry \notin Passphrase
    BY <1>11, <1>a, <2>1, <2>3, GoTypeInv DEF Lookup, PCs, SetSteps, TypeInv, TypeOK
  <2> QED
    BY <2>2, <2>3
<1>12. CASE Lock(p)
  <2>1. call[p].op = "Set" /\ pc[p] # "idle" /\ typed[p] \in Passphrase
    BY <1>12 DEF Lock, TypeInv, StepOfCall, SetSteps
  <2> QED
    BY <1>12, <2>1, GoTypeInv DEF Lock, PCs, SetSteps, TypeInv, TypeOK
<1>13. CASE Unlock(p)
  <2>1. call[p].op = "Set" /\ pc[p] # "idle" /\ typed[p] \in Passphrase
    BY <1>13 DEF Unlock, TypeInv, StepOfCall, SetSteps
  <2>2. SharedTyped
    BY <1>13 DEF Unlock, Spoils, TypeInv, TypeOK
  <2> QED
    BY <1>13, <2>1, <2>2, GoTypeInv DEF Unlock, PCs, SetSteps, TypeInv, TypeOK
<1>14. CASE OpeningFails(p)
  BY <1>14, <1>a, ReplyTypes, ReplyTypeInv DEF OpeningFails
<1>15. CASE Keep(p)
  <2>1. call[p].op = "Set" /\ pc[p] # "idle" /\ typed[p] \in Passphrase
    BY <1>15 DEF Keep, TypeInv, StepOfCall, SetSteps
  <2>2. SharedTyped
    BY <1>15, <2>1 DEF Keep, TypeInv, TypeOK
  <2>3. CASE entry = NoEntry
    BY <1>15, <2>1, <2>2, <2>3, GoTypeInv DEF Keep, PCs, SetSteps, TypeInv, TypeOK
  <2>4. CASE entry # NoEntry
    BY <1>15, <2>1, <2>2, <2>4, ReplyTypes, ReplyTypeInv DEF Keep
  <2> QED
    BY <2>3, <2>4
<1>16. CASE Add(p)
  <2>1. call[p].op = "Set" /\ pc[p] # "idle" /\ call[p].key \in Key /\ call[p].data \in Data
    BY <1>16, ArgumentTypes DEF Add, TypeInv, StepOfCall, SetSteps
  <2>2. SharedTyped
    BY <1>16, <2>1 DEF Add, TypeInv, TypeOK
  <2>3. CASE items[call[p].key] # NoItem
    BY <1>16, <2>1, <2>2, <2>3, GoTypeInv DEF Add, PCs, SetSteps, TypeInv, TypeOK
  <2>4. CASE items[call[p].key] = NoItem
    BY <1>16, <2>1, <2>2, <2>4, ReplyTypes, ReplyTypeInv DEF Add
  <2> QED
    BY <2>3, <2>4
<1>17. CASE Find(p)
  <2>1. call[p].op = "Set" /\ pc[p] # "idle"
    BY <1>17 DEF Find, TypeInv, StepOfCall, SetSteps
  <2>2. CASE Held(call[p].key) # NoItem
    BY <1>17, <1>a, <2>1, <2>2, GoTypeInv DEF Find, PCs, SetSteps, TypeInv, TypeOK
  <2>3. CASE Held(call[p].key) = NoItem
    BY <1>17, <1>a, <2>1, <2>3, ReplyTypes, ReplyTypeInv DEF Find
  <2> QED
    BY <2>2, <2>3
<1>18. CASE Update(p)
  <2>1. pc[p] # "idle" /\ call[p].key \in Key /\ call[p].data \in Data
    BY <1>18, ArgumentTypes DEF Update, SetSteps
  <2>2. SharedTyped
    BY <1>18, <2>1 DEF Update, TypeInv, TypeOK
  <2> QED
    BY <1>18, <2>1, <2>2, ReplyTypes, ReplyTypeInv DEF Update
<1>19. CASE Delete(p)
  <2>1. pc[p] # "idle" /\ SharedTyped
    BY <1>19 DEF Delete, TypeInv, TypeOK
  <2> QED
    BY <1>19, <2>1, ReplyTypes, ReplyTypeInv DEF Delete
<1>20. CASE Keys(p)
  BY <1>20, <1>a, ReplyTypes, ReplyTypeInv DEF Keys
<1>21. CASE CallFails(p)
  BY <1>21, <1>a, ReplyTypes, ReplyTypeInv DEF CallFails
<1>22. CASE Return(p)
  BY <1>22, <1>a, ReplyTypes DEF Return, Go, TypeInv, TypeOK, StepOfCall, PCs, SetSteps
<1> QED
  BY <1>1, <1>2, <1>3, <1>4, <1>5, <1>6, <1>7, <1>8, <1>9, <1>10, <1>11, <1>12, <1>13,
     <1>14, <1>15, <1>16, <1>17, <1>18, <1>19, <1>20, <1>21, <1>22 DEF Step

LEMMA NextTypeInv == TypeInv /\ [Next]_vars => TypeInv'
<1> SUFFICES ASSUME TypeInv, [Next]_vars PROVE TypeInv'
  OBVIOUS
<1> USE DEF sharedVars
<1>1. CASE UNCHANGED vars
  BY <1>1 DEF vars, TypeInv, TypeOK, StepOfCall
<1>2. ASSUME NEW p \in Proc, Step(p) PROVE TypeInv'
  BY <1>2, StepTypeInv
<1>3. CASE Person
  <2> SUFFICES /\ UNCHANGED <<kind, authenticated, typed, call, pc, result>>
               /\ file' \in {"none", "open", "locked"} /\ password' \in Passphrase
               /\ items' \in [Key -> Data \cup {NoItem}]
               /\ entry' \in Passphrase \cup {NoEntry, OtherEntry} /\ changed' \in BOOLEAN
    BY DEF TypeInv, TypeOK, StepOfCall
  <2>1. CASE PersonLocks
    BY <2>1 DEF PersonLocks, TypeInv, TypeOK
  <2>2. CASE PersonUnlocks
    BY <2>2 DEF PersonUnlocks, Spoils, TypeInv, TypeOK
  <2>3. CASE PersonDeletes
    BY <2>3 DEF PersonDeletes, TypeInv, TypeOK, Empty
  <2>4. CASE PersonChangesPassword
    BY <2>4 DEF PersonChangesPassword, TypeInv, TypeOK
  <2> QED
    BY <1>3, <2>1, <2>2, <2>3, <2>4 DEF Person
<1> QED
  BY <1>1, <1>2, <1>3 DEF Next

\* Every variable of the keychain backend keeps its type: no step of a method
\* (keychain_macos.go:75-301) goes on to one that is not there, and none answers what
\* the Keyring interface does not know.
THEOREM Typing == Spec => []TypeOK
<1>1. TypeInv => TypeOK
  BY DEF TypeInv
<1> QED
  BY <1>1, InitTypeInv, NextTypeInv, PTL DEF Spec

-----------------------------------------------------------------------------
\* A step that leaves the keychain file, its password and the entry alone, and
\* brings its process to no step of a trial.
LEMMA TriedElsewhere ==
  ASSUME TriedInv, TypeInv, NEW p \in Proc, NEW step \in PCs \ {"tryNew", "keep"},
         UNCHANGED sharedVars, Go(p, step),
         \A q \in Proc \ {p} : typed'[q] = typed[q]
  PROVE  TriedInv'
  BY DEF TriedInv, Tried, EntryOpens, sharedVars, Go, TypeInv, TypeOK

LEMMA NextTriedInv == TypeInv /\ TriedInv /\ [Next]_vars => TriedInv'
<1> SUFFICES ASSUME TypeInv, TriedInv, [Next]_vars PROVE TriedInv'
  OBVIOUS
<1>a. "return" \in PCs \ {"tryNew", "keep"}
  BY DEF PCs
<1>1. CASE UNCHANGED vars
  BY <1>1 DEF vars, sharedVars, TriedInv, Tried, EntryOpens
<1>2. ASSUME NEW p \in Proc, Step(p) PROVE TriedInv'
  <2> USE DEF sharedVars
  <2>1. CASE Call(p)
    <3>1. PICK cl \in Calls : Go(p, FirstStep(p, cl.op))
      BY <2>1 DEF Call
    <3>2. FirstStep(p, cl.op) \in PCs \ {"tryNew", "keep"}
      BY CallArguments DEF FirstStep, PCs
    <3> QED
      BY <2>1, <3>1, <3>2, TriedElsewhere DEF Call
  <2>2. CASE Query(p) \/ GetMetadata(p) \/ MetadataElsewhere(p) \/ QueryFails(p) \/ Keys(p)
             \/ OpeningFails(p) \/ CallFails(p)
    <3>1. UNCHANGED <<sharedVars, typed>> /\ Go(p, "return")
      BY <2>2 DEF Query, GetMetadata, MetadataElsewhere, QueryFails, Keys, OpeningFails,
                  CallFails, Reply
    <3> QED
      BY <1>a, <3>1, TriedElsewhere
  <2>3. CASE Status(p)
    <3>1. AfterStatus(p) \in PCs \ {"tryNew", "keep"}
      BY DEF AfterStatus, PCs
    <3> QED
      BY <2>3, <3>1, TriedElsewhere DEF Status
  <2>4. CASE NoKeychain(p)
    <3>1. Go(p, "askNew") \/ Go(p, "return")
      BY <2>4 DEF NoKeychain, Reply
    <3>2. "askNew" \in PCs \ {"tryNew", "keep"}
      BY DEF PCs
    <3> QED
      BY <1>a, <2>4, <3>1, <3>2, TriedElsewhere DEF NoKeychain
  <2>5. CASE Ask(p)
    <3>1. AfterAnswer(pc[p]) \in PCs \ {"tryNew", "keep"}
      BY <2>5 DEF Ask, AfterAnswer, PCs
    <3>2. \A q \in Proc \ {p} : typed'[q] = typed[q]
      BY <2>5 DEF Ask, TypeInv, TypeOK
    <3> QED
      BY <2>5, <3>1, <3>2, TriedElsewhere DEF Ask
  <2>6. CASE Create(p)
    BY <2>6 DEF Create, Reply, Go, TriedInv, Tried, EntryOpens, TypeInv, TypeOK
  <2>7. CASE Touch(p)
    <3>1. "lookup" \in PCs \ {"tryNew", "keep"}
      BY DEF PCs
    <3> QED
      BY <2>7, <3>1, TriedElsewhere DEF Touch
  <2>8. CASE Lookup(p)
    <3>1. {"unlock", "askOld"} \subseteq PCs \ {"tryNew", "keep"}
      BY DEF PCs
    <3>2. Go(p, "unlock") \/ Go(p, "askOld")
      BY <2>8 DEF Lookup
    <3>3. \A q \in Proc \ {p} : typed'[q] = typed[q]
      BY <2>8 DEF Lookup, TypeInv, TypeOK
    <3> QED
      BY <2>8, <3>1, <3>2, <3>3, TriedElsewhere DEF Lookup
  <2>9. CASE Lock(p)
    BY <2>9 DEF Lock, Go, TriedInv, Tried, EntryOpens, TypeInv, TypeOK
  <2>10. CASE Unlock(p)
    <3>1. CASE changed'
      BY <3>1 DEF TriedInv, Tried, EntryOpens
    <3>2. CASE ~changed'
      <4>1. ~changed /\ \A q \in Proc \ {p} : pc[q] # "tryNew"
        BY <2>10, <3>2 DEF Unlock, Spoils
      <4>2. pc[p] = "tryNew" => file = "locked" /\ typed[p] = password
        BY <2>10, <4>1 DEF Unlock, TriedInv, Tried
      <4> QED
        BY <2>10, <4>1, <4>2 DEF Unlock, Go, TriedInv, Tried, EntryOpens, TypeInv, TypeOK
    <3> QED
      BY <3>1, <3>2
  <2>11. CASE Keep(p)
    BY <2>11 DEF Keep, Reply, Go, TriedInv, Tried, EntryOpens, TypeInv, TypeOK
  <2>12. CASE Add(p) \/ Update(p) \/ Delete(p)
    <3>1. (Go(p, "return") \/ Go(p, "find")) /\ UNCHANGED <<file, password, entry, changed, typed>>
      BY <2>12 DEF Add, Update, Delete, Reply
    <3> QED
      BY <3>1 DEF Go, TriedInv, Tried, EntryOpens, TypeInv, TypeOK
  <2>13. CASE Find(p)
    <3>1. Go(p, "return") \/ Go(p, "update")
      BY <2>13 DEF Find, Reply
    <3>2. "update" \in PCs \ {"tryNew", "keep"}
      BY DEF PCs
    <3> QED
      BY <1>a, <2>13, <3>1, <3>2, TriedElsewhere DEF Find
  <2>14. CASE Return(p)
    <3>1. "idle" \in PCs \ {"tryNew", "keep"}
      BY DEF PCs
    <3>2. \A q \in Proc \ {p} : typed'[q] = typed[q]
      BY <2>14 DEF Return, TypeInv, TypeOK
    <3> QED
      BY <2>14, <3>1, <3>2, TriedElsewhere DEF Return
  <2> QED
    BY <1>2, <2>1, <2>2, <2>3, <2>4, <2>5, <2>6, <2>7, <2>8, <2>9, <2>10, <2>11, <2>12,
       <2>13, <2>14 DEF Step
<1>3. CASE Person
  <2>1. CASE PersonLocks
    BY <2>1 DEF PersonLocks, TriedInv, Tried, EntryOpens
  <2>2. CASE PersonUnlocks
    BY <2>2 DEF PersonUnlocks, Spoils, TriedInv, Tried, EntryOpens
  <2>3. CASE PersonDeletes
    BY <2>3, KeychainAssumption DEF PersonDeletes, TriedInv, Tried, EntryOpens
  <2>4. CASE PersonChangesPassword
    BY <2>4 DEF PersonChangesPassword, TriedInv, Tried, EntryOpens
  <2> QED
    BY <1>3, <2>1, <2>2, <2>3, <2>4 DEF Person
<1> QED
  BY <1>1, <1>2, <1>3 DEF Next

\* What setupTouchID stores in the login keychain opens the keychain file
\* (keychain_macos.go:407-428), with any number of processes that set it up together,
\* unless the person changes the password, deletes the file or opens it meanwhile.
THEOREM StoredPassphraseHolds == Spec => []StoredPassphraseOpens
<1>1. Init => TriedInv
  BY KeychainAssumption DEF Init, TriedInv, Tried, EntryOpens
<1>2. TriedInv => StoredPassphraseOpens
  BY DEF TriedInv, EntryOpens, StoredPassphraseOpens
<1> QED
  BY <1>1, <1>2, InitTypeInv, NextTypeInv, NextTriedInv, PTL DEF Spec

-----------------------------------------------------------------------------
\* Keychain implements KeyringContract between two acts of the person: creating,
\* locking and unlocking the keychain file are no steps of the store, the call that
\* ends a method is one.  C and W are the two instances of the contract in Keychain;
\* W is for the steps that do not look at the keychain at all, QueryFails and
\* MetadataElsewhere.

\* "no item" stands for what Get does not answer, "damaged" does not occur.
DataApart == "no item" \notin Data /\ "damaged" \notin Data

NoStep == UNCHANGED <<Stored, call, DueNow>>

-----------------------------------------------------------------------------
\* The contract speaks of calls and replies as the keychain does.
LEMMA SameWords ==
  /\ C!Idle = Idle /\ C!Ok = Ok /\ C!NotFound = NotFound /\ C!Error = Error
  /\ W!Idle = Idle /\ W!Ok = Ok /\ W!NotFound = NotFound /\ W!Error = Error
  /\ C!Calls = Calls /\ W!Calls = Calls
  /\ \A d : C!Found(d) = Found(d) /\ W!Found(d) = Found(d)
  /\ \A S : C!Listing(S) = Listing(S) /\ W!Listing(S) = Listing(S)
  /\ \A cl, k : C!IsSetOf(cl, k) = IsSetOf(cl, k) /\ W!IsSetOf(cl, k) = IsSetOf(cl, k)
  BY DEF C!Idle, C!Ok, C!NotFound, C!Error, C!Calls, C!Found, C!Listing, C!IsSetOf,
         W!Idle, W!Ok, W!NotFound, W!Error, W!Calls, W!Found, W!Listing, W!IsSetOf,
         Idle, Ok, NotFound, Error, Calls, Found, Listing, IsSetOf

\* An item of the keychain, as the contract sees it.
LEMMA StoredCases ==
  ASSUME TypeOK, DataApart, NEW k \in Key
  PROVE  /\ Held(k) \in Data \cup {NoItem}
         /\ Held(k) = NoItem => Stored[k] = "no item"
         /\ Held(k) # NoItem => Stored[k] = Held(k) /\ Stored[k] \in Data
         /\ Stored[k] = "no item" => Held(k) = NoItem
  BY DEF TypeOK, Held, Stored, DataApart

\* Only whether there is a keychain matters, not whether it is open.
LEMMA SameStored ==
  ASSUME UNCHANGED items, file' = "none" <=> file = "none"
  PROVE  UNCHANGED Stored
  BY DEF Stored, Held

LEMMA OneStored ==
  ASSUME TypeOK, NEW k \in Key, NEW d, file # "none", UNCHANGED file,
         items' = [items EXCEPT ![k] = d]
  PROVE  Stored' = [Stored EXCEPT ![k] = IF d = NoItem THEN "no item" ELSE d]
<1>1. \A j \in Key : Held(j)' = IF j = k THEN d ELSE Held(j)
  BY DEF TypeOK, Held
<1>2. \A j \in Key : Stored'[j] = IF j = k THEN (IF d = NoItem THEN "no item" ELSE d)
                                 ELSE Stored[j]
  BY <1>1 DEF Stored
<1> QED
  BY <1>2 DEF Stored

LEMMA Answered ==
  ASSUME TypeOK, NEW p \in Proc, NEW r, Reply(p, r)
  PROVE  DueNow' = [DueNow EXCEPT ![p] = r]
<1>1. \A q \in Proc : /\ pc'[q] = IF q = p THEN "return" ELSE pc[q]
                      /\ result'[q] = IF q = p THEN r ELSE result[q]
  BY DEF Reply, Go, TypeOK
<1> QED
  BY <1>1 DEF DueNow

\* A step that goes on answers nothing yet.
LEMMA GoesOn ==
  ASSUME TypeOK, NEW p \in Proc, NEW step, Go(p, step), step # "return", pc[p] # "return",
         UNCHANGED result
  PROVE  UNCHANGED DueNow
<1>1. \A q \in Proc : pc'[q] = IF q = p THEN step ELSE pc[q]
  BY DEF Go, TypeOK
<1> QED
  BY <1>1 DEF DueNow

LEMMA NotDue == ASSUME NEW p \in Proc, pc[p] # "return" PROVE DueNow[p] = Error
  BY DEF DueNow

-----------------------------------------------------------------------------
LEMMA BeginStep ==
  ASSUME TypeInv, NEW p \in Proc, Call(p)
  PROVE  C!CNext /\ W!CNext
<1>1. PICK cl \in Calls : call' = [call EXCEPT ![p] = cl] /\ Go(p, FirstStep(p, cl.op))
  BY DEF Call
<1>2. FirstStep(p, cl.op) # "return" /\ pc[p] = "idle" /\ call[p] = Idle
  BY CallArguments DEF FirstStep, Call, TypeInv, StepOfCall
<1>3. UNCHANGED <<Stored, DueNow>> /\ DueNow[p] = Error
  BY <1>1, <1>2, GoesOn, SameStored, NotDue DEF Call, sharedVars, TypeInv
<1>4. DueNow' = [DueNow EXCEPT ![p] = Error]
  BY <1>3 DEF DueNow
<1>5. C!Begin(p) /\ W!Begin(p)
  BY <1>1, <1>2, <1>3, <1>4, SameWords DEF C!Begin, W!Begin
<1> QED
  BY <1>5 DEF C!CNext, W!CNext

LEMMA FailStep ==
  ASSUME TypeInv, NEW p \in Proc, pc[p] # "idle", Reply(p, Error), UNCHANGED <<Stored, call>>
  PROVE  C!CNext /\ W!CNext
<1>1. DueNow' = [DueNow EXCEPT ![p] = Error] /\ call[p] # Idle
  BY Answered DEF TypeInv, StepOfCall
<1>2. C!Fail(p) /\ W!Fail(p)
  BY <1>1, SameWords DEF C!Fail, W!Fail
<1> QED
  BY <1>2 DEF C!CNext, W!CNext

LEMMA QueryStep ==
  ASSUME TypeInv, DataApart, NEW p \in Proc, Query(p)
  PROVE  C!CNext /\ W!CNext
<1>1. call[p].op = "Get" /\ call[p].key \in Key
  BY ArgumentTypes DEF Query, TypeInv, StepOfCall
<1> DEFINE r == IF Held(call[p].key) = NoItem THEN NotFound ELSE Found(Held(call[p].key))
<1>2. DueNow' = [DueNow EXCEPT ![p] = r] /\ UNCHANGED <<Stored, call>>
  BY Answered, SameStored DEF Query, sharedVars, TypeInv
<1>3. C!Answer(Stored[call[p].key]) = r /\ W!Answer(Stored[call[p].key]) = r
  BY <1>1, StoredCases, SameWords DEF C!Answer, W!Answer, DataApart, TypeInv
<1>4. C!Look(p) /\ W!Look(p)
  BY <1>1, <1>2, <1>3 DEF C!Look, W!Look
<1> QED
  BY <1>4 DEF C!CNext, W!CNext

LEMMA MetadataStep ==
  ASSUME TypeInv, DataApart, NEW p \in Proc, GetMetadata(p)
  PROVE  C!CNext /\ W!CNext
<1>1. call[p].op = "GetMetadata" /\ call[p].key \in Key
  BY ArgumentTypes DEF GetMetadata, TypeInv, StepOfCall
<1> DEFINE r == IF Held(call[p].key) = NoItem THEN NotFound ELSE Ok
<1>2. DueNow' = [DueNow EXCEPT ![p] = r] /\ UNCHANGED <<Stored, call>>
  BY Answered, SameStored DEF GetMetadata, sharedVars, TypeInv
<1>3. \/ r = NotFound /\ Stored[call[p].key] = "no item"
      \/ r = Ok /\ Stored[call[p].key] # "no item"
  <2>1. Held(call[p].key) = NoItem <=> Stored[call[p].key] = "no item"
    BY <1>1, StoredCases DEF TypeInv
  <2> QED
    BY <2>1
<1>4. C!Stat(p)
  BY <1>1, <1>2, <1>3, SameWords DEF C!Stat
<1>5. W!Stat(p)
  BY <1>1, <1>2, <1>3, SameWords DEF W!Stat, W!Unseen
<1> QED
  BY <1>4, <1>5 DEF C!CNext, W!CNext

\* Of the weak contract only: what is answered without a look at the keychain.
LEMMA BlindStep ==
  ASSUME TypeInv, NEW p \in Proc, QueryFails(p) \/ MetadataElsewhere(p)
  PROVE  W!CNext
<1>1. PICK r \in {Ok, NotFound} : Reply(p, r) /\ (pc[p] = "query" => r = NotFound)
  BY DEF QueryFails, MetadataElsewhere
<1>2. DueNow' = [DueNow EXCEPT ![p] = r] /\ UNCHANGED <<Stored, call>>
  BY <1>1, Answered, SameStored DEF QueryFails, MetadataElsewhere, sharedVars, TypeInv
<1>3. \/ pc[p] = "query" /\ call[p].op = "Get"
      \/ pc[p] = "metadata" /\ call[p].op = "GetMetadata"
  <2>1. pc[p] \in {"query", "metadata"}
    BY DEF QueryFails, MetadataElsewhere
  <2> QED
    BY <2>1 DEF TypeInv, StepOfCall
<1>4. W!Look(p) \/ W!Stat(p)
  BY <1>1, <1>2, <1>3, SameWords DEF W!Look, W!Stat, W!Unseen
<1> QED
  BY <1>4 DEF W!CNext

-----------------------------------------------------------------------------
\* The steps that look for the keychain, make it or open it change no item.
LEMMA OpeningStep ==
  ASSUME TypeInv, NEW p \in Proc,
         Status(p) \/ Ask(p) \/ Touch(p) \/ Lookup(p) \/ Lock(p) \/ Unlock(p)
  PROVE  NoStep
<1>1. PICK step : Go(p, step) /\ step # "return"
  BY DEF Status, AfterStatus, Ask, AfterAnswer, Touch, Lookup, Lock, Unlock
<1>2. pc[p] # "return" /\ UNCHANGED <<items, call, result>> /\ (file' = "none" <=> file = "none")
  BY DEF Status, Ask, Touch, Lookup, Lock, Unlock, sharedVars
<1> QED
  BY <1>1, <1>2, GoesOn, SameStored DEF NoStep, TypeInv

LEMMA NoKeychainStep ==
  ASSUME TypeInv, DataApart, NEW p \in Proc, NoKeychain(p)
  PROVE  (C!CNext /\ W!CNext) \/ NoStep
<1>1. pc[p] = "status" /\ file = "none" /\ UNCHANGED <<Stored, call>>
      /\ call[p].op \in {"Set", "Remove", "Keys"} /\ call[p] \in Calls
  BY SameStored, ArgumentTypes DEF NoKeychain, sharedVars, TypeInv, StepOfCall
<1>2. CASE call[p].op = "Set"
  BY <1>1, <1>2, GoesOn DEF NoKeychain, NoStep, TypeInv
<1>3. CASE call[p].op = "Remove"
  <2>1. DueNow' = [DueNow EXCEPT ![p] = NotFound] /\ DueNow[p] = Error
    BY <1>1, <1>3, Answered, NotDue DEF NoKeychain, TypeInv
  <2>2. call[p].key \in Key /\ Stored[call[p].key] = "no item"
    BY <1>1, <1>3, CallArguments DEF Stored, Held
  <2>3. C!Miss(p) /\ W!Miss(p)
    BY <1>1, <1>3, <2>1, <2>2, SameWords DEF C!Miss, W!Miss
  <2> QED
    BY <2>3 DEF C!CNext, W!CNext
<1>4. CASE call[p].op = "Keys"
  <2>1. DueNow' = [DueNow EXCEPT ![p] = Listing({})]
    BY <1>1, <1>4, Answered DEF NoKeychain, TypeInv
  <2>2. {k \in Key : Stored[k] # "no item"} = {}
    BY <1>1 DEF Stored, Held
  <2>3. C!List(p) /\ W!List(p)
    BY <1>1, <1>4, <2>1, <2>2, SameWords DEF C!List, W!List
  <2> QED
    BY <2>3 DEF C!CNext, W!CNext
<1> QED
  BY <1>1, <1>2, <1>3, <1>4

LEMMA CreateStep ==
  ASSUME TypeInv, NEW p \in Proc, Create(p)
  PROVE  (C!CNext /\ W!CNext) \/ NoStep
<1>1. CASE file = "none"
  <2>1. UNCHANGED Stored
    BY <1>1 DEF Create, Stored, Held, Empty
  <2> QED
    BY <1>1, <2>1, GoesOn DEF Create, NoStep, TypeInv
<1>2. CASE file # "none"
  BY <1>2, FailStep, SameStored DEF Create
<1> QED
  BY <1>1, <1>2

LEMMA KeepStep ==
  ASSUME TypeInv, NEW p \in Proc, Keep(p)
  PROVE  (C!CNext /\ W!CNext) \/ NoStep
<1>1. UNCHANGED Stored
  BY SameStored DEF Keep
<1>2. CASE entry = NoEntry
  BY <1>1, <1>2, GoesOn DEF Keep, NoStep, TypeInv
<1>3. CASE entry # NoEntry
  BY <1>1, <1>3, FailStep DEF Keep
<1> QED
  BY <1>2, <1>3

-----------------------------------------------------------------------------
\* The call that stores the item of a Set.
LEMMA StoreStep ==
  ASSUME TypeInv, DataApart, NEW p \in Proc, pc[p] \in {"add", "update"}, Reply(p, Ok),
         file # "none", items' = [items EXCEPT ![call[p].key] = call[p].data],
         UNCHANGED <<file, call>>
  PROVE  C!CNext /\ W!CNext
<1>1. call[p].op = "Set" /\ call[p].key \in Key /\ call[p].data \in Data
  BY ArgumentTypes DEF TypeInv, StepOfCall, SetSteps
<1>2. call[p].data # NoItem
  BY <1>1, KeychainAssumption
<1>3. PICK k \in Key, d \in Data :
        /\ k = call[p].key /\ d = call[p].data /\ d # NoItem
        /\ items' = [items EXCEPT ![k] = d]
  BY <1>1, <1>2
<1>4. Stored' = [Stored EXCEPT ![k] = d]
  BY <1>3, OneStored DEF TypeInv
<1>5. DueNow' = [DueNow EXCEPT ![p] = Ok] /\ DueNow[p] = Error
  BY Answered, NotDue DEF TypeInv
<1>6. C!Store(p) /\ W!Store(p)
  BY <1>1, <1>3, <1>4, <1>5, SameWords DEF C!Store, W!Store
<1> QED
  BY <1>6 DEF C!CNext, W!CNext

LEMMA SetStep ==
  ASSUME TypeInv, DataApart, NEW p \in Proc, Add(p) \/ Find(p) \/ Update(p)
  PROVE  (C!CNext /\ W!CNext) \/ NoStep
<1>1. CASE Add(p)
  <2>1. CASE items[call[p].key] = NoItem
    BY <1>1, <2>1, StoreStep DEF Add
  <2>2. CASE items[call[p].key] # NoItem
    BY <1>1, <2>2, GoesOn, SameStored DEF Add, NoStep, TypeInv
  <2> QED
    BY <2>1, <2>2
<1>2. CASE Find(p)
  <2>1. UNCHANGED Stored
    BY <1>2, SameStored DEF Find, sharedVars
  <2>2. CASE Held(call[p].key) = NoItem
    BY <1>2, <2>1, <2>2, FailStep DEF Find
  <2>3. CASE Held(call[p].key) # NoItem
    BY <1>2, <2>1, <2>3, GoesOn DEF Find, NoStep, TypeInv
  <2> QED
    BY <2>2, <2>3
<1>3. CASE Update(p)
  <2>1. CASE Held(call[p].key) = NoItem
    BY <1>3, <2>1, FailStep, SameStored DEF Update
  <2>2. CASE Held(call[p].key) # NoItem
    <3>1. file # "none"
      BY <2>2 DEF Held
    <3> QED
      BY <1>3, <2>2, <3>1, StoreStep DEF Update
  <2> QED
    BY <2>1, <2>2
<1> QED
  BY <1>1, <1>2, <1>3

LEMMA DeleteStep ==
  ASSUME TypeInv, DataApart, NEW p \in Proc, Delete(p)
  PROVE  C!CNext /\ W!CNext
<1>1. call[p].op = "Remove" /\ call[p].key \in Key /\ file # "none" /\ UNCHANGED <<file, call>>
  BY ArgumentTypes DEF Delete, TypeInv, StepOfCall
<1>2. PICK k \in Key : k = call[p].key /\ items' = [items EXCEPT ![k] = NoItem]
  BY <1>1 DEF Delete
<1>3. Stored' = [Stored EXCEPT ![k] = "no item"] /\ DueNow[p] = Error
  BY <1>1, <1>2, OneStored, NotDue DEF Delete, TypeInv
<1>4. Held(k) = items[k]
  BY <1>1 DEF Held
<1>5. CASE items[k] = NoItem
  <2>1. Stored[k] = "no item" /\ Stored' = Stored
    BY <1>3, <1>4, <1>5 DEF Stored
  <2>2. DueNow' = [DueNow EXCEPT ![p] = NotFound]
    BY <1>2, <1>5, Answered DEF Delete, TypeInv
  <2>3. C!Miss(p) /\ W!Miss(p)
    BY <1>1, <1>2, <1>3, <2>1, <2>2, SameWords DEF C!Miss, W!Miss
  <2> QED
    BY <2>3 DEF C!CNext, W!CNext
<1>6. CASE items[k] # NoItem
  <2>1. Stored[k] # "no item"
    BY <1>4, <1>6, StoredCases DEF TypeInv, DataApart
  <2>2. DueNow' = [DueNow EXCEPT ![p] = Ok]
    BY <1>2, <1>6, Answered DEF Delete, TypeInv
  <2>3. PICK over \in SUBSET {q \in Proc : IsSetOf(call[q], k)} :
          DueNow' = [q \in Proc |-> IF q = p THEN Ok ELSE IF q \in over THEN Ok ELSE DueNow[q]]
    <3> DEFINE none == {q \in Proc : FALSE}
    <3>1. none \in SUBSET {q \in Proc : IsSetOf(call[q], k)}
      OBVIOUS
    <3>2. \A q \in Proc : q \notin none
      OBVIOUS
    <3> HIDE DEF none
    <3>3. DueNow' = [q \in Proc |-> IF q = p THEN Ok ELSE IF q \in none THEN Ok ELSE DueNow[q]]
      BY <2>2, <3>2 DEF DueNow
    <3> QED
      BY <3>1, <3>3
  <2>4. C!Erase(p) /\ W!Erase(p)
    BY <1>1, <1>2, <1>3, <2>1, <2>3, SameWords DEF C!Erase, W!Erase
  <2> QED
    BY <2>4 DEF C!CNext, W!CNext
<1> QED
  BY <1>5, <1>6

LEMMA KeysStep ==
  ASSUME TypeInv, DataApart, NEW p \in Proc, Keys(p)
  PROVE  C!CNext /\ W!CNext
<1>1. call[p].op = "Keys"
  BY DEF Keys, TypeInv, StepOfCall
<1>2. {k \in Key : items[k] # NoItem} = {k \in Key : Stored[k] # "no item"}
  BY StoredCases DEF Keys, Held, TypeInv, DataApart
<1>3. /\ DueNow' = [DueNow EXCEPT ![p] = Listing({k \in Key : items[k] # NoItem})]
      /\ UNCHANGED <<Stored, call>>
  BY Answered, SameStored DEF Keys, sharedVars, TypeInv
<1>4. C!List(p) /\ W!List(p)
  BY <1>1, <1>2, <1>3, SameWords DEF C!List, W!List
<1> QED
  BY <1>4 DEF C!CNext, W!CNext

LEMMA ErrorStep ==
  ASSUME TypeInv, NEW p \in Proc, OpeningFails(p) \/ CallFails(p)
  PROVE  C!CNext /\ W!CNext
<1>1. pc[p] # "idle" /\ Reply(p, Error) /\ UNCHANGED <<file, items, call>>
  BY DEF OpeningFails, CallFails, sharedVars
<1> QED
  BY <1>1, FailStep, SameStored

LEMMA ReturnStep ==
  ASSUME TypeInv, NEW p \in Proc, Return(p)
  PROVE  C!CNext /\ W!CNext
<1>1. \A q \in Proc : /\ pc'[q] = IF q = p THEN "idle" ELSE pc[q]
                      /\ result'[q] = IF q = p THEN Error ELSE result[q]
  BY DEF Return, Go, TypeInv, TypeOK
<1>2. DueNow' = [DueNow EXCEPT ![p] = Error]
  BY <1>1 DEF DueNow
<1>3. call[p] # Idle /\ UNCHANGED Stored
  BY SameStored DEF Return, sharedVars, TypeInv, StepOfCall
<1>4. C!Return(p) /\ W!Return(p)
  BY <1>2, <1>3, SameWords DEF Return, C!Return, W!Return
<1> QED
  BY <1>4 DEF C!CNext, W!CNext

-----------------------------------------------------------------------------
LEMMA InitRefines == Init => C!CInit
<1> SUFFICES ASSUME Init PROVE C!CInit
  OBVIOUS
<1>1. Stored = [k \in Key |-> "no item"]
  BY DEF Init, Stored, Held, Empty
<1>2. DueNow = [p \in Proc |-> Error]
  BY DEF Init, DueNow
<1> QED
  BY <1>1, <1>2, SameWords DEF Init, C!CInit

LEMMA NextRefines ==
  ASSUME TypeInv, DataApart, [Next]_vars
  PROVE  NoStep \/ Person \/ IF \E p \in Proc : QueryFails(p) \/ MetadataElsewhere(p)
                             THEN W!CNext ELSE C!CNext
<1>1. CASE UNCHANGED vars
  <2>1. UNCHANGED Stored /\ UNCHANGED DueNow
    BY <1>1, SameStored DEF vars, sharedVars, DueNow
  <2> QED
    BY <1>1, <2>1 DEF vars, NoStep
<1>2. ASSUME NEW p \in Proc, Step(p)
      PROVE  NoStep \/ (C!CNext /\ W!CNext) \/ (W!CNext /\ (QueryFails(p) \/ MetadataElsewhere(p)))
  BY <1>2, BeginStep, QueryStep, MetadataStep, BlindStep, OpeningStep, NoKeychainStep, CreateStep,
     KeepStep, SetStep, DeleteStep, KeysStep, ErrorStep, ReturnStep DEF Step
<1> QED
  BY <1>1, <1>2 DEF Next

\* The keychain keeps the promises of the Keyring interface (keyring.go:114-125)
\* between two acts of the person, for any number of processes: only a query that
\* fails (keychain_macos.go:91), or GetMetadata of a keychain file (line 112),
\* answers something else than the keychain holds.
THEOREM ContractHolds == DataApart => (Spec => Contract)
<1> SUFFICES ASSUME DataApart PROVE Spec => Contract
  OBVIOUS
<1>1. TypeInv /\ [Next]_vars
        => [~Person => IF \E p \in Proc : QueryFails(p) \/ MetadataElsewhere(p)
                       THEN W!CNext ELSE C!CNext]_<<Stored, call, DueNow>>
  BY NextRefines DEF NoStep
<1> QED
  BY <1>1, InitTypeInv, NextTypeInv, InitRefines, PTL DEF Spec, Contract
=============================================================================
