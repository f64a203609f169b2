-------------------------- MODULE FileKeyringProofs --------------------------
(***************************************************************************)
(* Proofs about FileKeyring, for any clients, keys, items, passphrases and *)
(* faults: every variable has its type, and ReadYourWrites.                *)
(*                                                                         *)
(* TypeOK is not inductive: that a step finds the key or the bytes it needs*)
(* depends on the step being one of the right call (StepOfCall).           *)
(* ReadYourWrites needs three more facts about calls that are under way:   *)
(* no two Sets of a key overlap (OneSetter), a Set about to write finds the*)
(* file as it truncated it (WriterFresh), and a Set about to return has    *)
(* left its own token in the file (Settled).                               *)
(***************************************************************************)
EXTENDS FileKeyring, TLAPS

\* A call carries the arguments of its operation.
LEMMA CallArguments ==
  \A cl \in Calls :
    /\ cl.op \in {"Get", "GetMetadata", "Remove", "Set", "Keys"}
    /\ cl.op \in {"Get", "GetMetadata", "Remove", "Set"} => cl.key \in Key
    /\ cl.op = "Set" => cl.data \in Data
  BY DEF Calls

\* A client without a call is in none of them.
LEMMA IdleIsNoCall == Idle \notin Calls /\ Idle.op = "idle"
  BY DEF Idle, Calls

\* What a backend can answer is a reply of the interface.
LEMMA ReplyTypes ==
  /\ Ok \in Replies /\ NotFound \in Replies /\ Error \in Replies
  /\ \A d \in Data : Found(d) \in Replies
  /\ \A S \in SUBSET Key : Listing(S) \in Replies
  BY DEF Replies, Ok, NotFound, Error, Found, Listing

StepOfCall ==
  \A c \in Client :
    /\ pc[c] = "idle" <=> call[c] = Idle
    /\ pc[c] \in {"read", "decode"} => call[c].op = "Get"
    /\ pc[c] = "stat" => call[c].op = "GetMetadata"
    /\ pc[c] = "unlock" => call[c].op \in {"Get", "Set"}
    /\ pc[c] \in {"open", "write"} => call[c].op = "Set"
    /\ pc[c] = "remove" => call[c].op = "Remove"
    /\ pc[c] = "list" => call[c].op = "Keys"
    /\ pc[c] \in {"unlock", "decode"} /\ call[c].op = "Get" => buf[c] # Absent
    /\ linked[c] => pc[c] \in {"write", "return"} /\ call[c].op = "Set"

TypeInv == TypeOK /\ StepOfCall

OneSetter ==
  \A c, d \in Client, k \in Key :
    IsSetOf(call[c], k) /\ IsSetOf(call[d], k) => c = d

WriterFresh ==
  \A c \in Client : pc[c] = "write" /\ linked[c] => Fresh(c)

Settled ==
  \A c \in Client :
    pc[c] = "return" /\ call[c].op = "Set" /\ result[c] = Ok /\ linked[c]
      => file[call[c].key] = Encrypt(c)

WriteInv == OneSetter /\ WriterFresh /\ Settled /\ ReadYourWrites

-----------------------------------------------------------------------------
\* A token has the fields it is sealed with.
LEMMA TokenFields == \A t \in Token : t.data \in Data /\ t.pass \in Password
  BY DEF Token

-----------------------------------------------------------------------------
LEMMA InitTypeInv == Init => TypeInv
<1> SUFFICES ASSUME Init PROVE TypeInv
  OBVIOUS
<1>1. TypeOK
  BY ReplyTypes DEF Init, TypeOK, Contents, Password, PCs
<1>2. StepOfCall
  BY DEF Init, StepOfCall
<1> QED
  BY <1>1, <1>2 DEF TypeInv

LEMMA EncryptType ==
  ASSUME TypeInv, NEW c \in Client, pc[c] = "write"
  PROVE  Encrypt(c) \in Token /\ call[c].key \in Key
<1>1. call[c] \in Calls /\ call[c].op = "Set"
  BY IdleIsNoCall DEF TypeInv, TypeOK, StepOfCall
<1>2. call[c].key \in Key /\ call[c].data \in Data /\ password[c] \in Password
  BY <1>1, CallArguments DEF TypeInv, TypeOK
<1> QED
  BY <1>2 DEF Encrypt, Token

LEMMA NextTypeInv == TypeInv /\ [Next]_vars => TypeInv'
<1> SUFFICES ASSUME TypeInv, [Next]_vars PROVE TypeInv'
  OBVIOUS
<1>1. CASE UNCHANGED vars
  BY <1>1 DEF vars, TypeInv, TypeOK, StepOfCall
<1>2. ASSUME NEW c \in Client, Call(c) PROVE TypeInv'
  BY <1>2, CallArguments, IdleIsNoCall, Zenon, SMTT(30)
     DEF Call, TypeInv, TypeOK, StepOfCall, FirstStep, PCs
<1>3. ASSUME NEW c \in Client, GetAbsent(c) PROVE TypeInv'
  BY <1>3, ReplyTypes DEF GetAbsent, Reply, ResolveDir, TypeInv, TypeOK, StepOfCall, PCs
<1>4. ASSUME NEW c \in Client, GetRead(c) PROVE TypeInv'
  BY <1>4, CallArguments, IdleIsNoCall DEF GetRead, ResolveDir, TypeInv, TypeOK, StepOfCall, PCs
<1>5. ASSUME NEW c \in Client, GetDecode(c) PROVE TypeInv'
  BY <1>5, ReplyTypes, TokenFields
     DEF GetDecode, Contents, Decode, Reply, TypeInv, TypeOK, StepOfCall, PCs
<1>6. ASSUME NEW c \in Client, GetMetadata(c) PROVE TypeInv'
  BY <1>6, ReplyTypes DEF GetMetadata, Reply, ResolveDir, TypeInv, TypeOK, StepOfCall, PCs
<1>7. ASSUME NEW c \in Client, Prompt(c) PROVE TypeInv'
  BY <1>7, FileAssumption
     DEF Prompt, AfterUnlock, ResolveDir, TypeInv, TypeOK, StepOfCall, PCs
<1>8. ASSUME NEW c \in Client, PromptCancelled(c) PROVE TypeInv'
  BY <1>8, ReplyTypes DEF PromptCancelled, Reply, ResolveDir, TypeInv, TypeOK, StepOfCall, PCs
<1>9. ASSUME NEW c \in Client, Unlocked(c) PROVE TypeInv'
  BY <1>9 DEF Unlocked, AfterUnlock, ResolveDir, TypeInv, TypeOK, StepOfCall, PCs
<1>10. ASSUME NEW c \in Client, SetOpen(c) PROVE TypeInv'
  BY <1>10 DEF SetOpen, Supersede, ResolveDir, Contents, Broken, TypeInv, TypeOK, StepOfCall, PCs
<1>11. ASSUME NEW c \in Client, SetWrite(c) PROVE TypeInv'
  <2>1. Encrypt(c) \in Token /\ call[c].key \in Key
    BY <1>11, EncryptType DEF SetWrite
  <2>2. acked' \subseteq Client \X Key /\ linked' \in [Client -> BOOLEAN]
    BY <1>11 DEF SetWrite, Supersede, TypeInv, TypeOK
  <2>3. file' \in [Key -> Contents]
    BY <1>11, <2>1 DEF SetWrite, TypeInv, TypeOK, Contents, Broken
  <2>4. \A d \in Client : linked'[d] => linked[d]
    BY <1>11 DEF SetWrite, Supersede, TypeInv, TypeOK
  <2> QED
    BY <1>11, <2>2, <2>3, <2>4, ReplyTypes DEF SetWrite, Reply, TypeInv, TypeOK, StepOfCall, PCs
<1>12. ASSUME NEW c \in Client, SetWriteUnlinked(c) PROVE TypeInv'
  BY <1>12, ReplyTypes DEF SetWriteUnlinked, Reply, TypeInv, TypeOK, StepOfCall, PCs
<1>13. ASSUME NEW c \in Client, RemoveAbsent(c) PROVE TypeInv'
  BY <1>13, ReplyTypes DEF RemoveAbsent, Reply, ResolveDir, TypeInv, TypeOK, StepOfCall, PCs
<1>14. ASSUME NEW c \in Client, Remove(c) PROVE TypeInv'
  BY <1>14, ReplyTypes DEF Remove, Contents, Reply, ResolveDir, TypeInv, TypeOK, StepOfCall, PCs
<1>15. ASSUME NEW c \in Client, Keys(c) PROVE TypeInv'
  BY <1>15, ReplyTypes DEF Keys, Listed, Reply, ResolveDir, TypeInv, TypeOK, StepOfCall, PCs
<1>16. ASSUME NEW c \in Client, KeysPartial(c) PROVE TypeInv'
  BY <1>16, ReplyTypes DEF KeysPartial, Listed, Reply, ResolveDir, TypeInv, TypeOK, StepOfCall, PCs
<1>17. ASSUME NEW c \in Client, Return(c) PROVE TypeInv'
  BY <1>17, ReplyTypes, IdleIsNoCall DEF Return, Contents, TypeInv, TypeOK, StepOfCall, PCs
<1>18. ASSUME NEW c \in Client, IOError(c) PROVE TypeInv'
  BY <1>18, ReplyTypes DEF IOError, Reply, TypeInv, TypeOK, StepOfCall, PCs
<1>19. ASSUME NEW c \in Client, WriteError(c) PROVE TypeInv'
  <2>1. Encrypt(c) \in Token /\ call[c].key \in Key
    BY <1>19, EncryptType DEF WriteError
  <2>2. acked' \subseteq Client \X Key /\ linked' \in [Client -> BOOLEAN]
    BY <1>19 DEF WriteError, Supersede, TypeInv, TypeOK
  <2>3. file' \in [Key -> Contents]
    BY <1>19, <2>1 DEF WriteError, TypeInv, TypeOK, Contents, Broken
  <2>4. \A d \in Client : linked'[d] => linked[d]
    BY <1>19 DEF WriteError, Supersede, TypeInv, TypeOK
  <2> QED
    BY <1>19, <2>2, <2>3, <2>4, ReplyTypes DEF WriteError, Reply, TypeInv, TypeOK, StepOfCall, PCs
<1>20. ASSUME NEW c \in Client, Restart(c) PROVE TypeInv'
  BY <1>20, ReplyTypes, IdleIsNoCall DEF Restart, Contents, TypeInv, TypeOK, StepOfCall, PCs, Password
<1> QED
  BY <1>1, <1>2, <1>3, <1>4, <1>5, <1>6, <1>7, <1>8, <1>9, <1>10, <1>11, <1>12,
     <1>13, <1>14, <1>15, <1>16, <1>17, <1>18, <1>19, <1>20 DEF Next, Step

\* Every variable of the file backend keeps its type: no step of file.go reads
\* an argument, a file or a passphrase that its call does not have.
THEOREM Typing == Spec => []TypeOK
<1>1. TypeInv => TypeOK
  BY DEF TypeInv
<1> QED
  BY <1>1, InitTypeInv, NextTypeInv, PTL DEF Spec

-----------------------------------------------------------------------------
LEMMA InitWriteInv == Init => WriteInv
  BY IdleIsNoCall
     DEF Init, WriteInv, OneSetter, WriterFresh, Settled, ReadYourWrites, IsSetOf

\* A step of a call that has no file open touches nothing that WriteInv is about.
LEMMA QuietStep ==
  ASSUME TypeInv, WriteInv, NEW c \in Client,
         pc[c] \notin {"write", "return"}, pc'[c] # "write",
         \A d \in Client \ {c} : pc'[d] = pc[d] /\ result'[d] = result[d],
         UNCHANGED <<file, password, call, linked, acked>>
  PROVE  WriteInv'
<1>1. ~linked[c]
  BY DEF TypeInv, StepOfCall
<1>2. OneSetter' /\ ReadYourWrites'
  BY DEF WriteInv, OneSetter, ReadYourWrites
<1>3. WriterFresh'
  BY <1>1 DEF WriteInv, WriterFresh, Fresh
<1>4. Settled'
  BY <1>1 DEF WriteInv, Settled, Encrypt
<1> QED
  BY <1>2, <1>3, <1>4 DEF WriteInv

LEMMA SetOpenWriteInv ==
  ASSUME TypeInv, WriteInv, NEW c \in Client, SetOpen(c)
  PROVE  WriteInv'
<1>1. call[c] \in Calls /\ call[c].op = "Set" /\ call[c].key \in Key
  BY CallArguments, IdleIsNoCall DEF SetOpen, TypeInv, TypeOK, StepOfCall
<1>2. OneSetter'
  BY DEF SetOpen, WriteInv, OneSetter
<1>3. WriterFresh'
  BY <1>1 DEF SetOpen, Supersede, Fresh, WriteInv, WriterFresh, TypeInv, TypeOK
<1>4. Settled'
  <2> SUFFICES ASSUME NEW d \in Client, pc'[d] = "return", call'[d].op = "Set",
                      result'[d] = Ok, linked'[d]
               PROVE  file'[call'[d].key] = Encrypt(d)'
    BY DEF Settled
  <2>1. d # c /\ pc[d] = "return" /\ linked[d] /\ call[d].key # call[c].key
    BY <1>1 DEF SetOpen, Supersede, IsSetOf, TypeInv, TypeOK
  <2> QED
    BY <1>1, <2>1 DEF SetOpen, WriteInv, Settled, Encrypt, TypeInv, TypeOK
<1>5. ReadYourWrites'
  BY <1>1 DEF SetOpen, Supersede, WriteInv, ReadYourWrites, TypeInv, TypeOK
<1> QED
  BY <1>2, <1>3, <1>4, <1>5 DEF WriteInv

LEMMA SetWriteWriteInv ==
  ASSUME TypeInv, WriteInv, NEW c \in Client, SetWrite(c)
  PROVE  WriteInv'
<1>1. call[c] \in Calls /\ call[c].op = "Set" /\ call[c].key \in Key
  BY CallArguments, IdleIsNoCall DEF SetWrite, TypeInv, TypeOK, StepOfCall
<1>2. file' = [file EXCEPT ![call[c].key] = Encrypt(c)]
  BY DEF SetWrite, WriteInv, WriterFresh
<1>3. OneSetter'
  BY DEF SetWrite, WriteInv, OneSetter
<1>4. WriterFresh'
  <2> SUFFICES ASSUME NEW d \in Client, pc'[d] = "write", linked'[d] PROVE Fresh(d)'
    BY DEF WriterFresh
  <2>1. d # c /\ pc[d] = "write" /\ linked[d] /\ call[d].op = "Set"
    BY DEF SetWrite, Reply, Supersede, TypeInv, TypeOK, StepOfCall
  <2>2. call[d].key # call[c].key
    BY <1>1, <2>1 DEF WriteInv, OneSetter, IsSetOf
  <2> QED
    BY <1>2, <2>1, <2>2 DEF SetWrite, WriteInv, WriterFresh, Fresh, TypeInv, TypeOK
<1>5. Settled'
  <2> SUFFICES ASSUME NEW d \in Client, pc'[d] = "return", call'[d].op = "Set",
                      result'[d] = Ok, linked'[d]
               PROVE  file'[call'[d].key] = Encrypt(d)'
    BY DEF Settled
  <2>1. CASE d = c
    BY <1>1, <1>2, <2>1 DEF SetWrite, Encrypt, TypeInv, TypeOK
  <2>2. CASE d # c
    <3>1. pc[d] = "return" /\ result[d] = Ok /\ linked[d] /\ call[d].key # call[c].key
      BY <1>1, <2>2 DEF SetWrite, Reply, Supersede, IsSetOf, TypeInv, TypeOK
    <3> QED
      BY <1>1, <1>2, <3>1 DEF SetWrite, WriteInv, Settled, Encrypt, TypeInv, TypeOK
  <2> QED
    BY <2>1, <2>2
<1>6. ReadYourWrites'
  BY <1>1, <1>2 DEF SetWrite, Supersede, WriteInv, ReadYourWrites, TypeInv, TypeOK
<1> QED
  BY <1>3, <1>4, <1>5, <1>6 DEF WriteInv

LEMMA WriteErrorWriteInv ==
  ASSUME TypeInv, WriteInv, NEW c \in Client, WriteError(c)
  PROVE  WriteInv'
<1>1. call[c] \in Calls /\ call[c].op = "Set" /\ call[c].key \in Key
  BY CallArguments, IdleIsNoCall DEF WriteError, TypeInv, TypeOK, StepOfCall
<1>2. OneSetter'
  BY DEF WriteError, WriteInv, OneSetter
<1>3. result'[c] # Ok /\ \A d \in Client : linked'[d] => linked[d]
  BY DEF WriteError, Reply, Supersede, Ok, Error, TypeInv, TypeOK
<1>4. CASE ~linked[c]
  BY <1>1, <1>2, <1>3, <1>4
     DEF WriteError, Reply, WriteInv, WriterFresh, Fresh, Settled, Encrypt, ReadYourWrites,
         TypeInv, TypeOK
<1>5. CASE linked[c]
  <2>1. Supersede(c, call[c].key) /\ \A k \in Key : k # call[c].key => file'[k] = file[k]
    BY <1>5 DEF WriteError, TypeInv, TypeOK
  <2>2. WriterFresh'
    <3> SUFFICES ASSUME NEW d \in Client, pc'[d] = "write", linked'[d] PROVE Fresh(d)'
      BY DEF WriterFresh
    <3>1. d # c /\ pc[d] = "write" /\ linked[d] /\ call[d].op = "Set"
      BY <1>3 DEF WriteError, Reply, TypeInv, TypeOK, StepOfCall
    <3>2. call[d].key # call[c].key /\ call[d].key \in Key
      BY <1>1, <3>1, CallArguments, IdleIsNoCall DEF WriteInv, OneSetter, IsSetOf, TypeInv, TypeOK
    <3> QED
      BY <2>1, <3>1, <3>2 DEF WriteError, WriteInv, WriterFresh, Fresh
  <2>3. Settled'
    <3> SUFFICES ASSUME NEW d \in Client, pc'[d] = "return", call'[d].op = "Set",
                        result'[d] = Ok, linked'[d]
                 PROVE  file'[call'[d].key] = Encrypt(d)'
      BY DEF Settled
    <3>1. d # c /\ call[d].op = "Set"
      BY <1>3 DEF WriteError
    <3>2. pc[d] = "return" /\ result[d] = Ok /\ linked[d] /\ call[d].key # call[c].key
      BY <2>1, <3>1 DEF WriteError, Reply, Supersede, IsSetOf, TypeInv, TypeOK
    <3>3. call[d].key \in Key
      BY <3>1, CallArguments, IdleIsNoCall DEF TypeInv, TypeOK
    <3> QED
      BY <2>1, <3>1, <3>2, <3>3 DEF WriteError, WriteInv, Settled, Encrypt
  <2>4. ReadYourWrites'
    BY <2>1 DEF WriteError, Supersede, WriteInv, ReadYourWrites, TypeInv, TypeOK
  <2> QED
    BY <1>2, <2>2, <2>3, <2>4 DEF WriteInv
<1> QED
  BY <1>4, <1>5

LEMMA RemoveWriteInv ==
  ASSUME TypeInv, WriteInv, NEW c \in Client, Remove(c)
  PROVE  WriteInv'
<1>1. call[c].key \in Key /\ call[c].op = "Remove"
  BY CallArguments, IdleIsNoCall DEF Remove, TypeInv, TypeOK, StepOfCall
<1>2. \A d \in Client : linked'[d] => /\ linked[d] /\ d # c /\ call[d].op = "Set"
                                      /\ call[d].key # call[c].key /\ call[d].key \in Key
  BY <1>1, CallArguments, IdleIsNoCall DEF Remove, IsSetOf, TypeInv, TypeOK, StepOfCall
<1>3. OneSetter'
  BY DEF Remove, WriteInv, OneSetter
<1>4. WriterFresh'
  BY <1>2 DEF Remove, Reply, WriteInv, WriterFresh, Fresh, TypeInv, TypeOK
<1>5. Settled'
  BY <1>2 DEF Remove, Reply, WriteInv, Settled, Encrypt, TypeInv, TypeOK
<1>6. ReadYourWrites'
  BY DEF Remove, WriteInv, ReadYourWrites, TypeInv, TypeOK
<1> QED
  BY <1>3, <1>4, <1>5, <1>6 DEF WriteInv

LEMMA ReturnWriteInv ==
  ASSUME TypeInv, WriteInv, NEW c \in Client, Return(c)
  PROVE  WriteInv'
<1>1. OneSetter'
  BY IdleIsNoCall DEF Return, IsSetOf, WriteInv, OneSetter, TypeInv, TypeOK
<1>2. WriterFresh' /\ Settled'
  BY DEF Return, WriteInv, WriterFresh, Fresh, Settled, Encrypt, TypeInv, TypeOK
<1>3. ReadYourWrites'
  <2> SUFFICES ASSUME NEW p \in acked'
               PROVE  /\ file[p[2]] \in Token /\ file[p[2]].pass = password[p[1]]
                      /\ file[p[2]].pass # NoPassphrase
    BY DEF Return, ReadYourWrites
  <2>1. CASE p \in acked
    BY <2>1 DEF WriteInv, ReadYourWrites
  <2>2. CASE p \notin acked
    <3>1. PICK k \in Key : /\ p = <<c, k>> /\ IsSetOf(call[c], k) /\ result[c] = Ok
                           /\ linked[c] /\ password[c] # NoPassphrase
      BY <2>2 DEF Return
    <3>2. file[k] = Encrypt(c)
      BY <3>1 DEF Return, WriteInv, Settled, IsSetOf
    <3>3. call[c].data \in Data /\ password[c] \in Password
      BY <3>1, CallArguments, IdleIsNoCall DEF IsSetOf, TypeInv, TypeOK
    <3> QED
      BY <3>1, <3>2, <3>3 DEF Encrypt, Token
  <2> QED
    BY <2>1, <2>2
<1> QED
  BY <1>1, <1>2, <1>3 DEF WriteInv

LEMMA NextWriteInv ==
  ASSUME ExclusiveSets, TypeInv, WriteInv, [Next]_vars
  PROVE  WriteInv'
<1>1. CASE UNCHANGED vars
  BY <1>1 DEF vars, WriteInv, OneSetter, WriterFresh, Fresh, Settled, Encrypt, ReadYourWrites
<1>2. ASSUME NEW c \in Client, Call(c) PROVE WriteInv'
  <2>1. OneSetter'
    BY <1>2, IdleIsNoCall DEF Call, SetPending, IsSetOf, WriteInv, OneSetter, TypeInv, TypeOK
  <2>2. ~linked[c] /\ pc[c] = "idle" /\ pc'[c] # "return"
    <3>1. \A cl \in Calls : FirstStep(cl.op) # "return"
      BY CallArguments DEF FirstStep
    <3> QED
      BY <1>2, <3>1 DEF Call, TypeInv, TypeOK, StepOfCall
  <2>3. WriterFresh'
    BY <1>2, <2>2 DEF Call, WriteInv, WriterFresh, Fresh, TypeInv, TypeOK
  <2>4. Settled'
    BY <1>2, <2>2 DEF Call, WriteInv, Settled, Encrypt, TypeInv, TypeOK
  <2>5. ReadYourWrites'
    BY <1>2 DEF Call, WriteInv, ReadYourWrites
  <2> QED
    BY <2>1, <2>3, <2>4, <2>5 DEF WriteInv
<1>3. ASSUME NEW c \in Client,
             \/ GetAbsent(c) \/ GetRead(c) \/ GetDecode(c) \/ GetMetadata(c)
             \/ PromptCancelled(c) \/ Unlocked(c) \/ RemoveAbsent(c)
             \/ Keys(c) \/ KeysPartial(c) \/ IOError(c)
      PROVE  WriteInv'
  <2>1. /\ pc[c] \notin {"write", "return"} /\ pc'[c] # "write"
        /\ \A d \in Client \ {c} : pc'[d] = pc[d] /\ result'[d] = result[d]
        /\ UNCHANGED <<file, password, call, linked, acked>>
    BY <1>3 DEF GetAbsent, GetRead, GetDecode, GetMetadata, PromptCancelled, Unlocked,
                AfterUnlock, RemoveAbsent, Keys, KeysPartial, IOError, Reply, PCs,
                TypeInv, TypeOK
  <2> QED
    BY <2>1, QuietStep
<1>4. ASSUME NEW c \in Client, Prompt(c) PROVE WriteInv'
  <2>1. /\ password[c] = NoPassphrase /\ ~linked[c] /\ pc'[c] \notin {"write", "return"}
        /\ \A d \in Client \ {c} : password'[d] = password[d] /\ pc'[d] = pc[d]
    BY <1>4 DEF Prompt, AfterUnlock, TypeInv, TypeOK, StepOfCall
  <2>2. OneSetter' /\ WriterFresh' /\ Settled'
    BY <1>4, <2>1 DEF Prompt, WriteInv, OneSetter, WriterFresh, Fresh, Settled, Encrypt
  <2>3. ReadYourWrites'
    BY <1>4, <2>1 DEF Prompt, WriteInv, ReadYourWrites, TypeInv, TypeOK
  <2> QED
    BY <2>2, <2>3 DEF WriteInv
<1>5. ASSUME NEW c \in Client, SetWriteUnlinked(c) PROVE WriteInv'
  BY <1>5 DEF SetWriteUnlinked, Reply, WriteInv, OneSetter, WriterFresh, Fresh, Settled, Encrypt,
              ReadYourWrites, TypeInv, TypeOK
<1>6. ASSUME NEW c \in Client, Restart(c) PROVE WriteInv'
  <2>1. OneSetter'
    BY <1>6, IdleIsNoCall DEF Restart, IsSetOf, WriteInv, OneSetter, TypeInv, TypeOK
  <2>2. WriterFresh' /\ Settled'
    BY <1>6 DEF Restart, WriteInv, WriterFresh, Fresh, Settled, Encrypt, TypeInv, TypeOK
  <2>3. ReadYourWrites'
    BY <1>6 DEF Restart, WriteInv, ReadYourWrites, TypeInv, TypeOK
  <2> QED
    BY <2>1, <2>2, <2>3 DEF WriteInv
<1> QED
  BY <1>1, <1>2, <1>3, <1>4, <1>5, <1>6, SetOpenWriteInv, SetWriteWriteInv,
     WriteErrorWriteInv, RemoveWriteInv, ReturnWriteInv DEF Next, Step

\* As long as no two Sets of one key overlap, a client's last acknowledged Set
\* of a key stays readable by it, whatever the others do to other keys, and
\* whatever calls fail or processes die.
THEOREM ReadYourWritesHolds == ExclusiveSets => (Spec => []ReadYourWrites)
<1> SUFFICES ASSUME ExclusiveSets PROVE Spec => []ReadYourWrites
  OBVIOUS
<1>1. Init => TypeInv /\ WriteInv
  BY InitTypeInv, InitWriteInv
<1>2. TypeInv /\ WriteInv /\ [Next]_vars => (TypeInv /\ WriteInv)'
  BY NextTypeInv, NextWriteInv
<1>3. WriteInv => ReadYourWrites
  BY DEF WriteInv
<1> QED
  BY <1>1, <1>2, <1>3, PTL DEF Spec

-----------------------------------------------------------------------------
(***************************************************************************)
(* FileKeyring implements KeyringContract, for any clients, keys, items,   *)
(* passphrases and faults: seen through Stored and DueNow every step of    *)
(* the directory is a step of the abstract store, or none.  The same       *)
(* proof serves both instances, the contract that is kept when no Sets     *)
(* overlap and the directory can be read (C), and what is left of it in    *)
(* any case (W); they differ in the steps that write and list.             *)
(*                                                                         *)
(* An item must be told from the two marks of the contract, "no item" and  *)
(* "damaged", which stand for what Get does not answer.                    *)
(***************************************************************************)

DataApart == "no item" \notin Data /\ "damaged" \notin Data

-----------------------------------------------------------------------------
\* The contract speaks of calls and replies as the keyring does.
LEMMA SameWords ==
  /\ C!Idle = Idle /\ C!Ok = Ok /\ C!NotFound = NotFound /\ C!Error = Error
  /\ W!Idle = Idle /\ W!Ok = Ok /\ W!NotFound = NotFound /\ W!Error = Error
  /\ C!Calls = Calls /\ W!Calls = Calls
  /\ \A d : C!Found(d) = Found(d) /\ W!Found(d) = Found(d)
  /\ \A S : C!Listing(S) = Listing(S) /\ W!Listing(S) = Listing(S)
  /\ \A cl, k : C!IsSetOf(cl, k) = IsSetOf(cl, k) /\ W!IsSetOf(cl, k) = IsSetOf(cl, k)
  BY DEF C!Idle, C!Ok, C!NotFound, C!Error, C!Calls, C!Found, C!Listing, C!IsSetOf,
         W!Idle, W!Ok, W!NotFound, W!Error, W!Calls, W!Found, W!Listing, W!IsSetOf,
         Idle, Ok, NotFound, Error, Calls, Found, Listing, IsSetOf

\* A file and its item, as the contract sees it.
LEMMA ItemCases ==
  ASSUME DataApart, NEW t \in Contents
  PROVE  /\ t = Absent => Item(t) = "no item"
         /\ t \in Broken => Item(t) = "damaged"
         /\ t \in Token => Item(t) = t.data /\ t.data \in Data
                           /\ t # Absent /\ t \notin Broken
         /\ Item(t) = "no item" => t = Absent
         /\ Item(t) = "damaged" => t \in Broken
  BY TokenFields, FileAssumption DEF Item, Contents, DataApart

\* A step of one client leaves the replies due to the others.
LEMMA OwnDue ==
  ASSUME NEW c \in Client, NEW r,
         \A d \in Client \ {c} : Due(d)' = Due(d),
         Due(c)' = r
  PROVE  DueNow' = [DueNow EXCEPT ![c] = r]
  BY DEF DueNow

LEMMA OthersDue ==
  ASSUME NEW c \in Client, TypeOK,
         \A d \in Client \ {c} :
           /\ pc'[d] = pc[d] /\ call'[d] = call[d] /\ buf'[d] = buf[d] /\ result'[d] = result[d]
           /\ linked'[d] = linked[d] \/ pc[d] # "write"
  PROVE  \A d \in Client \ {c} : Due(d)' = Due(d)
  BY DEF Due

LEMMA SameDue ==
  ASSUME NEW c \in Client, \A d \in Client \ {c} : Due(d)' = Due(d), Due(c)' = Due(c)
  PROVE  DueNow' = DueNow
  BY DEF DueNow

LEMMA SameFiles == ASSUME UNCHANGED file PROVE UNCHANGED Stored
  BY DEF Stored, Item

LEMMA OneFile ==
  ASSUME TypeOK, NEW k \in Key, NEW t, file' = [file EXCEPT ![k] = t]
  PROVE  Stored' = [Stored EXCEPT ![k] = Item(t)]
<1>1. \A j \in Key : Item(file[j])' = IF j = k THEN Item(t) ELSE Item(file[j])
  <2> TAKE j \in Key
  <2>1. file'[j] = IF j = k THEN t ELSE file[j]
    BY DEF TypeOK
  <2>2. CASE j = k
    <3>1. file'[j] = t
      BY <2>1, <2>2
    <3>2. Item(file[j])' = Item(t)
      BY <3>1, FileAssumption, Zenon DEF Item
    <3> QED
      BY <2>2, <3>2
  <2>3. CASE j # k
    BY <2>1, <2>3 DEF Item
  <2> QED
    BY <2>2, <2>3
<1> QED
  BY <1>1 DEF Stored

LEMMA OneFileIs ==
  ASSUME TypeInv, DataApart, NEW k \in Key
  PROVE  /\ \A t \in Broken : file' = [file EXCEPT ![k] = t]
                              => Stored' = [Stored EXCEPT ![k] = "damaged"]
         /\ file' = [file EXCEPT ![k] = Absent] => Stored' = [Stored EXCEPT ![k] = "no item"]
         /\ \A t \in Token : file' = [file EXCEPT ![k] = t]
                             => Stored' = [Stored EXCEPT ![k] = t.data]
<1>1. /\ \A t \in Broken : Item(t) = "damaged"
      /\ Item(Absent) = "no item"
      /\ \A t \in Token : Item(t) = t.data
  BY ItemCases DEF Contents
<1>2. \A t \in Contents :
        file' = [file EXCEPT ![k] = t] => Stored' = [Stored EXCEPT ![k] = Item(t)]
  BY OneFile DEF TypeInv
<1> QED
  BY <1>1, <1>2 DEF Contents

\* A step that answers its own call and changes no file.
LEMMA Answers1 ==
  ASSUME TypeOK, NEW c \in Client, NEW r, Reply(c, r), UNCHANGED <<file, call, buf, linked>>
  PROVE  DueNow' = [DueNow EXCEPT ![c] = r] /\ UNCHANGED Stored
<1>1. \A d \in Client \ {c} : Due(d)' = Due(d)
  BY OthersDue DEF Reply, TypeOK
<1>2. Due(c)' = r
  BY DEF Reply, Due, TypeOK
<1> QED
  BY <1>1, <1>2, OwnDue, SameFiles

-----------------------------------------------------------------------------
NoStep == UNCHANGED <<Stored, call, DueNow>>

\* A call that is going to fail.
LEMMA FailStep ==
  ASSUME NEW c \in Client, call[c] # Idle, DueNow' = [DueNow EXCEPT ![c] = Error],
         UNCHANGED <<Stored, call>>
  PROVE  C!CNext /\ W!CNext
<1>1. C!Fail(c) /\ W!Fail(c)
  BY SameWords DEF C!Fail, W!Fail
<1> QED
  BY <1>1 DEF C!CNext, W!CNext

LEMMA BeginStep ==
  ASSUME TypeInv, NEW c \in Client, Call(c)
  PROVE  C!CNext /\ W!CNext
<1>1. PICK cl \in Calls : /\ call' = [call EXCEPT ![c] = cl]
                          /\ pc' = [pc EXCEPT ![c] = FirstStep(cl.op)]
  BY DEF Call
<1>2. Due(c)' = Error
  <2>1. call'[c] = cl /\ pc'[c] = FirstStep(cl.op)
    BY <1>1 DEF TypeInv, TypeOK
  <2>2. pc'[c] \in {"read", "stat", "unlock", "remove", "list"}
        /\ (pc'[c] = "unlock" => call'[c].op # "Get")
    BY <2>1, CallArguments DEF FirstStep
  <2> QED
    BY <2>2 DEF Due
<1>3. \A d \in Client \ {c} : Due(d)' = Due(d)
  BY <1>1, OthersDue DEF Call, TypeInv, TypeOK
<1>4. DueNow' = [DueNow EXCEPT ![c] = Error]
  BY <1>2, <1>3, OwnDue
<1>5. call[c] = Idle /\ UNCHANGED Stored
  BY SameFiles DEF Call, TypeInv, StepOfCall
<1>6. C!Begin(c) /\ W!Begin(c)
  BY <1>1, <1>4, <1>5, SameWords DEF C!Begin, W!Begin
<1> QED
  BY <1>6 DEF C!CNext, W!CNext

LEMMA LookStep ==
  ASSUME TypeInv, DataApart, NEW c \in Client, GetAbsent(c) \/ GetRead(c)
  PROVE  C!CNext /\ W!CNext
<1>1. call[c].op = "Get" /\ call[c].key \in Key
  BY CallArguments, IdleIsNoCall DEF GetAbsent, GetRead, TypeInv, TypeOK, StepOfCall
<1> DEFINE t == file[call[c].key]
<1>2. t \in Contents /\ Stored[call[c].key] = Item(t)
  BY <1>1 DEF TypeInv, TypeOK, Stored
<1>3. C!Answer(Item(t)) = W!Answer(Item(t))
      /\ C!Answer(Item(t)) = IF t = Absent THEN NotFound
                             ELSE IF t \in Broken THEN Error ELSE Found(t.data)
  BY <1>2, ItemCases, SameWords DEF C!Answer, W!Answer, DataApart, Contents
<1>4. DueNow' = [DueNow EXCEPT ![c] = C!Answer(Item(t))] /\ UNCHANGED <<Stored, call>>
  <2>1. CASE GetAbsent(c)
    BY <2>1, <1>3, Answers1 DEF GetAbsent, TypeInv
  <2>2. CASE GetRead(c)
    <3>1. \A d \in Client \ {c} : Due(d)' = Due(d)
      BY <2>2, OthersDue DEF GetRead, TypeInv, TypeOK
    <3>2. pc'[c] = "unlock" /\ call'[c].op = "Get" /\ buf'[c] = t /\ t # Absent
      BY <1>1, <2>2 DEF GetRead, TypeInv, TypeOK
    <3>3. Due(c)' = C!Answer(Item(t))
      BY <1>3, <3>2 DEF Due
    <3> QED
      BY <2>2, <3>1, <3>3, OwnDue, SameFiles DEF GetRead
  <2> QED
    BY <2>1, <2>2
<1>5. C!Look(c) /\ W!Look(c)
  BY <1>1, <1>2, <1>3, <1>4 DEF C!Look, W!Look
<1> QED
  BY <1>5 DEF C!CNext, W!CNext

LEMMA DecodeStep ==
  ASSUME TypeInv, NEW c \in Client, GetDecode(c)
  PROVE  (C!CNext /\ W!CNext) \/ NoStep
<1>1. call[c].op = "Get" /\ call[c] # Idle
  BY IdleIsNoCall DEF GetDecode, TypeInv, TypeOK, StepOfCall
<1>2. /\ DueNow' = [DueNow EXCEPT ![c] = Decode(buf[c], password[c])]
      /\ UNCHANGED <<Stored, call>>
  BY Answers1 DEF GetDecode, TypeInv
<1>3. CASE Decode(buf[c], password[c]) = Error
  BY <1>1, <1>2, <1>3, FailStep
<1>4. CASE Decode(buf[c], password[c]) # Error
  <2>1. DueNow[c] = Decode(buf[c], password[c])
    BY <1>1, <1>4 DEF DueNow, Due, GetDecode, Decode
  <2> QED
    BY <1>2, <2>1 DEF NoStep, DueNow
<1> QED
  BY <1>3, <1>4

LEMMA StatStep ==
  ASSUME TypeInv, DataApart, NEW c \in Client, GetMetadata(c)
  PROVE  C!CNext /\ W!CNext
<1>1. call[c].op = "GetMetadata" /\ call[c].key \in Key
  BY CallArguments, IdleIsNoCall DEF GetMetadata, TypeInv, TypeOK, StepOfCall
<1>2. /\ DueNow' = [DueNow EXCEPT ![c] = IF file[call[c].key] = Absent THEN NotFound ELSE Ok]
      /\ UNCHANGED <<Stored, call>>
  BY Answers1 DEF GetMetadata, TypeInv
<1>3. file[call[c].key] = Absent <=> Stored[call[c].key] = "no item"
  BY <1>1, ItemCases DEF Stored, TypeInv, TypeOK, Contents
<1>4. C!Stat(c) /\ W!Stat(c)
  BY <1>1, <1>2, <1>3, SameWords DEF C!Stat, W!Stat
<1> QED
  BY <1>4 DEF C!CNext, W!CNext

LEMMA UnlockStep ==
  ASSUME TypeInv, NEW c \in Client, Prompt(c) \/ Unlocked(c)
  PROVE  NoStep
<1>1. /\ AfterUnlock(c) /\ UNCHANGED <<file, call, buf, linked, result>> /\ pc[c] = "unlock"
  BY DEF Prompt, Unlocked
<1>2. \A d \in Client \ {c} : Due(d)' = Due(d)
  BY <1>1, OthersDue DEF AfterUnlock, TypeInv, TypeOK
<1>3. Due(c)' = Due(c)
  BY <1>1 DEF AfterUnlock, Due, TypeInv, TypeOK
<1> QED
  BY <1>1, <1>2, <1>3, SameDue, SameFiles DEF NoStep

LEMMA ErrorStep ==
  ASSUME TypeInv, NEW c \in Client, PromptCancelled(c) \/ RemoveAbsent(c) \/ IOError(c)
  PROVE  C!CNext /\ W!CNext
<1>1. Reply(c, Error) /\ UNCHANGED <<file, call, buf, linked>> /\ call[c] # Idle
  BY DEF PromptCancelled, RemoveAbsent, IOError, TypeInv, StepOfCall
<1> QED
  BY <1>1, Answers1, FailStep DEF TypeInv

-----------------------------------------------------------------------------
\* What a Set at its file is owed, and whose key it is.
LEMMA SetArguments ==
  ASSUME TypeInv, NEW c \in Client, pc[c] \in {"open", "write"}
  PROVE  /\ call[c].op = "Set" /\ call[c].key \in Key /\ call[c].data \in Data
         /\ call[c] # Idle
         /\ Encrypt(c) \in Token /\ Encrypt(c).data = call[c].data
         /\ pc[c] = "open" \/ linked[c] => DueNow[c] = Error
<1>1. call[c].op = "Set" /\ call[c] \in Calls
  BY IdleIsNoCall DEF TypeInv, TypeOK, StepOfCall
<1>2. call[c].key \in Key /\ call[c].data \in Data /\ password[c] \in Password
  BY <1>1, CallArguments DEF TypeInv, TypeOK
<1>3. pc[c] = "open" \/ linked[c] => DueNow[c] = Error
  BY DEF DueNow, Due
<1> QED
  BY <1>1, <1>2, <1>3, IdleIsNoCall DEF Encrypt, Token

\* Only Sets that are about to return lose their open file to another Set.
LEMMA SupersedeDue ==
  ASSUME TypeInv, NEW c \in Client, NEW k, Supersede(c, k), UNCHANGED <<call, buf>>,
         \A d \in Client \ {c} : pc'[d] = pc[d] /\ result'[d] = result[d]
  PROVE  \A d \in Client \ {c} : Due(d)' = Due(d)
<1>1. \A d \in Client \ {c} : linked'[d] = linked[d] \/ pc[d] # "write"
  BY DEF Supersede, TypeInv, TypeOK
<1> QED
  BY <1>1, OthersDue DEF TypeInv

LEMMA SpoilStep ==
  ASSUME TypeInv, DataApart, NEW c \in Client, pc[c] \in {"open", "write"},
         DueNow[c] = Error, NEW t \in Broken, file' = [file EXCEPT ![call[c].key] = t],
         UNCHANGED <<call, DueNow>>
  PROVE  C!CNext /\ W!CNext
<1>1. Stored' = [Stored EXCEPT ![call[c].key] = "damaged"]
  BY SetArguments, OneFileIs
<1>2. C!Spoil(c) /\ W!Spoil(c)
  BY <1>1, SetArguments, SameWords DEF C!Spoil, W!Spoil
<1> QED
  BY <1>2 DEF C!CNext, W!CNext

LEMMA StoreStep ==
  ASSUME TypeInv, DataApart, NEW c \in Client, pc[c] \in {"open", "write"},
         DueNow[c] = Error, file' = [file EXCEPT ![call[c].key] = Encrypt(c)],
         NEW r \in {Ok, Error}, DueNow' = [DueNow EXCEPT ![c] = r], UNCHANGED call
  PROVE  C!CNext /\ W!CNext
<1>1. Stored' = [Stored EXCEPT ![call[c].key] = call[c].data]
  <2>1. /\ call[c].key \in Key /\ Encrypt(c) \in Token /\ Encrypt(c).data = call[c].data
    BY SetArguments
  <2>2. PICK k \in Key, t \in Token :
          k = call[c].key /\ t.data = call[c].data /\ file' = [file EXCEPT ![k] = t]
    BY <2>1
  <2>3. Stored' = [Stored EXCEPT ![k] = t.data]
    BY <2>2, OneFileIs
  <2> QED
    BY <2>2, <2>3
<1>2. C!Store(c) /\ W!Store(c)
  BY <1>1, SetArguments, SameWords DEF C!Store, W!Store
<1> QED
  BY <1>2 DEF C!CNext, W!CNext

LEMMA OpenStep ==
  ASSUME TypeInv, DataApart, NEW c \in Client, SetOpen(c)
  PROVE  C!CNext /\ W!CNext
<1>1. \A d \in Client \ {c} : Due(d)' = Due(d)
  BY SupersedeDue DEF SetOpen, TypeInv, TypeOK
<1>2. Due(c) = Error /\ Due(c)' = Error
  BY DEF SetOpen, Supersede, Due, TypeInv, TypeOK
<1>3. DueNow' = DueNow
  BY <1>1, <1>2, SameDue
<1> QED
  BY <1>3, SetArguments, SpoilStep DEF SetOpen, Broken

\* A write of its own token is that of both contracts; over the bytes of another
\* Set, it is one of the weak contract.
LEMMA WriteStep ==
  ASSUME TypeInv, DataApart, NEW c \in Client, SetWrite(c)
  PROVE  W!CNext /\ (Fresh(c) => C!CNext)
<1>1. pc[c] = "write" /\ DueNow[c] = Error
  BY SetArguments DEF SetWrite
<1>2. DueNow' = [DueNow EXCEPT ![c] = Ok]
  <2>1. \A d \in Client \ {c} : Due(d)' = Due(d)
    BY SupersedeDue DEF SetWrite, Reply, TypeInv, TypeOK
  <2>2. Due(c)' = Ok
    BY DEF SetWrite, Reply, Due, TypeInv, TypeOK
  <2> QED
    BY <2>1, <2>2, OwnDue
<1>3. CASE file' = [file EXCEPT ![call[c].key] = Encrypt(c)]
  BY <1>1, <1>2, <1>3, StoreStep DEF SetWrite
<1>4. CASE file' # [file EXCEPT ![call[c].key] = Encrypt(c)]
  <2>1. ~Fresh(c) /\ file' = [file EXCEPT ![call[c].key] = Torn]
    BY <1>4 DEF SetWrite
  <2>2. Stored' = [Stored EXCEPT ![call[c].key] = "damaged"]
    BY <1>1, <2>1, SetArguments, OneFileIs DEF Broken
  <2>3. W!Store(c)
    BY <1>1, <1>2, <2>2, SetArguments, SameWords DEF SetWrite, W!Store
  <2> QED
    BY <2>1, <2>3 DEF W!CNext
<1> QED
  BY <1>3, <1>4

LEMMA UnlinkedStep ==
  ASSUME TypeInv, NEW c \in Client, SetWriteUnlinked(c)
  PROVE  NoStep
<1>1. DueNow' = [DueNow EXCEPT ![c] = Ok] /\ UNCHANGED <<Stored, call>>
  BY Answers1 DEF SetWriteUnlinked, TypeInv
<1>2. DueNow[c] = Ok
  BY DEF SetWriteUnlinked, DueNow, Due, TypeInv, StepOfCall
<1> QED
  BY <1>1, <1>2 DEF NoStep, DueNow

LEMMA WriteErrorStep ==
  ASSUME TypeInv, DataApart, NEW c \in Client, WriteError(c)
  PROVE  C!CNext /\ W!CNext
<1>1. CASE ~linked[c]
  <2>1. Reply(c, Error) /\ UNCHANGED <<file, call, buf, linked>> /\ call[c] # Idle
    BY <1>1, SetArguments DEF WriteError
  <2> QED
    BY <2>1, Answers1, FailStep DEF TypeInv
<1>2. CASE linked[c]
  <2>1. pc[c] = "write" /\ DueNow[c] = Error /\ UNCHANGED call
    BY <1>2, SetArguments DEF WriteError
  <2>2. DueNow' = [DueNow EXCEPT ![c] = Error]
    <3>1. \A d \in Client \ {c} : Due(d)' = Due(d)
      BY <1>2, SupersedeDue DEF WriteError, Reply, TypeInv, TypeOK
    <3>2. Due(c)' = Error
      BY DEF WriteError, Reply, Due, TypeInv, TypeOK
    <3> QED
      BY <3>1, <3>2, OwnDue
  <2>3. DueNow' = DueNow
    BY <2>1, <2>2 DEF DueNow
  <2>4. PICK t \in {file[call[c].key], Torn, Encrypt(c)} :
          file' = [file EXCEPT ![call[c].key] = t]
    BY <1>2 DEF WriteError
  <2>5. CASE t = file[call[c].key]
    <3>1. file' = file
      BY <2>4, <2>5 DEF TypeInv, TypeOK
    <3> QED
      BY <2>1, <2>2, <3>1, SameFiles, SetArguments, FailStep
  <2>6. CASE t = Torn
    BY <2>1, <2>3, <2>4, <2>6, SpoilStep DEF Broken
  <2>7. CASE t = Encrypt(c)
    BY <2>1, <2>2, <2>4, <2>7, StoreStep
  <2> QED
    BY <2>4, <2>5, <2>6, <2>7
<1> QED
  BY <1>1, <1>2

\* A Remove answers the Sets whose file it takes away.
LEMMA EraseStep ==
  ASSUME TypeInv, DataApart, NEW c \in Client, Remove(c)
  PROVE  C!CNext /\ W!CNext
<1>1. call[c].op = "Remove" /\ call[c].key \in Key
  BY CallArguments, IdleIsNoCall DEF Remove, TypeInv, TypeOK, StepOfCall
<1> DEFINE k == call[c].key
           over == {d \in Client : pc[d] = "write" /\ IsSetOf(call[d], k)}
<1>2. Stored' = [Stored EXCEPT ![k] = "no item"] /\ Stored[k] # "no item"
  BY <1>1, OneFile, ItemCases DEF Remove, Stored, TypeInv, TypeOK, Contents
<1>3. DueNow[c] = Error
  BY DEF Remove, DueNow, Due
<1>4. c \notin over
  BY DEF Remove
<1>5. \A d \in Client \ {c} : Due(d)' = IF d \in over THEN Ok ELSE Due(d)
  BY DEF Remove, Reply, Due, TypeInv, TypeOK
<1>6. Due(c)' = Ok
  BY DEF Remove, Reply, Due, TypeInv, TypeOK
<1>7. DueNow' = [d \in Client |-> IF d = c THEN Ok ELSE IF d \in over THEN Ok ELSE DueNow[d]]
  BY <1>5, <1>6 DEF DueNow
<1>8. over \in SUBSET {d \in Client : IsSetOf(call[d], k)}
  OBVIOUS
<1>9. C!Erase(c) /\ W!Erase(c)
  BY <1>1, <1>2, <1>3, <1>7, <1>8, SameWords DEF Remove, C!Erase, W!Erase
<1> QED
  BY <1>9 DEF C!CNext, W!CNext

LEMMA ListStep ==
  ASSUME TypeInv, DataApart, NEW c \in Client, Keys(c) \/ KeysPartial(c)
  PROVE  W!CNext /\ (Keys(c) => C!CNext)
<1>1. call[c].op = "Keys"
  BY DEF Keys, KeysPartial, TypeInv, StepOfCall
<1>2. Listed = {k \in Key : Stored[k] # "no item"}
  BY ItemCases DEF Listed, Stored, TypeInv, TypeOK
<1>3. PICK S \in SUBSET Listed :
        /\ DueNow' = [DueNow EXCEPT ![c] = Listing(S)] /\ UNCHANGED <<Stored, call>>
        /\ Keys(c) => S = Listed
  <2>1. CASE Keys(c)
    BY <2>1, Answers1 DEF Keys, TypeInv
  <2>2. CASE ~Keys(c)
    <3>1. PICK S \in SUBSET Listed : Reply(c, Listing(S))
      BY <2>2 DEF KeysPartial
    <3> QED
      BY <2>2, <3>1, Answers1 DEF KeysPartial, TypeInv
  <2> QED
    BY <2>1, <2>2
<1>4. W!List(c) /\ (Keys(c) => C!List(c))
  BY <1>1, <1>2, <1>3, SameWords DEF W!List, C!List
<1> QED
  BY <1>4 DEF W!CNext, C!CNext

LEMMA ReturnStep ==
  ASSUME TypeInv, NEW c \in Client, Return(c) \/ Restart(c)
  PROVE  (C!CNext /\ W!CNext) \/ NoStep
<1>1. /\ call' = [call EXCEPT ![c] = Idle] /\ UNCHANGED file
      /\ pc'[c] = "idle"
      /\ \A d \in Client \ {c} : /\ pc'[d] = pc[d] /\ buf'[d] = buf[d] /\ call'[d] = call[d]
                                 /\ result'[d] = result[d] /\ linked'[d] = linked[d]
  BY DEF Return, Restart, TypeInv, TypeOK
<1>2. DueNow' = [DueNow EXCEPT ![c] = Error]
  <2>1. Due(c)' = Error
    BY <1>1 DEF Due
  <2> QED
    BY <1>1, <2>1, OthersDue, OwnDue DEF TypeInv
<1>3. CASE call[c] # Idle
  <2>1. C!Return(c) /\ W!Return(c)
    BY <1>1, <1>2, <1>3, SameFiles, SameWords DEF C!Return, W!Return
  <2> QED
    BY <2>1 DEF C!CNext, W!CNext
<1>4. CASE call[c] = Idle
  <2>1. DueNow[c] = Error
    BY <1>4 DEF DueNow, Due, TypeInv, StepOfCall
  <2>2. DueNow' = DueNow
    BY <1>2, <2>1 DEF DueNow
  <2>3. call' = call
    BY <1>1, <1>4 DEF TypeInv, TypeOK
  <2> QED
    BY <1>1, <2>2, <2>3, SameFiles DEF NoStep
<1> QED
  BY <1>3, <1>4

-----------------------------------------------------------------------------
LEMMA InitRefines == Init => C!CInit /\ W!CInit
<1> SUFFICES ASSUME Init PROVE C!CInit /\ W!CInit
  OBVIOUS
<1>1. Stored = [k \in Key |-> "no item"]
  BY FileAssumption DEF Init, Stored, Item
<1>2. DueNow = [c \in Client |-> Error]
  BY DEF Init, DueNow, Due
<1> QED
  BY <1>1, <1>2, SameWords DEF Init, C!CInit, W!CInit

LEMMA NextRefines ==
  ASSUME TypeInv, DataApart, [Next]_vars
  PROVE  /\ W!CNext \/ NoStep
         /\ \/ C!CNext \/ NoStep
            \/ \E c \in Client : (SetWrite(c) /\ ~Fresh(c)) \/ KeysPartial(c)
<1>1. CASE UNCHANGED vars
  BY <1>1 DEF vars, NoStep, Stored, DueNow, Due
<1>2. ASSUME NEW c \in Client, Call(c) \/ Step(c) \/ IOError(c) \/ WriteError(c) \/ Restart(c)
      PROVE  /\ W!CNext \/ NoStep
             /\ C!CNext \/ NoStep \/ (SetWrite(c) /\ ~Fresh(c)) \/ KeysPartial(c)
  BY <1>2, BeginStep, LookStep, DecodeStep, StatStep, UnlockStep, ErrorStep, OpenStep,
     WriteStep, UnlinkedStep, WriteErrorStep, EraseStep, ListStep, ReturnStep DEF Step
<1> QED
  BY <1>1, <1>2 DEF Next

\* With any callers and any faults the directory is a store that gives up, of the
\* promises of keyring.go:114-125, only that an overlapping Set leaves its item
\* whole (file.go:148) and that Keys lists every key (file.go:176).
THEOREM WeakContractHolds == DataApart => (Spec => WeakContract)
<1> SUFFICES ASSUME DataApart PROVE Spec => WeakContract
  OBVIOUS
<1>1. TypeInv /\ [Next]_vars => [W!CNext]_(W!cvars)
  BY NextRefines DEF NoStep, W!cvars
<1> QED
  BY <1>1, InitTypeInv, NextTypeInv, InitRefines, PTL DEF Spec, WeakContract, W!CSpec

\* When no two Sets of one key overlap and the directory can be read, the file
\* backend keeps all the promises of the Keyring interface (keyring.go:114-125), for
\* any number of processes, whatever else fails.
THEOREM ContractHolds ==
  DataApart /\ ExclusiveSets /\ "readdir" \notin Faults => (Spec => Contract)
<1> SUFFICES ASSUME DataApart, ExclusiveSets, "readdir" \notin Faults
             PROVE  Spec => Contract
  OBVIOUS
<1>1. TypeInv /\ WriteInv /\ [Next]_vars => [C!CNext]_(C!cvars)
  <2>1. ASSUME WriteInv, NEW c \in Client PROVE SetWrite(c) => Fresh(c)
    BY <2>1 DEF SetWrite, WriteInv, WriterFresh
  <2>2. ASSUME NEW c \in Client PROVE ~KeysPartial(c)
    BY DEF KeysPartial
  <2> QED
    BY <2>1, <2>2, NextRefines DEF NoStep, C!cvars
<1>2. Init => TypeInv /\ WriteInv /\ C!CInit
  BY InitTypeInv, InitWriteInv, InitRefines
<1>3. TypeInv /\ WriteInv /\ [Next]_vars => (TypeInv /\ WriteInv)'
  BY NextTypeInv, NextWriteInv
<1> QED
  BY <1>1, <1>2, <1>3, PTL DEF Spec, Contract, C!CSpec
=============================================================================
