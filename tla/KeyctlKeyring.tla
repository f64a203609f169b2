---------------------------- MODULE KeyctlKeyring ----------------------------
(***************************************************************************)
(* The keyctl backend (keyctl.go): items are kernel keys of type "user" in *)
(* a keyring shared by processes, named after Config.ServiceName or the    *)
(* keyring of the scope itself.  A step is one system call.  With          *)
(* Config.KeyCtlPerm a Set and the creation of the named keyring take four *)
(* of them, by way of the session keyring of the process.                  *)
(***************************************************************************)
EXTENDS KeyringCalls, KernelKeyrings

CONSTANTS Proc,       \* processes, one keyctlKeyring each
          Scope,      \* Proc -> the anchor of Config.KeyCtlScope
          SessionOf,  \* Proc -> the anchor of its session keyring
          Service,    \* Proc -> Config.ServiceName, or NoService
          NoService,
          UsePerm,    \* Proc -> Config.KeyCtlPerm > 0
          Size,       \* Data -> the length of the item's data
          Strangers,  \* names under which other programs add and remove session keys ...
          Stranger,   \* ... and the data of those keys
          NoData,     \* a keyring has no data
          OpenAlone,  \* no two processes are in Open together
          Faults      \* which of "syscall", "crash" may happen

KeyRecord == [type : {"user"}, desc : Key, data : Data, perm : BOOLEAN]
               \cup [type : {"keyring"}, desc : {Service[p] : p \in Proc},
                     data : {NoData}, perm : BOOLEAN]

ASSUME KeyctlAssumption ==
  /\ Scope \in [Proc -> Anchor] /\ SessionOf \in [Proc -> Anchor]
  /\ UsePerm \in [Proc -> BOOLEAN] /\ OpenAlone \in BOOLEAN
  /\ Size \in [Data -> Nat] /\ NoKey \notin KeyRecord
  /\ Strangers \subseteq Key /\ Stranger \in Data /\ NoData \notin Data
  /\ Faults \subseteq {"syscall", "crash"}

VARIABLES ring,    \* keyctlKeyring.keyring of the process
          call, pc, result,
          id,      \* the key the call works on
          len,     \* the length of the buffer of keyctlRead
          ids,     \* Keys: the ids not yet described ...
          names,   \* ... and the names found so far
          seen     \* history: what the call has found in the keyring, as a reply

procVars == <<ring, call, pc, result, id, len, ids, names, seen>>
vars == <<key, link, procVars>>

Opening == [op |-> "open"]   \* the process is in Open

PCs == {"closed", "find", "add", "setperm", "link", "unlink", "idle",
        "search", "read", "describe", "remove", "return"}

TypeOK ==
  /\ key \in [Id -> KeyRecord \cup {NoKey}]
  /\ link \in [Anchor \cup Id -> SUBSET Id]
  /\ ring \in [Proc -> Anchor \cup Id \cup {NoId}]
  /\ call \in [Proc -> Calls \cup {Idle, Opening}]
  /\ pc \in [Proc -> PCs]
  /\ result \in [Proc -> Replies] /\ seen \in [Proc -> Replies]
  /\ id \in [Proc -> Id \cup {NoId}]
  /\ len \in [Proc -> Nat]
  /\ ids \in [Proc -> SUBSET Id] /\ names \in [Proc -> SUBSET Key]

Init ==
  /\ key = [i \in Id |-> NoKey]
  /\ link = [r \in Anchor \cup Id |-> {}]
  /\ ring = [p \in Proc |-> NoId]
  /\ call = [p \in Proc |-> Idle]
  /\ pc = [p \in Proc |-> "closed"]
  /\ result = [p \in Proc |-> Error] /\ seen = [p \in Proc |-> Error]
  /\ id = [p \in Proc |-> NoId]
  /\ len = [p \in Proc |-> 0]
  /\ ids = [p \in Proc |-> {}] /\ names = [p \in Proc |-> {}]

-----------------------------------------------------------------------------
Go(p, step) == pc' = [pc EXCEPT ![p] = step]

\* The call is over: the process has its keyring, or not, or has a reply.
Finish(p, r) ==
  IF call[p] = Opening
  THEN /\ Go(p, IF r = Ok THEN "idle" ELSE "closed")
       /\ call' = [call EXCEPT ![p] = Idle]
       /\ UNCHANGED result
  ELSE /\ Go(p, "return")
       /\ result' = [result EXCEPT ![p] = r]
       /\ UNCHANGED call

\* Serial numbers are not given again while a process holds them.
Free == {i \in Id : /\ key[i] = NoKey
                    /\ \A p \in Proc : i # ring[p] /\ i # id[p] /\ i \notin ids[p]}

\* The opener starts from the scope's keyring (lines 57-70).
Open(p) ==
  /\ pc[p] = "closed"
  /\ OpenAlone => \A q \in Proc : call[q] # Opening
  /\ ring' = [ring EXCEPT ![p] = Scope[p]]
  /\ IF Service[p] = NoService
     THEN Go(p, "idle") /\ UNCHANGED call
     ELSE Go(p, "find") /\ call' = [call EXCEPT ![p] = Opening]
  /\ id' = [id EXCEPT ![p] = NoId]
  /\ UNCHANGED <<key, link, result, len, ids, names, seen>>

\* Mutant: the keyring is created without looking for it.
FindRingNever(p) ==
  /\ pc[p] = "find"
  /\ Go(p, "add")
  /\ UNCHANGED <<key, link, ring, call, result, id, len, ids, names, seen>>

\* The named keyring is searched for, and created when there is none.
FindRing(p) ==
  /\ pc[p] = "find"
  /\ LET found == Search(Scope[p], "keyring", Service[p]) IN
     IF found = {}
     THEN Go(p, "add") /\ UNCHANGED <<ring, call, result>>
     ELSE /\ \E i \in found : ring' = [ring EXCEPT ![p] = i]
          /\ Finish(p, Ok)
  /\ UNCHANGED <<key, link, id, len, ids, names, seen>>

\* Mutant: GetMetadata has a step of its own that nothing implements.
FirstStepStat(op) == CASE op \in {"Get", "Remove"} -> "search"
                       [] op = "Set" -> "add"
                       [] op = "Keys" -> "read"
                       [] op = "GetMetadata" -> "stat"

FirstStep(op) == CASE op \in {"Get", "Remove"} -> "search"
                   [] op = "Set" -> "add"
                   [] op = "Keys" -> "read"
                   [] op = "GetMetadata" -> "return"   \* always an error

Call(p) ==
  /\ pc[p] = "idle"
  /\ \E cl \in Calls : /\ call' = [call EXCEPT ![p] = cl]
                       /\ Go(p, FirstStep(cl.op))
  /\ UNCHANGED <<key, link, ring, result, id, len, ids, names, seen>>

-----------------------------------------------------------------------------
\* Set and createNamedKeyring (lines 119-149, 185-214): without permissions the
\* key is added where it belongs; with them, to the session keyring first.
AddTo(p) == IF UsePerm[p] THEN SessionOf[p] ELSE ring[p]

Add(p) ==
  /\ pc[p] = "add" /\ Exists(AddTo(p))
  /\ \E n \in Id :
       /\ IF call[p] = Opening
          THEN AddKey(AddTo(p), "keyring", Service[p], NoData, n, Free)
          ELSE AddKey(AddTo(p), "user", call[p].key, call[p].data, n, Free)
       /\ IF UsePerm[p]
          THEN /\ id' = [id EXCEPT ![p] = n]
               /\ Go(p, "setperm")
               /\ UNCHANGED <<ring, call, result>>
          ELSE /\ ring' = IF call[p] = Opening THEN [ring EXCEPT ![p] = n] ELSE ring
               /\ Finish(p, Ok)
               /\ UNCHANGED id
  /\ UNCHANGED <<len, ids, names, seen>>

\* Mutant: the permissions are not set.
SetPermissionSkipped(p) ==
  /\ pc[p] = "setperm" /\ key[id[p]] # NoKey
  /\ Go(p, "link")
  /\ UNCHANGED <<key, link, ring, call, result, id, len, ids, names, seen>>

SetPermission(p) ==
  /\ pc[p] = "setperm" /\ key[id[p]] # NoKey
  /\ SetPerm(id[p])
  /\ Go(p, "link")
  /\ UNCHANGED <<ring, call, result, id, len, ids, names, seen>>

\* Mutant: the key is linked to the scope's keyring, not to the named one.
LinkKeyToScope(p) ==
  /\ pc[p] = "link" /\ key[id[p]] # NoKey
  /\ Link(Scope[p], id[p])
  /\ Go(p, "unlink")
  /\ UNCHANGED <<ring, call, result, id, len, ids, names, seen>>

LinkKey(p) ==
  /\ pc[p] = "link" /\ key[id[p]] # NoKey /\ Exists(ring[p])
  /\ Link(ring[p], id[p])
  /\ Go(p, "unlink")
  /\ UNCHANGED <<ring, call, result, id, len, ids, names, seen>>

\* Mutant: the key is left in the session.
UnlinkKeyForgotten(p) ==
  /\ pc[p] = "unlink"
  /\ ring' = IF call[p] = Opening THEN [ring EXCEPT ![p] = id[p]] ELSE ring
  /\ Finish(p, Ok)
  /\ UNCHANGED <<key, link, id, len, ids, names, seen>>

UnlinkKey(p) ==
  /\ pc[p] = "unlink" /\ id[p] \in link[SessionOf[p]]
  /\ Unlink(SessionOf[p], id[p])
  /\ ring' = IF call[p] = Opening THEN [ring EXCEPT ![p] = id[p]] ELSE ring
  /\ Finish(p, Ok)
  /\ UNCHANGED <<id, len, ids, names, seen>>

\* The key or the keyring is no longer there: ENOKEY or ENOENT ends the call.
SetFails(p) ==
  /\ \/ pc[p] = "add" /\ ~Exists(AddTo(p))
     \/ pc[p] = "setperm" /\ key[id[p]] = NoKey
     \/ pc[p] = "link" /\ (key[id[p]] = NoKey \/ ~Exists(ring[p]))
     \/ pc[p] = "unlink" /\ id[p] \notin link[SessionOf[p]]
  /\ Finish(p, Error)
  /\ UNCHANGED <<key, link, ring, id, len, ids, names, seen>>

-----------------------------------------------------------------------------
Hits(p) == IF Exists(ring[p]) THEN Search(ring[p], "user", call[p].key) ELSE {}

\* ENOKEY, of the key or of the keyring itself, is ErrKeyNotFound.
SearchMisses(p) ==
  /\ pc[p] = "search" /\ Hits(p) = {}
  /\ Finish(p, NotFound)
  /\ UNCHANGED <<key, link, ring, id, len, ids, names, seen>>

SearchFinds(p) ==
  /\ pc[p] = "search"
  /\ \E i \in Hits(p) :
       /\ id' = [id EXCEPT ![p] = i]
       /\ seen' = [seen EXCEPT ![p] = IF call[p].op = "Get" THEN Found(key[i].data) ELSE @]
  /\ Go(p, IF call[p].op = "Get" THEN "read" ELSE "remove")
  /\ UNCHANGED <<key, link, ring, call, result, len, ids, names>>

\* Mutant: Remove invalidates the key, which takes it from every keyring.
RemoveInvalidates(p) ==
  /\ pc[p] = "remove"
  /\ IF Exists(ring[p]) /\ id[p] \in link[ring[p]]
     THEN Settle([r \in Anchor \cup Id |-> link[r] \ {id[p]}], key) /\ Finish(p, Ok)
     ELSE UNCHANGED <<key, link>> /\ Finish(p, Error)
  /\ UNCHANGED <<ring, id, len, ids, names, seen>>

RemoveUnlinks(p) ==
  /\ pc[p] = "remove"
  /\ IF Exists(ring[p]) /\ id[p] \in link[ring[p]]
     THEN Unlink(ring[p], id[p]) /\ Finish(p, Ok)
     ELSE UNCHANGED <<key, link>> /\ Finish(p, Error)
  /\ UNCHANGED <<ring, id, len, ids, names, seen>>

\* keyctlRead reads the key of a Get, the keyring of a Keys.
Source(p) == IF call[p].op = "Get" THEN id[p] ELSE ring[p]

Length(p) == IF call[p].op = "Get" THEN Size[key[id[p]].data]
             ELSE 4 * Cardinality(link[ring[p]])

ReadGone(p) ==
  /\ pc[p] = "read" /\ ~Exists(Source(p))
  /\ Finish(p, Error)
  /\ UNCHANGED <<key, link, ring, id, len, ids, names, seen>>

\* Mutant: the buffer does not follow the length.
ReadGrowsToOne(p) ==
  /\ pc[p] = "read" /\ Exists(Source(p)) /\ Length(p) > len[p]
  /\ len' = [len EXCEPT ![p] = 1]
  /\ UNCHANGED <<key, link, ring, call, pc, result, id, ids, names, seen>>

\* KEYCTL_READ answers the length only; the loop takes a buffer of that length.
ReadGrows(p) ==
  /\ pc[p] = "read" /\ Exists(Source(p)) /\ Length(p) > len[p]
  /\ len' = [len EXCEPT ![p] = Length(p)]
  /\ UNCHANGED <<key, link, ring, call, pc, result, id, ids, names, seen>>

ReadItem(p) ==
  /\ pc[p] = "read" /\ call[p].op = "Get" /\ Exists(Source(p)) /\ Length(p) <= len[p]
  /\ Finish(p, Found(key[id[p]].data))
  /\ UNCHANGED <<key, link, ring, id, len, ids, names, seen>>

UserKeys(r) == {key[i].desc : i \in {j \in link[r] : key[j].type = "user"}}

ReadRing(p) ==
  /\ pc[p] = "read" /\ call[p].op = "Keys" /\ Exists(Source(p)) /\ Length(p) <= len[p]
  /\ ids' = [ids EXCEPT ![p] = link[ring[p]]]
  /\ seen' = [seen EXCEPT ![p] = Listing(UserKeys(ring[p]))]
  /\ Go(p, "describe")
  /\ UNCHANGED <<key, link, ring, call, result, id, len, names>>

\* Mutant: ids that are gone are skipped.
DescribeSkipping(p) ==
  /\ pc[p] = "describe"
  /\ \E i \in ids[p] :
       /\ ids' = [ids EXCEPT ![p] = @ \ {i}]
       /\ names' = [names EXCEPT ![p] = IF key[i] = NoKey THEN @ ELSE @ \cup {key[i].desc}]
  /\ UNCHANGED <<key, link, ring, call, pc, result, id, len, seen>>

\* Each id is described on its own; one that is gone fails the whole list.
Describe(p) ==
  /\ pc[p] = "describe"
  /\ \E i \in ids[p] :
       /\ ids' = [ids EXCEPT ![p] = @ \ {i}]
       /\ IF key[i] = NoKey
          THEN Finish(p, Error) /\ UNCHANGED names
          ELSE /\ names' = [names EXCEPT ![p] =
                              IF key[i].type = "user" THEN @ \cup {key[i].desc} ELSE @]
               /\ UNCHANGED <<call, pc, result>>
  /\ UNCHANGED <<key, link, ring, id, len, seen>>

Described(p) ==
  /\ pc[p] = "describe" /\ ids[p] = {}
  /\ Finish(p, Listing(names[p]))
  /\ UNCHANGED <<key, link, ring, id, len, ids, names, seen>>

\* What a process keeps of a call that has ended: nothing.
Forget(p) ==
  /\ call' = [call EXCEPT ![p] = Idle]
  /\ result' = [result EXCEPT ![p] = Error] /\ seen' = [seen EXCEPT ![p] = Error]
  /\ id' = [id EXCEPT ![p] = NoId] /\ len' = [len EXCEPT ![p] = 0]
  /\ ids' = [ids EXCEPT ![p] = {}] /\ names' = [names EXCEPT ![p] = {}]

Return(p) ==
  /\ pc[p] = "return"
  /\ Go(p, "idle") /\ Forget(p)
  /\ UNCHANGED <<key, link, ring>>

-----------------------------------------------------------------------------
\* Mutant: Get takes any error of its search for a missing key, as Remove does.
SyscallErrorIsNotFound(p) ==
  /\ "syscall" \in Faults
  /\ pc[p] \in {"find", "add", "setperm", "link", "unlink", "search", "read",
                "describe", "remove"}
  /\ pc[p] = "describe" => ids[p] # {}
  /\ Finish(p, IF pc[p] = "search" THEN NotFound ELSE Error)
  /\ UNCHANGED <<key, link, ring, id, len, ids, names, seen>>

\* A system call fails for a reason of its own (quota, permissions).  Remove
\* takes any error of its search for a missing key (line 153).
SyscallError(p) ==
  /\ "syscall" \in Faults
  /\ pc[p] \in {"find", "add", "setperm", "link", "unlink", "search", "read",
                "describe", "remove"}
  /\ pc[p] = "describe" => ids[p] # {}
  /\ Finish(p, IF pc[p] = "search" /\ call[p].op = "Remove" THEN NotFound ELSE Error)
  /\ UNCHANGED <<key, link, ring, id, len, ids, names, seen>>

\* The process ends; a key on its way stays in the session keyring.
Crash(p) ==
  /\ "crash" \in Faults /\ pc[p] # "closed"
  /\ Go(p, "closed") /\ Forget(p)
  /\ ring' = [ring EXCEPT ![p] = NoId]
  /\ UNCHANGED <<key, link>>

\* Another program adds a key to a session keyring; one of that name which is there,
\* left or on its way through, is updated in place.
StrangerAdds(s, k) ==
  /\ \E n \in Id : AddKey(s, "user", k, Stranger, n, Free)
  /\ UNCHANGED procVars

\* Another program removes a key from it, whosever it is.
StrangerRemoves(s, k) ==
  /\ \E i \in Matches(s, "user", k) : Unlink(s, i)
  /\ UNCHANGED procVars

-----------------------------------------------------------------------------
Step(p) == \/ FindRing(p) \/ Add(p) \/ SetPermission(p) \/ LinkKey(p) \/ UnlinkKey(p)
           \/ SetFails(p) \/ SearchMisses(p) \/ SearchFinds(p) \/ RemoveUnlinks(p)
           \/ ReadGone(p) \/ ReadGrows(p) \/ ReadItem(p) \/ ReadRing(p)
           \/ Describe(p) \/ Described(p) \/ Return(p)

Next == \/ \E p \in Proc : Open(p) \/ Call(p) \/ Step(p) \/ SyscallError(p) \/ Crash(p)
        \/ \E p \in Proc, k \in Strangers :
             StrangerAdds(SessionOf[p], k) \/ StrangerRemoves(SessionOf[p], k)

Spec == Init /\ [][Next]_vars

FairSpec == Spec /\ \A p \in Proc : WF_vars(Step(p))

-----------------------------------------------------------------------------
\* The keyring that processes of one scope and one service share, if it exists.
RingsOf(p) == IF Service[p] = NoService THEN {Scope[p]}
              ELSE Matches(Scope[p], "keyring", Service[p])

ItemIn(k) == LET held == {i \in UNION {link[r] : r \in UNION {RingsOf(p) : p \in Proc}} :
                            key[i].type = "user" /\ key[i].desc = k}
             IN  IF held = {} THEN "no item" ELSE key[CHOOSE i \in held : TRUE].data

Due(p) == CASE pc[p] \in {"read", "describe"} -> seen[p]
            [] pc[p] = "unlink" /\ call[p] # Opening -> Ok
            [] pc[p] = "return" -> result[p]
            [] OTHER -> Error

Stored == [k \in Key |-> ItemIn(k)]
DueNow == [p \in Proc |-> Due(p)]
CallNow == [p \in Proc |-> IF call[p] = Opening THEN Idle ELSE call[p]]

C == INSTANCE KeyringContract
       WITH Client <- Proc, items <- Stored, call <- CallNow, due <- DueNow,
            NoItem <- "no item", Damaged <- "damaged", Weak <- {}
W == INSTANCE KeyringContract
       WITH Client <- Proc, items <- Stored, call <- CallNow, due <- DueNow,
            NoItem <- "no item", Damaged <- "damaged", Weak <- {"absent"}

\* Processes that share a keyring, each with a session of its own, get from the
\* kernel calls of keyctl.go the store of the Keyring interface, overlapping
\* Sets of one key included: a Set by way of the session takes effect at its
\* link, a Keys at its last read, and no item is ever damaged.
Contract == C!CSpec

\* Another program updates a key that a Set is taking through the session or has left
\* there with its permissions (keyctl.go:131-144): what it puts there comes into the
\* keyring, at the update if the key is linked already, or else by the Set, which
\* returns nil.
Exchanges ==
  \E p \in Proc, k \in Strangers :
    /\ \/ /\ StrangerAdds(SessionOf[p], k) /\ DueNow' = DueNow
          /\ \E i \in Matches(SessionOf[p], "user", k) : key[i].perm
       \/ /\ LinkKey(p) /\ IsSetOf(call[p], k) /\ key[id[p]].data = Stranger
          /\ DueNow' = [DueNow EXCEPT ![p] = Ok]
    /\ Stored' = [Stored EXCEPT ![k] = Stranger] /\ CallNow' = CallNow

\* The same for one process when any system call may fail, it may die between two,
\* and other programs use its session, but for Exchanges, and that a Remove whose
\* search fails calls a key missing that is there: what a failed Set has left in the
\* session never comes back by itself.
WeakContract == W!CInit /\ [][W!CNext \/ Exchanges]_(W!cvars)

\* A Set that returns nil has left its own item in its own keyring, when no
\* other process uses that keyring or its session: neither failed calls nor the Sets of
\* other keyrings lose or exchange it.  Only a key with permissions, which came through
\* the session, may have the data of another program instead, which has added a key of
\* that name to the session meanwhile (keyctl.go:131-144).
SetLeavesItem ==
  \A p \in Proc : pc[p] = "return" /\ call[p].op = "Set" /\ result[p] = Ok
    => \E i \in Matches(ring[p], "user", call[p].key) :
         \/ key[i].data = call[p].data
         \/ key[i].perm /\ call[p].key \in Strangers /\ key[i].data = Stranger

\* What is in a session keyring under some name, a key of another program or one
\* that a failed Set has left, is changed or unlinked only by other programs and by a
\* Set of that name and session with permissions (keyctl.go:131-148): no other call
\* gets at it, even when the keyring of the service holds the same key.
SessionKeysKept ==
  [][\A p \in Proc, k \in Key : \A i \in Matches(SessionOf[p], "user", k) :
       \/ i \in link'[SessionOf[p]] /\ key'[i] = key[i]
       \/ \E q \in Proc : SessionOf[q] = SessionOf[p] /\ UsePerm[q] /\ IsSetOf(call[q], k)
       \/ \E q \in Proc : StrangerAdds(SessionOf[q], k) \/ StrangerRemoves(SessionOf[q], k)]_vars

\* A key that goes through the session is in the shared keyring, and the named
\* keyring in the scope's, only with the configured permissions: setperm comes
\* before link (lines 136-140 and 201-205).
PermissionFirst ==
  \A p \in Proc : pc[p] \in {"setperm", "link", "unlink"} /\ id[p] \in link[ring[p]]
    => key[id[p]].perm

\* The session keyring is only a way through: what is in it belongs to a call of
\* that session that is still under way, as long as no system call has failed.
SessionClean ==
  \A p \in Proc : \A i \in link[SessionOf[p]] :
    \E q \in Proc : SessionOf[q] = SessionOf[p] /\ id[q] = i /\ pc[q] \in {"setperm", "link", "unlink"}

\* Processes that have opened one service have the one keyring that a search
\* finds (lines 71-83), if no two of them were in Open together.
HandleIsRing ==
  \A p \in Proc : pc[p] \notin {"closed", "find"} /\ call[p] # Opening => ring[p] \in RingsOf(p)

\* Every call returns, and so does Open: the read loop (lines 252-269) ends,
\* however the item or the keyring changes between two reads.
EveryCallReturns == \A p \in Proc : call[p] # Idle ~> call[p] = Idle
=============================================================================
