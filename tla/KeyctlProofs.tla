---------------------------- MODULE KeyctlProofs ----------------------------
(***************************************************************************)
(* Proofs about KeyctlKeyring, for any processes, scopes, sessions,        *)
(* services, items, strangers and faults.  What the kernel does is summed  *)
(* up first: the keyrings are nested one deep (Shape), and a serial number *)
(* that a process holds names the same key or none for ever (KeysEvolve).  *)
(***************************************************************************)
EXTENDS KeyctlKeyring, TLAPS, FiniteSetTheorems

\* A call carries the arguments of its operation.
LEMMA CallArguments ==
  \A cl \in Calls :
    /\ cl.op \in {"Get", "GetMetadata", "Remove", "Set", "Keys"}
    /\ cl.op \in {"Get", "GetMetadata", "Remove", "Set"} => cl.key \in Key
    /\ cl.op = "Set" => cl.data \in Data
  BY DEF Calls

\* A client without a call is in none of them.
LEMMA IdleIsNoCall == Idle \notin Calls /\ Idle.op = "idle"
  BY DEF Idle, Calls

\* What a backend can answer is a reply of the interface.
LEMMA ReplyTypes ==
  /\ Ok \in Replies /\ NotFound \in Replies /\ Error \in Replies
  /\ \A d \in Data : Found(d) \in Replies
  /\ \A S \in SUBSET Key : Listing(S) \in Replies
  BY DEF Replies, Ok, NotFound, Error, Found, Listing

\* Links are to keys there are; a keyring that an anchor links holds user keys.
ShapeOf(lk, ky) ==
  /\ \A r \in Anchor \cup Id : \A i \in lk[r] : ky[i] # NoKey
  /\ \A r \in Id : lk[r] # {} => ky[r] # NoKey /\ ky[r].type = "keyring"
  /\ \A r \in Id : \A i \in lk[r] : ky[i].type = "user"

KernelTyped(lk, ky) ==
  /\ ky \in [Id -> KeyRecord \cup {NoKey}]
  /\ lk \in [Anchor \cup Id -> SUBSET Id]

KernelInv == KernelTyped(link, key) /\ ShapeOf(link, key)

Through == {"setperm", "link", "unlink"}   \* steps of a key's way through the session

StepOfCall(p) ==
  /\ pc[p] \in {"closed", "idle"} <=> call[p] = Idle
  /\ pc[p] = "find" => call[p] = Opening
  /\ pc[p] \in Through \cup {"add"} => call[p] = Opening \/ call[p].op = "Set"
  /\ pc[p] = "search" => call[p].op \in {"Get", "Remove"}
  /\ pc[p] = "read" => call[p].op \in {"Get", "Keys"}
  /\ pc[p] = "remove" => call[p].op = "Remove"
  /\ pc[p] = "describe" => call[p].op = "Keys"
  /\ pc[p] = "return" => call[p] # Opening

\* The keyring of a process is its scope's or a named one.
RingInv(p) ==
  /\ ring[p] \in {Scope[p], NoId} \cup Id
  /\ pc[p] # "closed" => ring[p] # NoId
  /\ call[p] = Opening => ring[p] = Scope[p]
  /\ ring[p] \in Id /\ key[ring[p]] # NoKey => key[ring[p]].type = "keyring"

\* The key that a call works on is of the type and the name it is about.
IdInv(p) ==
  /\ pc[p] \in Through \cup {"remove"} => id[p] \in Id
  /\ pc[p] = "read" /\ call[p].op = "Get" => id[p] \in Id
  /\ pc[p] \in Through /\ key[id[p]] # NoKey =>
       IF call[p] = Opening
       THEN key[id[p]].type = "keyring" /\ key[id[p]].desc = Service[p]
       ELSE key[id[p]].type = "user" /\ key[id[p]].desc = call[p].key
  /\ pc[p] = "read" /\ call[p].op = "Get" /\ key[id[p]] # NoKey => key[id[p]].type = "user"
  /\ pc[p] = "remove" /\ key[id[p]] # NoKey => key[id[p]].type = "user"

ProcInv(p) == StepOfCall(p) /\ RingInv(p) /\ IdInv(p)

TypeInv == TypeOK /\ ShapeOf(link, key) /\ \A p \in Proc : ProcInv(p)

-----------------------------------------------------------------------------
\* A serial number names the key it named, or none, or is a fresh one.
KeysEvolve ==
  \A i \in Id : \/ key'[i] = NoKey
               \/ i \in Free
               \/ /\ key[i] # NoKey
                  /\ key'[i].type = key[i].type /\ key'[i].desc = key[i].desc

\* What an existing key is, by its type.
LEMMA KeyKinds ==
  ASSUME NEW k \in KeyRecord
  PROVE  /\ k # NoKey
         /\ k.type \in {"user", "keyring"} /\ k.perm \in BOOLEAN
         /\ k.type = "user" => k.desc \in Key /\ k.data \in Data
  BY KeyctlAssumption DEF KeyRecord

\* What destroys unlinked keys leaves the links and the keys in order.
LEMMA SettleKeeps ==
  ASSUME NEW lk, NEW ky, KernelTyped(lk, ky), ShapeOf(lk, ky), Settle(lk, ky)
  PROVE  /\ KernelInv'
         /\ \A i \in Id : key'[i] \in {ky[i], NoKey}
         /\ \A r \in Anchor \cup Id : link'[r] \subseteq lk[r]
         /\ \A a \in Anchor : link'[a] = lk[a]
<1>1. link' = [r \in Anchor \cup Id |-> IF r \in Anchor \cup Alive(lk) THEN lk[r] ELSE {}]
  BY DEF Settle
<1>2. key' = [i \in Id |-> IF i \in Alive(lk) THEN ky[i] ELSE NoKey]
  BY DEF Settle
<1>3. KernelTyped(link', key')
  BY <1>1, <1>2 DEF KernelTyped
<1>4. ASSUME NEW r \in Anchor \cup Id, NEW i \in link'[r] PROVE i \in Alive(lk)
  <2>1. i \in lk[r] /\ r \in Anchor \cup Alive(lk)
    BY <1>1, <1>4
  <2>2. CASE r \in Anchor
    BY <2>1, <2>2 DEF Alive
  <2>3. CASE \E a \in Anchor : r \in lk[a]
    BY <2>1, <2>3 DEF Alive
  <2>4. CASE \E t \in Id : r \in lk[t]
    BY <2>1, <2>4, KernelAssumption DEF ShapeOf, KernelTyped
  <2>5. r \in Alive(lk) => \E t \in Anchor \cup Id : r \in lk[t]
    BY DEF Alive, KernelTyped
  <2> QED
    BY <2>1, <2>2, <2>3, <2>4, <2>5
<1>5. ASSUME NEW r \in Anchor \cup Id, NEW i \in link'[r] PROVE i \in lk[r] /\ i \in Id /\ key'[i] = ky[i]
  <2>1. i \in lk[r] /\ i \in Id
    BY <1>1, <1>5 DEF KernelTyped
  <2> QED
    BY <1>2, <1>4, <1>5, <2>1
<1>6. ASSUME NEW r \in Id, link'[r] # {} PROVE key'[r] = ky[r] /\ lk[r] # {}
  BY <1>1, <1>2, <1>6, KernelAssumption
<1>7. ShapeOf(link', key')
  BY <1>5, <1>6 DEF ShapeOf
<1> QED
  BY <1>1, <1>2, <1>3, <1>7 DEF KernelInv, KernelTyped

\* A keyring or key that is added to, a key that is linked or unlinked.
LEMMA AddKeyKeeps ==
  ASSUME KernelInv, NEW r \in Anchor \cup Id, Exists(r), NEW type, NEW desc, NEW data, NEW n \in Id,
         r \in Id => type = "user" /\ key[r].type = "keyring",
         [type |-> type, desc |-> desc, data |-> data, perm |-> FALSE] \in KeyRecord,
         AddKey(r, type, desc, data, n, Free)
  PROVE  /\ KernelInv' /\ KeysEvolve
         /\ key'[n] # NoKey => key'[n].type = type /\ key'[n].desc = desc
<1> DEFINE new == [type |-> type, desc |-> desc, data |-> data, perm |-> FALSE]
           old == Matches(r, type, desc)
<1>1. CASE type = "user" /\ old # {}
  <2>1. n \in link[r] /\ key[n].type = "user" /\ key[n].desc = desc /\ key[n] \in KeyRecord
    BY <1>1 DEF AddKey, Matches, KernelInv, ShapeOf, KernelTyped
  <2>2. key' = [key EXCEPT ![n].data = data] /\ link' = link
    BY <1>1 DEF AddKey
  <2>3. key[n] \in [type : {"user"}, desc : Key, data : Data, perm : BOOLEAN] /\ data \in Data
    <3>1. key[n] \in [type : {"user"}, desc : Key, data : Data, perm : BOOLEAN]
      BY <2>1 DEF KeyRecord
    <3>2. new.type = "user" /\ new.data = data
      BY <1>1
    <3> QED
      BY <3>1, <3>2, KeyKinds
  <2>4. /\ key'[n] \in KeyRecord /\ key'[n].type = "user" /\ key'[n].desc = desc
        /\ \A i \in Id \ {n} : key'[i] = key[i]
    BY <2>2, <2>3, <2>1 DEF KernelInv, KernelTyped, KeyRecord
  <2>5. KernelTyped(link', key')
    BY <2>2, <2>4 DEF KernelInv, KernelTyped
  <2>6. \A i \in Id : /\ key'[i] = NoKey <=> key[i] = NoKey
                      /\ key[i] # NoKey => key'[i].type = key[i].type /\ key'[i].desc = key[i].desc
    BY <2>1, <2>4, KeyKinds
  <2>7. ShapeOf(link', key')
    <3>1. \A q \in Anchor \cup Id : \A i \in link[q] : i \in Id
      BY DEF KernelInv, KernelTyped
    <3> QED
      BY <2>2, <2>6, <3>1 DEF KernelInv, ShapeOf
  <2> QED
    BY <1>1, <2>4, <2>5, <2>6, <2>7 DEF KernelInv, KeysEvolve
<1>2. CASE ~(type = "user" /\ old # {})
  <2> DEFINE lk == [link EXCEPT ![r] = (@ \ old) \cup {n}]
             ky == [key EXCEPT ![n] = new]
  <2>1. n \in Free /\ Settle(lk, ky)
    BY <1>2 DEF AddKey
  <2>2. key[n] = NoKey
    BY <2>1 DEF Free
  <2>3. KernelTyped(lk, ky)
    BY DEF KernelInv, KernelTyped
  <2>4. /\ ky[n] = new /\ new # NoKey /\ \A i \in Id \ {n} : ky[i] = key[i]
        /\ lk[r] \subseteq link[r] \cup {n} /\ \A q \in (Anchor \cup Id) \ {r} : lk[q] = link[q]
    BY KeyKinds DEF KernelInv, KernelTyped
  <2>5. n # r
    BY <2>2, KernelAssumption DEF Exists
  <2>6. \A q \in Anchor \cup Id : n \notin link[q] /\ link[q] \subseteq Id
    BY <2>2 DEF KernelInv, ShapeOf, KernelTyped
  <2>7. link[n] = {}
    BY <2>2 DEF KernelInv, ShapeOf
  <2>8. ShapeOf(lk, ky)
    <3>1. \A q \in Anchor \cup Id : \A i \in lk[q] : ky[i] # NoKey
      BY <2>4, <2>6 DEF KernelInv, ShapeOf
    <3>2. ASSUME NEW q \in Id, lk[q] # {} PROVE ky[q] # NoKey /\ ky[q].type = "keyring"
      <4>1. CASE q = r
        BY <2>4, <2>5, <4>1, KernelAssumption DEF Exists
      <4>2. CASE q # r
        BY <2>4, <2>7, <3>2, <4>2 DEF KernelInv, ShapeOf
      <4> QED
        BY <4>1, <4>2
    <3>3. ASSUME NEW q \in Id, NEW i \in lk[q] PROVE ky[i].type = "user"
      <4>1. CASE i = n
        <5>1. q = r
          BY <2>4, <2>6, <3>3, <4>1
        <5> QED
          BY <2>4, <4>1, <5>1
      <4>2. CASE i # n
        <5>1. i \in link[q] /\ i \in Id
          BY <2>4, <2>6, <3>3, <4>2
        <5> QED
          BY <2>4, <4>2, <5>1 DEF KernelInv, ShapeOf
      <4> QED
        BY <4>1, <4>2
    <3> QED
      BY <3>1, <3>2, <3>3 DEF ShapeOf
  <2>9. KernelInv' /\ \A i \in Id : key'[i] \in {ky[i], NoKey}
    <3> HIDE DEF lk, ky
    <3> QED
      BY <2>1, <2>3, <2>8, SettleKeeps
  <2> QED
    BY <2>1, <2>4, <2>9 DEF KeysEvolve
<1> QED
  BY <1>1, <1>2

LEMMA LinkKeeps ==
  ASSUME KernelInv, NEW r \in Anchor \cup Id, Exists(r), NEW i \in Id, key[i] # NoKey,
         r \in Id => key[r].type = "keyring" /\ key[i].type = "user",
         Link(r, i)
  PROVE  KernelInv' /\ KeysEvolve
<1> DEFINE lk == [link EXCEPT ![r] = (@ \ Matches(r, key[i].type, key[i].desc)) \cup {i}]
<1>1. KernelTyped(lk, key)
  BY DEF KernelInv, KernelTyped
<1>2. lk[r] \subseteq link[r] \cup {i} /\ \A q \in (Anchor \cup Id) \ {r} : lk[q] = link[q]
  BY DEF KernelInv, KernelTyped
<1>3. ShapeOf(lk, key)
  BY <1>2, KernelAssumption DEF Exists, KernelInv, ShapeOf
<1>4. KernelInv' /\ \A j \in Id : key'[j] \in {key[j], NoKey}
  <2>1. Settle(lk, key)
    BY DEF Link
  <2> HIDE DEF lk
  <2> QED
    BY <1>1, <1>3, <2>1, SettleKeeps
<1> QED
  BY <1>4 DEF KeysEvolve

LEMMA UnlinkKeeps ==
  ASSUME KernelInv, NEW r \in Anchor \cup Id, NEW i, Unlink(r, i)
  PROVE  KernelInv' /\ KeysEvolve
<1> DEFINE lk == [link EXCEPT ![r] = @ \ {i}]
<1>1. KernelTyped(lk, key)
  BY DEF KernelInv, KernelTyped
<1>2. \A q \in Anchor \cup Id : lk[q] \subseteq link[q]
  BY DEF KernelInv, KernelTyped
<1>3. ShapeOf(lk, key)
  BY <1>2 DEF KernelInv, ShapeOf
<1>4. KernelInv' /\ \A j \in Id : key'[j] \in {key[j], NoKey}
  <2>1. Settle(lk, key)
    BY DEF Unlink
  <2> HIDE DEF lk
  <2> QED
    BY <1>1, <1>3, <2>1, SettleKeeps
<1> QED
  BY <1>4 DEF KeysEvolve

LEMMA SetPermKeeps ==
  ASSUME KernelInv, NEW i \in Id, key[i] # NoKey, SetPerm(i)
  PROVE  KernelInv' /\ KeysEvolve
<1>1. key' = [key EXCEPT ![i].perm = TRUE] /\ link' = link /\ key[i] \in KeyRecord
  BY DEF SetPerm, KernelInv, KernelTyped
<1>2. /\ key'[i] \in KeyRecord /\ key'[i].type = key[i].type /\ key'[i].desc = key[i].desc
      /\ \A j \in Id \ {i} : key'[j] = key[j]
  BY <1>1 DEF KernelInv, KernelTyped, KeyRecord
<1>3. KernelTyped(link', key')
  BY <1>1, <1>2 DEF KernelInv, KernelTyped
<1>4. \A j \in Id : /\ key'[j] = NoKey <=> key[j] = NoKey
                    /\ key[j] # NoKey => key'[j].type = key[j].type /\ key'[j].desc = key[j].desc
  BY <1>1, <1>2, KeyKinds
<1>5. ShapeOf(link', key')
  <2>1. \A q \in Anchor \cup Id : \A j \in link[q] : j \in Id
    BY DEF KernelInv, KernelTyped
  <2> QED
    BY <1>1, <1>4, <2>1 DEF KernelInv, ShapeOf
<1> QED
  BY <1>3, <1>4, <1>5 DEF KernelInv, KeysEvolve

LEMMA NothingKeeps == ASSUME KernelInv, UNCHANGED <<key, link>> PROVE KernelInv' /\ KeysEvolve
  BY DEF KernelInv, KernelTyped, ShapeOf, KeysEvolve

-----------------------------------------------------------------------------
ProcTyped ==
  /\ ring \in [Proc -> Anchor \cup Id \cup {NoId}]
  /\ call \in [Proc -> Calls \cup {Idle, Opening}]
  /\ pc \in [Proc -> PCs]
  /\ result \in [Proc -> Replies] /\ seen \in [Proc -> Replies]
  /\ id \in [Proc -> Id \cup {NoId}]
  /\ len \in [Proc -> Nat]
  /\ ids \in [Proc -> SUBSET Id] /\ names \in [Proc -> SUBSET Key]

LEMMA TypeInvParts == TypeInv <=> KernelInv /\ ProcTyped /\ \A p \in Proc : ProcInv(p)
  BY DEF TypeInv, TypeOK, KernelInv, KernelTyped, ProcTyped

LEMMA TypeInvNext ==
  ASSUME KernelInv', ProcTyped', \A p \in Proc : ProcInv(p)'
  PROVE  TypeInv'
  BY DEF TypeInv, TypeOK, KernelInv, KernelTyped, ProcTyped

LEMMA OpeningIsNoCall == Opening \notin Calls /\ Opening # Idle /\ Opening.op = "open"
  BY DEF Opening, Calls, Idle

\* What a step of another process does to one: nothing.
LEMMA OthersKeep ==
  ASSUME KeysEvolve, NEW q \in Proc, ProcInv(q), ring[q] \in Anchor \cup Id \cup {NoId},
         pc'[q] = pc[q], call'[q] = call[q], ring'[q] = ring[q], id'[q] = id[q]
  PROVE  ProcInv(q)'
<1>1. ring[q] \notin Free /\ id[q] \notin Free
  BY DEF Free
<1>2. ring[q] \in Id /\ key'[ring[q]] # NoKey
        => key[ring[q]] # NoKey /\ key'[ring[q]].type = key[ring[q]].type
  BY <1>1 DEF KeysEvolve
<1>3. id[q] \in Id /\ key'[id[q]] # NoKey
        => /\ key[id[q]] # NoKey
           /\ key'[id[q]].type = key[id[q]].type /\ key'[id[q]].desc = key[id[q]].desc
  BY <1>1 DEF KeysEvolve
<1>4. StepOfCall(q)'
  BY DEF ProcInv, StepOfCall
<1>5. RingInv(q)'
  BY <1>2 DEF ProcInv, RingInv
<1>6. IdInv(q)'
  BY <1>3 DEF ProcInv, IdInv, Through
<1> QED
  BY <1>4, <1>5, <1>6 DEF ProcInv

\* A step that ends its call, whatever it has done to the kernel's keys.
LEMMA FinishKeeps ==
  ASSUME TypeInv, NEW p \in Proc, pc[p] \notin {"closed", "idle", "return"}, NEW r \in Replies, Finish(p, r),
         KernelInv', KeysEvolve, UNCHANGED <<len, seen>>,
         ring' \in [Proc -> Anchor \cup Id \cup {NoId}], id' \in [Proc -> Id \cup {NoId}],
         ids' \in [Proc -> SUBSET Id], names' \in [Proc -> SUBSET Key],
         \A q \in Proc \ {p} : ring'[q] = ring[q] /\ id'[q] = id[q],
         \/ ring'[p] = ring[p]
         \/ ring'[p] \in Id /\ (key'[ring'[p]] # NoKey => key'[ring'[p]].type = "keyring")
  PROVE  TypeInv'
<1>1. KernelInv /\ ProcTyped /\ \A q \in Proc : ProcInv(q)
  BY TypeInvParts
<1>2. ProcTyped'
  <2>1. pc' \in [Proc -> PCs]
    BY <1>1 DEF Finish, Go, ProcTyped, PCs
  <2> QED
    BY <1>1, <2>1 DEF Finish, ProcTyped
<1>3. \A q \in Proc \ {p} : pc'[q] = pc[q] /\ call'[q] = call[q]
  BY <1>1 DEF Finish, Go, ProcTyped
<1>4. \A q \in Proc \ {p} : ProcInv(q)'
  BY <1>1, <1>3, OthersKeep DEF ProcTyped
<1>5. \/ call'[p] = Idle /\ pc'[p] \in {"idle", "closed"}
      \/ call'[p] = call[p] /\ call[p] # Opening /\ call[p] # Idle /\ pc'[p] = "return"
  BY <1>1 DEF Finish, Go, ProcTyped, ProcInv, StepOfCall
<1>6. StepOfCall(p)' /\ IdInv(p)'
  BY <1>5 DEF StepOfCall, IdInv, Through
<1>7. RingInv(p)'
  <2>1. call'[p] # Opening
    BY <1>5, OpeningIsNoCall
  <2>2. ring[p] # NoId /\ ring[p] \notin Free
    BY <1>1 DEF ProcInv, RingInv, Free
  <2>3. CASE ring'[p] = ring[p]
    BY <1>1, <2>1, <2>2, <2>3 DEF ProcInv, RingInv, KeysEvolve
  <2>4. CASE ring'[p] \in Id /\ (key'[ring'[p]] # NoKey => key'[ring'[p]].type = "keyring")
    BY <2>1, <2>4, KernelAssumption DEF RingInv
  <2> QED
    BY <2>3, <2>4
<1> QED
  <2>1. \A q \in Proc : ProcInv(q)'
    BY <1>4, <1>6, <1>7 DEF ProcInv
  <2> QED
    BY <1>2, <2>1, TypeInvNext

\* A step of a call after which the call goes on.
LEMMA GoKeeps ==
  ASSUME TypeInv, NEW p \in Proc, pc[p] \notin {"closed", "idle"},
         NEW step \in PCs \ {"closed", "idle"}, Go(p, step),
         KernelInv', KeysEvolve, UNCHANGED <<ring, call, result>>,
         id' \in [Proc -> Id \cup {NoId}], \A q \in Proc \ {p} : id'[q] = id[q],
         len' \in [Proc -> Nat], seen' \in [Proc -> Replies],
         ids' \in [Proc -> SUBSET Id], names' \in [Proc -> SUBSET Key],
         StepOfCall(p)', IdInv(p)'
  PROVE  TypeInv'
<1>1. KernelInv /\ ProcTyped /\ \A q \in Proc : ProcInv(q)
  BY TypeInvParts
<1>2. ProcTyped'
  BY <1>1 DEF Go, ProcTyped
<1>3. \A q \in Proc \ {p} : pc'[q] = pc[q]
  BY <1>1 DEF Go, ProcTyped
<1>4. \A q \in Proc \ {p} : ProcInv(q)'
  BY <1>1, <1>3, OthersKeep DEF ProcTyped
<1>5. RingInv(p)'
  <2>1. ring[p] # NoId /\ ring[p] \notin Free
    BY <1>1 DEF ProcInv, RingInv, Free
  <2> QED
    BY <1>1, <2>1 DEF ProcInv, RingInv, KeysEvolve
<1> QED
  <2>1. \A q \in Proc : ProcInv(q)'
    BY <1>4, <1>5 DEF ProcInv
  <2> QED
    BY <1>2, <2>1, TypeInvNext

-----------------------------------------------------------------------------
LEMMA InitTypeInv == Init => TypeInv
<1> SUFFICES ASSUME Init PROVE TypeInv
  OBVIOUS
<1>1. TypeOK
  BY ReplyTypes DEF Init, TypeOK, PCs
<1>2. ShapeOf(link, key)
  BY DEF Init, ShapeOf
<1>3. ASSUME NEW p \in Proc PROVE ProcInv(p)
  BY KernelAssumption, OpeningIsNoCall DEF Init, ProcInv, StepOfCall, RingInv, IdInv, Through
<1> QED
  BY <1>1, <1>2, <1>3 DEF TypeInv

LEMMA OpenTypeInv == ASSUME TypeInv, NEW p \in Proc, Open(p) PROVE TypeInv'
<1>1. KernelInv /\ ProcTyped /\ \A q \in Proc : ProcInv(q)
  BY TypeInvParts
<1>2. KernelInv' /\ KeysEvolve
  BY <1>1, NothingKeeps DEF Open
<1>3. Scope[p] \in Anchor /\ Scope[p] # NoId /\ Scope[p] \notin Id
  BY KeyctlAssumption, KernelAssumption
<1>4. call[p] = Idle
  BY <1>1 DEF Open, ProcInv, StepOfCall
<1>5. \/ pc' = [pc EXCEPT ![p] = "idle"] /\ call' = call
      \/ pc' = [pc EXCEPT ![p] = "find"] /\ call' = [call EXCEPT ![p] = Opening]
  BY DEF Open, Go
<1>6. ProcTyped'
  BY <1>1, <1>3, <1>5 DEF Open, ProcTyped, PCs
<1>7. \A q \in Proc \ {p} : ProcInv(q)'
  BY <1>1, <1>2, <1>5, OthersKeep DEF Open, ProcTyped
<1>8. ProcInv(p)'
  <2>1. ring'[p] = Scope[p]
    BY <1>1 DEF Open, ProcTyped
  <2>2. \/ pc'[p] = "idle" /\ call'[p] = Idle
        \/ pc'[p] = "find" /\ call'[p] = Opening
    BY <1>1, <1>4, <1>5 DEF ProcTyped
  <2> QED
    BY <1>3, <2>1, <2>2, OpeningIsNoCall DEF ProcInv, StepOfCall, RingInv, IdInv, Through
<1> QED
  <2>1. \A q \in Proc : ProcInv(q)'
    BY <1>7, <1>8
  <2> QED
    BY <1>2, <1>6, <2>1, TypeInvNext

LEMMA CallTypeInv == ASSUME TypeInv, NEW p \in Proc, Call(p) PROVE TypeInv'
<1>1. KernelInv /\ ProcTyped /\ \A q \in Proc : ProcInv(q)
  BY TypeInvParts
<1>2. KernelInv' /\ KeysEvolve
  BY <1>1, NothingKeeps DEF Call
<1>3. PICK cl \in Calls : call' = [call EXCEPT ![p] = cl] /\ Go(p, FirstStep(cl.op))
  BY DEF Call
<1>4. /\ FirstStep(cl.op) \in {"search", "add", "read", "return"}
      /\ FirstStep(cl.op) = "search" => cl.op \in {"Get", "Remove"}
      /\ FirstStep(cl.op) = "add" => cl.op = "Set"
      /\ FirstStep(cl.op) = "read" => cl.op = "Keys"
  BY CallArguments DEF FirstStep
<1>5. ProcTyped'
  BY <1>1, <1>3, <1>4 DEF Call, Go, ProcTyped, PCs
<1>6. \A q \in Proc \ {p} : ProcInv(q)'
  BY <1>1, <1>2, <1>3, OthersKeep DEF Call, Go, ProcTyped
<1>7. ProcInv(p)'
  <2>1. call'[p] = cl /\ pc'[p] = FirstStep(cl.op) /\ ring' = ring /\ cl # Opening /\ cl # Idle
    BY <1>1, <1>3, IdleIsNoCall, OpeningIsNoCall DEF Call, Go, ProcTyped
  <2>2. StepOfCall(p)' /\ IdInv(p)'
    BY <1>4, <2>1 DEF StepOfCall, IdInv, Through
  <2>3. RingInv(p)'
    BY <1>1, <1>2, <2>1 DEF Call, ProcInv, RingInv, KeysEvolve, Free
  <2> QED
    BY <2>2, <2>3 DEF ProcInv
<1> QED
  <2>1. \A q \in Proc : ProcInv(q)'
    BY <1>6, <1>7
  <2> QED
    BY <1>2, <1>5, <2>1, TypeInvNext

LEMMA FindRingTypeInv == ASSUME TypeInv, NEW p \in Proc, FindRing(p) PROVE TypeInv'
<1>1. KernelInv /\ ProcTyped /\ ProcInv(p)
  BY TypeInvParts
<1>2. KernelInv' /\ KeysEvolve
  BY <1>1, NothingKeeps DEF FindRing
<1>3. CASE Search(Scope[p], "keyring", Service[p]) = {}
  <2>1. Go(p, "add") /\ pc[p] = "find" /\ pc'[p] = "add" /\ call[p] = Opening
        /\ UNCHANGED <<ring, call, result, id, len, ids, names, seen>>
    BY <1>1, <1>3 DEF FindRing, Go, ProcTyped, ProcInv, StepOfCall
  <2>2. StepOfCall(p)' /\ IdInv(p)'
    BY <2>1, OpeningIsNoCall DEF StepOfCall, IdInv, Through
  <2> QED
    BY <1>1, <1>2, <2>1, <2>2, GoKeeps DEF ProcTyped, PCs
<1>4. CASE Search(Scope[p], "keyring", Service[p]) # {}
  <2>1. PICK i \in Search(Scope[p], "keyring", Service[p]) : ring' = [ring EXCEPT ![p] = i]
    BY <1>4 DEF FindRing
  <2>2. Scope[p] \in Anchor
    BY KeyctlAssumption
  <2>3. i \in Id /\ key[i].type = "keyring"
    <3>1. link[Scope[p]] \subseteq Id /\ \A j \in Id : link[j] \subseteq Id
      BY <1>1, <2>2 DEF KernelInv, KernelTyped
    <3> QED
      BY <2>1, <3>1 DEF Search, Matches
  <2>4. key'[i].type = "keyring"
    BY <2>3 DEF FindRing
  <2>5. Finish(p, Ok) /\ pc[p] = "find" /\ UNCHANGED <<id, len, ids, names, seen>>
    BY <1>4 DEF FindRing
  <2>6. ring' \in [Proc -> Anchor \cup Id \cup {NoId}] /\ ring'[p] = i
        /\ \A q \in Proc \ {p} : ring'[q] = ring[q]
    BY <1>1, <2>1, <2>3 DEF ProcTyped
  <2> QED
    BY <1>1, <1>2, <2>3, <2>4, <2>5, <2>6, ReplyTypes, FinishKeeps DEF ProcTyped
<1> QED
  BY <1>3, <1>4

\* Where the keyring or the session of a Set is.
LEMMA AddToRing ==
  ASSUME TypeInv, NEW p \in Proc, pc[p] = "add", Exists(AddTo(p))
  PROVE  /\ AddTo(p) \in Anchor \cup Id
         /\ AddTo(p) \in Id => call[p] # Opening /\ key[AddTo(p)].type = "keyring"
<1>1. ProcInv(p)
  BY TypeInvParts
<1>2. SessionOf[p] \in Anchor /\ Scope[p] \in Anchor
  BY KeyctlAssumption
<1> QED
  BY <1>1, <1>2, KernelAssumption DEF AddTo, Exists, ProcInv, RingInv

LEMMA AddTypeInv == ASSUME TypeInv, NEW p \in Proc, Add(p) PROVE TypeInv'
<1>1. KernelInv /\ ProcTyped /\ ProcInv(p)
  BY TypeInvParts
<1>2. pc[p] = "add" /\ Exists(AddTo(p))
  BY DEF Add
<1>3. /\ AddTo(p) \in Anchor \cup Id
      /\ AddTo(p) \in Id => call[p] # Opening /\ key[AddTo(p)].type = "keyring"
  BY <1>2, AddToRing
<1>4. PICK n \in Id :
        /\ IF call[p] = Opening
           THEN AddKey(AddTo(p), "keyring", Service[p], NoData, n, Free)
           ELSE AddKey(AddTo(p), "user", call[p].key, call[p].data, n, Free)
        /\ IF UsePerm[p]
           THEN /\ id' = [id EXCEPT ![p] = n]
                /\ Go(p, "setperm")
                /\ UNCHANGED <<ring, call, result>>
           ELSE /\ ring' = IF call[p] = Opening THEN [ring EXCEPT ![p] = n] ELSE ring
                /\ Finish(p, Ok)
                /\ UNCHANGED id
  BY DEF Add
<1>5. call[p] # Opening => call[p].op = "Set" /\ call[p].key \in Key /\ call[p].data \in Data
  <2>1. call[p] # Opening => call[p] \in Calls /\ call[p].op = "Set"
    BY <1>1, <1>2, IdleIsNoCall DEF ProcTyped, ProcInv, StepOfCall, Through
  <2> QED
    BY <2>1, CallArguments
<1>6. /\ KernelInv' /\ KeysEvolve
      /\ key'[n] # NoKey =>
           IF call[p] = Opening THEN key'[n].type = "keyring" /\ key'[n].desc = Service[p]
                                ELSE key'[n].type = "user" /\ key'[n].desc = call[p].key
  <2>1. CASE call[p] = Opening
    <3>1. [type |-> "keyring", desc |-> Service[p], data |-> NoData, perm |-> FALSE] \in KeyRecord
      BY DEF KeyRecord
    <3> QED
      BY <1>1, <1>2, <1>3, <1>4, <2>1, <3>1, AddKeyKeeps
  <2>2. CASE call[p] # Opening
    <3>1. [type |-> "user", desc |-> call[p].key, data |-> call[p].data, perm |-> FALSE] \in KeyRecord
      BY <1>5, <2>2 DEF KeyRecord
    <3> QED
      BY <1>1, <1>2, <1>3, <1>4, <2>2, <3>1, AddKeyKeeps
  <2> QED
    BY <2>1, <2>2
<1>7. UNCHANGED <<len, ids, names, seen>>
  BY DEF Add
<1>8. CASE UsePerm[p]
  <2>1. /\ id' = [id EXCEPT ![p] = n] /\ Go(p, "setperm") /\ UNCHANGED <<ring, call, result>>
    BY <1>4, <1>8
  <2>2. pc'[p] = "setperm" /\ id'[p] = n
    BY <1>1, <2>1 DEF Go, ProcTyped
  <2>3. StepOfCall(p)'
    BY <1>1, <1>2, <2>1, <2>2 DEF ProcInv, StepOfCall, Through
  <2>4. IdInv(p)'
    BY <1>6, <2>1, <2>2 DEF IdInv, Through
  <2>5. id' \in [Proc -> Id \cup {NoId}] /\ \A q \in Proc \ {p} : id'[q] = id[q]
    BY <1>1, <2>1 DEF ProcTyped
  <2> QED
    BY <1>1, <1>2, <1>6, <1>7, <2>1, <2>3, <2>4, <2>5, GoKeeps DEF ProcTyped, PCs
<1>9. CASE ~UsePerm[p]
  <2>1. /\ ring' = IF call[p] = Opening THEN [ring EXCEPT ![p] = n] ELSE ring
        /\ Finish(p, Ok) /\ UNCHANGED id
    BY <1>4, <1>9
  <2>2. /\ ring' \in [Proc -> Anchor \cup Id \cup {NoId}]
        /\ \A q \in Proc \ {p} : ring'[q] = ring[q]
        /\ ring'[p] = IF call[p] = Opening THEN n ELSE ring[p]
    BY <1>1, <2>1 DEF ProcTyped
  <2> QED
    BY <1>1, <1>2, <1>6, <1>7, <2>1, <2>2, ReplyTypes, FinishKeeps DEF ProcTyped
<1> QED
  BY <1>8, <1>9

\* A key on its way is named in the step; where it goes is a keyring.
LEMMA SetPermissionTypeInv == ASSUME TypeInv, NEW p \in Proc, SetPermission(p) PROVE TypeInv'
<1>1. KernelInv /\ ProcTyped /\ ProcInv(p)
  BY TypeInvParts
<1>2. /\ pc[p] = "setperm" /\ id[p] \in Id /\ key[id[p]] # NoKey
      /\ UNCHANGED <<ring, call, result, id, len, ids, names, seen>>
  BY <1>1 DEF SetPermission, ProcInv, IdInv, Through
<1>3. KernelInv' /\ KeysEvolve
  BY <1>1, <1>2, SetPermKeeps DEF SetPermission
<1>4. Go(p, "link") /\ pc'[p] = "link"
  BY <1>1 DEF SetPermission, Go, ProcTyped
<1>5. StepOfCall(p)'
  BY <1>1, <1>2, <1>4 DEF ProcInv, StepOfCall, Through
<1>6. IdInv(p)'
  BY <1>1, <1>2, <1>3, <1>4 DEF ProcInv, IdInv, Through, KeysEvolve, Free
<1> QED
  BY <1>1, <1>2, <1>3, <1>4, <1>5, <1>6, GoKeeps DEF ProcTyped, PCs

\* What LinkKey links, and into what.
LEMMA LinkArguments ==
  ASSUME TypeInv, NEW p \in Proc, pc[p] = "link", key[id[p]] # NoKey, Exists(ring[p])
  PROVE  /\ id[p] \in Id /\ ring[p] \in Anchor \cup Id
         /\ ring[p] \in Id => key[ring[p]].type = "keyring" /\ key[id[p]].type = "user"
<1>1. ProcInv(p) /\ Scope[p] \in Anchor
  BY TypeInvParts, KeyctlAssumption
<1> QED
  BY <1>1, KernelAssumption DEF Exists, ProcInv, RingInv, IdInv, Through

LEMMA LinkKeyTypeInv == ASSUME TypeInv, NEW p \in Proc, LinkKey(p) PROVE TypeInv'
<1>1. KernelInv /\ ProcTyped /\ ProcInv(p)
  BY TypeInvParts
<1>2. /\ pc[p] = "link" /\ id[p] \in Id /\ key[id[p]] # NoKey
      /\ UNCHANGED <<ring, call, result, id, len, ids, names, seen>>
  BY LinkArguments DEF LinkKey
<1>3. KernelInv' /\ KeysEvolve
  BY <1>1, <1>2, LinkArguments, LinkKeeps DEF LinkKey
<1>4. Go(p, "unlink") /\ pc'[p] = "unlink"
  BY <1>1 DEF LinkKey, Go, ProcTyped
<1>5. StepOfCall(p)'
  BY <1>1, <1>2, <1>4 DEF ProcInv, StepOfCall, Through
<1>6. IdInv(p)'
  BY <1>1, <1>2, <1>3, <1>4 DEF ProcInv, IdInv, Through, KeysEvolve, Free
<1> QED
  BY <1>1, <1>2, <1>3, <1>4, <1>5, <1>6, GoKeeps DEF ProcTyped, PCs

LEMMA UnlinkKeyTypeInv == ASSUME TypeInv, NEW p \in Proc, UnlinkKey(p) PROVE TypeInv'
<1>1. KernelInv /\ ProcTyped /\ ProcInv(p)
  BY TypeInvParts
<1>2. /\ pc[p] = "unlink" /\ id[p] \in Id /\ id[p] \in link[SessionOf[p]]
      /\ SessionOf[p] \in Anchor /\ Finish(p, Ok)
      /\ ring' = IF call[p] = Opening THEN [ring EXCEPT ![p] = id[p]] ELSE ring
      /\ UNCHANGED <<id, len, ids, names, seen>>
  BY <1>1, KeyctlAssumption DEF UnlinkKey, ProcInv, IdInv, Through
<1>3. KernelInv' /\ KeysEvolve
  BY <1>1, <1>2, UnlinkKeeps DEF UnlinkKey
<1>4. call[p] = Opening /\ key'[id[p]] # NoKey => key'[id[p]].type = "keyring"
  BY <1>1, <1>2, <1>3 DEF ProcInv, IdInv, Through, KeysEvolve, Free
<1>5. /\ ring' \in [Proc -> Anchor \cup Id \cup {NoId}]
      /\ \A q \in Proc \ {p} : ring'[q] = ring[q]
      /\ ring'[p] = IF call[p] = Opening THEN id[p] ELSE ring[p]
  BY <1>1, <1>2 DEF ProcTyped
<1> QED
  BY <1>1, <1>2, <1>3, <1>4, <1>5, ReplyTypes, FinishKeeps DEF ProcTyped

\* A call that ends and leaves the kernel's keys as they are.
LEMMA AnswerTypeInv ==
  ASSUME TypeInv, NEW p \in Proc, pc[p] \notin {"closed", "idle", "return"}, NEW r \in Replies, Finish(p, r),
         UNCHANGED <<key, link, ring, id, len, seen>>,
         ids' \in [Proc -> SUBSET Id], names' \in [Proc -> SUBSET Key]
  PROVE  TypeInv'
<1>1. KernelInv /\ ProcTyped
  BY TypeInvParts
<1>2. KernelInv' /\ KeysEvolve
  BY <1>1, NothingKeeps
<1>3. ring' = ring /\ id' = id
  OBVIOUS
<1> QED
  BY <1>1, <1>2, <1>3, FinishKeeps DEF ProcTyped

LEMMA SearchFindsTypeInv == ASSUME TypeInv, NEW p \in Proc, SearchFinds(p) PROVE TypeInv'
<1>1. KernelInv /\ ProcTyped /\ ProcInv(p)
  BY TypeInvParts
<1>2. KernelInv' /\ KeysEvolve
  BY <1>1, NothingKeeps DEF SearchFinds
<1>3. PICK i \in Hits(p) :
        /\ id' = [id EXCEPT ![p] = i]
        /\ seen' = [seen EXCEPT ![p] = IF call[p].op = "Get" THEN Found(key[i].data) ELSE @]
  BY DEF SearchFinds
<1>4. i \in Id /\ key[i] \in KeyRecord /\ key[i].type = "user"
  <2>1. Exists(ring[p]) /\ i \in Search(ring[p], "user", call[p].key)
    BY <1>3 DEF Hits
  <2>2. \A r \in Anchor \cup Id : \A j \in link[r] : j \in Id /\ key[j] \in KeyRecord
    BY <1>1 DEF KernelInv, KernelTyped, ShapeOf
  <2>3. ring[p] \in Anchor \cup Id
    BY <2>1 DEF Exists
  <2> QED
    BY <2>1, <2>2, <2>3 DEF Search, Matches
<1>5. Found(key[i].data) \in Replies
  BY <1>4, KeyKinds, ReplyTypes
<1>6. seen' \in [Proc -> Replies] /\ id' \in [Proc -> Id \cup {NoId}]
      /\ id'[p] = i /\ \A q \in Proc \ {p} : id'[q] = id[q]
  BY <1>1, <1>3, <1>4, <1>5 DEF ProcTyped
<1>7. /\ pc[p] = "search" /\ Go(p, IF call[p].op = "Get" THEN "read" ELSE "remove")
      /\ UNCHANGED <<key, ring, call, result, len, ids, names>>
  BY DEF SearchFinds
<1>8. call[p].op \in {"Get", "Remove"} /\ call[p] # Opening /\ call[p] # Idle
  BY <1>1, <1>7, IdleIsNoCall, OpeningIsNoCall DEF ProcInv, StepOfCall
<1>9. StepOfCall(p)' /\ IdInv(p)'
  BY <1>1, <1>4, <1>6, <1>7, <1>8 DEF Go, ProcTyped, StepOfCall, IdInv, Through
<1> QED
  BY <1>1, <1>2, <1>6, <1>7, <1>9, GoKeeps DEF ProcTyped, PCs

LEMMA RemoveTypeInv == ASSUME TypeInv, NEW p \in Proc, RemoveUnlinks(p) PROVE TypeInv'
<1>1. KernelInv /\ ProcTyped /\ ProcInv(p)
  BY TypeInvParts
<1>2. pc[p] = "remove" /\ UNCHANGED <<ring, id, len, ids, names, seen>>
  BY DEF RemoveUnlinks
<1>3. CASE Exists(ring[p]) /\ id[p] \in link[ring[p]]
  <2>1. ring[p] \in Anchor \cup Id /\ Unlink(ring[p], id[p]) /\ Finish(p, Ok)
    BY <1>3 DEF RemoveUnlinks, Exists
  <2>2. KernelInv' /\ KeysEvolve
    BY <1>1, <2>1, UnlinkKeeps
  <2>3. ring' = ring /\ id' = id
    BY <1>2
  <2> QED
    BY <1>1, <1>2, <2>1, <2>2, <2>3, ReplyTypes, FinishKeeps DEF ProcTyped
<1>4. CASE ~(Exists(ring[p]) /\ id[p] \in link[ring[p]])
  <2>1. UNCHANGED <<key, link>> /\ Finish(p, Error)
    BY <1>4 DEF RemoveUnlinks
  <2> QED
    BY <1>1, <1>2, <2>1, ReplyTypes, AnswerTypeInv DEF ProcTyped
<1> QED
  BY <1>3, <1>4

\* The key of a Get and the keyring of a Keys can be read and measured.
LEMMA ReadArguments ==
  ASSUME TypeInv, NEW p \in Proc, pc[p] = "read", Exists(Source(p))
  PROVE  /\ Length(p) \in Nat
         /\ call[p].op = "Get" => Found(key[id[p]].data) \in Replies
         /\ call[p].op # "Get" => /\ link[ring[p]] \in SUBSET Id
                                  /\ Listing(UserKeys(ring[p])) \in Replies
<1>1. KernelInv /\ ProcTyped /\ ProcInv(p)
  BY TypeInvParts
<1>2. CASE call[p].op = "Get"
  <2>1. id[p] \in Id /\ key[id[p]] \in KeyRecord /\ key[id[p]].type = "user"
    BY <1>1, <1>2, KernelAssumption
       DEF Source, Exists, ProcInv, IdInv, KernelInv, KernelTyped
  <2>2. key[id[p]].data \in Data
    BY <2>1, KeyKinds
  <2> QED
    BY <1>2, <2>2, ReplyTypes, KeyctlAssumption DEF Length
<1>3. CASE call[p].op # "Get"
  <2>1. ring[p] \in Anchor \cup Id /\ link[ring[p]] \in SUBSET Id
    BY <1>1, <1>3 DEF Source, Exists, KernelInv, KernelTyped
  <2>2. Cardinality(link[ring[p]]) \in Nat
    BY <2>1, KernelAssumption, FS_Subset, FS_CardinalityType
  <2>3. \A i \in link[ring[p]] : key[i] \in KeyRecord
    BY <1>1, <2>1 DEF KernelInv, KernelTyped, ShapeOf
  <2>4. UserKeys(ring[p]) \subseteq Key
    BY <2>3, KeyKinds DEF UserKeys
  <2> QED
    BY <1>3, <2>1, <2>2, <2>4, ReplyTypes DEF Length
<1> QED
  BY <1>2, <1>3

LEMMA ReadGrowsTypeInv == ASSUME TypeInv, NEW p \in Proc, ReadGrows(p) PROVE TypeInv'
<1>1. Length(p) \in Nat
  BY ReadArguments DEF ReadGrows
<1> QED
  BY <1>1 DEF ReadGrows, TypeInv, TypeOK, ShapeOf, ProcInv, StepOfCall, RingInv, IdInv

LEMMA ReadRingTypeInv == ASSUME TypeInv, NEW p \in Proc, ReadRing(p) PROVE TypeInv'
<1>1. KernelInv /\ ProcTyped /\ ProcInv(p)
  BY TypeInvParts
<1>2. KernelInv' /\ KeysEvolve
  BY <1>1, NothingKeeps DEF ReadRing
<1>3. /\ pc[p] = "read" /\ call[p].op = "Keys" /\ Go(p, "describe") /\ pc'[p] = "describe"
      /\ UNCHANGED <<key, ring, call, result, id, len, names>>
  BY <1>1 DEF ReadRing, Go, ProcTyped
<1>4. ids' \in [Proc -> SUBSET Id] /\ seen' \in [Proc -> Replies]
  <2>1. link[ring[p]] \in SUBSET Id /\ Listing(UserKeys(ring[p])) \in Replies
    BY <1>3, ReadArguments DEF ReadRing
  <2> QED
    BY <1>1, <2>1 DEF ReadRing, ProcTyped
<1>5. call[p] # Idle /\ call[p] # Opening
  BY <1>3, IdleIsNoCall, OpeningIsNoCall
<1>6. StepOfCall(p)' /\ IdInv(p)'
  BY <1>3, <1>5 DEF StepOfCall, IdInv, Through
<1> QED
  BY <1>1, <1>2, <1>3, <1>4, <1>6, GoKeeps DEF ProcTyped, PCs

LEMMA DescribeTypeInv == ASSUME TypeInv, NEW p \in Proc, Describe(p) PROVE TypeInv'
<1>1. KernelInv /\ ProcTyped /\ ProcInv(p)
  BY TypeInvParts
<1>2. PICK i \in ids[p] :
        /\ ids' = [ids EXCEPT ![p] = @ \ {i}]
        /\ IF key[i] = NoKey
           THEN Finish(p, Error) /\ UNCHANGED names
           ELSE /\ names' = [names EXCEPT ![p] =
                               IF key[i].type = "user" THEN @ \cup {key[i].desc} ELSE @]
                /\ UNCHANGED <<call, pc, result>>
  BY DEF Describe
<1>3. pc[p] = "describe" /\ UNCHANGED <<key, link, ring, id, len, seen>>
  BY DEF Describe
<1>4. ids' \in [Proc -> SUBSET Id] /\ i \in Id
  BY <1>1, <1>2 DEF ProcTyped
<1>5. CASE key[i] = NoKey
  BY <1>1, <1>2, <1>3, <1>4, <1>5, ReplyTypes, AnswerTypeInv DEF ProcTyped
<1>6. CASE key[i] # NoKey
  <2>1. key[i] \in KeyRecord
    BY <1>1, <1>4, <1>6 DEF KernelInv, KernelTyped
  <2>2. names' \in [Proc -> SUBSET Key] /\ UNCHANGED <<call, pc, result>>
    BY <1>1, <1>2, <1>6, <2>1, KeyKinds DEF ProcTyped
  <2> QED
    BY <1>3, <1>4, <2>2 DEF TypeInv, TypeOK, ShapeOf, ProcInv, StepOfCall, RingInv, IdInv
<1> QED
  BY <1>5, <1>6

\* A process that forgets its call is between two calls, or closed.
LEMMA ForgetTypeInv ==
  ASSUME TypeInv, NEW p \in Proc, Forget(p), UNCHANGED <<key, link>>,
         \/ Go(p, "idle") /\ pc[p] # "closed" /\ UNCHANGED ring
         \/ Go(p, "closed") /\ ring' = [ring EXCEPT ![p] = NoId]
  PROVE  TypeInv'
<1>1. KernelInv /\ ProcTyped /\ \A q \in Proc : ProcInv(q)
  BY TypeInvParts
<1>2. KernelInv' /\ KeysEvolve
  BY <1>1, NothingKeeps
<1>3. ProcTyped'
  BY <1>1, ReplyTypes DEF Forget, Go, ProcTyped, PCs
<1>4. \A q \in Proc \ {p} : ProcInv(q)'
  BY <1>1, <1>2, OthersKeep DEF Forget, Go, ProcTyped
<1>5. /\ call'[p] = Idle
      /\ \/ pc'[p] = "idle" /\ ring'[p] = ring[p] /\ pc[p] # "closed"
         \/ pc'[p] = "closed" /\ ring'[p] = NoId
  BY <1>1 DEF Forget, Go, ProcTyped
<1>6. ProcInv(p)'
  BY <1>1, <1>5, KernelAssumption, OpeningIsNoCall
     DEF ProcInv, StepOfCall, RingInv, IdInv, Through
<1> QED
  <2>1. \A q \in Proc : ProcInv(q)'
    BY <1>4, <1>6
  <2> QED
    BY <1>2, <1>3, <2>1, TypeInvNext

LEMMA StepTypeInv == ASSUME TypeInv, NEW p \in Proc, Step(p) PROVE TypeInv'
<1>1. KernelInv /\ ProcTyped /\ ProcInv(p)
  BY TypeInvParts
<1>2. CASE FindRing(p) \/ Add(p) \/ SetPermission(p) \/ LinkKey(p) \/ UnlinkKey(p)
  BY <1>2, FindRingTypeInv, AddTypeInv, SetPermissionTypeInv, LinkKeyTypeInv, UnlinkKeyTypeInv
<1>3. CASE SetFails(p) \/ SearchMisses(p) \/ ReadGone(p) \/ Described(p)
  <2>1. /\ pc[p] \in {"add", "setperm", "link", "unlink", "search", "read", "describe"}
        /\ \E r \in {Error, NotFound, Listing(names[p])} : Finish(p, r)
        /\ UNCHANGED <<key, link, ring, id, len, ids, names, seen>>
    BY <1>3 DEF SetFails, SearchMisses, ReadGone, Described
  <2>2. {Error, NotFound, Listing(names[p])} \subseteq Replies
    BY <1>1, ReplyTypes DEF ProcTyped
  <2> QED
    BY <1>1, <2>1, <2>2, AnswerTypeInv DEF ProcTyped
<1>4. CASE SearchFinds(p) \/ RemoveUnlinks(p) \/ ReadGrows(p) \/ ReadRing(p) \/ Describe(p)
  BY <1>4, SearchFindsTypeInv, RemoveTypeInv, ReadGrowsTypeInv, ReadRingTypeInv, DescribeTypeInv
<1>5. CASE ReadItem(p)
  <2>1. Found(key[id[p]].data) \in Replies
    BY <1>5, ReadArguments DEF ReadItem
  <2> QED
    BY <1>1, <1>5, <2>1, AnswerTypeInv DEF ReadItem, ProcTyped
<1>6. CASE Return(p)
  BY <1>6, ForgetTypeInv DEF Return
<1> QED
  BY <1>2, <1>3, <1>4, <1>5, <1>6 DEF Step

LEMMA StrangerTypeInv ==
  ASSUME TypeInv, NEW s \in Anchor, NEW k \in Strangers, StrangerAdds(s, k) \/ StrangerRemoves(s, k)
  PROVE  TypeInv'
<1>1. KernelInv /\ ProcTyped /\ \A q \in Proc : ProcInv(q)
  BY TypeInvParts
<1>2. UNCHANGED procVars
  BY DEF StrangerAdds, StrangerRemoves
<1>3. KernelInv' /\ KeysEvolve
  <2>1. CASE StrangerAdds(s, k)
    <3>1. [type |-> "user", desc |-> k, data |-> Stranger, perm |-> FALSE] \in KeyRecord
      BY KeyctlAssumption DEF KeyRecord
    <3>2. Exists(s) /\ s \notin Id
      BY KernelAssumption DEF Exists
    <3> QED
      BY <1>1, <2>1, <3>1, <3>2, AddKeyKeeps DEF StrangerAdds
  <2>2. CASE StrangerRemoves(s, k)
    BY <1>1, <2>2, UnlinkKeeps DEF StrangerRemoves
  <2> QED
    BY <2>1, <2>2
<1>4. ProcTyped' /\ \A q \in Proc : ProcInv(q)'
  BY <1>1, <1>2, <1>3, OthersKeep DEF ProcTyped, procVars
<1> QED
  BY <1>3, <1>4, TypeInvNext

LEMMA NextTypeInv == TypeInv /\ [Next]_vars => TypeInv'
<1> SUFFICES ASSUME TypeInv, [Next]_vars PROVE TypeInv'
  OBVIOUS
<1>1. CASE UNCHANGED vars
  BY <1>1 DEF vars, procVars, TypeInv, TypeOK, ShapeOf, ProcInv, StepOfCall, RingInv, IdInv
<1>2. ASSUME NEW p \in Proc, Open(p) \/ Call(p) \/ Step(p) PROVE TypeInv'
  BY <1>2, OpenTypeInv, CallTypeInv, StepTypeInv
<1>3. ASSUME NEW p \in Proc, SyscallError(p) PROVE TypeInv'
  <2>1. /\ pc[p] \notin {"closed", "idle", "return"}
        /\ \E r \in {Error, NotFound} : Finish(p, r)
        /\ UNCHANGED <<key, link, ring, id, len, ids, names, seen>>
    BY <1>3 DEF SyscallError
  <2> QED
    BY <2>1, ReplyTypes, AnswerTypeInv DEF TypeInv, TypeOK
<1>4. ASSUME NEW p \in Proc, Crash(p) PROVE TypeInv'
  BY <1>4, ForgetTypeInv DEF Crash
<1>5. ASSUME NEW p \in Proc, NEW k \in Strangers,
             StrangerAdds(SessionOf[p], k) \/ StrangerRemoves(SessionOf[p], k)
      PROVE  TypeInv'
  BY <1>5, KeyctlAssumption, StrangerTypeInv
<1> QED
  BY <1>1, <1>2, <1>3, <1>4, <1>5 DEF Next

\* Every variable keeps its type: what a search finds, a read returns and a
\* description names are a user key's, though serial numbers may die at any
\* time and are given again once nobody holds them (keyctl.go:91-183).
THEOREM Typing == Spec => []TypeOK
<1>1. Spec => []TypeInv
  BY InitTypeInv, NextTypeInv, PTL DEF Spec
<1>2. TypeInv => TypeOK
  BY DEF TypeInv
<1> QED
  BY <1>1, <1>2, PTL

-----------------------------------------------------------------------------
\* The keyrings that items are kept in are not the sessions of processes.
SessionsApart == \A p, q \in Proc : Scope[p] # SessionOf[q]

Sessions == {SessionOf[p] : p \in Proc}

\* A key on its way through a session, or left there.
Passing(i) == \E p \in Proc : i \in link[SessionOf[p]] \/ (pc[p] \in Through /\ id[p] = i)

PermInv ==
  /\ \A r \in (Anchor \cup Id) \ Sessions : \A i \in link[r] : Passing(i) => key[i].perm
  /\ \A p \in Proc : pc[p] \in {"link", "unlink"} /\ key[id[p]] # NoKey => key[id[p]].perm

\* No key loses its permissions, and a serial number no key has them from before.
PermKept ==
  \A i \in Id : \/ key'[i] = NoKey
               \/ i \in Free
               \/ /\ key[i] # NoKey
                  /\ key[i].perm => key'[i].perm

LEMMA AddKeyEffect ==
  ASSUME KernelInv, NEW r \in Anchor \cup Id, Exists(r), NEW type, NEW desc, NEW data, NEW n \in Id,
         r \in Id => type = "user" /\ key[r].type = "keyring",
         [type |-> type, desc |-> desc, data |-> data, perm |-> FALSE] \in KeyRecord,
         AddKey(r, type, desc, data, n, Free)
  PROVE  /\ PermKept
         /\ n \in Free \/ n \in link[r]
         /\ link'[r] \subseteq link[r] \cup {n}
         /\ \A q \in (Anchor \cup Id) \ {r} : link'[q] \subseteq link[q]
<1> DEFINE old == Matches(r, type, desc)
<1>1. CASE type = "user" /\ old # {}
  <2>1. key' = [key EXCEPT ![n].data = data] /\ link' = link /\ n \in link[r] /\ key[n] \in KeyRecord
    BY <1>1 DEF AddKey, Matches, KernelInv, ShapeOf, KernelTyped
  <2>2. key'[n].perm = key[n].perm
    BY <2>1 DEF KernelInv, KernelTyped, KeyRecord
  <2>3. \A i \in Id \ {n} : key'[i] = key[i]
    BY <2>1 DEF KernelInv, KernelTyped
  <2> QED
    BY <2>1, <2>2, <2>3, KeyKinds DEF PermKept
<1>2. CASE ~(type = "user" /\ old # {})
  <2> DEFINE lk == [link EXCEPT ![r] = (@ \ old) \cup {n}]
             ky == [key EXCEPT ![n] = [type |-> type, desc |-> desc, data |-> data, perm |-> FALSE]]
  <2>1. /\ n \in Free /\ link' = [q \in Anchor \cup Id |-> IF q \in Anchor \cup Alive(lk) THEN lk[q] ELSE {}]
        /\ key' = [i \in Id |-> IF i \in Alive(lk) THEN ky[i] ELSE NoKey]
    BY <1>2 DEF AddKey, Settle
  <2>2. /\ lk[r] \subseteq link[r] \cup {n} /\ \A q \in (Anchor \cup Id) \ {r} : lk[q] = link[q]
        /\ \A i \in Id \ {n} : ky[i] = key[i]
    BY DEF KernelInv, KernelTyped
  <2>3. \A i \in Id \ {n} : key'[i] = key[i] \/ key'[i] = NoKey
    BY <2>1, <2>2
  <2>4. PermKept
    <3>1. \A i \in Id \ {n} : key'[i] # NoKey => key[i] # NoKey /\ (key[i].perm => key'[i].perm)
      BY <2>3, Zenon
    <3> QED
      BY <2>1, <3>1 DEF PermKept
  <2> HIDE DEF lk, ky
  <2> QED
    BY <2>1, <2>2, <2>4
<1> QED
  BY <1>1, <1>2

LEMMA LinkEffect ==
  ASSUME KernelInv, NEW r \in Anchor \cup Id, NEW i \in Id, Link(r, i)
  PROVE  /\ PermKept
         /\ link'[r] \subseteq link[r] \cup {i}
         /\ \A q \in (Anchor \cup Id) \ {r} : link'[q] \subseteq link[q]
<1> DEFINE lk == [link EXCEPT ![r] = (@ \ Matches(r, key[i].type, key[i].desc)) \cup {i}]
<1>1. /\ link' = [q \in Anchor \cup Id |-> IF q \in Anchor \cup Alive(lk) THEN lk[q] ELSE {}]
      /\ key' = [j \in Id |-> IF j \in Alive(lk) THEN key[j] ELSE NoKey]
  BY DEF Link, Settle
<1>2. lk[r] \subseteq link[r] \cup {i} /\ \A q \in (Anchor \cup Id) \ {r} : lk[q] = link[q]
  BY DEF KernelInv, KernelTyped
<1>3. \A j \in Id : key'[j] = key[j] \/ key'[j] = NoKey
  BY <1>1
<1>4. PermKept
  <2>1. \A j \in Id : key'[j] # NoKey => key[j] # NoKey /\ (key[j].perm => key'[j].perm)
    BY <1>3, Zenon
  <2> QED
    BY <2>1, Zenon DEF PermKept
<1> HIDE DEF lk
<1> QED
  BY <1>1, <1>2, <1>4

LEMMA UnlinkEffect ==
  ASSUME KernelInv, NEW r \in Anchor \cup Id, NEW i, Unlink(r, i)
  PROVE  PermKept /\ \A q \in Anchor \cup Id : link'[q] \subseteq link[q]
<1> DEFINE lk == [link EXCEPT ![r] = @ \ {i}]
<1>1. /\ link' = [q \in Anchor \cup Id |-> IF q \in Anchor \cup Alive(lk) THEN lk[q] ELSE {}]
      /\ key' = [j \in Id |-> IF j \in Alive(lk) THEN key[j] ELSE NoKey]
  BY DEF Unlink, Settle
<1>2. \A q \in Anchor \cup Id : lk[q] \subseteq link[q]
  BY DEF KernelInv, KernelTyped
<1>3. \A j \in Id : key'[j] = key[j] \/ key'[j] = NoKey
  BY <1>1
<1>4. PermKept
  <2>1. \A j \in Id : key'[j] # NoKey => key[j] # NoKey /\ (key[j].perm => key'[j].perm)
    BY <1>3, Zenon
  <2> QED
    BY <2>1, Zenon DEF PermKept
<1> HIDE DEF lk
<1> QED
  BY <1>1, <1>2, <1>4

\* It is enough to look at the keys that are new in a keyring or on their way.
LEMMA PermFrame ==
  ASSUME TypeInv, PermInv, KernelInv', PermKept,
         \A r \in (Anchor \cup Id) \ Sessions : \A i \in link'[r] :
           Passing(i)' => key'[i].perm \/ (i \in link[r] /\ Passing(i)),
         \A p \in Proc : pc'[p] \in {"link", "unlink"} =>
           \/ pc[p] \in {"link", "unlink"} /\ id'[p] = id[p]
           \/ key'[id'[p]].perm
  PROVE  PermInv'
<1>1. KernelInv /\ ProcTyped /\ \A q \in Proc : ProcInv(q)
  BY TypeInvParts
<1>2. ASSUME NEW r \in (Anchor \cup Id) \ Sessions, NEW i \in link'[r], Passing(i)'
      PROVE  key'[i].perm
  <2>1. i \in Id /\ key'[i] # NoKey
    BY <1>2 DEF KernelInv, KernelTyped, ShapeOf
  <2>2. CASE i \in link[r] /\ Passing(i)
    <3>1. key[i] # NoKey /\ key[i].perm
      BY <1>1, <1>2, <2>2 DEF PermInv, KernelInv, ShapeOf
    <3> QED
      BY <2>1, <3>1 DEF PermKept, Free
  <2> QED
    BY <1>2, <2>2
<1>3. ASSUME NEW p \in Proc, pc'[p] \in {"link", "unlink"}, key'[id'[p]] # NoKey
      PROVE  key'[id'[p]].perm
  <2>1. CASE pc[p] \in {"link", "unlink"} /\ id'[p] = id[p]
    <3>1. id[p] \in Id /\ id[p] \notin Free
      BY <1>1, <2>1 DEF ProcInv, IdInv, Through, Free
    <3>2. key[id[p]] # NoKey /\ (key[id[p]].perm => key'[id[p]].perm)
      BY <1>3, <2>1, <3>1 DEF PermKept
    <3> QED
      BY <2>1, <3>2 DEF PermInv
  <2> QED
    BY <1>3, <2>1
<1>4. \A r \in (Anchor \cup Id) \ Sessions : \A i \in link'[r] : Passing(i)' => key'[i].perm
  BY <1>2
<1> QED
  BY <1>3, <1>4 DEF PermInv, Sessions

\* A step that links nothing and puts nothing on its way.
LEMMA QuietPermInv ==
  ASSUME TypeInv, PermInv, KernelInv', PermKept,
         \A r \in Anchor \cup Id : link'[r] \subseteq link[r],
         \A q \in Proc : pc'[q] \in Through =>
           pc'[q] = pc[q] /\ id'[q] = id[q]
  PROVE  PermInv'
<1>1. \A q \in Proc : SessionOf[q] \in Anchor
  BY KeyctlAssumption
<1>2. ASSUME NEW i, Passing(i)' PROVE Passing(i)
  BY <1>1, <1>2 DEF Passing, Through
<1>3. \A r \in (Anchor \cup Id) \ Sessions : \A i \in link'[r] :
         Passing(i)' => key'[i].perm \/ (i \in link[r] /\ Passing(i))
  BY <1>2
<1>4. \A p \in Proc : pc'[p] \in {"link", "unlink"} =>
         (pc[p] \in {"link", "unlink"} /\ id'[p] = id[p]) \/ key'[id'[p]].perm
  BY DEF Through
<1> QED
  BY <1>3, <1>4, PermFrame

LEMMA NothingPermKept == ASSUME UNCHANGED key PROVE PermKept
  BY DEF PermKept

\* A step of p to where no key is on its way, and that leaves the keys alone.
LEMMA AsidePermInv ==
  ASSUME TypeInv, PermInv, NEW p \in Proc, NEW step, step \notin Through, Go(p, step),
         \A q \in Proc \ {p} : id'[q] = id[q], UNCHANGED <<key, link>>
  PROVE  PermInv'
<1>1. KernelInv /\ ProcTyped
  BY TypeInvParts
<1>2. KernelInv' /\ PermKept /\ \A r \in Anchor \cup Id : link'[r] \subseteq link[r]
  BY <1>1, NothingKeeps, NothingPermKept
<1>3. \A q \in Proc : pc'[q] \in Through => pc'[q] = pc[q] /\ id'[q] = id[q]
  BY <1>1 DEF Go, ProcTyped
<1> QED
  BY <1>2, <1>3, QuietPermInv

LEMMA FinishGoes ==
  ASSUME NEW p, NEW r, Finish(p, r) PROVE \E step \in {"idle", "closed", "return"} : Go(p, step)
  BY DEF Finish

LEMMA ThroughSteps == {"idle", "closed", "return", "find", "add", "search", "read", "describe", "remove"}
                        \cap Through = {}
  BY DEF Through

\* A keyring of items is no session.
LEMMA RingApart ==
  ASSUME TypeInv, SessionsApart, NEW p \in Proc, pc[p] # "closed"
  PROVE  ring[p] \notin Sessions
<1>1. ring[p] \in {Scope[p]} \cup Id
  BY TypeInvParts DEF ProcInv, RingInv
<1>2. \A s \in Sessions : s \in Anchor /\ s # Scope[p]
  BY KeyctlAssumption DEF Sessions, SessionsApart
<1> QED
  BY <1>1, <1>2, KernelAssumption

LEMMA AddPermInv == ASSUME TypeInv, PermInv, SessionsApart, NEW p \in Proc, Add(p) PROVE PermInv'
<1>1. KernelInv /\ ProcTyped /\ ProcInv(p)
  BY TypeInvParts
<1>2. pc[p] = "add" /\ Exists(AddTo(p))
  BY DEF Add
<1>3. /\ AddTo(p) \in Anchor \cup Id
      /\ AddTo(p) \in Id => call[p] # Opening /\ key[AddTo(p)].type = "keyring"
  BY <1>2, AddToRing
<1>4. PICK n \in Id :
        /\ IF call[p] = Opening
           THEN AddKey(AddTo(p), "keyring", Service[p], NoData, n, Free)
           ELSE AddKey(AddTo(p), "user", call[p].key, call[p].data, n, Free)
        /\ IF UsePerm[p]
           THEN id' = [id EXCEPT ![p] = n] /\ Go(p, "setperm")
           ELSE Finish(p, Ok) /\ UNCHANGED id
  BY DEF Add
<1>5. /\ PermKept /\ (n \in Free \/ n \in link[AddTo(p)])
      /\ link'[AddTo(p)] \subseteq link[AddTo(p)] \cup {n}
      /\ \A q \in (Anchor \cup Id) \ {AddTo(p)} : link'[q] \subseteq link[q]
  <2>1. CASE call[p] = Opening
    <3>1. [type |-> "keyring", desc |-> Service[p], data |-> NoData, perm |-> FALSE] \in KeyRecord
      BY DEF KeyRecord
    <3> QED
      BY <1>1, <1>2, <1>3, <1>4, <2>1, <3>1, AddKeyEffect
  <2>2. CASE call[p] # Opening
    <3>1. call[p] \in Calls /\ call[p].op = "Set"
      BY <1>1, <1>2, <2>2, IdleIsNoCall DEF ProcTyped, ProcInv, StepOfCall, Through
    <3>2. [type |-> "user", desc |-> call[p].key, data |-> call[p].data, perm |-> FALSE] \in KeyRecord
      BY <3>1, CallArguments DEF KeyRecord
    <3> QED
      BY <1>1, <1>2, <1>3, <1>4, <2>2, <3>2, AddKeyEffect
  <2> QED
    BY <2>1, <2>2
<1>6. KernelInv' /\ \A q \in Proc : SessionOf[q] \in Anchor /\ SessionOf[q] \in Sessions
  BY AddTypeInv, TypeInvParts, KeyctlAssumption DEF Sessions, TypeInv, TypeOK, KernelInv, KernelTyped
<1>7. CASE UsePerm[p]
  <2>1. /\ AddTo(p) = SessionOf[p] /\ id'[p] = n /\ pc'[p] = "setperm"
        /\ \A q \in Proc \ {p} : id'[q] = id[q] /\ pc'[q] = pc[q]
    BY <1>1, <1>4, <1>7 DEF AddTo, Go, ProcTyped
  <2>2. ASSUME NEW r \in (Anchor \cup Id) \ Sessions, NEW i \in link'[r], Passing(i)'
        PROVE  i \in link[r] /\ Passing(i)
    <3>1. r # AddTo(p) /\ i \in link[r]
      BY <1>5, <1>6, <2>1, <2>2
    <3>2. CASE i = n
      <4>1. n \in link[SessionOf[p]]
        BY <1>1, <1>5, <2>1, <3>1, <3>2 DEF Free, KernelInv, ShapeOf
      <4> QED
        BY <3>1, <3>2, <4>1 DEF Passing
    <3>3. CASE i # n
      BY <1>5, <1>6, <2>1, <2>2, <3>1, <3>3 DEF Passing, Through
    <3> QED
      BY <3>2, <3>3
  <2>3. \A q \in Proc : pc'[q] \in {"link", "unlink"} => pc[q] \in {"link", "unlink"} /\ id'[q] = id[q]
    BY <2>1
  <2> QED
    BY <1>5, <1>6, <2>2, <2>3, PermFrame
<1>8. CASE ~UsePerm[p]
  <2>1. /\ AddTo(p) = ring[p] /\ id' = id /\ pc'[p] \in {"idle", "closed", "return"}
        /\ \A q \in Proc \ {p} : pc'[q] = pc[q]
    BY <1>1, <1>4, <1>8 DEF AddTo, Finish, Go, ProcTyped
  <2>2. ring[p] \notin Sessions
    BY <1>2, RingApart
  <2>3. ASSUME NEW r \in (Anchor \cup Id) \ Sessions, NEW i \in link'[r], Passing(i)'
        PROVE  i \in link[r] /\ Passing(i)
    <3>1. Passing(i)
      BY <1>5, <1>6, <2>1, <2>2, <2>3 DEF Passing, Through
    <3>2. i \in link[r] \/ (i = n /\ r = ring[p])
      BY <1>5, <2>1
    <3>3. i \notin Free
      BY <1>1, <1>6, <3>1 DEF Passing, Free, KernelInv, ShapeOf
    <3> QED
      BY <1>5, <2>1, <3>1, <3>2, <3>3
  <2>4. \A q \in Proc : pc'[q] \in {"link", "unlink"} => pc[q] \in {"link", "unlink"} /\ id'[q] = id[q]
    BY <2>1
  <2> QED
    BY <1>5, <1>6, <2>3, <2>4, PermFrame
<1> QED
  BY <1>7, <1>8

LEMMA SetPermissionPermInv == ASSUME TypeInv, PermInv, NEW p \in Proc, SetPermission(p) PROVE PermInv'
<1>1. KernelInv /\ ProcTyped /\ ProcInv(p)
  BY TypeInvParts
<1>2. /\ pc[p] = "setperm" /\ id[p] \in Id /\ key[id[p]] \in KeyRecord /\ id' = id /\ link' = link
      /\ key' = [key EXCEPT ![id[p]].perm = TRUE]
      /\ pc'[p] = "link" /\ \A q \in Proc \ {p} : pc'[q] = pc[q]
  BY <1>1 DEF SetPermission, SetPerm, Go, ProcTyped, ProcInv, IdInv, Through, KernelInv, KernelTyped
<1>3. /\ key'[id[p]].perm = TRUE /\ key'[id[p]] \in KeyRecord
      /\ \A i \in Id \ {id[p]} : key'[i] = key[i]
  BY <1>1, <1>2 DEF KernelInv, KernelTyped, KeyRecord
<1>4. PermKept
  <2>1. key[id[p]] # NoKey
    BY <1>2, KeyKinds
  <2> QED
    BY <1>3, <2>1, Zenon DEF PermKept
<1>5. KernelInv'
  BY <1>1, <1>2, KeyKinds, SetPermKeeps DEF SetPermission
<1>6. ASSUME NEW i, Passing(i)' PROVE Passing(i)
  BY <1>2, <1>6 DEF Passing, Through
<1>7. \A q \in Proc : pc'[q] \in {"link", "unlink"} =>
        (pc[q] \in {"link", "unlink"} /\ id'[q] = id[q]) \/ key'[id'[q]].perm
  BY <1>2, <1>3
<1> QED
  BY <1>2, <1>4, <1>5, <1>6, <1>7, PermFrame

LEMMA LinkKeyPermInv == ASSUME TypeInv, PermInv, SessionsApart, NEW p \in Proc, LinkKey(p) PROVE PermInv'
<1>1. KernelInv /\ ProcTyped /\ ProcInv(p)
  BY TypeInvParts
<1>2. /\ pc[p] = "link" /\ id[p] \in Id /\ ring[p] \in Anchor \cup Id /\ Link(ring[p], id[p]) /\ id' = id
      /\ key[id[p]] # NoKey /\ key[id[p]].perm /\ pc'[p] = "unlink"
      /\ \A q \in Proc \ {p} : pc'[q] = pc[q]
  BY <1>1, LinkArguments DEF LinkKey, Go, ProcTyped, PermInv
<1>3. /\ PermKept /\ link'[ring[p]] \subseteq link[ring[p]] \cup {id[p]}
      /\ \A q \in (Anchor \cup Id) \ {ring[p]} : link'[q] \subseteq link[q]
  BY <1>1, <1>2, LinkEffect
<1>4. KernelInv'
  BY <1>1, LinkArguments, LinkKeeps DEF LinkKey
<1>5. ring[p] \notin Sessions /\ \A q \in Proc : SessionOf[q] \in Sessions /\ SessionOf[q] \in Anchor
  BY <1>2, RingApart, KeyctlAssumption DEF Sessions
<1>6. ASSUME NEW r \in (Anchor \cup Id) \ Sessions, NEW i \in link'[r], Passing(i)'
      PROVE  key'[i].perm \/ (i \in link[r] /\ Passing(i))
  <2>1. Passing(i)
    BY <1>2, <1>3, <1>5, <1>6 DEF Passing, Through
  <2>2. CASE i = id[p]
    <3>1. key'[i] # NoKey /\ i \notin Free
      BY <1>2, <1>4, <2>2 DEF KernelInv, ShapeOf, Free
    <3> QED
      BY <1>2, <1>3, <2>2, <3>1 DEF PermKept
  <2>3. CASE i # id[p]
    BY <1>3, <2>1, <2>3
  <2> QED
    BY <2>2, <2>3
<1>7. \A q \in Proc : pc'[q] \in {"link", "unlink"} =>
        (pc[q] \in {"link", "unlink"} /\ id'[q] = id[q]) \/ key'[id'[q]].perm
  BY <1>2
<1> QED
  BY <1>3, <1>4, <1>6, <1>7, PermFrame

\* The steps that unlink a key: of a Set, of a Remove, of another program.
LEMMA UnlinkPermInv ==
  ASSUME TypeInv, PermInv, NEW r \in Anchor \cup Id, NEW i, Unlink(r, i), UNCHANGED id,
         \/ UNCHANGED pc
         \/ \E p \in Proc, step \in {"idle", "closed", "return"} : Go(p, step)
  PROVE  PermInv'
<1>1. KernelInv /\ ProcTyped
  BY TypeInvParts
<1>2. KernelInv' /\ PermKept /\ \A q \in Anchor \cup Id : link'[q] \subseteq link[q]
  BY <1>1, UnlinkKeeps, UnlinkEffect
<1>3. \A q \in Proc : pc'[q] \in Through => pc'[q] = pc[q] /\ id'[q] = id[q]
  BY <1>1 DEF Go, ProcTyped, Through
<1> QED
  BY <1>2, <1>3, QuietPermInv

LEMMA StepPermInv == ASSUME TypeInv, PermInv, SessionsApart, NEW p \in Proc, Step(p) PROVE PermInv'
<1>1. ProcTyped
  BY TypeInvParts
<1>2. CASE FindRing(p) \/ SetFails(p) \/ SearchMisses(p) \/ ReadGone(p) \/ ReadItem(p) \/ Described(p)
  <2>1. (Go(p, "add") \/ \E r : Finish(p, r)) /\ UNCHANGED <<key, link, id>>
    BY <1>2 DEF FindRing, SetFails, SearchMisses, ReadGone, ReadItem, Described
  <2>2. \E step \in {"idle", "closed", "return", "add"} : Go(p, step)
    BY <2>1, FinishGoes
  <2> QED
    BY <2>1, <2>2, ThroughSteps, AsidePermInv
<1>3. CASE Add(p) \/ SetPermission(p) \/ LinkKey(p)
  BY <1>3, AddPermInv, SetPermissionPermInv, LinkKeyPermInv
<1>4. CASE UnlinkKey(p)
  BY <1>4, FinishGoes, UnlinkPermInv, KeyctlAssumption DEF UnlinkKey
<1>5. CASE RemoveUnlinks(p)
  <2>1. CASE Exists(ring[p]) /\ id[p] \in link[ring[p]]
    BY <1>5, <2>1, FinishGoes, UnlinkPermInv DEF RemoveUnlinks, Exists
  <2>2. CASE ~(Exists(ring[p]) /\ id[p] \in link[ring[p]])
    BY <1>5, <2>2, FinishGoes, ThroughSteps, AsidePermInv DEF RemoveUnlinks
  <2> QED
    BY <2>1, <2>2
<1>6. CASE SearchFinds(p)
  <2>1. \A q \in Proc \ {p} : id'[q] = id[q]
    BY <1>1, <1>6 DEF SearchFinds, ProcTyped
  <2> QED
    BY <1>6, <2>1, ThroughSteps, AsidePermInv DEF SearchFinds
<1>7. CASE ReadGrows(p)
  BY <1>7 DEF ReadGrows, PermInv, Passing
<1>8. CASE ReadRing(p)
  BY <1>8, ThroughSteps, AsidePermInv DEF ReadRing
<1>9. CASE Describe(p)
  <2>1. CASE UNCHANGED pc
    BY <1>9, <2>1 DEF Describe, PermInv, Passing
  <2>2. CASE Finish(p, Error)
    BY <1>9, <2>2, FinishGoes, ThroughSteps, AsidePermInv DEF Describe
  <2> QED
    BY <1>9, <2>1, <2>2 DEF Describe
<1>10. CASE Return(p)
  <2>1. \A q \in Proc \ {p} : id'[q] = id[q]
    BY <1>1, <1>10 DEF Return, Forget, ProcTyped
  <2> QED
    BY <1>10, <2>1, ThroughSteps, AsidePermInv DEF Return
<1> QED
  BY <1>2, <1>3, <1>4, <1>5, <1>6, <1>7, <1>8, <1>9, <1>10 DEF Step

\* What another program does to a key that a session has.
LEMMA StrangerUpdates ==
  ASSUME TypeInv, NEW s \in Anchor, NEW k \in Strangers, StrangerAdds(s, k), Matches(s, "user", k) # {}
  PROVE  \E n \in Matches(s, "user", k) :
           /\ n \in Id /\ link' = link /\ key' = [key EXCEPT ![n].data = Stranger]
           /\ \A i \in Id \ {n} : key'[i] = key[i]
           /\ key'[n].type = "user" /\ key'[n].desc = k /\ key'[n].data = Stranger
           /\ key'[n].perm = key[n].perm
<1>1. KernelInv
  BY TypeInvParts
<1>2. PICK n \in Id : AddKey(s, "user", k, Stranger, n, Free)
  BY DEF StrangerAdds
<1>3. n \in Matches(s, "user", k) /\ key' = [key EXCEPT ![n].data = Stranger] /\ link' = link
  BY <1>2 DEF AddKey
<1>4. key[n] \in [type : {"user"}, desc : Key, data : Data, perm : BOOLEAN] /\ key[n].desc = k
  BY <1>1, <1>3 DEF Matches, KernelInv, KernelTyped, ShapeOf, KeyRecord
<1> QED
  BY <1>1, <1>3, <1>4 DEF KernelInv, KernelTyped

LEMMA StrangerPermInv ==
  ASSUME TypeInv, PermInv, NEW s \in Sessions, NEW k \in Strangers,
         StrangerAdds(s, k) \/ StrangerRemoves(s, k)
  PROVE  PermInv'
<1>1. KernelInv /\ s \in Anchor /\ s \notin Id
  BY TypeInvParts, KeyctlAssumption, KernelAssumption DEF Sessions
<1>2. id' = id /\ pc' = pc
  BY DEF StrangerAdds, StrangerRemoves, procVars
<1>3. CASE StrangerAdds(s, k)
  <2>1. PICK n \in Id : AddKey(s, "user", k, Stranger, n, Free)
    BY <1>3 DEF StrangerAdds
  <2>2. [type |-> "user", desc |-> k, data |-> Stranger, perm |-> FALSE] \in KeyRecord
    BY KeyctlAssumption DEF KeyRecord
  <2>3. Exists(s)
    BY <1>1 DEF Exists
  <2>4. /\ PermKept /\ (n \in Free \/ n \in link[s]) /\ link'[s] \subseteq link[s] \cup {n}
        /\ \A q \in (Anchor \cup Id) \ {s} : link'[q] \subseteq link[q]
    BY <1>1, <2>1, <2>2, <2>3, AddKeyEffect
  <2>5. KernelInv'
    BY <1>1, <2>1, <2>2, <2>3, AddKeyKeeps
  <2>6. ASSUME NEW r \in (Anchor \cup Id) \ Sessions, NEW i \in link'[r], Passing(i)'
        PROVE  i \in link[r] /\ Passing(i)
    <3>1. i \in link[r]
      BY <2>4
    <3>2. i = n => n \in link[s]
      BY <1>1, <2>4, <3>1 DEF Free, KernelInv, ShapeOf
    <3>3. \A q \in Proc : SessionOf[q] \in Anchor
      BY KeyctlAssumption
    <3> QED
      BY <1>2, <2>4, <2>6, <3>1, <3>2, <3>3 DEF Passing, Through, Sessions
  <2> QED
    BY <1>2, <2>4, <2>5, <2>6, PermFrame
<1>4. CASE StrangerRemoves(s, k)
  BY <1>1, <1>2, <1>4, UnlinkPermInv DEF StrangerRemoves
<1> QED
  BY <1>3, <1>4

LEMMA NextPermInv == ASSUME SessionsApart PROVE TypeInv /\ PermInv /\ [Next]_vars => PermInv'
<1> SUFFICES ASSUME TypeInv, PermInv, [Next]_vars PROVE PermInv'
  OBVIOUS
<1>1. ProcTyped
  BY TypeInvParts
<1>2. CASE UNCHANGED vars
  BY <1>2 DEF vars, procVars, PermInv, Passing
<1>3. ASSUME NEW p \in Proc, Open(p) PROVE PermInv'
  BY <1>3, ThroughSteps, AsidePermInv, <1>1 DEF Open, ProcTyped
<1>4. ASSUME NEW p \in Proc, Call(p) PROVE PermInv'
  <2>1. \E step \in {"search", "add", "read", "return"} : Go(p, step)
    BY <1>4, CallArguments DEF Call, FirstStep
  <2> QED
    BY <1>4, <2>1, ThroughSteps, AsidePermInv DEF Call
<1>5. ASSUME NEW p \in Proc, Step(p) PROVE PermInv'
  BY <1>5, StepPermInv
<1>6. ASSUME NEW p \in Proc, SyscallError(p) PROVE PermInv'
  BY <1>6, FinishGoes, ThroughSteps, AsidePermInv DEF SyscallError
<1>7. ASSUME NEW p \in Proc, Crash(p) PROVE PermInv'
  <2>1. \A q \in Proc \ {p} : id'[q] = id[q]
    BY <1>1, <1>7 DEF Crash, Forget, ProcTyped
  <2> QED
    BY <1>7, <2>1, ThroughSteps, AsidePermInv DEF Crash
<1>8. ASSUME NEW p \in Proc, NEW k \in Strangers,
             StrangerAdds(SessionOf[p], k) \/ StrangerRemoves(SessionOf[p], k)
      PROVE  PermInv'
  BY <1>8, StrangerPermInv DEF Sessions
<1> QED
  BY <1>2, <1>3, <1>4, <1>5, <1>6, <1>7, <1>8 DEF Next

\* A key that goes through the session is in the keyring it is meant for only
\* with its permissions (keyctl.go:136-140, 201-205), whichever processes,
\* services and other programs share the sessions and the keyring, and whatever
\* fails on the way, if no keyring of items is itself the session of a process.
THEOREM PermissionFirstHolds == SessionsApart => (Spec => []PermissionFirst)
<1> SUFFICES ASSUME SessionsApart PROVE Spec => []PermissionFirst
  OBVIOUS
<1>1. Init => PermInv
  BY DEF Init, PermInv
<1>2. Spec => [](TypeInv /\ PermInv)
  BY <1>1, InitTypeInv, NextTypeInv, NextPermInv, PTL DEF Spec
<1>3. TypeInv /\ PermInv => PermissionFirst
  <2> SUFFICES ASSUME TypeInv, PermInv, NEW p \in Proc, pc[p] \in Through, id[p] \in link[ring[p]]
               PROVE  key[id[p]].perm
    BY DEF PermissionFirst, Through
  <2>1. ring[p] \in (Anchor \cup Id) \ Sessions
    BY RingApart, TypeInvParts, KeyctlAssumption DEF ProcInv, RingInv, Through
  <2> QED
    BY <2>1 DEF PermInv, Passing
<1> QED
  BY <1>2, <1>3, PTL

-----------------------------------------------------------------------------
\* Every Set and every new keyring goes by way of the session.
AllByWay == \A p \in Proc : UsePerm[p]

\* A key is in one session at most, and on its way through no other.
SessionInv ==
  /\ \A s, t \in Sessions : s # t => link[s] \cap link[t] = {}
  /\ \A p \in Proc : pc[p] \in Through =>
       \A s \in Sessions : id[p] \in link[s] => s = SessionOf[p]

LEMMA SessionAnchors == /\ Sessions \subseteq Anchor
                        /\ \A p \in Proc : SessionOf[p] \in Sessions
  BY KeyctlAssumption DEF Sessions

\* What an anchor links is not destroyed.
LEMMA SettleAnchor ==
  ASSUME NEW lk, NEW ky, Settle(lk, ky), NEW a \in Anchor, NEW i \in Id, i \in lk[a]
  PROVE  i \in link'[a] /\ key'[i] = ky[i]
<1>1. i \in Alive(lk)
  BY DEF Alive
<1> QED
  BY <1>1 DEF Settle

\* A new link in session s or in none, of a key that p may then be taking along.
LEMMA SessionFrame ==
  ASSUME TypeInv, SessionInv, NEW s \in Sessions, NEW n \in Id, n \in Free \/ n \in link[s],
         link'[s] \subseteq link[s] \cup {n},
         \A t \in Sessions \ {s} : link'[t] \subseteq link[t],
         \A q \in Proc : pc'[q] \in Through =>
           \/ pc[q] \in Through /\ id'[q] = id[q]
           \/ SessionOf[q] = s /\ id'[q] = n
  PROVE  SessionInv'
<1>1. KernelInv
  BY TypeInvParts
<1>2. \A t \in Sessions \ {s} : n \notin link[t]
  BY <1>1, SessionAnchors DEF SessionInv, Free, KernelInv, ShapeOf
<1>3. \A t, u \in Sessions : t # u => link'[t] \cap link'[u] = {}
  BY <1>2 DEF SessionInv
<1>4. ASSUME NEW q \in Proc, pc'[q] \in Through, NEW t \in Sessions, id'[q] \in link'[t]
      PROVE  t = SessionOf[q]
  <2>1. CASE pc[q] \in Through /\ id'[q] = id[q]
    <3>1. CASE id[q] = n
      BY <1>2, <1>4, <2>1, <3>1 DEF SessionInv, Free
    <3>2. CASE id[q] # n
      BY <1>4, <2>1, <3>2 DEF SessionInv
    <3> QED
      BY <3>1, <3>2
  <2>2. CASE SessionOf[q] = s /\ id'[q] = n
    BY <1>2, <1>4, <2>2
  <2> QED
    BY <1>4, <2>1, <2>2
<1> QED
  BY <1>3, <1>4 DEF SessionInv, Sessions

\* The sessions get nothing new.
LEMMA QuietSessionInv ==
  ASSUME SessionInv, \A s \in Sessions : link'[s] \subseteq link[s],
         \A q \in Proc : pc'[q] \in Through => pc[q] \in Through /\ id'[q] = id[q]
  PROVE  SessionInv'
<1>1. \A s, t \in Sessions : s # t => link'[s] \cap link'[t] = {}
  BY DEF SessionInv
<1>2. \A q \in Proc : pc'[q] \in Through =>
        \A s \in Sessions : id'[q] \in link'[s] => s = SessionOf[q]
  BY DEF SessionInv
<1> QED
  BY <1>1, <1>2 DEF SessionInv, Sessions

LEMMA AsideSessionInv ==
  ASSUME TypeInv, SessionInv, NEW p \in Proc, NEW step, step \notin Through, Go(p, step),
         \A q \in Proc \ {p} : id'[q] = id[q], \A s \in Sessions : link'[s] \subseteq link[s]
  PROVE  SessionInv'
<1>1. \A q \in Proc : pc'[q] \in Through => pc[q] \in Through /\ id'[q] = id[q]
  BY TypeInvParts DEF Go, ProcTyped
<1> QED
  BY <1>1, QuietSessionInv

-----------------------------------------------------------------------------
\* What SessionKeysKept asks of one key in one session.
KeptIn(s, i) == i \in link'[s] /\ key'[i] = key[i]

\* add_key changes at most the key of that name in the keyring it adds to.
LEMMA AddKeyKept ==
  ASSUME KernelInv, NEW r \in Anchor, NEW type, NEW desc, NEW data, NEW n \in Id,
         AddKey(r, type, desc, data, n, Free),
         NEW s \in Anchor, NEW i \in link[s], key[i].type = "user"
  PROVE  KeptIn(s, i) \/ (i \in Matches(r, type, desc) /\ type = "user")
<1> DEFINE old == Matches(r, type, desc)
<1>1. i \in Id /\ key[i] # NoKey
  BY DEF KernelInv, KernelTyped, ShapeOf
<1>2. CASE type = "user" /\ old # {}
  BY <1>1, <1>2 DEF AddKey, KeptIn, KernelInv, KernelTyped
<1>3. CASE ~(type = "user" /\ old # {})
  <2> DEFINE lk == [link EXCEPT ![r] = (@ \ old) \cup {n}]
             ky == [key EXCEPT ![n] = [type |-> type, desc |-> desc, data |-> data, perm |-> FALSE]]
  <2>1. n \in Free /\ Settle(lk, ky)
    BY <1>3 DEF AddKey
  <2>2. i # n
    BY <1>1, <2>1 DEF Free
  <2>3. i \notin old
    BY <1>3 DEF Matches
  <2>4. i \in lk[s] /\ ky[i] = key[i]
    BY <1>1, <2>2, <2>3 DEF KernelInv, KernelTyped
  <2> HIDE DEF lk, ky
  <2> QED
    BY <1>1, <2>1, <2>4, SettleAnchor DEF KeptIn
<1> QED
  BY <1>2, <1>3

LEMMA UnlinkKept ==
  ASSUME KernelInv, NEW r \in Anchor \cup Id, NEW j, Unlink(r, j), NEW s \in Anchor, NEW i \in link[s],
         r # s \/ i # j
  PROVE  KeptIn(s, i)
<1> DEFINE lk == [link EXCEPT ![r] = @ \ {j}]
<1>1. i \in Id /\ i \in lk[s] /\ Settle(lk, key)
  BY DEF KernelInv, KernelTyped, Unlink
<1> HIDE DEF lk
<1> QED
  BY <1>1, SettleAnchor DEF KeptIn

LEMMA LinkKept ==
  ASSUME KernelInv, NEW r \in Anchor \cup Id, NEW j \in Id, Link(r, j), NEW s \in Anchor, NEW i \in link[s],
         r # s
  PROVE  KeptIn(s, i)
<1> DEFINE lk == [link EXCEPT ![r] = (@ \ Matches(r, key[j].type, key[j].desc)) \cup {j}]
<1>1. i \in Id /\ i \in lk[s] /\ Settle(lk, key)
  BY DEF KernelInv, KernelTyped, Link
<1> HIDE DEF lk
<1> QED
  BY <1>1, SettleAnchor DEF KeptIn

\* A user key of session s changes or goes, and nobody else than its owner or a
\* Set of its name is at it.
Spoilt(s, i) == /\ ~KeptIn(s, i)
                /\ ~\E q \in Proc : SessionOf[q] = s /\ IsSetOf(call[q], key[i].desc)

LEMMA SetStepIsSet ==
  ASSUME TypeInv, NEW q \in Proc, pc[q] \in Through \cup {"add"}, call[q] # Opening
  PROVE  call[q] \in Calls /\ IsSetOf(call[q], call[q].key) /\ call[q].key \in Key /\ call[q].data \in Data
<1>1. ProcTyped /\ ProcInv(q)
  BY TypeInvParts
<1>2. call[q] \in Calls /\ call[q].op = "Set"
  BY <1>1, IdleIsNoCall DEF ProcTyped, ProcInv, StepOfCall, Through
<1> QED
  BY <1>2, CallArguments DEF IsSetOf

LEMMA AddSession ==
  ASSUME TypeInv, SessionInv, AllByWay, NEW q \in Proc, Add(q)
  PROVE  /\ SessionInv'
         /\ \A s \in Sessions : \A i \in link[s] : key[i].type = "user" => ~Spoilt(s, i)
<1>1. KernelInv /\ ProcTyped /\ ProcInv(q)
  BY TypeInvParts
<1>2. pc[q] = "add" /\ AddTo(q) = SessionOf[q] /\ SessionOf[q] \in Sessions /\ SessionOf[q] \in Anchor
      /\ SessionOf[q] \notin Id /\ Exists(SessionOf[q])
  BY SessionAnchors, KernelAssumption DEF Add, AddTo, AllByWay, Exists
<1>3. PICK n \in Id :
        /\ IF call[q] = Opening
           THEN AddKey(SessionOf[q], "keyring", Service[q], NoData, n, Free)
           ELSE AddKey(SessionOf[q], "user", call[q].key, call[q].data, n, Free)
        /\ id' = [id EXCEPT ![q] = n] /\ Go(q, "setperm")
  BY <1>2 DEF Add, AllByWay
<1>4. /\ n \in Free \/ n \in link[SessionOf[q]]
      /\ link'[SessionOf[q]] \subseteq link[SessionOf[q]] \cup {n}
      /\ \A t \in (Anchor \cup Id) \ {SessionOf[q]} : link'[t] \subseteq link[t]
  <2>1. CASE call[q] = Opening
    <3>1. [type |-> "keyring", desc |-> Service[q], data |-> NoData, perm |-> FALSE] \in KeyRecord
      BY DEF KeyRecord
    <3> QED
      BY <1>1, <1>2, <1>3, <2>1, <3>1, AddKeyEffect
  <2>2. CASE call[q] # Opening
    <3>1. [type |-> "user", desc |-> call[q].key, data |-> call[q].data, perm |-> FALSE] \in KeyRecord
      BY <1>2, <2>2, SetStepIsSet DEF KeyRecord
    <3> QED
      BY <1>1, <1>2, <1>3, <2>2, <3>1, AddKeyEffect
  <2> QED
    BY <2>1, <2>2
<1>5. SessionInv'
  <2>1. \A u \in Proc : pc'[u] \in Through =>
          \/ pc[u] \in Through /\ id'[u] = id[u]
          \/ SessionOf[u] = SessionOf[q] /\ id'[u] = n
    BY <1>1, <1>3 DEF Go, ProcTyped
  <2>2. \A t \in Sessions \ {SessionOf[q]} : link'[t] \subseteq link[t]
    BY <1>4, SessionAnchors
  <2> QED
    BY <1>2, <1>4, <2>1, <2>2, SessionFrame
<1>6. ASSUME NEW s \in Sessions, NEW i \in link[s], key[i].type = "user", Spoilt(s, i) PROVE FALSE
  <2>1. s \in Anchor
    BY SessionAnchors
  <2>2. CASE call[q] = Opening
    BY <1>1, <1>2, <1>3, <1>6, <2>1, <2>2, AddKeyKept DEF Spoilt
  <2>3. CASE call[q] # Opening
    <3>1. i \in Matches(SessionOf[q], "user", call[q].key)
      BY <1>1, <1>2, <1>3, <1>6, <2>1, <2>3, AddKeyKept DEF Spoilt
    <3>2. s = SessionOf[q] /\ key[i].desc = call[q].key
      BY <1>2, <1>6, <3>1 DEF Matches, SessionInv
    <3> QED
      BY <1>2, <1>6, <2>3, <3>2, SetStepIsSet DEF Spoilt
  <2> QED
    BY <2>2, <2>3
<1> QED
  BY <1>5, <1>6

\* The key that a step of the way is about, when a session holds it.
LEMMA OnItsWay ==
  ASSUME TypeInv, SessionInv, NEW q \in Proc, pc[q] \in Through, NEW s \in Sessions,
         id[q] \in link[s], key[id[q]].type = "user"
  PROVE  ~Spoilt(s, id[q])
<1>1. KernelInv /\ ProcInv(q) /\ s \in Anchor
  BY TypeInvParts, SessionAnchors
<1>2. key[id[q]] # NoKey
  BY <1>1 DEF KernelInv, ShapeOf
<1>3. s = SessionOf[q] /\ call[q] # Opening /\ key[id[q]].desc = call[q].key
  BY <1>1, <1>2 DEF SessionInv, ProcInv, IdInv
<1> QED
  BY <1>3, SetStepIsSet DEF Spoilt

LEMMA StepSession ==
  ASSUME TypeInv, SessionInv, SessionsApart, AllByWay, NEW q \in Proc, Step(q)
  PROVE  /\ SessionInv'
         /\ \A s \in Sessions : \A i \in link[s] : key[i].type = "user" => ~Spoilt(s, i)
<1>1. KernelInv /\ ProcTyped /\ ProcInv(q)
  BY TypeInvParts
<1>2. Sessions \subseteq Anchor
  BY SessionAnchors
<1> DEFINE NoneSpoilt == \A s \in Sessions : \A i \in link[s] : key[i].type = "user" => ~Spoilt(s, i)
<1>3. UNCHANGED <<key, link>> => NoneSpoilt /\ \A s \in Sessions : link'[s] \subseteq link[s]
  BY DEF Spoilt, KeptIn
<1>4. CASE Add(q)
  BY <1>4, AddSession
<1>5. CASE SetPermission(q)
  <2>1. /\ pc[q] = "setperm" /\ link' = link /\ id' = id /\ Go(q, "link") /\ id[q] \in Id
        /\ key' = [key EXCEPT ![id[q]].perm = TRUE]
    BY <1>1, <1>5 DEF SetPermission, SetPerm, ProcInv, IdInv, Through
  <2>2. \A u \in Proc : pc'[u] \in Through => pc[u] \in Through /\ id'[u] = id[u]
    BY <1>1, <2>1 DEF Go, ProcTyped, Through
  <2>3. SessionInv'
    BY <2>1, <2>2, QuietSessionInv
  <2>4. ASSUME NEW s \in Sessions, NEW i \in link[s], key[i].type = "user", Spoilt(s, i) PROVE FALSE
    <3>1. CASE i = id[q]
      BY <2>1, <2>4, <3>1, OnItsWay DEF Through
    <3>2. CASE i # id[q]
      BY <1>1, <1>2, <2>1, <2>4, <3>2 DEF Spoilt, KeptIn, KernelInv, KernelTyped
    <3> QED
      BY <3>1, <3>2
  <2> QED
    BY <2>3, <2>4
<1>6. CASE LinkKey(q)
  <2>1. /\ pc[q] = "link" /\ id[q] \in Id /\ ring[q] \in Anchor \cup Id /\ ring[q] \notin Sessions
        /\ Link(ring[q], id[q]) /\ id' = id /\ Go(q, "unlink")
    BY <1>6, LinkArguments, RingApart DEF LinkKey
  <2>2. \A s \in Sessions : link'[s] \subseteq link[s]
    BY <1>1, <1>2, <2>1, LinkEffect
  <2>3. \A u \in Proc : pc'[u] \in Through => pc[u] \in Through /\ id'[u] = id[u]
    BY <1>1, <2>1 DEF Go, ProcTyped, Through
  <2>4. NoneSpoilt
    BY <1>1, <1>2, <2>1, LinkKept DEF Spoilt
  <2> QED
    BY <2>2, <2>3, <2>4, QuietSessionInv
<1>7. CASE UnlinkKey(q)
  <2>1. /\ pc[q] = "unlink" /\ Unlink(SessionOf[q], id[q]) /\ id' = id
        /\ SessionOf[q] \in Sessions /\ SessionOf[q] \in Anchor
        /\ \E step \in {"idle", "closed", "return"} : Go(q, step)
    BY <1>7, FinishGoes, SessionAnchors DEF UnlinkKey
  <2>2. \A s \in Sessions : link'[s] \subseteq link[s]
    BY <1>1, <1>2, <2>1, UnlinkEffect
  <2>3. SessionInv'
    BY <2>1, <2>2, ThroughSteps, AsideSessionInv
  <2>4. ASSUME NEW s \in Sessions, NEW i \in link[s], key[i].type = "user", Spoilt(s, i) PROVE FALSE
    <3>1. CASE i = id[q]
      BY <2>1, <2>4, <3>1, OnItsWay DEF Through
    <3>2. CASE i # id[q]
      BY <1>1, <1>2, <2>1, <2>4, <3>2, UnlinkKept DEF Spoilt
    <3> QED
      BY <3>1, <3>2
  <2> QED
    BY <2>3, <2>4
<1>8. CASE RemoveUnlinks(q)
  <2>1. id' = id /\ \E step \in {"idle", "closed", "return"} : Go(q, step)
    BY <1>8, FinishGoes DEF RemoveUnlinks
  <2>2. CASE Exists(ring[q]) /\ id[q] \in link[ring[q]]
    <3>1. ring[q] \in Anchor \cup Id /\ ring[q] \notin Sessions /\ Unlink(ring[q], id[q])
      BY <1>8, <2>2, RingApart DEF RemoveUnlinks, Exists
    <3>2. \A s \in Sessions : link'[s] \subseteq link[s]
      BY <1>1, <1>2, <3>1, UnlinkEffect
    <3>3. NoneSpoilt
      BY <1>1, <1>2, <3>1, UnlinkKept DEF Spoilt
    <3> QED
      BY <2>1, <3>2, <3>3, ThroughSteps, AsideSessionInv
  <2>3. CASE ~(Exists(ring[q]) /\ id[q] \in link[ring[q]])
    BY <1>3, <1>8, <2>1, <2>3, ThroughSteps, AsideSessionInv DEF RemoveUnlinks
  <2> QED
    BY <2>2, <2>3
<1>9. CASE FindRing(q) \/ SetFails(q) \/ SearchMisses(q) \/ ReadGone(q) \/ ReadItem(q) \/ Described(q)
  <2>1. (Go(q, "add") \/ \E r : Finish(q, r)) /\ UNCHANGED <<key, link, id>>
    BY <1>9 DEF FindRing, SetFails, SearchMisses, ReadGone, ReadItem, Described
  <2>2. \E step \in {"idle", "closed", "return", "add"} : Go(q, step)
    BY <2>1, FinishGoes
  <2> QED
    BY <1>3, <2>1, <2>2, ThroughSteps, AsideSessionInv
<1>10. CASE SearchFinds(q) \/ ReadRing(q) \/ Return(q)
  <2>1. /\ \A u \in Proc \ {q} : id'[u] = id[u]
        /\ \E step \in {"read", "remove", "describe", "idle"} : Go(q, step)
        /\ UNCHANGED <<key, link>>
    BY <1>1, <1>10 DEF SearchFinds, ReadRing, Return, Forget, ProcTyped
  <2> QED
    BY <1>3, <2>1, ThroughSteps, AsideSessionInv
<1>11. CASE ReadGrows(q)
  <2>1. UNCHANGED <<key, link, id, pc>>
    BY <1>11 DEF ReadGrows
  <2> QED
    BY <1>3, <2>1, QuietSessionInv
<1>12. CASE Describe(q)
  <2>1. UNCHANGED <<key, link, id>>
    BY <1>12 DEF Describe
  <2>2. CASE UNCHANGED pc
    BY <1>3, <2>1, <2>2, QuietSessionInv
  <2>3. CASE Finish(q, Error)
    BY <1>3, <2>1, <2>3, FinishGoes, ThroughSteps, AsideSessionInv
  <2> QED
    BY <1>12, <2>2, <2>3 DEF Describe
<1> QED
  BY <1>4, <1>5, <1>6, <1>7, <1>8, <1>9, <1>10, <1>11, <1>12 DEF Step

LEMMA StrangerSession ==
  ASSUME TypeInv, SessionInv, NEW r \in Sessions, NEW k \in Strangers,
         StrangerAdds(r, k) \/ StrangerRemoves(r, k)
  PROVE  /\ SessionInv'
         /\ \A s \in Sessions : \A i \in link[s] : key[i].type = "user" /\ key[i].desc # k => ~Spoilt(s, i)
<1>1. KernelInv /\ r \in Anchor /\ r \notin Id /\ Sessions \subseteq Anchor
  BY TypeInvParts, SessionAnchors, KernelAssumption
<1>2. CASE StrangerAdds(r, k)
  <2>1. PICK n \in Id : AddKey(r, "user", k, Stranger, n, Free)
    BY <1>2 DEF StrangerAdds
  <2>2. [type |-> "user", desc |-> k, data |-> Stranger, perm |-> FALSE] \in KeyRecord
    BY KeyctlAssumption DEF KeyRecord
  <2>3. Exists(r) /\ UNCHANGED <<pc, id>>
    BY <1>1, <1>2 DEF Exists, StrangerAdds, procVars
  <2>4. /\ n \in Free \/ n \in link[r]
        /\ link'[r] \subseteq link[r] \cup {n}
        /\ \A t \in (Anchor \cup Id) \ {r} : link'[t] \subseteq link[t]
    BY <1>1, <2>1, <2>2, <2>3, AddKeyEffect
  <2>5. SessionInv'
    BY <1>1, <2>3, <2>4, SessionFrame
  <2>6. \A s \in Sessions : \A i \in link[s] : key[i].type = "user" /\ key[i].desc # k => ~Spoilt(s, i)
    BY <1>1, <2>1, AddKeyKept DEF Spoilt, Matches
  <2> QED
    BY <2>5, <2>6
<1>3. CASE StrangerRemoves(r, k)
  <2>1. PICK j \in Matches(r, "user", k) : Unlink(r, j)
    BY <1>3 DEF StrangerRemoves
  <2>2. \A s \in Sessions : link'[s] \subseteq link[s]
    BY <1>1, <2>1, UnlinkEffect
  <2>3. SessionInv'
    BY <1>3, <2>2, QuietSessionInv DEF StrangerRemoves, procVars
  <2>4. \A s \in Sessions : \A i \in link[s] : key[i].type = "user" /\ key[i].desc # k => ~Spoilt(s, i)
    BY <1>1, <2>1, UnlinkKept DEF Spoilt, Matches
  <2> QED
    BY <2>3, <2>4
<1> QED
  BY <1>2, <1>3

\* Another program adds or removes a key of that name in the session of q.
StrangersAct(q, k) == StrangerAdds(SessionOf[q], k) \/ StrangerRemoves(SessionOf[q], k)

LEMMA NextSession ==
  ASSUME SessionsApart, AllByWay, TypeInv, SessionInv, Next
  PROVE  /\ SessionInv'
         /\ \A s \in Sessions : \A i \in link[s] : key[i].type = "user" =>
              ~Spoilt(s, i) \/ \E q \in Proc : StrangersAct(q, key[i].desc)
<1>1. ProcTyped
  BY TypeInvParts
<1> DEFINE Goal == /\ SessionInv'
                   /\ \A s \in Sessions : \A i \in link[s] : key[i].type = "user" =>
                        ~Spoilt(s, i) \/ \E q \in Proc : StrangersAct(q, key[i].desc)
<1>2. ASSUME NEW p \in Proc, Open(p) \/ Call(p) \/ SyscallError(p) \/ Crash(p) PROVE Goal
  <2>1. UNCHANGED <<key, link>> /\ \A q \in Proc \ {p} : id'[q] = id[q]
    BY <1>1, <1>2 DEF Open, Call, SyscallError, Crash, Forget, ProcTyped
  <2>2. \E step : step \notin Through /\ Go(p, step)
    <3>1. Open(p) => Go(p, "idle") \/ Go(p, "find")
      BY DEF Open
    <3>2. Call(p) => \E step \in {"search", "add", "read", "return"} : Go(p, step)
      BY CallArguments DEF Call, FirstStep
    <3>3. SyscallError(p) => \E step \in {"idle", "closed", "return"} : Go(p, step)
      BY FinishGoes DEF SyscallError
    <3>4. Crash(p) => Go(p, "closed")
      BY DEF Crash
    <3> QED
      BY <1>2, <3>1, <3>2, <3>3, <3>4, ThroughSteps
  <2>3. SessionInv'
    BY <2>1, <2>2, AsideSessionInv
  <2> QED
    BY <2>1, <2>3 DEF Spoilt, KeptIn
<1>3. ASSUME NEW p \in Proc, Step(p) PROVE Goal
  BY <1>3, StepSession
<1>4. ASSUME NEW p \in Proc, NEW k \in Strangers, StrangersAct(p, k) PROVE Goal
  <2>1. /\ SessionInv'
        /\ \A s \in Sessions : \A i \in link[s] : key[i].type = "user" /\ key[i].desc # k => ~Spoilt(s, i)
    BY <1>4, SessionAnchors, StrangerSession DEF StrangersAct
  <2> QED
    BY <1>4, <2>1
<1> QED
  BY <1>2, <1>3, <1>4 DEF Next, StrangersAct

\* What is in a session keyring is changed or unlinked only by other programs and
\* by a Set of that name and session (keyctl.go:131-148), however many processes,
\* sessions and services there are and whatever fails, if all of them set
\* permissions and none keeps its items in the session of a process.
THEOREM SessionKeysKeptHolds == SessionsApart /\ AllByWay => (Spec => SessionKeysKept)
<1> SUFFICES ASSUME SessionsApart, AllByWay PROVE Spec => SessionKeysKept
  OBVIOUS
<1> DEFINE Kept ==
      \A p \in Proc, k \in Key : \A i \in Matches(SessionOf[p], "user", k) :
        \/ i \in link'[SessionOf[p]] /\ key'[i] = key[i]
        \/ \E q \in Proc : SessionOf[q] = SessionOf[p] /\ UsePerm[q] /\ IsSetOf(call[q], k)
        \/ \E q \in Proc : StrangersAct(q, k)
<1>1. Init => SessionInv
  BY SessionAnchors DEF Init, SessionInv, Through
<1>2. TypeInv /\ SessionInv /\ [Next]_vars => SessionInv'
  <2>1. SessionInv /\ UNCHANGED vars => SessionInv'
    BY DEF vars, procVars, SessionInv
  <2> QED
    BY <2>1, NextSession
<1>3. TypeInv /\ SessionInv /\ [Next]_vars => [Kept]_vars
  <2> SUFFICES ASSUME TypeInv, SessionInv, Next,
                      NEW p \in Proc, NEW k \in Key, NEW i \in Matches(SessionOf[p], "user", k)
               PROVE  \/ KeptIn(SessionOf[p], i)
                      \/ \E q \in Proc : SessionOf[q] = SessionOf[p] /\ UsePerm[q] /\ IsSetOf(call[q], k)
                      \/ \E q \in Proc : StrangersAct(q, k)
    BY DEF KeptIn
  <2>1. /\ SessionOf[p] \in Sessions /\ i \in link[SessionOf[p]]
        /\ key[i].type = "user" /\ key[i].desc = k
    BY SessionAnchors DEF Matches
  <2>2. ~Spoilt(SessionOf[p], i) \/ \E q \in Proc : StrangersAct(q, k)
    BY <2>1, NextSession
  <2> QED
    BY <2>1, <2>2 DEF Spoilt, AllByWay
<1> QED
  BY <1>1, <1>2, <1>3, InitTypeInv, NextTypeInv, PTL DEF Spec, SessionKeysKept, StrangersAct

-----------------------------------------------------------------------------
\* The keyrings of the service of q in its scope.
Named(q) == Matches(Scope[q], "keyring", Service[q])

\* What one process has of its keyring: while it opens it there is none until it
\* has linked its own, and afterwards it holds the one there is.
HandleOf(q) ==
  /\ call[q] = Opening => Service[q] # NoService
  /\ call[q] = Opening /\ pc[q] \in {"add", "setperm", "link"} => Named(q) = {}
  /\ call[q] = Opening /\ pc[q] = "unlink" => id[q] \in Named(q)
  /\ pc[q] \notin {"closed", "find"} /\ call[q] # Opening => ring[q] \in RingsOf(q)

HandleInv ==
  /\ \A p, q \in Proc : call[p] = Opening /\ call[q] = Opening => p = q
  /\ \A q \in Proc : HandleOf(q)

RingsSame == \A q \in Proc : Named(q)' = Named(q)

\* There is one process.
Alone == \A p, q \in Proc : p = q

LEMMA NothingRings == ASSUME UNCHANGED <<key, link>> PROVE RingsSame
  BY DEF RingsSame, Named, Matches

\* Adding a keyring leaves it as the only one of its name, and nothing else changes
\* the keyrings that an anchor links.
LEMMA AddKeyRings ==
  ASSUME KernelInv, NEW r \in Anchor \cup Id, NEW type, NEW desc, NEW data, NEW n \in Id,
         AddKey(r, type, desc, data, n, Free), NEW a \in Anchor, NEW d
  PROVE  /\ a # r \/ type = "user" \/ d # desc => Matches(a, "keyring", d)' = Matches(a, "keyring", d)
         /\ a = r /\ type = "keyring" /\ d = desc => n \in Matches(a, "keyring", d)'
<1> DEFINE old == Matches(r, type, desc)
<1>1. CASE type = "user" /\ old # {}
  <2>1. link' = link /\ key' = [key EXCEPT ![n].data = data] /\ n \in link[r] /\ key[n] \in KeyRecord
    BY <1>1 DEF AddKey, Matches, KernelInv, KernelTyped, ShapeOf
  <2>2. \A i \in Id \ {n} : key'[i] = key[i]
    BY <2>1 DEF KernelInv, KernelTyped
  <2>3. key'[n].type = key[n].type /\ key'[n].desc = key[n].desc
    BY <2>1 DEF KernelInv, KernelTyped, KeyRecord
  <2>4. link[a] \subseteq Id
    BY DEF KernelInv, KernelTyped
  <2> QED
    BY <1>1, <2>1, <2>2, <2>3, <2>4 DEF Matches
<1>2. CASE ~(type = "user" /\ old # {})
  <2> DEFINE new == [type |-> type, desc |-> desc, data |-> data, perm |-> FALSE]
             lk == [link EXCEPT ![r] = (@ \ old) \cup {n}]
             ky == [key EXCEPT ![n] = new]
  <2>1. n \in Free /\ Settle(lk, ky)
    BY <1>2 DEF AddKey
  <2>2. /\ lk[r] = (link[r] \ old) \cup {n} /\ \A q \in (Anchor \cup Id) \ {r} : lk[q] = link[q]
        /\ ky[n].type = type /\ ky[n].desc = desc /\ \A i \in Id \ {n} : ky[i] = key[i]
    BY DEF KernelInv, KernelTyped
  <2>3. n \notin link[a] /\ link[a] \subseteq Id /\ lk[a] \subseteq Id
    BY <2>1 DEF Free, KernelInv, KernelTyped, ShapeOf
  <2>4. link'[a] = lk[a] /\ \A i \in lk[a] : key'[i] = ky[i]
    <3>1. link'[a] = lk[a]
      BY <2>1 DEF Settle
    <3> HIDE DEF lk, ky
    <3> QED
      BY <2>1, <2>3, <3>1, SettleAnchor
  <2>5. Matches(a, "keyring", d)' = {i \in lk[a] : ky[i].type = "keyring" /\ ky[i].desc = d}
    <3> HIDE DEF lk, ky
    <3> QED
      BY <2>4 DEF Matches
  <2>6. CASE a # r
    BY <2>2, <2>3, <2>5, <2>6 DEF Matches
  <2>7. CASE a = r
    <3>1. \A i \in old : key[i].type = type /\ key[i].desc = desc
      BY DEF Matches
    <3> HIDE DEF lk, ky, old
    <3>2. n \in lk[a] /\ (type = "keyring" /\ d = desc => n \in Matches(a, "keyring", d)')
      BY <2>2, <2>5, <2>7
    <3>3. ASSUME type = "user" \/ d # desc
          PROVE  Matches(a, "keyring", d)' = Matches(a, "keyring", d)
      <4>1. ASSUME NEW i \in lk[a], ky[i].type = "keyring", ky[i].desc = d
            PROVE  i \in link[a] /\ key[i].type = "keyring" /\ key[i].desc = d
        BY <2>2, <2>3, <2>7, <3>3, <4>1
      <4>2. ASSUME NEW i \in link[a], key[i].type = "keyring", key[i].desc = d
            PROVE  i \in lk[a] /\ ky[i].type = "keyring" /\ ky[i].desc = d
        BY <2>2, <2>3, <2>7, <3>1, <3>3, <4>2
      <4> QED
        BY <2>5, <4>1, <4>2 DEF Matches
    <3> QED
      BY <2>7, <3>2, <3>3
  <2> QED
    BY <2>6, <2>7
<1> QED
  BY <1>1, <1>2

\* Linking and unlinking a user key leaves the keyrings; linking a keyring in an
\* anchor makes it the only one of its name there.
LEMMA LinkRings ==
  ASSUME KernelInv, NEW r \in Anchor \cup Id, NEW j \in Id, Link(r, j), NEW a \in Anchor, NEW d
  PROVE  /\ a # r \/ key[j].type = "user" \/ d # key[j].desc
              => Matches(a, "keyring", d)' = Matches(a, "keyring", d)
         /\ a = r /\ key[j].type = "keyring" /\ d = key[j].desc => j \in Matches(a, "keyring", d)'
<1> DEFINE old == Matches(r, key[j].type, key[j].desc)
           lk == [link EXCEPT ![r] = (@ \ old) \cup {j}]
<1>1. Settle(lk, key)
  BY DEF Link
<1>2. /\ lk[r] = (link[r] \ old) \cup {j} /\ \A q \in (Anchor \cup Id) \ {r} : lk[q] = link[q]
      /\ lk[a] \subseteq Id
  BY DEF KernelInv, KernelTyped
<1>3. \A i \in old : key[i].type = key[j].type /\ key[i].desc = key[j].desc
  BY DEF Matches
<1>4. link'[a] = lk[a]
  BY <1>1 DEF Settle
<1> HIDE DEF lk, old
<1>5. Matches(a, "keyring", d)' = {i \in lk[a] : key[i].type = "keyring" /\ key[i].desc = d}
  BY <1>1, <1>2, <1>4, SettleAnchor DEF Matches
<1> QED
  BY <1>2, <1>3, <1>5 DEF Matches

LEMMA UnlinkRings ==
  ASSUME KernelInv, NEW r \in Anchor \cup Id, NEW j, Unlink(r, j), NEW a \in Anchor, NEW d,
         a # r \/ (j \in link[r] => key[j].type = "user")
  PROVE  Matches(a, "keyring", d)' = Matches(a, "keyring", d)
<1> DEFINE lk == [link EXCEPT ![r] = @ \ {j}]
<1>1. Settle(lk, key)
  BY DEF Unlink
<1>2. lk[r] = link[r] \ {j} /\ (\A q \in (Anchor \cup Id) \ {r} : lk[q] = link[q]) /\ lk[a] \subseteq Id
  BY DEF KernelInv, KernelTyped
<1>3. link'[a] = lk[a]
  BY <1>1 DEF Settle
<1> HIDE DEF lk
<1>4. Matches(a, "keyring", d)' = {i \in lk[a] : key[i].type = "keyring" /\ key[i].desc = d}
  BY <1>1, <1>2, <1>3, SettleAnchor DEF Matches
<1> QED
  BY <1>2, <1>4 DEF Matches

\* It is enough to look at the process that takes the step.
LEMMA HandleFrame ==
  ASSUME HandleInv, NEW p \in Proc, RingsSame, HandleOf(p)', call'[p] = Opening => call[p] = Opening,
         \A q \in Proc \ {p} : /\ pc'[q] = pc[q] /\ call'[q] = call[q]
                              /\ ring'[q] = ring[q] /\ id'[q] = id[q]
  PROVE  HandleInv'
<1>1. ASSUME NEW q \in Proc \ {p} PROVE HandleOf(q)'
  BY DEF HandleInv, HandleOf, RingsSame, RingsOf, Named
<1>2. \A q, u \in Proc : call'[q] = Opening /\ call'[u] = Opening => q = u
  BY DEF HandleInv
<1> QED
  BY <1>1, <1>2 DEF HandleInv

\* A call that ends without a new keyring.
LEMMA FinishHandle ==
  ASSUME TypeInv, HandleInv, NEW p \in Proc, pc[p] \notin {"closed", "idle", "return"},
         NEW r, Finish(p, r), call[p] = Opening => r # Ok,
         UNCHANGED <<ring, id>>, RingsSame
  PROVE  HandleInv'
<1>1. ProcTyped /\ ProcInv(p)
  BY TypeInvParts
<1>2. \A q \in Proc \ {p} : pc'[q] = pc[q] /\ call'[q] = call[q]
  BY <1>1 DEF Finish, Go, ProcTyped
<1>3. \/ call[p] = Opening /\ call'[p] = Idle /\ pc'[p] = "closed"
      \/ call[p] # Opening /\ call'[p] = call[p] /\ pc'[p] = "return"
  BY <1>1 DEF Finish, Go, ProcTyped
<1>4. pc[p] = "find" => call[p] = Opening
  BY <1>1 DEF ProcInv, StepOfCall
<1>5. HandleOf(p)'
  BY <1>3, <1>4, OpeningIsNoCall DEF HandleInv, HandleOf, RingsSame, RingsOf, Named
<1> QED
  BY <1>2, <1>3, <1>5, OpeningIsNoCall, HandleFrame

\* An Open that has its keyring.
LEMMA OpenedHandle ==
  ASSUME TypeInv, HandleInv, NEW p \in Proc, call[p] = Opening, NEW i, i \in Named(p)', Finish(p, Ok),
         ring' = [ring EXCEPT ![p] = i], UNCHANGED id,
         \A q \in Proc : Scope[q] # Scope[p] \/ Service[q] # Service[p] \/ Named(p) # {}
                        => Named(q)' = Named(q)
  PROVE  HandleInv'
<1>1. ProcTyped /\ ProcInv(p)
  BY TypeInvParts
<1>2. /\ pc'[p] = "idle" /\ call'[p] = Idle /\ ring'[p] = i /\ Service[p] # NoService
      /\ \A q \in Proc \ {p} : pc'[q] = pc[q] /\ call'[q] = call[q] /\ ring'[q] = ring[q] /\ call[q] # Opening
  BY <1>1 DEF Finish, Go, ProcTyped, HandleInv, HandleOf
<1>3. HandleOf(p)'
  BY <1>2, OpeningIsNoCall DEF HandleOf, RingsOf, Named
<1>4. ASSUME NEW q \in Proc \ {p} PROVE HandleOf(q)'
  <2>1. call'[q] # Opening
    BY <1>2
  <2>2. CASE Named(q)' = Named(q)
    BY <1>2, <2>1, <2>2 DEF HandleInv, HandleOf, RingsOf, Named
  <2>3. CASE Named(q)' # Named(q)
    <3>1. Scope[q] = Scope[p] /\ Service[q] = Service[p] /\ Named(p) = {}
      BY <2>3
    <3>2. Named(q) = {} /\ RingsOf(q) = Named(q)
      BY <1>2, <3>1 DEF Named, RingsOf
    <3>3. pc[q] \in {"closed", "find"}
      BY <1>2, <3>2 DEF HandleInv, HandleOf
    <3> QED
      BY <1>2, <2>1, <3>3 DEF HandleOf
  <2> QED
    BY <2>2, <2>3
<1>5. \A q, u \in Proc : call'[q] = Opening /\ call'[u] = Opening => q = u
  BY <1>2, OpeningIsNoCall
<1> QED
  BY <1>3, <1>4, <1>5 DEF HandleInv

LEMMA OpenHandle ==
  ASSUME TypeInv, HandleInv, OpenAlone \/ Alone, NEW p \in Proc, Open(p) PROVE HandleInv'
<1>1. ProcTyped /\ ProcInv(p)
  BY TypeInvParts
<1>2. RingsSame
  BY NothingRings DEF Open
<1>3. \A q \in Proc : call[q] # Opening
  BY <1>1, OpeningIsNoCall DEF Open, Alone, ProcInv, StepOfCall
<1>4. /\ ring'[p] = Scope[p] /\ call[p] = Idle
      /\ IF Service[p] = NoService THEN pc'[p] = "idle" /\ call'[p] = Idle
                                   ELSE pc'[p] = "find" /\ call'[p] = Opening
      /\ \A q \in Proc \ {p} : pc'[q] = pc[q] /\ call'[q] = call[q] /\ ring'[q] = ring[q] /\ id'[q] = id[q]
  BY <1>1 DEF Open, Go, ProcTyped, ProcInv, StepOfCall
<1>5. HandleOf(p)'
  BY <1>4, OpeningIsNoCall DEF HandleOf, RingsOf
<1>6. ASSUME NEW q \in Proc \ {p} PROVE HandleOf(q)'
  BY <1>2, <1>4 DEF HandleInv, HandleOf, RingsSame, RingsOf, Named
<1>7. \A q, u \in Proc : call'[q] = Opening /\ call'[u] = Opening => q = u
  BY <1>3, <1>4
<1> QED
  BY <1>5, <1>6, <1>7 DEF HandleInv

LEMMA FindRingHandle == ASSUME TypeInv, HandleInv, NEW p \in Proc, FindRing(p) PROVE HandleInv'
<1>1. KernelInv /\ ProcTyped /\ ProcInv(p) /\ Scope[p] \in Anchor
  BY TypeInvParts, KeyctlAssumption
<1>2. pc[p] = "find" /\ call[p] = Opening /\ RingsSame /\ id' = id
  BY <1>1, NothingRings DEF FindRing, ProcInv, StepOfCall
<1>3. Search(Scope[p], "keyring", Service[p]) = Named(p)
  <2>1. \A i \in link[Scope[p]] : i \in Id /\ Matches(i, "keyring", Service[p]) = {}
    BY <1>1 DEF KernelInv, KernelTyped, ShapeOf, Matches
  <2> QED
    BY <2>1 DEF Search, Named
<1>4. CASE Named(p) = {}
  <2>1. Go(p, "add") /\ UNCHANGED <<ring, call>>
    BY <1>3, <1>4 DEF FindRing
  <2>2. pc'[p] = "add" /\ \A q \in Proc \ {p} : pc'[q] = pc[q]
    BY <1>1, <2>1 DEF Go, ProcTyped
  <2>3. HandleOf(p)'
    BY <1>2, <1>4, <2>1, <2>2 DEF HandleInv, HandleOf, RingsSame, Named
  <2> QED
    BY <1>2, <2>1, <2>2, <2>3, HandleFrame
<1>5. CASE Named(p) # {}
  <2>1. PICK i \in Named(p) : ring' = [ring EXCEPT ![p] = i]
    BY <1>3, <1>5 DEF FindRing
  <2>2. Finish(p, Ok)
    BY <1>3, <1>5 DEF FindRing
  <2> QED
    BY <1>2, <2>1, <2>2, OpenedHandle DEF RingsSame
<1> QED
  BY <1>4, <1>5

LEMMA AddHandle == ASSUME TypeInv, HandleInv, SessionsApart, NEW p \in Proc, Add(p) PROVE HandleInv'
<1>1. KernelInv /\ ProcTyped /\ ProcInv(p) /\ \A q \in Proc : Scope[q] \in Anchor /\ Scope[q] \notin Sessions
  BY TypeInvParts, KeyctlAssumption DEF SessionsApart, Sessions
<1>2. pc[p] = "add" /\ AddTo(p) \in Anchor \cup Id
  BY AddToRing DEF Add
<1>3. PICK n \in Id :
        /\ IF call[p] = Opening
           THEN AddKey(AddTo(p), "keyring", Service[p], NoData, n, Free)
           ELSE AddKey(AddTo(p), "user", call[p].key, call[p].data, n, Free)
        /\ IF UsePerm[p]
           THEN /\ id' = [id EXCEPT ![p] = n]
                /\ Go(p, "setperm")
                /\ UNCHANGED <<ring, call, result>>
           ELSE /\ ring' = IF call[p] = Opening THEN [ring EXCEPT ![p] = n] ELSE ring
                /\ Finish(p, Ok)
                /\ UNCHANGED id
  BY DEF Add
<1>4. call[p] # Opening \/ UsePerm[p] => RingsSame
  <2>1. CASE call[p] # Opening
    BY <1>1, <1>2, <1>3, <2>1, AddKeyRings DEF RingsSame, Named
  <2>2. CASE call[p] = Opening /\ UsePerm[p]
    <3>1. AddTo(p) \in Sessions
      BY <2>2 DEF AddTo, Sessions
    <3> QED
      BY <1>1, <1>2, <1>3, <2>2, <3>1, AddKeyRings DEF RingsSame, Named
  <2> QED
    BY <2>1, <2>2
<1>5. CASE UsePerm[p]
  <2>1. /\ pc'[p] = "setperm" /\ UNCHANGED <<ring, call>>
        /\ \A q \in Proc \ {p} : pc'[q] = pc[q] /\ id'[q] = id[q]
    BY <1>1, <1>3, <1>5 DEF Go, ProcTyped
  <2>2. HandleOf(p)'
    BY <1>2, <1>4, <1>5, <2>1 DEF HandleInv, HandleOf, RingsSame, RingsOf, Named
  <2> QED
    BY <1>4, <1>5, <2>1, <2>2, HandleFrame
<1>6. CASE ~UsePerm[p] /\ call[p] # Opening
  BY <1>2, <1>3, <1>4, <1>6, FinishHandle
<1>7. CASE ~UsePerm[p] /\ call[p] = Opening
  <2>1. AddTo(p) = Scope[p] /\ AddKey(Scope[p], "keyring", Service[p], NoData, n, Free)
    BY <1>1, <1>3, <1>7 DEF AddTo, ProcInv, RingInv
  <2>2. n \in Named(p)'
    BY <1>1, <2>1, AddKeyRings DEF Named
  <2>3. Named(p) = {}
    BY <1>2, <1>7 DEF HandleInv, HandleOf
  <2>4. \A q \in Proc : Scope[q] # Scope[p] \/ Service[q] # Service[p] => Named(q)' = Named(q)
    BY <1>1, <2>1, AddKeyRings DEF Named
  <2> QED
    BY <1>3, <1>7, <2>2, <2>3, <2>4, OpenedHandle
<1> QED
  BY <1>5, <1>6, <1>7

LEMMA LinkKeyHandle == ASSUME TypeInv, HandleInv, NEW p \in Proc, LinkKey(p) PROVE HandleInv'
<1>1. KernelInv /\ ProcTyped /\ ProcInv(p) /\ \A q \in Proc : Scope[q] \in Anchor
  BY TypeInvParts, KeyctlAssumption
<1>2. /\ pc[p] = "link" /\ id[p] \in Id /\ ring[p] \in Anchor \cup Id /\ Link(ring[p], id[p])
      /\ key[id[p]] # NoKey /\ UNCHANGED <<ring, call, id>>
  BY LinkArguments DEF LinkKey
<1>3. pc'[p] = "unlink" /\ \A q \in Proc \ {p} : pc'[q] = pc[q]
  BY <1>1 DEF LinkKey, Go, ProcTyped
<1>4. CASE call[p] # Opening
  <2>1. key[id[p]].type = "user"
    BY <1>1, <1>2, <1>4 DEF ProcInv, IdInv, Through
  <2>2. RingsSame
    BY <1>1, <1>2, <2>1, LinkRings DEF RingsSame, Named
  <2>3. HandleOf(p)'
    BY <1>2, <1>3, <1>4, <2>2 DEF HandleInv, HandleOf, RingsSame, RingsOf, Named
  <2> QED
    BY <1>2, <1>3, <2>2, <2>3, HandleFrame
<1>5. CASE call[p] = Opening
  <2>1. /\ ring[p] = Scope[p] /\ key[id[p]].type = "keyring" /\ key[id[p]].desc = Service[p]
        /\ Named(p) = {} /\ Service[p] # NoService /\ \A q \in Proc \ {p} : call[q] # Opening
    BY <1>1, <1>2, <1>5 DEF ProcInv, IdInv, RingInv, Through, HandleInv, HandleOf
  <2>2. id[p] \in Named(p)'
    BY <1>1, <1>2, <2>1, LinkRings DEF Named
  <2>3. ASSUME NEW q \in Proc \ {p} PROVE HandleOf(q)'
    <3>1. CASE Scope[q] = Scope[p] /\ Service[q] = Service[p]
      <4>1. RingsOf(q) = {}
        BY <2>1, <3>1 DEF RingsOf, Named
      <4> QED
        BY <1>2, <1>3, <2>1, <4>1 DEF HandleInv, HandleOf
    <3>2. CASE Scope[q] # Scope[p] \/ Service[q] # Service[p]
      <4>1. Named(q)' = Named(q)
        BY <1>1, <1>2, <2>1, <3>2, LinkRings DEF Named
      <4> QED
        BY <1>2, <1>3, <2>1, <4>1 DEF HandleInv, HandleOf, RingsOf, Named
    <3> QED
      BY <3>1, <3>2
  <2>4. HandleOf(p)'
    BY <1>2, <1>3, <1>5, <2>1, <2>2 DEF HandleOf
  <2>5. \A q, u \in Proc : call'[q] = Opening /\ call'[u] = Opening => q = u
    BY <1>2 DEF HandleInv
  <2> QED
    BY <2>3, <2>4, <2>5 DEF HandleInv
<1> QED
  BY <1>4, <1>5

LEMMA UnlinkKeyHandle == ASSUME TypeInv, HandleInv, SessionsApart, NEW p \in Proc, UnlinkKey(p) PROVE HandleInv'
<1>1. KernelInv /\ \A q \in Proc : Scope[q] \in Anchor /\ Scope[q] # SessionOf[p]
  BY TypeInvParts, KeyctlAssumption DEF SessionsApart
<1>2. /\ pc[p] = "unlink" /\ Unlink(SessionOf[p], id[p]) /\ SessionOf[p] \in Anchor
      /\ Finish(p, Ok) /\ UNCHANGED id
      /\ ring' = IF call[p] = Opening THEN [ring EXCEPT ![p] = id[p]] ELSE ring
  BY KeyctlAssumption DEF UnlinkKey
<1>3. RingsSame
  BY <1>1, <1>2, UnlinkRings DEF RingsSame, Named
<1>4. CASE call[p] # Opening
  BY <1>2, <1>3, <1>4, FinishHandle
<1>5. CASE call[p] = Opening
  <2>1. id[p] \in Named(p)'
    BY <1>2, <1>3, <1>5 DEF HandleInv, HandleOf, RingsSame
  <2> QED
    BY <1>2, <1>3, <1>5, <2>1, OpenedHandle DEF RingsSame
<1> QED
  BY <1>4, <1>5

\* A step of a call of the interface that goes on.
LEMMA GoHandle ==
  ASSUME TypeInv, HandleInv, NEW p \in Proc, pc[p] \notin {"closed", "find"}, call[p] # Opening,
         call'[p] # Opening, NEW step, Go(p, step), UNCHANGED ring, RingsSame,
         \A q \in Proc \ {p} : id'[q] = id[q] /\ call'[q] = call[q]
  PROVE  HandleInv'
<1>1. ProcTyped
  BY TypeInvParts
<1>2. \A q \in Proc \ {p} : pc'[q] = pc[q]
  BY <1>1 DEF Go, ProcTyped
<1>3. HandleOf(p)'
  BY DEF HandleInv, HandleOf, RingsSame, RingsOf, Named
<1> QED
  BY <1>2, <1>3, HandleFrame

LEMMA StepHandle == ASSUME TypeInv, HandleInv, SessionsApart, NEW p \in Proc, Step(p) PROVE HandleInv'
<1>1. KernelInv /\ ProcTyped /\ ProcInv(p) /\ \A q \in Proc : Scope[q] \in Anchor
  BY TypeInvParts, KeyctlAssumption
<1>2. CASE FindRing(p) \/ Add(p) \/ LinkKey(p) \/ UnlinkKey(p)
  BY <1>2, FindRingHandle, AddHandle, LinkKeyHandle, UnlinkKeyHandle
<1>3. CASE SetPermission(p)
  <2>1. /\ pc[p] = "setperm" /\ link' = link /\ key' = [key EXCEPT ![id[p]].perm = TRUE]
        /\ id[p] \in Id /\ key[id[p]] \in KeyRecord /\ UNCHANGED <<ring, call, id>>
        /\ pc'[p] = "link" /\ \A q \in Proc \ {p} : pc'[q] = pc[q]
    BY <1>1, <1>3 DEF SetPermission, SetPerm, Go, ProcTyped, ProcInv, IdInv, Through, KernelInv, KernelTyped
  <2>2. /\ key'[id[p]].type = key[id[p]].type /\ key'[id[p]].desc = key[id[p]].desc
        /\ \A i \in Id \ {id[p]} : key'[i] = key[i]
    BY <1>1, <2>1 DEF KernelInv, KernelTyped, KeyRecord
  <2>3. \A q \in Proc : link[Scope[q]] \subseteq Id
    BY <1>1 DEF KernelInv, KernelTyped
  <2>4. RingsSame
    BY <2>1, <2>2, <2>3 DEF RingsSame, Named, Matches
  <2>5. HandleOf(p)'
    BY <2>1, <2>4 DEF HandleInv, HandleOf, RingsSame, RingsOf, Named
  <2> QED
    BY <2>1, <2>4, <2>5, HandleFrame
<1>4. CASE SetFails(p) \/ SearchMisses(p) \/ ReadGone(p) \/ ReadItem(p) \/ Described(p)
  <2>1. /\ pc[p] \notin {"closed", "idle", "return"} /\ UNCHANGED <<key, link, ring, id>>
        /\ \E r : Finish(p, r) /\ (r # Ok \/ pc[p] \in {"search", "read", "describe"})
    BY <1>4 DEF SetFails, SearchMisses, ReadGone, ReadItem, Described, Ok, Error
  <2>2. pc[p] \in {"search", "read", "describe"} => call[p] # Opening
    BY <1>1, OpeningIsNoCall DEF ProcInv, StepOfCall
  <2> QED
    BY <2>1, <2>2, NothingRings, FinishHandle
<1>5. CASE SearchFinds(p) \/ ReadRing(p)
  <2>1. /\ pc[p] \in {"search", "read"} /\ UNCHANGED <<key, link, ring, call>>
        /\ \E step : Go(p, step)
        /\ \A q \in Proc \ {p} : id'[q] = id[q]
    BY <1>1, <1>5 DEF SearchFinds, ReadRing, ProcTyped
  <2>2. call[p] # Opening
    BY <1>1, <2>1, OpeningIsNoCall DEF ProcInv, StepOfCall
  <2> QED
    BY <2>1, <2>2, NothingRings, GoHandle
<1>6. CASE RemoveUnlinks(p)
  <2>1. /\ pc[p] = "remove" /\ call[p] # Opening /\ UNCHANGED <<ring, id>> /\ \E r : Finish(p, r)
    BY <1>1, <1>6, OpeningIsNoCall DEF RemoveUnlinks, ProcInv, StepOfCall
  <2>2. RingsSame
    <3>1. CASE Exists(ring[p]) /\ id[p] \in link[ring[p]]
      <4>1. ring[p] \in Anchor \cup Id /\ Unlink(ring[p], id[p]) /\ key[id[p]].type = "user"
        BY <1>1, <1>6, <2>1, <3>1 DEF RemoveUnlinks, Exists, ProcInv, IdInv, KernelInv, ShapeOf
      <4> QED
        BY <1>1, <4>1, UnlinkRings DEF RingsSame, Named
    <3>2. CASE ~(Exists(ring[p]) /\ id[p] \in link[ring[p]])
      BY <1>6, <3>2, NothingRings DEF RemoveUnlinks
    <3> QED
      BY <3>1, <3>2
  <2> QED
    BY <2>1, <2>2, FinishHandle
<1>7. CASE ReadGrows(p)
  BY <1>7 DEF ReadGrows, HandleInv, HandleOf, RingsOf, Named, Matches
<1>8. CASE Describe(p)
  <2>1. /\ pc[p] = "describe" /\ call[p] # Opening /\ UNCHANGED <<key, link, ring, id>>
        /\ Finish(p, Error) \/ UNCHANGED <<call, pc>>
    BY <1>1, <1>8, OpeningIsNoCall DEF Describe, ProcInv, StepOfCall
  <2>2. CASE UNCHANGED <<call, pc>>
    BY <2>1, <2>2 DEF HandleInv, HandleOf, RingsOf, Named, Matches
  <2>3. CASE Finish(p, Error)
    BY <2>1, <2>3, NothingRings, FinishHandle
  <2> QED
    BY <2>1, <2>2, <2>3
<1>9. CASE Return(p)
  <2>1. /\ pc[p] = "return" /\ Go(p, "idle") /\ UNCHANGED <<key, link, ring>> /\ call'[p] = Idle
        /\ \A q \in Proc \ {p} : id'[q] = id[q] /\ call'[q] = call[q]
    BY <1>1, <1>9 DEF Return, Forget, ProcTyped
  <2>2. call[p] # Opening
    BY <1>1, <2>1 DEF ProcInv, StepOfCall
  <2> QED
    BY <2>1, <2>2, OpeningIsNoCall, NothingRings, GoHandle
<1> QED
  BY <1>2, <1>3, <1>4, <1>5, <1>6, <1>7, <1>8, <1>9 DEF Step

LEMMA NextHandle ==
  ASSUME SessionsApart, OpenAlone \/ Alone PROVE TypeInv /\ HandleInv /\ [Next]_vars => HandleInv'
<1> SUFFICES ASSUME TypeInv, HandleInv, [Next]_vars PROVE HandleInv'
  OBVIOUS
<1>1. KernelInv /\ ProcTyped /\ (\A q \in Proc : ProcInv(q) /\ Scope[q] \in Anchor)
  BY TypeInvParts, KeyctlAssumption
<1>2. CASE UNCHANGED vars
  BY <1>2 DEF vars, procVars, HandleInv, HandleOf, RingsOf, Named, Matches
<1>3. ASSUME NEW p \in Proc, Open(p) \/ Step(p) PROVE HandleInv'
  BY <1>3, OpenHandle, StepHandle
<1>4. ASSUME NEW p \in Proc, Call(p) PROVE HandleInv'
  <2>1. PICK cl \in Calls : call' = [call EXCEPT ![p] = cl] /\ Go(p, FirstStep(cl.op))
    BY <1>4 DEF Call
  <2>2. /\ pc[p] = "idle" /\ call[p] # Opening /\ call'[p] # Opening /\ UNCHANGED <<key, link, ring>>
        /\ \A q \in Proc \ {p} : id'[q] = id[q] /\ call'[q] = call[q]
    BY <1>1, <1>4, <2>1, OpeningIsNoCall DEF Call, ProcTyped, ProcInv, StepOfCall
  <2> QED
    BY <2>1, <2>2, NothingRings, GoHandle
<1>5. ASSUME NEW p \in Proc, SyscallError(p) PROVE HandleInv'
  <2>1. /\ pc[p] \notin {"closed", "idle", "return"} /\ UNCHANGED <<key, link, ring, id>>
        /\ \E r : r # Ok /\ Finish(p, r)
    BY <1>5 DEF SyscallError, Ok, Error, NotFound
  <2> QED
    BY <2>1, NothingRings, FinishHandle
<1>6. ASSUME NEW p \in Proc, Crash(p) PROVE HandleInv'
  <2>1. /\ pc'[p] = "closed" /\ call'[p] = Idle /\ UNCHANGED <<key, link>>
        /\ \A q \in Proc \ {p} : /\ pc'[q] = pc[q] /\ call'[q] = call[q]
                                /\ ring'[q] = ring[q] /\ id'[q] = id[q]
    BY <1>1, <1>6 DEF Crash, Forget, Go, ProcTyped
  <2>2. HandleOf(p)'
    BY <2>1, OpeningIsNoCall DEF HandleOf
  <2> QED
    BY <2>1, <2>2, OpeningIsNoCall, NothingRings, HandleFrame
<1>7. ASSUME NEW p \in Proc, NEW k \in Strangers,
             StrangerAdds(SessionOf[p], k) \/ StrangerRemoves(SessionOf[p], k)
      PROVE  HandleInv'
  <2>1. UNCHANGED <<pc, call, ring, id>> /\ SessionOf[p] \in Anchor
    BY <1>7, KeyctlAssumption DEF StrangerAdds, StrangerRemoves, procVars
  <2>2. RingsSame
    <3>1. CASE StrangerAdds(SessionOf[p], k)
      BY <1>1, <2>1, <3>1, AddKeyRings DEF StrangerAdds, RingsSame, Named
    <3>2. CASE StrangerRemoves(SessionOf[p], k)
      BY <1>1, <2>1, <3>2, UnlinkRings DEF StrangerRemoves, RingsSame, Named, SessionsApart
    <3> QED
      BY <1>7, <3>1, <3>2
  <2> QED
    BY <2>1, <2>2 DEF HandleInv, HandleOf, RingsSame, RingsOf, Named
<1> QED
  BY <1>2, <1>3, <1>4, <1>5, <1>6, <1>7 DEF Next

\* A process that has opened a service holds the keyring that every search for
\* that service finds (keyctl.go:71-83), whatever fails and whoever dies, if no
\* two processes are in Open together and none keeps its items in a session.
THEOREM HandleIsRingHolds == SessionsApart /\ OpenAlone => (Spec => []HandleIsRing)
<1> SUFFICES ASSUME SessionsApart, OpenAlone PROVE Spec => []HandleIsRing
  OBVIOUS
<1>1. Init => HandleInv
  BY OpeningIsNoCall DEF Init, HandleInv, HandleOf
<1>2. HandleInv => HandleIsRing
  BY DEF HandleInv, HandleOf, HandleIsRing
<1> QED
  BY <1>1, <1>2, InitTypeInv, NextTypeInv, NextHandle, PTL DEF Spec

-----------------------------------------------------------------------------
\* No system call fails, no process dies, and nobody else uses the sessions.
Undisturbed == Faults = {} /\ Strangers = {}

\* The sessions get nothing new, and who drops a key has it out of its session.
LEMMA CleanFrame ==
  ASSUME SessionClean, \A s \in Sessions : link'[s] \subseteq link[s],
         \A q \in Proc : pc[q] \in Through =>
           (pc'[q] \in Through /\ id'[q] = id[q]) \/ id[q] \notin link'[SessionOf[q]]
  PROVE  SessionClean'
<1> SUFFICES ASSUME NEW p \in Proc, NEW i \in link'[SessionOf[p]]
             PROVE  \E q \in Proc : SessionOf[q] = SessionOf[p] /\ id'[q] = i /\ pc'[q] \in Through
  BY DEF SessionClean, Through
<1>1. PICK q \in Proc : SessionOf[q] = SessionOf[p] /\ id[q] = i /\ pc[q] \in Through
  BY SessionAnchors DEF SessionClean, Through
<1> QED
  BY <1>1

\* A step of p that has no key on its way.
LEMMA AsideClean ==
  ASSUME TypeInv, SessionClean, NEW p \in Proc, pc[p] \notin Through,
         \A s \in Sessions : link'[s] \subseteq link[s],
         \A q \in Proc \ {p} : pc'[q] = pc[q] /\ id'[q] = id[q]
  PROVE  SessionClean'
  BY CleanFrame

LEMMA AddClean ==
  ASSUME TypeInv, SessionClean, SessionsApart, NEW p \in Proc, Add(p) PROVE SessionClean'
<1>1. KernelInv /\ ProcTyped /\ ProcInv(p)
  BY TypeInvParts
<1>2. pc[p] = "add" /\ pc[p] \notin Through /\ AddTo(p) \in Anchor \cup Id
  BY AddToRing DEF Add, Through
<1>3. PICK n \in Id :
        /\ IF call[p] = Opening
           THEN AddKey(AddTo(p), "keyring", Service[p], NoData, n, Free)
           ELSE AddKey(AddTo(p), "user", call[p].key, call[p].data, n, Free)
        /\ IF UsePerm[p]
           THEN id' = [id EXCEPT ![p] = n] /\ Go(p, "setperm")
           ELSE Finish(p, Ok) /\ UNCHANGED id
  BY DEF Add
<1>4. \A q \in Proc \ {p} : pc'[q] = pc[q] /\ id'[q] = id[q]
  BY <1>1, <1>3 DEF Finish, Go, ProcTyped
<1>5. /\ link'[AddTo(p)] \subseteq link[AddTo(p)] \cup {n}
      /\ \A t \in (Anchor \cup Id) \ {AddTo(p)} : link'[t] \subseteq link[t]
  <2>1. AddTo(p) \in Id => call[p] # Opening /\ key[AddTo(p)].type = "keyring"
    BY <1>2, AddToRing DEF Add
  <2>2. CASE call[p] = Opening
    <3>1. [type |-> "keyring", desc |-> Service[p], data |-> NoData, perm |-> FALSE] \in KeyRecord
      BY DEF KeyRecord
    <3> QED
      BY <1>1, <1>2, <1>3, <2>1, <2>2, <3>1, AddKeyEffect DEF Add
  <2>3. CASE call[p] # Opening
    <3>1. [type |-> "user", desc |-> call[p].key, data |-> call[p].data, perm |-> FALSE] \in KeyRecord
      BY <1>2, <2>3, SetStepIsSet DEF KeyRecord
    <3> QED
      BY <1>1, <1>2, <1>3, <2>1, <2>3, <3>1, AddKeyEffect DEF Add
  <2> QED
    BY <2>2, <2>3
<1>6. CASE ~UsePerm[p]
  <2>1. AddTo(p) \notin Sessions
    BY <1>2, <1>6, RingApart DEF AddTo
  <2>2. \A s \in Sessions : link'[s] \subseteq link[s]
    BY <1>5, <2>1, SessionAnchors
  <2> QED
    BY <1>2, <1>4, <2>2, AsideClean
<1>7. CASE UsePerm[p]
  <2>1. AddTo(p) = SessionOf[p] /\ id'[p] = n /\ pc'[p] \in Through
    BY <1>1, <1>3, <1>7 DEF AddTo, Go, ProcTyped, Through
  <2> SUFFICES ASSUME NEW u \in Proc, NEW i \in link'[SessionOf[u]]
               PROVE  \E q \in Proc : SessionOf[q] = SessionOf[u] /\ id'[q] = i /\ pc'[q] \in Through
    BY DEF SessionClean, Through
  <2>2. CASE SessionOf[u] = SessionOf[p] /\ i = n
    BY <2>1, <2>2
  <2>3. CASE i \in link[SessionOf[u]]
    <3>1. PICK q \in Proc : SessionOf[q] = SessionOf[u] /\ id[q] = i /\ pc[q] \in Through
      BY <2>3 DEF SessionClean, Through
    <3> QED
      BY <1>2, <1>4, <3>1
  <2>4. SessionOf[u] \in Anchor
    BY KeyctlAssumption
  <2> QED
    BY <1>5, <2>1, <2>2, <2>3, <2>4
<1> QED
  BY <1>6, <1>7

\* The keyring of a process that is linking is still there.
LEMMA RingStays ==
  ASSUME TypeInv, HandleInv, NEW p \in Proc, pc[p] \notin {"closed", "find"} PROVE Exists(ring[p])
<1>1. KernelInv /\ ProcInv(p) /\ Scope[p] \in Anchor
  BY TypeInvParts, KeyctlAssumption
<1>2. CASE call[p] = Opening
  BY <1>1, <1>2 DEF ProcInv, RingInv, Exists
<1>3. CASE call[p] # Opening
  <2>1. ring[p] \in RingsOf(p)
    BY <1>3 DEF HandleInv, HandleOf
  <2> QED
    BY <1>1, <2>1 DEF RingsOf, Matches, Exists, KernelInv, KernelTyped, ShapeOf
<1> QED
  BY <1>2, <1>3

LEMMA StepClean ==
  ASSUME TypeInv, HandleInv, SessionClean, SessionsApart, NEW p \in Proc, Step(p)
  PROVE  SessionClean'
<1>1. KernelInv /\ ProcTyped /\ ProcInv(p) /\ Sessions \subseteq Anchor
  BY TypeInvParts, SessionAnchors
<1>2. CASE Add(p)
  BY <1>2, AddClean
<1>3. CASE SetPermission(p) \/ LinkKey(p)
  <2>1. id' = id /\ pc[p] \in Through /\ pc'[p] \in Through /\ \A q \in Proc \ {p} : pc'[q] = pc[q]
    BY <1>1, <1>3 DEF SetPermission, LinkKey, Go, ProcTyped, Through
  <2>2. \A s \in Sessions : link'[s] \subseteq link[s]
    <3>1. CASE SetPermission(p)
      BY <3>1 DEF SetPermission, SetPerm
    <3>2. CASE LinkKey(p)
      <4>1. /\ id[p] \in Id /\ ring[p] \in Anchor \cup Id /\ ring[p] \notin Sessions /\ Link(ring[p], id[p])
        BY <3>2, LinkArguments, RingApart DEF LinkKey
      <4> QED
        BY <1>1, <4>1, LinkEffect
    <3> QED
      BY <1>3, <3>1, <3>2
  <2> QED
    BY <2>1, <2>2, CleanFrame
<1>4. CASE UnlinkKey(p)
  <2>1. Unlink(SessionOf[p], id[p]) /\ SessionOf[p] \in Anchor /\ id' = id /\ Finish(p, Ok)
    BY <1>4, KeyctlAssumption DEF UnlinkKey
  <2>2. \A s \in Sessions : link'[s] \subseteq link[s]
    BY <1>1, <2>1, UnlinkEffect
  <2>3. id[p] \notin link'[SessionOf[p]]
    <3>1. link'[SessionOf[p]] = link[SessionOf[p]] \ {id[p]}
      BY <1>1, <2>1 DEF Unlink, Settle, KernelInv, KernelTyped
    <3> QED
      BY <3>1
  <2>4. \A q \in Proc \ {p} : pc'[q] = pc[q]
    BY <1>1, <2>1 DEF Finish, Go, ProcTyped
  <2> QED
    BY <2>1, <2>2, <2>3, <2>4, CleanFrame
<1>5. CASE SetFails(p)
  <2>1. /\ UNCHANGED <<key, link, id>> /\ Finish(p, Error)
        /\ pc[p] \in {"add", "setperm", "link", "unlink"}
    BY <1>5 DEF SetFails
  <2>2. \A q \in Proc \ {p} : pc'[q] = pc[q]
    BY <1>1, <2>1 DEF Finish, Go, ProcTyped
  <2>3. pc[p] \in Through => id[p] \notin link'[SessionOf[p]]
    <3>1. SessionOf[p] \in Anchor \cup Id
      BY KeyctlAssumption
    <3>2. key[id[p]] = NoKey => id[p] \notin link[SessionOf[p]]
      BY <1>1, <3>1 DEF KernelInv, ShapeOf
    <3>3. Exists(ring[p])
      BY <2>1, RingStays
    <3> QED
      BY <1>5, <2>1, <3>2, <3>3 DEF SetFails, Through
  <2> QED
    BY <2>1, <2>2, <2>3, CleanFrame
<1>6. CASE RemoveUnlinks(p)
  <2>1. pc[p] = "remove" /\ id' = id /\ \E r : Finish(p, r)
    BY <1>6 DEF RemoveUnlinks
  <2>2. \A s \in Sessions : link'[s] \subseteq link[s]
    <3>1. CASE Exists(ring[p]) /\ id[p] \in link[ring[p]]
      <4>1. ring[p] \in Anchor \cup Id /\ Unlink(ring[p], id[p])
        BY <1>6, <3>1 DEF RemoveUnlinks, Exists
      <4> QED
        BY <1>1, <4>1, UnlinkEffect
    <3>2. CASE ~(Exists(ring[p]) /\ id[p] \in link[ring[p]])
      BY <1>6, <3>2 DEF RemoveUnlinks
    <3> QED
      BY <3>1, <3>2
  <2>3. \A q \in Proc \ {p} : pc'[q] = pc[q]
    BY <1>1, <2>1 DEF Finish, Go, ProcTyped
  <2> QED
    BY <2>1, <2>2, <2>3, AsideClean DEF Through
<1>7. CASE FindRing(p) \/ SearchMisses(p) \/ SearchFinds(p) \/ ReadGone(p) \/ ReadGrows(p)
           \/ ReadItem(p) \/ ReadRing(p) \/ Describe(p) \/ Described(p) \/ Return(p)
  <2>1. link' = link /\ pc[p] \notin Through
    BY <1>7 DEF FindRing, SearchMisses, SearchFinds, ReadGone, ReadGrows, ReadItem, ReadRing,
                Describe, Described, Return, Through
  <2>2. \A q \in Proc \ {p} : id'[q] = id[q]
    BY <1>1, <1>7 DEF FindRing, SearchMisses, SearchFinds, ReadGone, ReadGrows, ReadItem, ReadRing,
                      Describe, Described, Return, Forget, ProcTyped
  <2>3. pc' = pc \/ \E step : Go(p, step)
    BY <1>7, FinishGoes DEF FindRing, SearchMisses, SearchFinds, ReadGone, ReadGrows, ReadItem,
                            ReadRing, Describe, Described, Return
  <2>4. \A q \in Proc \ {p} : pc'[q] = pc[q]
    BY <1>1, <2>3 DEF Go, ProcTyped
  <2> QED
    BY <2>1, <2>2, <2>4, AsideClean
<1> QED
  BY <1>2, <1>3, <1>4, <1>5, <1>6, <1>7 DEF Step

LEMMA NextClean ==
  ASSUME SessionsApart, Undisturbed
  PROVE  TypeInv /\ HandleInv /\ SessionClean /\ [Next]_vars => SessionClean'
<1> SUFFICES ASSUME TypeInv, HandleInv, SessionClean, [Next]_vars PROVE SessionClean'
  OBVIOUS
<1>1. CASE UNCHANGED vars
  BY <1>1 DEF vars, procVars, SessionClean
<1>2. ASSUME NEW p \in Proc, Open(p) \/ Call(p) PROVE SessionClean'
  <2>1. link' = link /\ pc[p] \notin Through
    BY <1>2 DEF Open, Call, Through
  <2>2. \A q \in Proc \ {p} : pc'[q] = pc[q] /\ id'[q] = id[q]
    BY <1>2, TypeInvParts DEF Open, Call, Go, ProcTyped
  <2> QED
    BY <2>1, <2>2, AsideClean
<1>3. ASSUME NEW p \in Proc, Step(p) PROVE SessionClean'
  BY <1>3, StepClean
<1>4. \A p \in Proc : ~SyscallError(p) /\ ~Crash(p)
  BY DEF Undisturbed, SyscallError, Crash
<1> QED
  BY <1>1, <1>2, <1>3, <1>4 DEF Next, Undisturbed

\* Without failures a session holds only what a call of that session is taking
\* through (keyctl.go:144-148, 209-213): every Set and every Open that puts a key
\* there takes it out again, or finds that another Set of the name has.
THEOREM SessionCleanHolds ==
  SessionsApart /\ OpenAlone /\ Undisturbed => (Spec => []SessionClean)
<1> SUFFICES ASSUME SessionsApart, OpenAlone, Undisturbed PROVE Spec => []SessionClean
  OBVIOUS
<1>1. Init => HandleInv
  BY OpeningIsNoCall DEF Init, HandleInv, HandleOf
<1>2. Init => SessionClean
  BY SessionAnchors DEF Init, SessionClean
<1> QED
  BY <1>1, <1>2, InitTypeInv, NextTypeInv, NextHandle, NextClean, PTL DEF Spec

-----------------------------------------------------------------------------
\* Processes that take their keys through a session have one each, and no two
\* keep their items in one keyring.
OwnSessions == \A p, q \in Proc : p # q /\ UsePerm[p] /\ UsePerm[q] => SessionOf[p] # SessionOf[q]
OwnKeyrings == \A p, q \in Proc : p # q => Scope[p] # Scope[q] \/ Service[p] # Service[q]

\* What q keeps in its scope: its items, or the keyring of its service.
Mine(q, i) == IF Service[q] = NoService
              THEN key[i].type = "user"
              ELSE key[i].type = "keyring" /\ key[i].desc = Service[q]

\* The keys that are q's own, and with them those that its keyrings link.
Top(q) == (IF UsePerm[q] THEN link[SessionOf[q]] ELSE {})
            \cup {i \in link[Scope[q]] : Mine(q, i)}
            \cup ({ring[q]} \cap Id)
            \cup (IF pc[q] \in Through THEN {id[q]} ELSE {})

Held(q) == Top(q) \cup UNION {link[i] : i \in Top(q)}

HoldApart == \A p, q \in Proc : p # q => Held(p) \cap Held(q) = {}

\* A key that nothing reaches is no more.
AliveInv == \A i \in Id : key[i] # NoKey => i \in Alive(link)

\* A process that has opened a service holds a named keyring, others the scope's.
HomeOf(q) ==
  /\ call[q] = Opening => Service[q] # NoService
  /\ pc[q] # "closed" /\ call[q] # Opening => (ring[q] \in Id <=> Service[q] # NoService)

HomeInv == \A q \in Proc : HomeOf(q)

\* The items in the keyring of q.
ItemKeys(q) == {i \in link[ring[q]] : key[i].type = "user"}

\* The key is what the Set of q has given, or another program has put in its place.
Given(q, i) == \/ key[i].data = call[q].data
               \/ call[q].key \in Strangers /\ key[i].data = Stranger

\* How far a Set has come.  What it leaves in another program's words has the
\* permissions of a key that came through a session.
SetOf(q) ==
  call[q].op = "Set" =>
    /\ pc[q] \in Through /\ key[id[q]] # NoKey => Given(q, id[q])
    /\ pc[q] = "unlink" => id[q] \in link[ring[q]]
    /\ pc[q] = "return" /\ result[q] = Ok =>
         \E i \in ItemKeys(q) : /\ key[i].desc = call[q].key /\ Given(q, i)
                                /\ key[i].perm \/ key[i].data = call[q].data

SetInv == \A q \in Proc : SetOf(q)

LEMMA TopIds ==
  ASSUME TypeInv, NEW q \in Proc
  PROVE  Top(q) \subseteq Id /\ Held(q) \subseteq Id
<1>1. KernelInv /\ ProcInv(q) /\ SessionOf[q] \in Anchor /\ Scope[q] \in Anchor
  BY TypeInvParts, KeyctlAssumption
<1>2. \A r \in Anchor \cup Id : link[r] \subseteq Id
  BY <1>1 DEF KernelInv, KernelTyped
<1>3. Top(q) \subseteq Id
  BY <1>1, <1>2 DEF Top, ProcInv, IdInv, Through
<1> QED
  BY <1>2, <1>3 DEF Held

\* What a held key links is held.
LEMMA HeldLinks ==
  ASSUME TypeInv, NEW q \in Proc, NEW i \in Held(q)
  PROVE  link[i] \subseteq Held(q)
<1>1. KernelInv /\ Top(q) \subseteq Id /\ i \in Id
  BY TypeInvParts, TopIds
<1>2. CASE i \in Top(q)
  BY <1>2 DEF Held
<1>3. CASE i \notin Top(q)
  <2>1. PICK t \in Top(q) : i \in link[t]
    BY <1>3 DEF Held
  <2>2. key[i].type = "user"
    BY <1>1, <2>1 DEF KernelInv, ShapeOf
  <2>3. link[i] = {}
    BY <1>1, <2>2 DEF KernelInv, ShapeOf
  <2> QED
    BY <2>3
<1> QED
  BY <1>2, <1>3

\* A serial number that is free is nobody's.
LEMMA FreeIsUnheld ==
  ASSUME TypeInv, NEW n \in Free, NEW q \in Proc
  PROVE  n \notin Held(q) /\ link[n] = {} /\ \A r \in Anchor \cup Id : n \notin link[r]
<1>1. KernelInv /\ Top(q) \subseteq Id /\ SessionOf[q] \in Anchor /\ Scope[q] \in Anchor
  BY TypeInvParts, TopIds, KeyctlAssumption
<1>2. n \in Id /\ key[n] = NoKey /\ n # ring[q] /\ n # id[q]
  BY DEF Free
<1>3. link[n] = {} /\ \A r \in Anchor \cup Id : n \notin link[r]
  BY <1>1, <1>2 DEF KernelInv, ShapeOf
<1> QED
  BY <1>1, <1>2, <1>3 DEF Held, Top

\* What q keeps in its scope stays of its kind.
LEMMA MineStays ==
  ASSUME TypeInv, KeysEvolve, NEW q \in Proc, NEW r \in Anchor \cup Id, NEW i \in link[r],
         key'[i] # NoKey, Mine(q, i)'
  PROVE  Mine(q, i)
<1>1. i \in Id /\ i \notin Free
  BY TypeInvParts, FreeIsUnheld DEF KernelInv, KernelTyped
<1>2. key'[i].type = key[i].type /\ key'[i].desc = key[i].desc
  BY <1>1 DEF KeysEvolve
<1> QED
  BY <1>2 DEF Mine

\* What a step may add to the keys of q.
LEMMA HeldFrame ==
  ASSUME TypeInv, TypeInv', KeysEvolve, NEW q \in Proc, NEW X \in SUBSET Id,
         UsePerm[q] => link'[SessionOf[q]] \subseteq link[SessionOf[q]] \cup X,
         \A i \in link'[Scope[q]] : Mine(q, i)' => i \in link[Scope[q]] \cup X,
         ring'[q] \in Id => ring'[q] \in Held(q) \cup X,
         pc'[q] \in Through => id'[q] \in Held(q) \cup X,
         \A i \in Held(q) \cup X : link'[i] \subseteq Held(q) \cup X
  PROVE  Held(q)' \subseteq Held(q) \cup X
<1>1. Scope[q] \in Anchor /\ KernelInv'
  BY TypeInvParts, TypeInvNext, KeyctlAssumption DEF TypeInv, TypeOK, KernelInv, KernelTyped
<1>2. ASSUME NEW i \in link'[Scope[q]], Mine(q, i)' PROVE i \in Held(q) \cup X
  <2>1. key'[i] # NoKey
    BY <1>1, <1>2 DEF KernelInv, ShapeOf
  <2> QED
    BY <1>1, <1>2, <2>1, MineStays DEF Held, Top
<1>3. Top(q)' \subseteq Held(q) \cup X
  BY <1>2 DEF Top, Held
<1> QED
  BY <1>3 DEF Held

\* It is enough that p takes nothing of the others and they take nothing.
LEMMA ApartFrame ==
  ASSUME HoldApart, NEW p \in Proc, NEW X,
         Held(p)' \subseteq Held(p) \cup X,
         \A q \in Proc \ {p} : X \cap Held(q) = {} /\ Held(q)' \subseteq Held(q)
  PROVE  HoldApart'
<1> SUFFICES ASSUME NEW q \in Proc, NEW u \in Proc, q # u, NEW i, i \in Held(q)', i \in Held(u)'
             PROVE  FALSE
  BY DEF HoldApart
<1>1. CASE q # p /\ u # p
  BY <1>1 DEF HoldApart
<1>2. CASE q = p
  BY <1>2 DEF HoldApart
<1>3. CASE u = p
  BY <1>3 DEF HoldApart
<1> QED
  BY <1>1, <1>2, <1>3

\* A step that links nothing new.
LEMMA QuietHeld ==
  ASSUME TypeInv, TypeInv', KeysEvolve, NEW q \in Proc,
         \A r \in Anchor \cup Id : link'[r] \subseteq link[r],
         ring'[q] \in Id => ring'[q] \in Held(q),
         pc'[q] \in Through => id'[q] \in Held(q)
  PROVE  Held(q)' \subseteq Held(q)
<1>1. SessionOf[q] \in Anchor /\ Scope[q] \in Anchor /\ Held(q) \subseteq Id
  BY KeyctlAssumption, TopIds
<1>2. \A i \in Held(q) : link'[i] \subseteq Held(q)
  BY <1>1, HeldLinks
<1> QED
  BY <1>1, <1>2, HeldFrame

LEMMA HeldOwn ==
  ASSUME TypeInv, NEW q \in Proc
  PROVE  /\ ring[q] \in Id => ring[q] \in Held(q)
         /\ pc[q] \in Through => id[q] \in Held(q)
         /\ UsePerm[q] => link[SessionOf[q]] \subseteq Held(q)
         /\ \A i \in link[Scope[q]] : Mine(q, i) => i \in Held(q)
  BY DEF Held, Top

LEMMA QuietApart ==
  ASSUME TypeInv, TypeInv', HoldApart, KeysEvolve, NEW p \in Proc,
         \A r \in Anchor \cup Id : link'[r] \subseteq link[r],
         \A q \in Proc \ {p} : ring'[q] = ring[q] /\ (pc'[q] \in Through => pc'[q] = pc[q] /\ id'[q] = id[q]),
         ring'[p] \in Id => ring'[p] \in Held(p),
         pc'[p] \in Through => id'[p] \in Held(p)
  PROVE  HoldApart'
<1> DEFINE X == {}
<1>1. ASSUME NEW q \in Proc \ {p} PROVE X \cap Held(q) = {} /\ Held(q)' \subseteq Held(q)
  BY <1>1, HeldOwn, QuietHeld
<1>2. Held(p)' \subseteq Held(p) \cup X
  BY QuietHeld
<1> HIDE DEF X
<1> QED
  BY <1>1, <1>2, ApartFrame

\* A step of p that links n, a fresh key or one of its own, in r.
LEMMA LinkApart ==
  ASSUME TypeInv, TypeInv', HoldApart, KeysEvolve, NEW p \in Proc, NEW r \in Anchor \cup Id,
         NEW n \in Id, n \in Free \cup Held(p), r \in Id => r \in Held(p),
         link'[r] \subseteq link[r] \cup {n},
         \A t \in (Anchor \cup Id) \ {r} : link'[t] \subseteq link[t],
         \A q \in Proc \ {p} : /\ UsePerm[q] => r # SessionOf[q]
                               /\ r = Scope[q] /\ n \in link'[r] => ~Mine(q, n)',
         \A q \in Proc \ {p} : ring'[q] = ring[q] /\ (pc'[q] \in Through => pc'[q] = pc[q] /\ id'[q] = id[q]),
         ring'[p] \in Id => ring'[p] \in Held(p) \cup {n},
         pc'[p] \in Through => id'[p] \in Held(p) \cup {n}
  PROVE  HoldApart'
<1>1. \A q \in Proc : SessionOf[q] \in Anchor /\ Scope[q] \in Anchor
  BY KeyctlAssumption
<1>2. \A q \in Proc \ {p} : n \notin Held(q)
  BY FreeIsUnheld DEF HoldApart
<1>3. ASSUME NEW q \in Proc \ {p} PROVE Held(q)' \subseteq Held(q)
  <2>1. Held(q) \subseteq Id /\ r \notin Held(q) \cap Id
    BY TopIds DEF HoldApart
  <2>2. \A i \in Held(q) : link'[i] \subseteq Held(q)
    BY <2>1, HeldLinks
  <2>3. \A i \in link'[Scope[q]] : Mine(q, i)' => i \in link[Scope[q]]
    BY <1>1
  <2>4. UsePerm[q] => link'[SessionOf[q]] \subseteq link[SessionOf[q]]
    BY <1>1
  <2>5. (ring'[q] \in Id => ring'[q] \in Held(q)) /\ (pc'[q] \in Through => id'[q] \in Held(q))
    BY HeldOwn
  <2> DEFINE X == {}
  <2>6. /\ X \in SUBSET Id /\ \A i \in Held(q) \cup X : link'[i] \subseteq Held(q) \cup X
        /\ X = {}
    BY <2>2
  <2> HIDE DEF X
  <2>7. Held(q)' \subseteq Held(q) \cup X
    BY <2>3, <2>4, <2>5, <2>6, HeldFrame
  <2> QED
    BY <2>6, <2>7
<1>4. Held(p)' \subseteq Held(p) \cup {n}
  <2>1. Held(p) \subseteq Id
    BY TopIds
  <2>2. link[n] \subseteq Held(p)
    BY HeldLinks, FreeIsUnheld
  <2>3. \A i \in Held(p) \cup {n} : link'[i] \subseteq Held(p) \cup {n}
    BY <2>1, <2>2, HeldLinks
  <2>4. \A i \in link'[Scope[p]] : Mine(p, i)' => i \in link[Scope[p]] \cup {n}
    BY <1>1
  <2>5. UsePerm[p] => link'[SessionOf[p]] \subseteq link[SessionOf[p]] \cup {n}
    BY <1>1
  <2>6. {n} \in SUBSET Id
    OBVIOUS
  <2> QED
    BY <2>3, <2>4, <2>5, <2>6, HeldFrame
<1> DEFINE X == {n}
<1>5. Held(p)' \subseteq Held(p) \cup X /\ \A q \in Proc \ {p} : X \cap Held(q) = {} /\ Held(q)' \subseteq Held(q)
  BY <1>2, <1>3, <1>4
<1> HIDE DEF X
<1> QED
  BY <1>5, ApartFrame

\* What keyctl.go finds in or links to the keyring of a process that has one.
LEMMA RingHome ==
  ASSUME TypeInv, HomeInv, OwnKeyrings, NEW p \in Proc, NEW q \in Proc, p # q,
         call[p] # Idle, ring[p] = Scope[q], NEW i,
         IF call[p] = Opening THEN key'[i].type = "keyring" /\ key'[i].desc = Service[p]
                              ELSE key'[i].type = "user"
  PROVE  ~Mine(q, i)'
<1>1. ProcInv(p) /\ Scope[p] \in Anchor /\ Scope[q] \in Anchor /\ HomeOf(p)
  BY TypeInvParts, KeyctlAssumption DEF HomeInv
<1>2. Scope[p] = Scope[q] /\ ring[p] \notin Id /\ pc[p] # "closed"
  BY <1>1, KernelAssumption DEF ProcInv, RingInv, StepOfCall
<1>3. Service[p] # Service[q] /\ (call[p] # Opening => Service[p] = NoService)
  BY <1>1, <1>2 DEF HomeOf, OwnKeyrings
<1> QED
  BY <1>1, <1>3 DEF Mine, HomeOf

LEMMA AddApart ==
  ASSUME TypeInv, TypeInv', HoldApart, HomeInv, SessionsApart, OwnSessions, OwnKeyrings,
         NEW p \in Proc, Add(p)
  PROVE  HoldApart'
<1>1. KernelInv /\ ProcTyped /\ ProcInv(p) /\ KernelInv'
  BY TypeInvParts DEF TypeInv, TypeOK, KernelInv, KernelTyped
<1>2. pc[p] = "add" /\ Exists(AddTo(p)) /\ AddTo(p) \in Anchor \cup Id
      /\ (AddTo(p) \in Id => call[p] # Opening /\ key[AddTo(p)].type = "keyring")
  BY AddToRing DEF Add
<1>3. PICK n \in Id :
        /\ IF call[p] = Opening
           THEN AddKey(AddTo(p), "keyring", Service[p], NoData, n, Free)
           ELSE AddKey(AddTo(p), "user", call[p].key, call[p].data, n, Free)
        /\ IF UsePerm[p]
           THEN id' = [id EXCEPT ![p] = n] /\ Go(p, "setperm") /\ ring' = ring
           ELSE /\ ring' = IF call[p] = Opening THEN [ring EXCEPT ![p] = n] ELSE ring
                /\ Finish(p, Ok) /\ UNCHANGED id
  BY DEF Add
<1>4. /\ \A q \in Proc \ {p} : pc'[q] = pc[q] /\ id'[q] = id[q] /\ ring'[q] = ring[q]
      /\ ring'[p] \in {ring[p], n}
      /\ pc'[p] \in Through => id'[p] = n
  BY <1>1, <1>3, ThroughSteps DEF Finish, Go, ProcTyped
<1>5. /\ KeysEvolve
      /\ link'[AddTo(p)] \subseteq link[AddTo(p)] \cup {n}
      /\ \A t \in (Anchor \cup Id) \ {AddTo(p)} : link'[t] \subseteq link[t]
      /\ key'[n] # NoKey => IF call[p] = Opening THEN key'[n].type = "keyring" /\ key'[n].desc = Service[p]
                                                ELSE key'[n].type = "user"
  <2>1. CASE call[p] = Opening
    <3>1. [type |-> "keyring", desc |-> Service[p], data |-> NoData, perm |-> FALSE] \in KeyRecord
      BY DEF KeyRecord
    <3> QED
      BY <1>1, <1>2, <1>3, <2>1, <3>1, AddKeyKeeps, AddKeyEffect
  <2>2. CASE call[p] # Opening
    <3>1. [type |-> "user", desc |-> call[p].key, data |-> call[p].data, perm |-> FALSE] \in KeyRecord
      BY <1>2, <2>2, SetStepIsSet DEF KeyRecord
    <3> QED
      BY <1>1, <1>2, <1>3, <2>2, <3>1, AddKeyKeeps, AddKeyEffect
  <2> QED
    BY <2>1, <2>2
<1>6. call[p] # Idle /\ ring[p] \in {Scope[p]} \cup Id /\ Scope[p] \in Anchor /\ HomeOf(p)
  BY <1>1, <1>2, KeyctlAssumption DEF ProcInv, StepOfCall, RingInv, HomeInv
<1>7. n \in Free \cup Held(p)
  <2>1. n \in Free \/ (n \in link[AddTo(p)] /\ key[n].type = "user" /\ call[p] # Opening)
    BY <1>3 DEF AddKey, Matches
  <2>2. CASE UsePerm[p]
    BY <2>1, <2>2, HeldOwn DEF AddTo
  <2>3. CASE ~UsePerm[p] /\ ring[p] \in Id
    BY <2>1, <2>3, HeldOwn, HeldLinks DEF AddTo
  <2>4. CASE ~UsePerm[p] /\ ring[p] = Scope[p] /\ ring[p] \notin Id /\ call[p] # Opening
    <3>1. Service[p] = NoService
      BY <1>2, <1>6, <2>4 DEF HomeOf
    <3> QED
      BY <2>1, <2>4, <3>1, HeldOwn DEF AddTo, Mine
  <2> QED
    BY <1>6, <2>1, <2>2, <2>3, <2>4
<1>8. AddTo(p) \in Id => AddTo(p) \in Held(p)
  <2>1. SessionOf[p] \notin Id
    BY KeyctlAssumption, KernelAssumption
  <2> QED
    BY <2>1, HeldOwn DEF AddTo
<1>9. ASSUME NEW q \in Proc \ {p} PROVE UsePerm[q] => AddTo(p) # SessionOf[q]
  <2>1. SessionOf[q] \notin Id
    BY KeyctlAssumption, KernelAssumption
  <2> QED
    BY <1>6, <2>1 DEF AddTo, OwnSessions, SessionsApart
<1>10. ASSUME NEW q \in Proc \ {p}, AddTo(p) = Scope[q], n \in link'[AddTo(p)] PROVE ~Mine(q, n)'
  <2>1. key'[n] # NoKey
    BY <1>1, <1>2, <1>10 DEF KernelInv, ShapeOf
  <2>2. ring[p] = Scope[q]
    BY <1>10 DEF AddTo, SessionsApart
  <2> QED
    BY <1>5, <1>6, <2>1, <2>2, RingHome
<1>11. (ring'[p] \in Id => ring'[p] \in Held(p) \cup {n}) /\ (pc'[p] \in Through => id'[p] \in Held(p) \cup {n})
  BY <1>4, HeldOwn
<1> QED
  BY <1>2, <1>4, <1>5, <1>7, <1>8, <1>9, <1>10, <1>11, LinkApart

LEMMA LinkKeyApart ==
  ASSUME TypeInv, TypeInv', HoldApart, HomeInv, SessionsApart, OwnSessions, OwnKeyrings,
         NEW p \in Proc, LinkKey(p)
  PROVE  HoldApart'
<1>1. KernelInv /\ ProcTyped /\ ProcInv(p) /\ KernelInv'
  BY TypeInvParts DEF TypeInv, TypeOK, KernelInv, KernelTyped
<1>2. /\ pc[p] = "link" /\ key[id[p]] # NoKey /\ Exists(ring[p]) /\ Link(ring[p], id[p])
      /\ UNCHANGED <<ring, call, id>> /\ Go(p, "unlink")
  BY DEF LinkKey
<1>3. /\ id[p] \in Id /\ ring[p] \in Anchor \cup Id
      /\ ring[p] \in Id => key[ring[p]].type = "keyring" /\ key[id[p]].type = "user"
  BY <1>2, LinkArguments
<1>0. PICK n \in Id : n = id[p]
  BY <1>3
<1>4. /\ KeysEvolve /\ link'[ring[p]] \subseteq link[ring[p]] \cup {n}
      /\ \A t \in (Anchor \cup Id) \ {ring[p]} : link'[t] \subseteq link[t]
  BY <1>1, <1>2, <1>3, <1>0, LinkKeeps, LinkEffect
<1>5. n \in Held(p) /\ (ring[p] \in Id => ring[p] \in Held(p)) /\ call[p] # Idle
  BY <1>0, <1>1, <1>2, HeldOwn DEF Through, ProcInv, StepOfCall
<1>6. ASSUME NEW q \in Proc \ {p} PROVE ring[p] # SessionOf[q]
  BY <1>2, RingApart DEF Sessions
<1>7. ASSUME NEW q \in Proc \ {p}, ring[p] = Scope[q], n \in link'[ring[p]] PROVE ~Mine(q, n)'
  <2>1. key'[n] # NoKey
    BY <1>1, <1>3, <1>7 DEF KernelInv, ShapeOf
  <2>2. key'[n].type = key[n].type /\ key'[n].desc = key[n].desc
    BY <1>0, <1>3, <1>4, <2>1 DEF KeysEvolve, Free
  <2>3. IF call[p] = Opening THEN key[n].type = "keyring" /\ key[n].desc = Service[p]
                             ELSE key[n].type = "user"
    BY <1>0, <1>1, <1>2 DEF ProcInv, IdInv, Through
  <2> QED
    BY <1>5, <1>7, <2>2, <2>3, RingHome
<1>8. \A q \in Proc \ {p} : pc'[q] = pc[q]
  BY <1>1, <1>2 DEF Go, ProcTyped
<1> QED
  BY <1>0, <1>2, <1>3, <1>4, <1>5, <1>6, <1>7, <1>8, LinkApart

LEMMA OkIsNoError == Ok # Error /\ Ok # NotFound /\ Ok \notin {Listing(S) : S \in SUBSET Key}
                     /\ \A d : Ok # Found(d)
  BY DEF Ok, Error, NotFound, Listing, Found

\* A search for the keyring of a service finds what the scope links itself.
LEMMA SearchIsNamed ==
  ASSUME TypeInv, NEW p \in Proc, NEW i \in Search(Scope[p], "keyring", Service[p])
  PROVE  i \in Named(p) /\ i \in Id /\ i \in link[Scope[p]] /\ key[i].type = "keyring" /\ key[i].desc = Service[p]
<1>1. KernelInv /\ Scope[p] \in Anchor
  BY TypeInvParts, KeyctlAssumption
<1>2. link[Scope[p]] \subseteq Id /\ \A j \in Id : link[j] \subseteq Id
  BY <1>1 DEF KernelInv, KernelTyped
<1>3. \A j \in link[Scope[p]] : Matches(j, "keyring", Service[p]) = {}
  BY <1>1, <1>2 DEF Matches, KernelInv, ShapeOf
<1>4. i \in Matches(Scope[p], "keyring", Service[p])
  BY <1>3 DEF Search
<1> QED
  BY <1>2, <1>4 DEF Named, Matches

\* The steps of a call that put no link: what they take out, and what they keep.
QuietStep(p) == \/ FindRing(p) \/ SetPermission(p) \/ UnlinkKey(p) \/ SetFails(p) \/ SearchMisses(p)
                \/ SearchFinds(p) \/ RemoveUnlinks(p) \/ ReadGone(p) \/ ReadGrows(p) \/ ReadItem(p)
                \/ ReadRing(p) \/ Describe(p) \/ Described(p) \/ Return(p)

LEMMA QuietStepLinks ==
  ASSUME TypeInv, NEW p \in Proc, QuietStep(p)
  PROVE  KeysEvolve /\ \A r \in Anchor \cup Id : link'[r] \subseteq link[r]
<1>1. KernelInv /\ ProcTyped /\ ProcInv(p)
  BY TypeInvParts
<1>2. CASE UNCHANGED <<key, link>>
  BY <1>1, <1>2, NothingKeeps
<1>3. CASE SetPermission(p)
  <2>1. id[p] \in Id /\ key[id[p]] # NoKey /\ SetPerm(id[p])
    BY <1>1, <1>3 DEF SetPermission, ProcInv, IdInv, Through
  <2> QED
    BY <1>1, <2>1, SetPermKeeps DEF SetPerm
<1>4. CASE UnlinkKey(p)
  <2>1. SessionOf[p] \in Anchor /\ Unlink(SessionOf[p], id[p])
    BY <1>4, KeyctlAssumption DEF UnlinkKey
  <2> QED
    BY <1>1, <2>1, UnlinkKeeps, UnlinkEffect
<1>5. CASE RemoveUnlinks(p) /\ Exists(ring[p]) /\ id[p] \in link[ring[p]]
  <2>1. ring[p] \in Anchor \cup Id /\ Unlink(ring[p], id[p])
    BY <1>5 DEF RemoveUnlinks, Exists
  <2> QED
    BY <1>1, <2>1, UnlinkKeeps, UnlinkEffect
<1> QED
  BY <1>2, <1>3, <1>4, <1>5
     DEF QuietStep, FindRing, SetFails, SearchMisses, SearchFinds, RemoveUnlinks, ReadGone, ReadGrows,
         ReadItem, ReadRing, Describe, Described, Return

LEMMA QuietStepProc ==
  ASSUME TypeInv, HomeInv, NEW p \in Proc, QuietStep(p)
  PROVE  /\ \A q \in Proc \ {p} : /\ ring'[q] = ring[q] /\ pc'[q] = pc[q] /\ id'[q] = id[q]
                                 /\ call'[q] = call[q] /\ result'[q] = result[q]
         /\ ring'[p] = ring[p] \/ ring'[p] \in Held(p)
         /\ pc'[p] \in Through => id'[p] \in Held(p)
<1>1. ProcTyped /\ ProcInv(p)
  BY TypeInvParts
<1>2. \A q \in Proc \ {p} : /\ ring'[q] = ring[q] /\ id'[q] = id[q]
                            /\ pc'[q] = pc[q] /\ call'[q] = call[q] /\ result'[q] = result[q]
  BY <1>1 DEF QuietStep, FindRing, SetPermission, UnlinkKey, SetFails, SearchMisses, SearchFinds,
              RemoveUnlinks, ReadGone, ReadGrows, ReadItem, ReadRing, Describe, Described, Return,
              Forget, Finish, Go, ProcTyped
<1>3. ring'[p] = ring[p] \/ ring'[p] \in Held(p)
  <2>1. CASE FindRing(p)
    <3>1. CASE Search(Scope[p], "keyring", Service[p]) = {}
      BY <2>1, <3>1 DEF FindRing
    <3>2. CASE Search(Scope[p], "keyring", Service[p]) # {}
      <4>1. PICK i \in Search(Scope[p], "keyring", Service[p]) : ring' = [ring EXCEPT ![p] = i]
        BY <2>1, <3>2 DEF FindRing
      <4>2. call[p] = Opening
        BY <1>1, <2>1 DEF FindRing, ProcInv, StepOfCall
      <4>3. ring'[p] = i /\ i \in Named(p) /\ i \in link[Scope[p]]
            /\ key[i].type = "keyring" /\ key[i].desc = Service[p]
        BY <1>1, <4>1, SearchIsNamed DEF ProcTyped
      <4> QED
        BY <4>2, <4>3, HeldOwn DEF Mine, HomeInv, HomeOf
    <3> QED
      BY <3>1, <3>2
  <2>2. CASE UnlinkKey(p)
    BY <1>1, <2>2, HeldOwn DEF UnlinkKey, Through, ProcTyped
  <2> QED
    BY <1>1, <2>1, <2>2
       DEF QuietStep, SetPermission, SetFails, SearchMisses, SearchFinds, RemoveUnlinks, ReadGone,
           ReadGrows, ReadItem, ReadRing, Describe, Described, Return
<1>4. pc'[p] \in Through => id'[p] \in Held(p)
  <2>1. CASE SetPermission(p)
    BY <1>1, <2>1, HeldOwn DEF SetPermission, Through
  <2>2. CASE ~SetPermission(p)
    <3>1. pc' = pc \/ \E step \in {"idle", "closed", "return", "add", "read", "remove", "describe"} : Go(p, step)
      BY <2>2, FinishGoes
         DEF QuietStep, FindRing, UnlinkKey, SetFails, SearchMisses, SearchFinds, RemoveUnlinks,
             ReadGone, ReadGrows, ReadItem, ReadRing, Describe, Described, Return
    <3>2. CASE \E step \in {"idle", "closed", "return", "add", "read", "remove", "describe"} : Go(p, step)
      BY <1>1, <3>2 DEF Go, ProcTyped, Through
    <3>3. CASE pc' = pc
      <4>1. CASE pc[p] \in Through
        BY <1>1, <2>2, <3>3, <4>1
           DEF QuietStep, FindRing, UnlinkKey, SetFails, SearchMisses, SearchFinds, RemoveUnlinks,
               ReadGone, ReadGrows, ReadItem, ReadRing, Describe, Described, Return, Through,
               Finish, Go, ProcTyped
      <4> QED
        BY <3>3, <4>1
    <3> QED
      BY <3>1, <3>2, <3>3
  <2> QED
    BY <2>1, <2>2
<1> QED
  BY <1>2, <1>3, <1>4

LEMMA StrangerApart ==
  ASSUME TypeInv, TypeInv', HoldApart, SessionsApart, OwnSessions, NEW u \in Proc, NEW k \in Strangers,
         StrangerAdds(SessionOf[u], k) \/ StrangerRemoves(SessionOf[u], k)
  PROVE  HoldApart'
<1>1. KernelInv /\ SessionOf[u] \in Anchor /\ SessionOf[u] \notin Id
  BY TypeInvParts, KeyctlAssumption, KernelAssumption
<1>2. ring' = ring /\ id' = id /\ pc' = pc
  BY DEF StrangerAdds, StrangerRemoves, procVars
<1>3. CASE StrangerAdds(SessionOf[u], k) /\ Matches(SessionOf[u], "user", k) = {}
  <2>1. PICK n \in Id : AddKey(SessionOf[u], "user", k, Stranger, n, Free)
    BY <1>3 DEF StrangerAdds
  <2>2. [type |-> "user", desc |-> k, data |-> Stranger, perm |-> FALSE] \in KeyRecord
    BY KeyctlAssumption DEF KeyRecord
  <2>3. Exists(SessionOf[u])
    BY <1>1 DEF Exists
  <2>4. /\ KeysEvolve /\ link'[SessionOf[u]] \subseteq link[SessionOf[u]] \cup {n}
        /\ \A t \in (Anchor \cup Id) \ {SessionOf[u]} : link'[t] \subseteq link[t]
    BY <1>1, <2>1, <2>2, <2>3, AddKeyKeeps, AddKeyEffect
  <2>5. n \in Free
    BY <1>3, <2>1 DEF AddKey
  <2>6. PICK p \in Proc : \A q \in Proc \ {p} : UsePerm[q] => SessionOf[u] # SessionOf[q]
    <3>1. CASE \E p \in Proc : UsePerm[p] /\ SessionOf[p] = SessionOf[u]
      BY <3>1 DEF OwnSessions
    <3>2. CASE ~ \E p \in Proc : UsePerm[p] /\ SessionOf[p] = SessionOf[u]
      BY <3>2
    <3> QED
      BY <3>1, <3>2
  <2>7. \A q \in Proc : SessionOf[u] # Scope[q]
    BY DEF SessionsApart
  <2>8. (ring'[p] \in Id => ring'[p] \in Held(p) \cup {n}) /\ (pc'[p] \in Through => id'[p] \in Held(p) \cup {n})
    BY <1>2, HeldOwn
  <2> QED
    BY <1>1, <1>2, <2>4, <2>5, <2>6, <2>7, <2>8, LinkApart
<1>4. CASE StrangerRemoves(SessionOf[u], k)
  <2>1. KeysEvolve /\ \A r \in Anchor \cup Id : link'[r] \subseteq link[r]
    BY <1>1, <1>4, UnlinkKeeps, UnlinkEffect DEF StrangerRemoves
  <2>2. (ring'[u] \in Id => ring'[u] \in Held(u)) /\ (pc'[u] \in Through => id'[u] \in Held(u))
    BY <1>2, HeldOwn
  <2> QED
    BY <1>2, <2>1, <2>2, QuietApart
<1>5. CASE StrangerAdds(SessionOf[u], k) /\ Matches(SessionOf[u], "user", k) # {}
  <2>1. KeysEvolve
    <3>1. [type |-> "user", desc |-> k, data |-> Stranger, perm |-> FALSE] \in KeyRecord
      BY KeyctlAssumption DEF KeyRecord
    <3> QED
      BY <1>1, <1>5, <3>1, AddKeyKeeps DEF StrangerAdds, Exists
  <2>2. link' = link
    BY <1>1, <1>5, StrangerUpdates
  <2>3. (ring'[u] \in Id => ring'[u] \in Held(u)) /\ (pc'[u] \in Through => id'[u] \in Held(u))
    BY <1>2, HeldOwn
  <2> QED
    BY <1>2, <2>1, <2>2, <2>3, QuietApart
<1> QED
  BY <1>3, <1>4, <1>5

\* No two processes come to hold one key: each adds, links and displaces its own.
LEMMA NextApart ==
  ASSUME SessionsApart, OwnSessions, OwnKeyrings
  PROVE  TypeInv /\ HomeInv /\ HoldApart /\ [Next]_vars => HoldApart'
<1> SUFFICES ASSUME TypeInv, HomeInv, HoldApart, [Next]_vars PROVE HoldApart'
  OBVIOUS
<1>1. KernelInv /\ ProcTyped /\ TypeInv'
  BY TypeInvParts, NextTypeInv
<1>2. CASE UNCHANGED vars
  BY <1>2 DEF vars, procVars, HoldApart, Held, Top, Mine
<1>3. ASSUME NEW p \in Proc, Open(p) \/ Call(p) \/ SyscallError(p) \/ Crash(p) PROVE HoldApart'
  <2>1. KeysEvolve /\ \A r \in Anchor \cup Id : link'[r] \subseteq link[r]
    BY <1>1, <1>3, NothingKeeps DEF Open, Call, SyscallError, Crash
  <2>2. \A q \in Proc \ {p} : ring'[q] = ring[q] /\ pc'[q] = pc[q] /\ id'[q] = id[q]
    BY <1>1, <1>3 DEF Open, Call, SyscallError, Crash, Forget, Finish, Go, ProcTyped
  <2>3. ring'[p] \in Id => ring'[p] \in Held(p)
    <3>1. Scope[p] \notin Id /\ NoId \notin Id
      BY KeyctlAssumption, KernelAssumption
    <3>2. ring'[p] \in {Scope[p], NoId, ring[p]}
      BY <1>1, <1>3 DEF Open, Call, SyscallError, Crash, ProcTyped
    <3> QED
      BY <3>1, <3>2, HeldOwn
  <2>4. pc'[p] \notin Through
    <3>1. \E step \in {"idle", "closed", "return", "find", "add", "search", "read"} : Go(p, step)
      BY <1>3, FinishGoes, CallArguments DEF Open, Call, SyscallError, Crash, FirstStep
    <3> QED
      BY <1>1, <3>1 DEF Go, ProcTyped, Through
  <2> QED
    BY <1>1, <2>1, <2>2, <2>3, <2>4, QuietApart
<1>4. ASSUME NEW p \in Proc, Step(p) PROVE HoldApart'
  <2>1. CASE Add(p)
    BY <1>1, <2>1, AddApart
  <2>2. CASE LinkKey(p)
    BY <1>1, <2>2, LinkKeyApart
  <2>3. CASE QuietStep(p)
    <3>1. KeysEvolve /\ \A r \in Anchor \cup Id : link'[r] \subseteq link[r]
      BY <2>3, QuietStepLinks
    <3> QED
      BY <1>1, <2>3, <3>1, QuietStepProc, HeldOwn, QuietApart
  <2> QED
    BY <1>4, <2>1, <2>2, <2>3 DEF Step, QuietStep
<1>5. ASSUME NEW u \in Proc, NEW k \in Strangers,
             StrangerAdds(SessionOf[u], k) \/ StrangerRemoves(SessionOf[u], k)
      PROVE  HoldApart'
  BY <1>1, <1>5, StrangerApart
<1> QED
  BY <1>2, <1>3, <1>4, <1>5 DEF Next

-----------------------------------------------------------------------------
LEMMA HomeFrame ==
  ASSUME HomeInv, NEW p \in Proc, HomeOf(p)',
         \A q \in Proc \ {p} : pc'[q] = pc[q] /\ call'[q] = call[q] /\ ring'[q] = ring[q]
  PROVE  HomeInv'
<1>1. ASSUME NEW q \in Proc \ {p} PROVE HomeOf(q)'
  BY DEF HomeInv, HomeOf
<1> QED
  BY <1>1 DEF HomeInv

\* A call that ends: an Open has a named keyring, or fails.
LEMMA FinishHome ==
  ASSUME TypeInv, HomeInv, NEW p \in Proc, pc[p] \notin {"closed", "idle"}, NEW r, Finish(p, r),
         \A q \in Proc \ {p} : ring'[q] = ring[q],
         ring'[p] = ring[p] \/ (call[p] = Opening /\ ring'[p] \in Id),
         call[p] = Opening /\ r = Ok => ring'[p] \in Id
  PROVE  HomeInv'
<1>1. ProcTyped
  BY TypeInvParts
<1>2. \A q \in Proc \ {p} : pc'[q] = pc[q] /\ call'[q] = call[q]
  BY <1>1 DEF Finish, Go, ProcTyped
<1>3. IF call[p] = Opening
      THEN call'[p] = Idle /\ pc'[p] = IF r = Ok THEN "idle" ELSE "closed"
      ELSE call'[p] = call[p] /\ pc'[p] = "return"
  BY <1>1 DEF Finish, Go, ProcTyped
<1>4. HomeOf(p)'
  BY <1>3, OpeningIsNoCall DEF HomeInv, HomeOf
<1> QED
  BY <1>2, <1>4, HomeFrame

LEMMA GoHome ==
  ASSUME TypeInv, HomeInv, NEW p \in Proc, pc[p] # "closed", NEW step, Go(p, step) \/ pc' = pc,
         \A q \in Proc \ {p} : call'[q] = call[q],
         call'[p] = Opening <=> call[p] = Opening, ring' = ring
  PROVE  HomeInv'
<1>1. ProcTyped
  BY TypeInvParts
<1>2. \A q \in Proc \ {p} : pc'[q] = pc[q]
  BY <1>1 DEF Go, ProcTyped
<1>3. HomeOf(p)'
  BY DEF HomeInv, HomeOf
<1> QED
  BY <1>2, <1>3, HomeFrame

LEMMA StepHome ==
  ASSUME TypeInv, HomeInv, NEW p \in Proc, Step(p) PROVE HomeInv'
<1>1. ProcTyped /\ ProcInv(p)
  BY TypeInvParts
<1>2. CASE FindRing(p)
  <2>1. CASE Search(Scope[p], "keyring", Service[p]) = {}
    BY <1>2, <2>1, GoHome DEF FindRing
  <2>2. CASE Search(Scope[p], "keyring", Service[p]) # {}
    <3>1. PICK i \in Search(Scope[p], "keyring", Service[p]) : ring' = [ring EXCEPT ![p] = i]
      BY <1>2, <2>2 DEF FindRing
    <3>2. pc[p] = "find" /\ call[p] = Opening /\ Finish(p, Ok)
      BY <1>1, <1>2, <2>2 DEF FindRing, ProcInv, StepOfCall
    <3>3. ring'[p] = i /\ i \in Id /\ \A q \in Proc \ {p} : ring'[q] = ring[q]
      BY <1>1, <3>1, SearchIsNamed DEF ProcTyped
    <3> QED
      BY <3>2, <3>3, FinishHome
  <2> QED
    BY <2>1, <2>2
<1>3. CASE Add(p)
  <2>1. PICK n \in Id :
          IF UsePerm[p]
          THEN Go(p, "setperm") /\ UNCHANGED <<ring, call>>
          ELSE /\ ring' = IF call[p] = Opening THEN [ring EXCEPT ![p] = n] ELSE ring
               /\ Finish(p, Ok)
    BY <1>3 DEF Add
  <2>2. pc[p] = "add"
    BY <1>3 DEF Add
  <2>3. CASE UsePerm[p]
    BY <2>1, <2>2, <2>3, GoHome
  <2>4. CASE ~UsePerm[p]
    <3>1. /\ \A q \in Proc \ {p} : ring'[q] = ring[q]
          /\ ring'[p] = IF call[p] = Opening THEN n ELSE ring[p]
      BY <1>1, <2>1, <2>4 DEF ProcTyped
    <3> QED
      BY <2>1, <2>2, <2>4, <3>1, FinishHome
  <2> QED
    BY <2>3, <2>4
<1>4. CASE UnlinkKey(p)
  <2>1. /\ pc[p] = "unlink" /\ id[p] \in Id /\ Finish(p, Ok)
        /\ ring' = IF call[p] = Opening THEN [ring EXCEPT ![p] = id[p]] ELSE ring
    BY <1>1, <1>4 DEF UnlinkKey, ProcInv, IdInv, Through
  <2>2. /\ \A q \in Proc \ {p} : ring'[q] = ring[q]
        /\ ring'[p] = IF call[p] = Opening THEN id[p] ELSE ring[p]
    BY <1>1, <2>1 DEF ProcTyped
  <2> QED
    BY <2>1, <2>2, FinishHome
<1>5. CASE SetFails(p)
  <2>1. pc[p] \in {"add", "setperm", "link", "unlink"} /\ Finish(p, Error) /\ ring' = ring
    BY <1>5 DEF SetFails
  <2> QED
    BY <2>1, OkIsNoError, FinishHome
<1>6. CASE SearchMisses(p) \/ RemoveUnlinks(p) \/ ReadGone(p) \/ ReadItem(p) \/ Described(p)
           \/ (Describe(p) /\ Finish(p, Error))
  <2>1. /\ pc[p] \in {"search", "remove", "read", "describe"} /\ ring' = ring
        /\ \E r : Finish(p, r)
    BY <1>6 DEF SearchMisses, RemoveUnlinks, ReadGone, ReadItem, Described, Describe
  <2>2. call[p] # Opening
    BY <1>1, <2>1, OpeningIsNoCall DEF ProcInv, StepOfCall
  <2> QED
    BY <2>1, <2>2, FinishHome
<1>7. CASE SetPermission(p) \/ LinkKey(p) \/ SearchFinds(p) \/ ReadGrows(p) \/ ReadRing(p)
           \/ (Describe(p) /\ UNCHANGED <<call, pc, result>>)
  <2>1. pc[p] # "closed" /\ ring' = ring /\ call' = call /\ (pc' = pc \/ \E step : Go(p, step))
    BY <1>7 DEF SetPermission, LinkKey, SearchFinds, ReadGrows, ReadRing, Describe
  <2> QED
    BY <2>1, GoHome
<1>8. CASE Return(p)
  <2>1. /\ pc[p] # "closed" /\ ring' = ring /\ Go(p, "idle") /\ call'[p] = Idle /\ call[p] # Opening
        /\ \A q \in Proc \ {p} : call'[q] = call[q]
    BY <1>1, <1>8 DEF Return, Forget, ProcTyped, ProcInv, StepOfCall
  <2> QED
    BY <2>1, OpeningIsNoCall, GoHome
<1> QED
  BY <1>2, <1>3, <1>4, <1>5, <1>6, <1>7, <1>8 DEF Step, Describe

LEMMA NextHome == TypeInv /\ HomeInv /\ [Next]_vars => HomeInv'
<1> SUFFICES ASSUME TypeInv, HomeInv, [Next]_vars PROVE HomeInv'
  OBVIOUS
<1>1. ProcTyped /\ \A p \in Proc : ProcInv(p)
  BY TypeInvParts
<1>2. CASE UNCHANGED vars
  BY <1>2 DEF vars, procVars, HomeInv, HomeOf
<1>3. ASSUME NEW p \in Proc, Open(p) PROVE HomeInv'
  <2>1. /\ ring'[p] = Scope[p] /\ call[p] = Idle
        /\ IF Service[p] = NoService THEN pc'[p] = "idle" /\ call'[p] = Idle
                                     ELSE pc'[p] = "find" /\ call'[p] = Opening
        /\ \A q \in Proc \ {p} : pc'[q] = pc[q] /\ call'[q] = call[q] /\ ring'[q] = ring[q]
    BY <1>1, <1>3 DEF Open, Go, ProcTyped, ProcInv, StepOfCall
  <2>2. Scope[p] \notin Id
    BY KeyctlAssumption, KernelAssumption
  <2>3. HomeOf(p)'
    BY <2>1, <2>2, OpeningIsNoCall DEF HomeOf
  <2> QED
    BY <2>1, <2>3, HomeFrame
<1>4. ASSUME NEW p \in Proc, Call(p) PROVE HomeInv'
  <2>1. PICK cl \in Calls : call' = [call EXCEPT ![p] = cl] /\ Go(p, FirstStep(cl.op))
    BY <1>4 DEF Call
  <2>2. /\ pc[p] = "idle" /\ ring' = ring /\ call'[p] = cl /\ call[p] = Idle
        /\ \A q \in Proc \ {p} : call'[q] = call[q]
    BY <1>1, <1>4, <2>1 DEF Call, ProcTyped, ProcInv, StepOfCall
  <2> QED
    BY <2>1, <2>2, OpeningIsNoCall, GoHome
<1>5. ASSUME NEW p \in Proc, SyscallError(p) PROVE HomeInv'
  <2>1. /\ pc[p] \notin {"closed", "idle"} /\ ring' = ring
        /\ \E r \in {Error, NotFound} : Finish(p, r)
    BY <1>5 DEF SyscallError
  <2> QED
    BY <2>1, OkIsNoError, FinishHome
<1>6. ASSUME NEW p \in Proc, Crash(p) PROVE HomeInv'
  <2>1. /\ call'[p] = Idle /\ pc'[p] = "closed"
        /\ \A q \in Proc \ {p} : pc'[q] = pc[q] /\ call'[q] = call[q] /\ ring'[q] = ring[q]
    BY <1>1, <1>6 DEF Crash, Forget, Go, ProcTyped
  <2>2. HomeOf(p)'
    BY <2>1, OpeningIsNoCall DEF HomeOf
  <2> QED
    BY <2>1, <2>2, HomeFrame
<1>7. ASSUME NEW u \in Proc, NEW k \in Strangers,
             StrangerAdds(SessionOf[u], k) \/ StrangerRemoves(SessionOf[u], k)
      PROVE  HomeInv'
  BY <1>7 DEF StrangerAdds, StrangerRemoves, procVars, HomeInv, HomeOf
<1> QED
  BY <1>2, <1>3, <1>4, <1>5, <1>6, <1>7, StepHome DEF Next

LEMMA SettleAlive ==
  ASSUME NEW lk, NEW ky, KernelTyped(lk, ky), Settle(lk, ky) PROVE AliveInv'
<1> SUFFICES ASSUME NEW i \in Id, key'[i] # NoKey PROVE i \in Alive(link')
  BY DEF AliveInv
<1>1. i \in Alive(lk)
  BY DEF Settle
<1>2. link' = [r \in Anchor \cup Id |-> IF r \in Anchor \cup Alive(lk) THEN lk[r] ELSE {}]
  BY DEF Settle
<1>3. CASE \E a \in Anchor : i \in lk[a]
  BY <1>2, <1>3 DEF Alive
<1>4. CASE \E a \in Anchor : \E t \in lk[a] : i \in lk[t]
  <2>0. PICK a \in Anchor : \E t \in lk[a] : i \in lk[t]
    BY <1>4
  <2>1. PICK t \in lk[a] : i \in lk[t]
    BY <2>0
  <2>2. t \in Id /\ t \in Alive(lk)
    BY <2>1 DEF KernelTyped, Alive
  <2>3. t \in link'[a] /\ i \in link'[t]
    BY <1>2, <2>1, <2>2
  <2> QED
    BY <2>3 DEF Alive
<1> QED
  BY <1>1, <1>3, <1>4 DEF Alive

LEMMA SameAlive ==
  ASSUME AliveInv, link' = link, \A i \in Id : key'[i] # NoKey => key[i] # NoKey PROVE AliveInv'
  BY DEF AliveInv, Alive

LEMMA AddKeyAlive ==
  ASSUME KernelInv, AliveInv, NEW r \in Anchor \cup Id, NEW type, NEW desc, NEW data, NEW n \in Id,
         [type |-> type, desc |-> desc, data |-> data, perm |-> FALSE] \in KeyRecord,
         AddKey(r, type, desc, data, n, Free)
  PROVE  AliveInv'
<1>1. CASE type = "user" /\ Matches(r, type, desc) # {}
  <2>1. n \in link[r] /\ key' = [key EXCEPT ![n].data = data] /\ link' = link
    BY <1>1 DEF AddKey, Matches
  <2>2. key[n] # NoKey
    BY <2>1 DEF KernelInv, ShapeOf
  <2>3. \A i \in Id \ {n} : key'[i] = key[i]
    BY <2>1 DEF KernelInv, KernelTyped
  <2> QED
    BY <2>1, <2>2, <2>3, SameAlive
<1>2. CASE ~(type = "user" /\ Matches(r, type, desc) # {})
  <2> DEFINE lk == [link EXCEPT ![r] = (@ \ Matches(r, type, desc)) \cup {n}]
             ky == [key EXCEPT ![n] = [type |-> type, desc |-> desc, data |-> data, perm |-> FALSE]]
  <2>1. Settle(lk, ky) /\ KernelTyped(lk, ky)
    BY <1>2 DEF AddKey, KernelInv, KernelTyped
  <2> HIDE DEF lk, ky
  <2> QED
    BY <2>1, SettleAlive
<1> QED
  BY <1>1, <1>2

LEMMA LinkAlive ==
  ASSUME KernelInv, NEW r \in Anchor \cup Id, NEW i \in Id, Link(r, i) PROVE AliveInv'
<1> DEFINE lk == [link EXCEPT ![r] = (@ \ Matches(r, key[i].type, key[i].desc)) \cup {i}]
<1>1. Settle(lk, key) /\ KernelTyped(lk, key)
  BY DEF Link, KernelInv, KernelTyped
<1> HIDE DEF lk
<1> QED
  BY <1>1, SettleAlive

LEMMA UnlinkAlive ==
  ASSUME KernelInv, NEW r \in Anchor \cup Id, NEW i, Unlink(r, i) PROVE AliveInv'
<1> DEFINE lk == [link EXCEPT ![r] = @ \ {i}]
<1>1. Settle(lk, key) /\ KernelTyped(lk, key)
  BY DEF Unlink, KernelInv, KernelTyped
<1> HIDE DEF lk
<1> QED
  BY <1>1, SettleAlive

LEMMA NextAlive == TypeInv /\ AliveInv /\ [Next]_vars => AliveInv'
<1> SUFFICES ASSUME TypeInv, AliveInv, [Next]_vars PROVE AliveInv'
  OBVIOUS
<1>1. KernelInv /\ ProcTyped /\ \A p \in Proc : ProcInv(p)
  BY TypeInvParts
<1>2. CASE UNCHANGED <<key, link>>
  BY <1>2, SameAlive
<1>3. ASSUME NEW p \in Proc, Add(p) PROVE AliveInv'
  <2>1. pc[p] = "add" /\ AddTo(p) \in Anchor \cup Id
    BY <1>3, AddToRing DEF Add
  <2>2. CASE call[p] = Opening
    <3>1. [type |-> "keyring", desc |-> Service[p], data |-> NoData, perm |-> FALSE] \in KeyRecord
      BY DEF KeyRecord
    <3> QED
      BY <1>1, <1>3, <2>1, <2>2, <3>1, AddKeyAlive DEF Add
  <2>3. CASE call[p] # Opening
    <3>1. [type |-> "user", desc |-> call[p].key, data |-> call[p].data, perm |-> FALSE] \in KeyRecord
      BY <2>1, <2>3, SetStepIsSet DEF KeyRecord
    <3> QED
      BY <1>1, <1>3, <2>1, <2>3, <3>1, AddKeyAlive DEF Add
  <2> QED
    BY <2>2, <2>3
<1>4. ASSUME NEW p \in Proc, SetPermission(p) PROVE AliveInv'
  <2>1. id[p] \in Id /\ key[id[p]] # NoKey /\ key' = [key EXCEPT ![id[p]].perm = TRUE] /\ link' = link
    BY <1>1, <1>4 DEF SetPermission, SetPerm, ProcInv, IdInv, Through
  <2>2. \A i \in Id \ {id[p]} : key'[i] = key[i]
    BY <1>1, <2>1 DEF KernelInv, KernelTyped
  <2> QED
    BY <2>1, <2>2, SameAlive
<1>5. ASSUME NEW p \in Proc, LinkKey(p) PROVE AliveInv'
  BY <1>1, <1>5, LinkArguments, LinkAlive DEF LinkKey
<1>6. ASSUME NEW p \in Proc, UnlinkKey(p) PROVE AliveInv'
  BY <1>1, <1>6, KeyctlAssumption, UnlinkAlive DEF UnlinkKey
<1>7. ASSUME NEW p \in Proc, RemoveUnlinks(p), ~UNCHANGED <<key, link>> PROVE AliveInv'
  <2>1. ring[p] \in Anchor \cup Id /\ Unlink(ring[p], id[p])
    BY <1>7 DEF RemoveUnlinks, Exists
  <2> QED
    BY <1>1, <2>1, UnlinkAlive
<1>8. ASSUME NEW u \in Proc, NEW k \in Strangers, StrangerAdds(SessionOf[u], k) PROVE AliveInv'
  <2>1. [type |-> "user", desc |-> k, data |-> Stranger, perm |-> FALSE] \in KeyRecord
    BY KeyctlAssumption DEF KeyRecord
  <2> QED
    BY <1>1, <1>8, <2>1, KeyctlAssumption, AddKeyAlive DEF StrangerAdds
<1>9. ASSUME NEW u \in Proc, NEW k \in Strangers, StrangerRemoves(SessionOf[u], k) PROVE AliveInv'
  BY <1>1, <1>9, KeyctlAssumption, UnlinkAlive DEF StrangerRemoves
<1>10. CASE UNCHANGED vars
  BY <1>2, <1>10 DEF vars
<1>11. ASSUME NEW p \in Proc, Open(p) \/ Call(p) \/ SyscallError(p) \/ Crash(p) \/ FindRing(p)
             \/ SetFails(p) \/ SearchMisses(p) \/ SearchFinds(p) \/ ReadGone(p) \/ ReadGrows(p)
             \/ ReadItem(p) \/ ReadRing(p) \/ Describe(p) \/ Described(p) \/ Return(p)
       PROVE AliveInv'
  BY <1>2, <1>11 DEF Open, Call, SyscallError, Crash, FindRing, SetFails, SearchMisses, SearchFinds,
       ReadGone, ReadGrows, ReadItem, ReadRing, Describe, Described, Return
<1> QED
  BY <1>2, <1>3, <1>4, <1>5, <1>6, <1>7, <1>8, <1>9, <1>10, <1>11 DEF Next, Step

-----------------------------------------------------------------------------
\* A keyring that is there is linked by an anchor.
LEMMA Anchored ==
  ASSUME KernelInv, AliveInv, NEW t \in Id, key[t] # NoKey, key[t].type = "keyring"
  PROVE  \E a \in Anchor : t \in link[a]
<1>1. t \in Alive(link)
  BY DEF AliveInv
<1>2. ASSUME NEW a \in Anchor, NEW s \in link[a], t \in link[s] PROVE FALSE
  BY <1>2 DEF KernelInv, KernelTyped, ShapeOf
<1> QED
  BY <1>1, <1>2 DEF Alive

\* A link stays when the keyring it is in does, and so does the key.
LEMMA SettleLink ==
  ASSUME NEW lk, NEW ky, KernelTyped(lk, ky), Settle(lk, ky),
         NEW t \in Anchor \cup Id, t \in Id => \E a \in Anchor : t \in lk[a], NEW i \in lk[t]
  PROVE  i \in link'[t] /\ key'[i] = ky[i]
<1>1. t \in Anchor \/ t \in Alive(lk)
  BY DEF Alive
<1>2. i \in Id /\ i \in Alive(lk)
  BY DEF Alive, KernelTyped
<1> QED
  BY <1>1, <1>2 DEF Settle

\* What add_key, KEYCTL_LINK and KEYCTL_UNLINK leave of the links of others.
LEMMA AddKeyLeaves ==
  ASSUME KernelInv, AliveInv, NEW r \in Anchor \cup Id, NEW type, NEW desc, NEW data, NEW n \in Id,
         [type |-> type, desc |-> desc, data |-> data, perm |-> FALSE] \in KeyRecord,
         AddKey(r, type, desc, data, n, Free),
         NEW t \in Anchor \cup Id, NEW i \in link[t],
         t \notin Matches(r, type, desc), i \notin Matches(r, type, desc)
  PROVE  i \in link'[t] /\ key'[i] = key[i]
<1>0. i \in Id /\ key[i] # NoKey
  BY DEF KernelInv, KernelTyped, ShapeOf
<1>1. CASE type = "user" /\ Matches(r, type, desc) # {}
  <2>1. n # i /\ key' = [key EXCEPT ![n].data = data] /\ link' = link
    BY <1>1 DEF AddKey
  <2> QED
    BY <1>0, <2>1 DEF KernelInv, KernelTyped
<1>2. CASE ~(type = "user" /\ Matches(r, type, desc) # {})
  <2> DEFINE lk == [link EXCEPT ![r] = (@ \ Matches(r, type, desc)) \cup {n}]
             ky == [key EXCEPT ![n] = [type |-> type, desc |-> desc, data |-> data, perm |-> FALSE]]
  <2>1. Settle(lk, ky) /\ KernelTyped(lk, ky) /\ n \in Free
    BY <1>2 DEF AddKey, KernelInv, KernelTyped
  <2>2. n # i
    BY <1>0, <2>1 DEF Free
  <2>3. \A s \in Anchor \cup Id, j \in Id : j \in link[s] /\ j \notin Matches(r, type, desc) => j \in lk[s]
    BY DEF KernelInv, KernelTyped
  <2>4. t \in Id => \E a \in Anchor : t \in lk[a]
    <3>1. t \in Id => key[t] # NoKey /\ key[t].type = "keyring"
      BY DEF KernelInv, ShapeOf
    <3> QED
      BY <2>3, <3>1, Anchored
  <2>5. i \in lk[t] /\ ky[i] = key[i]
    BY <1>0, <2>2, <2>3 DEF KernelInv, KernelTyped
  <2> HIDE DEF lk, ky
  <2> QED
    BY <2>1, <2>4, <2>5, SettleLink
<1> QED
  BY <1>1, <1>2

LEMMA LinkLeaves ==
  ASSUME KernelInv, AliveInv, NEW r \in Anchor \cup Id, NEW j \in Id, Link(r, j),
         NEW t \in Anchor \cup Id, NEW i \in link[t],
         t \notin Matches(r, key[j].type, key[j].desc), i \notin Matches(r, key[j].type, key[j].desc)
  PROVE  i \in link'[t] /\ key'[i] = key[i]
<1> DEFINE lk == [link EXCEPT ![r] = (@ \ Matches(r, key[j].type, key[j].desc)) \cup {j}]
<1>1. Settle(lk, key) /\ KernelTyped(lk, key)
  BY DEF Link, KernelInv, KernelTyped
<1>2. \A s \in Anchor \cup Id, u \in Id :
        u \in link[s] /\ u \notin Matches(r, key[j].type, key[j].desc) => u \in lk[s]
  BY DEF KernelInv, KernelTyped
<1>3. t \in Id => \E a \in Anchor : t \in lk[a]
  <2>1. t \in Id => key[t] # NoKey /\ key[t].type = "keyring"
    BY DEF KernelInv, ShapeOf
  <2> QED
    BY <1>2, <2>1, Anchored
<1>4. i \in lk[t]
  BY <1>2 DEF KernelInv, KernelTyped
<1> HIDE DEF lk
<1> QED
  BY <1>1, <1>3, <1>4, SettleLink

LEMMA UnlinkLeaves ==
  ASSUME KernelInv, AliveInv, NEW r \in Anchor \cup Id, NEW j, Unlink(r, j),
         NEW t \in Anchor \cup Id, t # j, NEW i \in link[t], i # j \/ t # r
  PROVE  i \in link'[t] /\ key'[i] = key[i]
<1> DEFINE lk == [link EXCEPT ![r] = @ \ {j}]
<1>1. Settle(lk, key) /\ KernelTyped(lk, key)
  BY DEF Unlink, KernelInv, KernelTyped
<1>2. \A s \in Anchor \cup Id : link[s] \ {j} \subseteq lk[s] /\ (s # r => lk[s] = link[s])
  BY DEF KernelInv, KernelTyped
<1>3. t \in Id => \E a \in Anchor : t \in lk[a]
  <2>1. t \in Id => key[t] # NoKey /\ key[t].type = "keyring"
    BY DEF KernelInv, ShapeOf
  <2> QED
    BY <1>2, <2>1, Anchored
<1>4. i \in lk[t]
  BY <1>2
<1> HIDE DEF lk
<1> QED
  BY <1>1, <1>3, <1>4, SettleLink

\* A process that is not in Open keeps its items among its own keys.
LEMMA ItemsHeld ==
  ASSUME TypeInv, HomeInv, NEW q \in Proc, pc[q] # "closed", call[q] # Opening
  PROVE  ItemKeys(q) \subseteq Held(q) /\ ring[q] \in Anchor \cup Id /\ ring[q] \in {Scope[q]} \cup Id
<1>1. ring[q] \in {Scope[q]} \cup Id /\ Scope[q] \in Anchor /\ HomeOf(q) /\ Scope[q] \notin Id
  BY TypeInvParts, KeyctlAssumption, KernelAssumption DEF ProcInv, RingInv, HomeInv
<1>2. CASE ring[q] \in Id
  BY <1>1, <1>2, HeldOwn, HeldLinks DEF ItemKeys
<1>3. CASE ring[q] = Scope[q]
  <2>1. Service[q] = NoService
    BY <1>1, <1>3 DEF HomeOf
  <2> QED
    BY <1>1, <1>3, <2>1, HeldOwn DEF ItemKeys, Mine
<1> QED
  BY <1>1, <1>2, <1>3

\* What a step leaves of the keys and the items of q.
Left(q) == /\ \A i \in Held(q) : key'[i] \in {key[i], NoKey}
           /\ \A i \in ItemKeys(q) : i \in link'[ring[q]] /\ key'[i] = key[i]

LEMMA AddKeyOthers ==
  ASSUME KernelInv, NEW r \in Anchor \cup Id, NEW type, NEW desc, NEW data, NEW n \in Id,
         AddKey(r, type, desc, data, n, Free), NEW i \in Id \ {n}
  PROVE  key'[i] \in {key[i], NoKey}
<1>1. CASE key' = [key EXCEPT ![n].data = data]
  BY <1>1 DEF KernelInv, KernelTyped
<1>2. CASE key' # [key EXCEPT ![n].data = data]
  <2> DEFINE lk == [link EXCEPT ![r] = (@ \ Matches(r, type, desc)) \cup {n}]
             ky == [key EXCEPT ![n] = [type |-> type, desc |-> desc, data |-> data, perm |-> FALSE]]
  <2>1. key' = [j \in Id |-> IF j \in Alive(lk) THEN ky[j] ELSE NoKey]
    BY <1>2 DEF AddKey, Settle
  <2>2. ky[i] = key[i]
    BY DEF KernelInv, KernelTyped
  <2> HIDE DEF lk, ky
  <2> QED
    BY <2>1, <2>2
<1> QED
  BY <1>1, <1>2

\* An addition to what is not q's leaves what is.
LEMMA AddKeyLeft ==
  ASSUME TypeInv, AliveInv, HomeInv, NEW q \in Proc, pc[q] # "closed", call[q] # Opening,
         NEW r \in Anchor \cup Id, NEW type, NEW desc, NEW data, NEW n \in Id,
         [type |-> type, desc |-> desc, data |-> data, perm |-> FALSE] \in KeyRecord,
         AddKey(r, type, desc, data, n, Free),
         n \notin Held(q), Matches(r, type, desc) \cap Held(q) = {}
  PROVE  Left(q)
<1>1. KernelInv /\ Held(q) \subseteq Id
  BY TypeInvParts, TopIds
<1>2. \A i \in Held(q) : key'[i] \in {key[i], NoKey}
  BY <1>1, AddKeyOthers
<1>3. ring[q] \in Anchor \cup Id /\ ItemKeys(q) \subseteq Held(q) /\ ring[q] \notin Matches(r, type, desc)
  <2>1. Matches(r, type, desc) \subseteq Id
    BY <1>1 DEF Matches, KernelInv, KernelTyped
  <2> QED
    BY <2>1, ItemsHeld, HeldOwn, KernelAssumption
<1>4. ASSUME NEW i \in ItemKeys(q) PROVE i \in link'[ring[q]] /\ key'[i] = key[i]
  <2>1. i \in link[ring[q]] /\ i \notin Matches(r, type, desc)
    BY <1>3 DEF ItemKeys
  <2> QED
    BY <1>1, <1>3, <2>1, AddKeyLeaves
<1> QED
  BY <1>2, <1>4 DEF Left

\* The keys that an addition or a link of p displaces are its own.
LEMMA Displaces ==
  ASSUME TypeInv, HomeInv, NEW p \in Proc, pc[p] \in Through \cup {"add"}, NEW desc,
         NEW r, r \in {ring[p]} \cup (IF UsePerm[p] THEN {SessionOf[p]} ELSE {})
  PROVE  IF call[p] = Opening
         THEN Matches(r, "keyring", Service[p]) \subseteq Held(p)
         ELSE Matches(r, "user", desc) \subseteq Held(p)
<1>1. ProcInv(p) /\ HomeOf(p) /\ pc[p] # "closed" /\ Scope[p] \in Anchor /\ Scope[p] \notin Id
  BY TypeInvParts, KeyctlAssumption, KernelAssumption DEF HomeInv, Through
<1>2. CASE UsePerm[p] /\ r = SessionOf[p]
  BY <1>2, HeldOwn DEF Matches
<1>3. CASE r = ring[p] /\ call[p] = Opening
  <2>1. r = Scope[p] /\ Service[p] # NoService
    BY <1>1, <1>3 DEF ProcInv, RingInv, HomeOf
  <2> QED
    BY <1>3, <2>1, HeldOwn DEF Matches, Mine
<1>4. CASE r = ring[p] /\ call[p] # Opening
  BY <1>1, <1>4, ItemsHeld DEF Matches, ItemKeys
<1> QED
  BY <1>2, <1>3, <1>4

LEMMA AddLeft ==
  ASSUME TypeInv, AliveInv, HomeInv, HoldApart, NEW p \in Proc, Add(p),
         NEW q \in Proc \ {p}, pc[q] # "closed", call[q] # Opening
  PROVE  Left(q)
<1>1. pc[p] = "add" /\ AddTo(p) \in Anchor \cup Id
  BY AddToRing DEF Add
<1>2. PICK n \in Id : IF call[p] = Opening
                      THEN AddKey(AddTo(p), "keyring", Service[p], NoData, n, Free)
                      ELSE AddKey(AddTo(p), "user", call[p].key, call[p].data, n, Free)
  BY DEF Add
<1>3. IF call[p] = Opening
      THEN Matches(AddTo(p), "keyring", Service[p]) \subseteq Held(p)
      ELSE Matches(AddTo(p), "user", call[p].key) \subseteq Held(p)
  BY <1>1, Displaces DEF AddTo
<1>4. n \in Free \cup Held(p)
  BY <1>2, <1>3 DEF AddKey
<1>5. n \notin Held(q)
  BY <1>4, FreeIsUnheld DEF HoldApart
<1>6. CASE call[p] = Opening
  <2>1. [type |-> "keyring", desc |-> Service[p], data |-> NoData, perm |-> FALSE] \in KeyRecord
    BY DEF KeyRecord
  <2>2. Matches(AddTo(p), "keyring", Service[p]) \cap Held(q) = {}
    BY <1>3, <1>6 DEF HoldApart
  <2> QED
    BY <1>1, <1>2, <1>5, <1>6, <2>1, <2>2, AddKeyLeft
<1>7. CASE call[p] # Opening
  <2>1. [type |-> "user", desc |-> call[p].key, data |-> call[p].data, perm |-> FALSE] \in KeyRecord
    BY <1>1, <1>7, SetStepIsSet DEF KeyRecord
  <2>2. Matches(AddTo(p), "user", call[p].key) \cap Held(q) = {}
    BY <1>3, <1>7 DEF HoldApart
  <2> QED
    BY <1>1, <1>2, <1>5, <1>7, <2>1, <2>2, AddKeyLeft
<1> QED
  BY <1>6, <1>7

LEMMA LinkKeyLeft ==
  ASSUME TypeInv, AliveInv, HomeInv, HoldApart, NEW p \in Proc, LinkKey(p),
         NEW q \in Proc \ {p}, pc[q] # "closed", call[q] # Opening
  PROVE  Left(q)
<1>1. KernelInv /\ ProcInv(p) /\ Held(q) \subseteq Id
  BY TypeInvParts, TopIds
<1>2. /\ pc[p] = "link" /\ key[id[p]] # NoKey /\ Link(ring[p], id[p])
      /\ id[p] \in Id /\ ring[p] \in Anchor \cup Id
  BY LinkArguments DEF LinkKey
<1>3. \A i \in Id : key'[i] \in {key[i], NoKey}
  BY <1>2 DEF Link, Settle
<1>4. Matches(ring[p], key[id[p]].type, key[id[p]].desc) \subseteq Held(p)
  <2>1. IF call[p] = Opening THEN key[id[p]].type = "keyring" /\ key[id[p]].desc = Service[p]
                             ELSE key[id[p]].type = "user"
    BY <1>1, <1>2 DEF ProcInv, IdInv, Through
  <2>2. CASE call[p] = Opening
    BY <1>2, <2>1, <2>2, Displaces DEF Through
  <2>3. CASE call[p] # Opening
    <3>1. \A desc : Matches(ring[p], "user", desc) \subseteq Held(p)
      BY <1>2, <2>3, Displaces DEF Through
    <3> QED
      BY <2>1, <2>3, <3>1
  <2> QED
    BY <2>2, <2>3
<1>5. Matches(ring[p], key[id[p]].type, key[id[p]].desc) \cap Held(q) = {}
  BY <1>4 DEF HoldApart
<1>6. /\ ring[q] \in Anchor \cup Id /\ ItemKeys(q) \subseteq Held(q)
      /\ ring[q] \notin Matches(ring[p], key[id[p]].type, key[id[p]].desc)
  <2>1. Matches(ring[p], key[id[p]].type, key[id[p]].desc) \subseteq Id
    BY <1>1, <1>2 DEF Matches, KernelInv, KernelTyped
  <2> QED
    BY <1>5, <2>1, ItemsHeld, HeldOwn, KernelAssumption
<1>7. ASSUME NEW i \in ItemKeys(q) PROVE i \in link'[ring[q]] /\ key'[i] = key[i]
  <2>1. i \in link[ring[q]] /\ i \notin Matches(ring[p], key[id[p]].type, key[id[p]].desc)
    BY <1>5, <1>6 DEF ItemKeys
  <2> QED
    BY <1>1, <1>2, <1>6, <2>1, LinkLeaves
<1> QED
  BY <1>1, <1>3, <1>7 DEF Left

LEMMA UnlinkLeft ==
  ASSUME TypeInv, AliveInv, HomeInv, NEW q \in Proc, pc[q] # "closed", call[q] # Opening,
         NEW r \in Anchor \cup Id, NEW j, Unlink(r, j), ring[q] # r, ring[q] # j
  PROVE  Left(q)
<1>1. KernelInv /\ Held(q) \subseteq Id /\ ring[q] \in Anchor \cup Id
  BY TypeInvParts, TopIds, ItemsHeld
<1>2. \A i \in Id : key'[i] \in {key[i], NoKey}
  BY DEF Unlink, Settle
<1>3. ASSUME NEW i \in ItemKeys(q) PROVE i \in link'[ring[q]] /\ key'[i] = key[i]
  BY <1>1, <1>3, UnlinkLeaves DEF ItemKeys
<1> QED
  BY <1>1, <1>2, <1>3 DEF Left

\* Two processes have two keyrings.
LEMMA RingsDiffer ==
  ASSUME TypeInv, HomeInv, HoldApart, OwnKeyrings, NEW p \in Proc, NEW q \in Proc \ {p},
         pc[p] # "closed", call[p] # Opening, pc[q] # "closed", call[q] # Opening
  PROVE  ring[p] # ring[q]
<1>1. /\ ring[p] \in {Scope[p]} \cup Id /\ ring[q] \in {Scope[q]} \cup Id
      /\ Scope[p] \notin Id /\ Scope[q] \notin Id /\ HomeOf(p) /\ HomeOf(q)
  BY ItemsHeld, KeyctlAssumption, KernelAssumption DEF HomeInv
<1>2. CASE ring[p] \in Id
  BY <1>2, HeldOwn DEF HoldApart
<1>3. CASE ring[p] = Scope[p]
  BY <1>1, <1>3 DEF HomeOf, OwnKeyrings
<1> QED
  BY <1>1, <1>2, <1>3

LEMMA StepLeft ==
  ASSUME TypeInv, AliveInv, HomeInv, HoldApart, SessionsApart, OwnKeyrings, NEW p \in Proc, Step(p),
         NEW q \in Proc \ {p}, pc[q] # "closed", call[q] # Opening
  PROVE  Left(q)
<1>1. KernelInv /\ ProcTyped /\ ProcInv(p) /\ Held(q) \subseteq Id
  BY TypeInvParts, TopIds
<1>2. CASE UNCHANGED <<key, link>>
  BY <1>2 DEF Left, ItemKeys
<1>3. CASE Add(p) \/ LinkKey(p)
  BY <1>3, AddLeft, LinkKeyLeft
<1>4. CASE SetPermission(p)
  <2>1. /\ id[p] \in Id /\ id[p] \in Held(p) /\ key' = [key EXCEPT ![id[p]].perm = TRUE]
        /\ link' = link
    BY <1>1, <1>4, HeldOwn DEF SetPermission, SetPerm, ProcInv, IdInv, Through
  <2>2. \A i \in Held(q) : key'[i] = key[i]
    BY <1>1, <2>1 DEF HoldApart, KernelInv, KernelTyped
  <2> QED
    BY <2>1, <2>2, ItemsHeld DEF Left, ItemKeys
<1>5. CASE UnlinkKey(p)
  <2>1. /\ Unlink(SessionOf[p], id[p]) /\ SessionOf[p] \in Anchor /\ pc[p] \in Through
        /\ id[p] \in Held(p) /\ id[p] \in Id
    BY <1>1, <1>5, HeldOwn, KeyctlAssumption DEF UnlinkKey, Through, ProcInv, IdInv
  <2>2. ring[q] # SessionOf[p]
    BY RingApart DEF Sessions
  <2>3. ring[q] # id[p]
    BY <2>1, HeldOwn DEF HoldApart
  <2> QED
    BY <2>1, <2>2, <2>3, UnlinkLeft
<1>6. CASE RemoveUnlinks(p) /\ ~UNCHANGED <<key, link>>
  <2>1. /\ Unlink(ring[p], id[p]) /\ ring[p] \in Anchor \cup Id /\ id[p] \in link[ring[p]]
        /\ pc[p] = "remove" /\ call[p] # Opening
    BY <1>1, <1>6, OpeningIsNoCall DEF RemoveUnlinks, Exists, ProcInv, StepOfCall
  <2>2. ring[p] # ring[q]
    BY <2>1, RingsDiffer
  <2>3. ring[q] # id[p]
    <3>1. id[p] \in Id /\ key[id[p]] # NoKey /\ key[id[p]].type = "user"
      BY <1>1, <2>1 DEF KernelInv, ShapeOf, ProcInv, IdInv
    <3>2. ring[q] \in Id /\ key[ring[q]] # NoKey => key[ring[q]].type = "keyring"
      BY TypeInvParts DEF ProcInv, RingInv
    <3> QED
      BY <3>1, <3>2
  <2> QED
    BY <2>1, <2>2, <2>3, UnlinkLeft
<1>7. CASE FindRing(p) \/ SetFails(p) \/ SearchMisses(p) \/ SearchFinds(p) \/ ReadGone(p) \/ ReadGrows(p)
           \/ ReadItem(p) \/ ReadRing(p) \/ Describe(p) \/ Described(p) \/ Return(p)
  BY <1>2, <1>7 DEF FindRing, SetFails, SearchMisses, SearchFinds, ReadGone, ReadGrows, ReadItem,
                    ReadRing, Describe, Described, Return
<1> QED
  BY <1>2, <1>3, <1>4, <1>5, <1>6, <1>7 DEF Step

LEMMA StrangerLeft ==
  ASSUME TypeInv, AliveInv, HomeInv, SessionsApart, NEW u \in Proc, NEW k \in Strangers,
         \/ StrangerAdds(SessionOf[u], k) /\ Matches(SessionOf[u], "user", k) = {}
         \/ StrangerRemoves(SessionOf[u], k),
         NEW q \in Proc, pc[q] # "closed", call[q] # Opening
  PROVE  Left(q)
<1>1. KernelInv /\ ProcTyped /\ ProcInv(q) /\ SessionOf[u] \in Anchor
  BY TypeInvParts, KeyctlAssumption
<1>2. CASE StrangerAdds(SessionOf[u], k) /\ Matches(SessionOf[u], "user", k) = {}
  <2>1. PICK n \in Id : AddKey(SessionOf[u], "user", k, Stranger, n, Free)
    BY <1>2 DEF StrangerAdds
  <2>2. [type |-> "user", desc |-> k, data |-> Stranger, perm |-> FALSE] \in KeyRecord
    BY KeyctlAssumption DEF KeyRecord
  <2>3. Matches(SessionOf[u], "user", k) = {} /\ n \notin Held(q)
    BY <1>2, <2>1, FreeIsUnheld DEF AddKey
  <2> QED
    BY <1>1, <2>1, <2>2, <2>3, AddKeyLeft
<1>3. CASE StrangerRemoves(SessionOf[u], k)
  <2>1. PICK i \in Matches(SessionOf[u], "user", k) : Unlink(SessionOf[u], i)
    BY <1>3 DEF StrangerRemoves
  <2>2. i \in Id /\ key[i] # NoKey /\ key[i].type = "user"
    BY <1>1, <2>1 DEF Matches, KernelInv, KernelTyped, ShapeOf
  <2>3. ring[q] # i /\ ring[q] # SessionOf[u]
    BY <1>1, <2>2, RingApart DEF ProcInv, RingInv, Sessions
  <2> QED
    BY <1>1, <2>1, <2>3, UnlinkLeft
<1> QED
  BY <1>2, <1>3

\* What is left of its keys and its keyring is enough for a Set to go on.
LEMMA LeftSet ==
  ASSUME TypeInv, TypeInv', HomeInv, NEW q \in Proc, SetOf(q), Left(q), pc[q] # "closed", call[q] # Opening,
         pc'[q] = pc[q], call'[q] = call[q], ring'[q] = ring[q], id'[q] = id[q], result'[q] = result[q]
  PROVE  SetOf(q)'
<1> SUFFICES ASSUME call[q].op = "Set" PROVE SetOf(q)'
  BY DEF SetOf
<1>1. KernelInv /\ ProcInv(q) /\ ring[q] \in Anchor \cup Id
  BY TypeInvParts, ItemsHeld
<1>2. ASSUME pc[q] \in Through, key'[id[q]] # NoKey PROVE Given(q, id[q])'
  <2>1. id[q] \in Held(q)
    BY <1>2, HeldOwn
  <2>2. key'[id[q]] = key[id[q]]
    BY <1>2, <2>1 DEF Left
  <2> QED
    BY <1>2, <2>2 DEF SetOf, Given
<1>3. ASSUME pc[q] = "unlink" PROVE id[q] \in link'[ring[q]]
  <2>1. id[q] \in link[ring[q]]
    BY <1>3 DEF SetOf
  <2>2. key[id[q]] # NoKey
    BY <1>1, <2>1 DEF KernelInv, ShapeOf
  <2>3. key[id[q]].type = "user"
    BY <1>1, <1>3, <2>2 DEF ProcInv, IdInv, Through
  <2> QED
    BY <2>1, <2>3 DEF Left, ItemKeys
<1>4. ASSUME pc[q] = "return", result[q] = Ok
      PROVE  \E i \in link'[ring[q]] : /\ key'[i].type = "user" /\ key'[i].desc = call[q].key
                                       /\ Given(q, i)' /\ (key'[i].perm \/ key'[i].data = call[q].data)
  <2>1. PICK i \in ItemKeys(q) : /\ key[i].desc = call[q].key /\ Given(q, i)
                                 /\ key[i].perm \/ key[i].data = call[q].data
    BY <1>4 DEF SetOf
  <2>2. i \in link'[ring[q]] /\ key'[i] = key[i]
    BY <2>1 DEF Left
  <2>3. Given(q, i)' /\ (key'[i].perm \/ key'[i].data = call[q].data)
    BY <2>1, <2>2, Zenon DEF Given
  <2> QED
    BY <2>1, <2>2, <2>3 DEF ItemKeys
<1> QED
  BY <1>2, <1>3, <1>4 DEF SetOf, ItemKeys

\* Another program has put its data into a key that the session has.
LEMMA UpdatedSet ==
  ASSUME TypeInv, PermInv, SessionsApart, NEW q \in Proc, SetOf(q), pc[q] # "closed", UNCHANGED procVars,
         NEW s \in Sessions, NEW k \in Strangers, StrangerAdds(s, k), Matches(s, "user", k) # {}
  PROVE  SetOf(q)'
<1>1. KernelInv /\ ProcInv(q) /\ Sessions \subseteq Anchor
  BY TypeInvParts, SessionAnchors
<1>2. PICK n \in Matches(s, "user", k) :
        /\ n \in Id /\ link' = link
        /\ \A i \in Id \ {n} : key'[i] = key[i]
        /\ key'[n].type = "user" /\ key'[n].desc = k /\ key'[n].data = Stranger
        /\ key'[n].perm = key[n].perm
  BY <1>1, StrangerUpdates
<1>3. n \in link[s] /\ key[n] # NoKey /\ key[n].type = "user" /\ key[n].desc = k
  BY <1>1, <1>2 DEF Matches, KernelInv, ShapeOf
<1> SUFFICES ASSUME call[q].op = "Set" PROVE SetOf(q)'
  BY DEF SetOf, procVars
<1>4. ASSUME pc[q] \in Through, key'[id[q]] # NoKey PROVE Given(q, id[q])'
  <2>1. id[q] \in Id /\ call[q] # Opening
    BY <1>1, <1>4, OpeningIsNoCall DEF ProcInv, IdInv
  <2>2. CASE id[q] = n
    BY <1>1, <1>2, <1>3, <1>4, <2>1, <2>2 DEF ProcInv, IdInv, Given, procVars
  <2>3. CASE id[q] # n
    BY <1>2, <1>4, <2>1, <2>3 DEF SetOf, Given, procVars
  <2> QED
    BY <2>2, <2>3
<1>5. pc[q] = "unlink" => id[q] \in link[ring[q]]
  BY DEF SetOf
<1>6. ASSUME pc[q] = "return", result[q] = Ok
      PROVE  \E i \in ItemKeys(q)' : /\ key'[i].desc = call[q].key /\ Given(q, i)'
                                     /\ key'[i].perm \/ key'[i].data = call[q].data
  <2>1. PICK i \in ItemKeys(q) : /\ key[i].desc = call[q].key /\ Given(q, i)
                                 /\ key[i].perm \/ key[i].data = call[q].data
    BY <1>6 DEF SetOf
  <2>2. i \in Id /\ i \in link[ring[q]] /\ ring[q] \in (Anchor \cup Id) \ Sessions
    <3>1. ring[q] \in Anchor \cup Id
      BY <1>1, <1>6, KeyctlAssumption DEF ProcInv, RingInv
    <3> QED
      BY <1>1, <2>1, <3>1, RingApart DEF ItemKeys, KernelInv, KernelTyped
  <2>3. CASE i = n
    <3>1. key[n].perm
      BY <1>3, <2>2, <2>3 DEF PermInv, Passing, Sessions
    <3>2. i \in ItemKeys(q)' /\ key'[i].desc = call[q].key /\ key'[i].data = Stranger
      BY <1>2, <1>3, <2>1, <2>2, <2>3 DEF ItemKeys, procVars
    <3>3. key'[i].perm
      BY <1>2, <2>3, <3>1, Zenon
    <3>4. call'[q].key \in Strangers
      BY <1>3, <2>1, <2>3 DEF procVars
    <3> QED
      BY <3>2, <3>3, <3>4 DEF Given
  <2>4. CASE i # n
    BY <1>2, <2>1, <2>2, <2>4 DEF ItemKeys, Given, procVars
  <2> QED
    BY <2>3, <2>4
<1> QED
  BY <1>2, <1>4, <1>5, <1>6 DEF SetOf, procVars

\* A process that is in no Set, or whose Set fails.
LEMMA NoSet ==
  ASSUME NEW q \in Proc,
         \/ call'[q].op # "Set"
         \/ pc'[q] \notin Through \cup {"return"}
         \/ pc'[q] = "return" /\ result'[q] # Ok
  PROVE  SetOf(q)'
  BY ThroughSteps DEF SetOf, Through

\* add_key leaves a key of the data it is given.
LEMMA AddKeyGives ==
  ASSUME KernelInv, AliveInv, NEW r \in Anchor \cup Id, Exists(r), NEW desc, NEW data, NEW n \in Id,
         r \in Id => key[r].type = "keyring",
         [type |-> "user", desc |-> desc, data |-> data, perm |-> FALSE] \in KeyRecord,
         AddKey(r, "user", desc, data, n, Free)
  PROVE  /\ n \in link'[r] /\ key'[n].type = "user" /\ key'[n].desc = desc /\ key'[n].data = data
<1> DEFINE old == Matches(r, "user", desc)
<1>1. CASE old # {}
  <2>1. /\ n \in link[r] /\ key[n].type = "user" /\ key[n].desc = desc /\ key[n] \in KeyRecord
        /\ key' = [key EXCEPT ![n].data = data] /\ link' = link
    BY <1>1 DEF AddKey, Matches, KernelInv, ShapeOf, KernelTyped
  <2>2. key[n] \in [type : {"user"}, desc : Key, data : Data, perm : BOOLEAN]
    BY <2>1 DEF KeyRecord
  <2> QED
    BY <2>1, <2>2 DEF KernelInv, KernelTyped
<1>2. CASE old = {}
  <2> DEFINE new == [type |-> "user", desc |-> desc, data |-> data, perm |-> FALSE]
             lk == [link EXCEPT ![r] = (@ \ old) \cup {n}]
             ky == [key EXCEPT ![n] = new]
  <2>1. Settle(lk, ky) /\ KernelTyped(lk, ky) /\ n \in Free
    BY <1>2 DEF AddKey, KernelInv, KernelTyped
  <2>2. n \in lk[r] /\ ky[n] = new
    BY DEF KernelInv, KernelTyped
  <2>3. r \in Id => \E a \in Anchor : r \in lk[a]
    <3>1. ASSUME r \in Id PROVE \E a \in Anchor : r \in link[a]
      BY <3>1, Anchored, KernelAssumption DEF Exists
    <3>2. \A a \in Anchor : r \in Id => lk[a] = link[a]
      BY KernelAssumption DEF KernelInv, KernelTyped
    <3> QED
      BY <3>1, <3>2
  <2>4. new.type = "user" /\ new.desc = desc /\ new.data = data
    OBVIOUS
  <2> HIDE DEF lk, ky, new
  <2> QED
    BY <2>1, <2>2, <2>3, <2>4, SettleLink
<1> QED
  BY <1>1, <1>2

LEMMA LinkGives ==
  ASSUME KernelInv, AliveInv, NEW r \in Anchor \cup Id, Exists(r), NEW j \in Id, r # j, Link(r, j),
         r \in Id => key[r].type = "keyring"
  PROVE  j \in link'[r] /\ key'[j] = key[j]
<1> DEFINE lk == [link EXCEPT ![r] = (@ \ Matches(r, key[j].type, key[j].desc)) \cup {j}]
<1>1. Settle(lk, key) /\ KernelTyped(lk, key) /\ j \in lk[r]
  BY DEF Link, KernelInv, KernelTyped
<1>2. r \in Id => \E a \in Anchor : r \in lk[a]
  <2>1. ASSUME r \in Id PROVE \E a \in Anchor : r \in link[a]
    BY <2>1, Anchored, KernelAssumption DEF Exists
  <2>2. \A a \in Anchor : r \in Id => lk[a] = link[a]
    BY KernelAssumption DEF KernelInv, KernelTyped
  <2> QED
    BY <2>1, <2>2
<1> HIDE DEF lk
<1> QED
  BY <1>1, <1>2, SettleLink

LEMMA AddSet ==
  ASSUME TypeInv, AliveInv, NEW p \in Proc, Add(p) PROVE SetOf(p)'
<1>1. KernelInv /\ ProcTyped /\ ProcInv(p)
  BY TypeInvParts
<1>2. pc[p] = "add" /\ Exists(AddTo(p)) /\ AddTo(p) \in Anchor \cup Id
      /\ (AddTo(p) \in Id => key[AddTo(p)].type = "keyring")
  BY AddToRing DEF Add
<1>3. CASE call[p] = Opening
  <2>1. call'[p] \in {Opening, Idle}
    BY <1>1, <1>3 DEF Add, Finish, ProcTyped
  <2> QED
    BY <2>1, IdleIsNoCall, OpeningIsNoCall, NoSet
<1>4. CASE call[p] # Opening
  <2>1. PICK n \in Id :
          /\ AddKey(AddTo(p), "user", call[p].key, call[p].data, n, Free)
          /\ IF UsePerm[p]
             THEN id' = [id EXCEPT ![p] = n] /\ Go(p, "setperm") /\ UNCHANGED <<ring, call>>
             ELSE ring' = ring /\ Finish(p, Ok)
    BY <1>4 DEF Add
  <2>2. [type |-> "user", desc |-> call[p].key, data |-> call[p].data, perm |-> FALSE] \in KeyRecord
    BY <1>2, <1>4, SetStepIsSet DEF KeyRecord
  <2>3. /\ n \in link'[AddTo(p)] /\ key'[n].type = "user"
        /\ key'[n].desc = call[p].key /\ key'[n].data = call[p].data
    BY <1>1, <1>2, <2>1, <2>2, AddKeyGives
  <2>4. CASE UsePerm[p]
    <3>1. pc'[p] = "setperm" /\ id'[p] = n /\ call'[p] = call[p]
      BY <1>1, <2>1, <2>4 DEF Go, ProcTyped
    <3> QED
      BY <2>3, <3>1 DEF SetOf, Given
  <2>5. CASE ~UsePerm[p]
    <3>1. pc'[p] = "return" /\ call'[p] = call[p] /\ ring' = ring /\ AddTo(p) = ring[p]
      BY <1>1, <1>4, <2>1, <2>5 DEF Finish, Go, ProcTyped, AddTo
    <3> QED
      BY <2>3, <3>1 DEF SetOf, ItemKeys, Given, Through
  <2> QED
    BY <2>4, <2>5
<1> QED
  BY <1>3, <1>4

LEMMA SetStepSet ==
  ASSUME TypeInv, TypeInv', PermInv, AliveInv, HomeInv, SessionsApart, SetInv, NEW p \in Proc,
         SetPermission(p) \/ LinkKey(p) \/ UnlinkKey(p)
  PROVE  SetOf(p)'
<1>1. KernelInv /\ ProcTyped /\ ProcInv(p) /\ pc[p] \in Through /\ id[p] \in Id /\ SetOf(p)
  BY TypeInvParts DEF SetPermission, LinkKey, UnlinkKey, Through, ProcInv, IdInv, SetInv
<1>2. CASE call[p] = Opening
  <2>1. call'[p] \in {Opening, Idle}
    BY <1>1, <1>2 DEF SetPermission, LinkKey, UnlinkKey, Finish, ProcTyped
  <2> QED
    BY <2>1, IdleIsNoCall, OpeningIsNoCall, NoSet
<1>3. CASE call[p] # Opening /\ SetPermission(p)
  <2>1. /\ pc'[p] = "link" /\ id' = id /\ call' = call /\ key[id[p]] # NoKey
        /\ key' = [key EXCEPT ![id[p]].perm = TRUE]
    BY <1>1, <1>3 DEF SetPermission, SetPerm, Go, ProcTyped
  <2>2. key'[id[p]].data = key[id[p]].data
    BY <1>1, <2>1 DEF KernelInv, KernelTyped, KeyRecord
  <2> QED
    BY <1>1, <2>1, <2>2 DEF SetOf, Given
<1>4. CASE call[p] # Opening /\ LinkKey(p)
  <2>1. /\ pc[p] = "link" /\ pc'[p] = "unlink" /\ id' = id /\ call' = call /\ ring' = ring
        /\ key[id[p]] # NoKey /\ Exists(ring[p]) /\ Link(ring[p], id[p])
    BY <1>1, <1>4 DEF LinkKey, Go, ProcTyped
  <2>2. /\ ring[p] \in Anchor \cup Id
        /\ ring[p] \in Id => key[ring[p]].type = "keyring" /\ key[id[p]].type = "user"
    BY <2>1, LinkArguments
  <2>3. id[p] \in link'[ring[p]] /\ key'[id[p]] = key[id[p]]
    <3>1. ring[p] # id[p]
      BY <1>1, <2>2
    <3> QED
      BY <1>1, <2>1, <2>2, <3>1, LinkGives
  <2> QED
    BY <1>1, <2>1, <2>3 DEF SetOf, Given
<1>5. CASE call[p] # Opening /\ UnlinkKey(p)
  <2>1. /\ pc[p] = "unlink" /\ pc'[p] = "return" /\ call' = call /\ ring' = ring
        /\ Unlink(SessionOf[p], id[p]) /\ SessionOf[p] \in Anchor
    BY <1>1, <1>5, KeyctlAssumption DEF UnlinkKey, Finish, Go, ProcTyped
  <2>2. call[p].op = "Set" => id[p] \in link[ring[p]]
    BY <1>1, <2>1 DEF SetOf
  <2>3. ASSUME call[p].op = "Set"
        PROVE  /\ id[p] \in link'[ring[p]] /\ key'[id[p]] = key[id[p]]
               /\ key[id[p]].type = "user" /\ key[id[p]].desc = call[p].key
               /\ Given(p, id[p]) /\ key[id[p]].perm
    <3>1. id[p] \in link[ring[p]] /\ ring[p] \in Anchor \cup Id
      BY <1>1, <1>5, <2>1, <2>2, <2>3, ItemsHeld DEF Through
    <3>2. /\ key[id[p]] # NoKey /\ key[id[p]].type = "user" /\ key[id[p]].desc = call[p].key
          /\ Given(p, id[p]) /\ key[id[p]].perm
      BY <1>1, <1>5, <2>1, <2>3, <3>1 DEF KernelInv, ShapeOf, ProcInv, IdInv, SetOf, PermInv
    <3>3. ring[p] # id[p]
      BY <1>1, <3>1, <3>2 DEF KernelInv, ShapeOf
    <3>4. ring[p] # SessionOf[p]
      BY <2>1, RingApart DEF Sessions
    <3> QED
      BY <1>1, <2>1, <3>1, <3>2, <3>3, <3>4, UnlinkLeaves
  <2> QED
    BY <2>1, <2>3 DEF SetOf, ItemKeys, Given, Through
<1> QED
  BY <1>2, <1>3, <1>4, <1>5

LEMMA StepSet ==
  ASSUME TypeInv, TypeInv', PermInv, AliveInv, HomeInv, SessionsApart, SetInv, NEW p \in Proc, Step(p)
  PROVE  SetOf(p)'
<1>1. ProcTyped /\ ProcInv(p) /\ SetOf(p)
  BY TypeInvParts DEF SetInv
<1>2. CASE Add(p) \/ SetPermission(p) \/ LinkKey(p) \/ UnlinkKey(p)
  BY <1>2, AddSet, SetStepSet
<1>3. CASE SetFails(p)
  <2>1. Finish(p, Error)
    BY <1>3 DEF SetFails
  <2> QED
    BY <1>1, <2>1, OkIsNoError, IdleIsNoCall, NoSet DEF Finish, Go, ProcTyped
<1>4. CASE FindRing(p)
  <2>1. call[p] = Opening /\ call'[p] \in {Opening, Idle}
    BY <1>1, <1>4 DEF FindRing, Finish, ProcInv, StepOfCall, ProcTyped
  <2> QED
    BY <2>1, IdleIsNoCall, OpeningIsNoCall, NoSet
<1>5. CASE \/ SearchMisses(p) \/ SearchFinds(p) \/ RemoveUnlinks(p) \/ ReadGone(p) \/ ReadGrows(p)
           \/ ReadItem(p) \/ ReadRing(p) \/ Describe(p) \/ Described(p)
  <2>1. pc[p] \in {"search", "remove", "read", "describe"} /\ (call' = call \/ call'[p] = Idle)
    BY <1>1, <1>5 DEF SearchMisses, SearchFinds, RemoveUnlinks, ReadGone, ReadGrows, ReadItem, ReadRing,
                      Describe, Described, Finish, ProcTyped
  <2>2. call[p].op # "Set"
    BY <1>1, <2>1 DEF ProcInv, StepOfCall
  <2> QED
    BY <2>1, <2>2, IdleIsNoCall, NoSet
<1>6. CASE Return(p)
  BY <1>1, <1>6, IdleIsNoCall, NoSet DEF Return, Forget, ProcTyped
<1> QED
  BY <1>2, <1>3, <1>4, <1>5, <1>6 DEF Step

LEMMA NextSet ==
  ASSUME SessionsApart, OwnSessions, OwnKeyrings
  PROVE  TypeInv /\ PermInv /\ AliveInv /\ HomeInv /\ HoldApart /\ SetInv /\ [Next]_vars => SetInv'
<1> SUFFICES ASSUME TypeInv, PermInv, AliveInv, HomeInv, HoldApart, SetInv, [Next]_vars, NEW q \in Proc
             PROVE  SetOf(q)'
  BY DEF SetInv
<1>1. ProcTyped /\ ProcInv(q) /\ SetOf(q) /\ TypeInv'
  BY TypeInvParts, NextTypeInv DEF SetInv
<1>2. CASE UNCHANGED vars
  BY <1>1, <1>2 DEF vars, procVars, SetOf, ItemKeys, Given
<1>3. ASSUME Step(q) PROVE SetOf(q)'
  BY <1>1, <1>3, StepSet
<1>4. ASSUME Open(q) PROVE SetOf(q)'
  <2>1. call'[q] \in {Idle, Opening}
    BY <1>1, <1>4 DEF Open, ProcTyped, ProcInv, StepOfCall
  <2> QED
    BY <2>1, IdleIsNoCall, OpeningIsNoCall, NoSet
<1>5. ASSUME Call(q) PROVE SetOf(q)'
  <2>1. PICK cl \in Calls : call' = [call EXCEPT ![q] = cl] /\ Go(q, FirstStep(cl.op))
    BY <1>5 DEF Call
  <2>2. call'[q] = cl /\ (cl.op = "Set" => pc'[q] = "add")
    BY <1>1, <2>1 DEF Go, ProcTyped, FirstStep
  <2> QED
    BY <2>2, NoSet DEF Through
<1>6. ASSUME SyscallError(q) PROVE SetOf(q)'
  <2>1. \E r \in {Error, NotFound} : Finish(q, r)
    BY <1>6 DEF SyscallError
  <2> QED
    BY <1>1, <2>1, OkIsNoError, IdleIsNoCall, NoSet DEF Finish, Go, ProcTyped
<1>7. ASSUME Crash(q) PROVE SetOf(q)'
  BY <1>1, <1>7, IdleIsNoCall, NoSet DEF Crash, Forget, ProcTyped
<1>8. ASSUME pc'[q] = pc[q], call'[q] = call[q], ring'[q] = ring[q], id'[q] = id[q], result'[q] = result[q],
             pc[q] # "closed" /\ call[q] # Opening => Left(q) \/ SetOf(q)'
      PROVE  SetOf(q)'
  <2>1. CASE pc[q] # "closed" /\ call[q] # Opening
    BY <1>1, <1>8, <2>1, LeftSet
  <2>2. CASE pc[q] = "closed" \/ call[q] = Opening
    <3>1. call[q].op # "Set"
      BY <1>1, <2>2, IdleIsNoCall, OpeningIsNoCall DEF ProcInv, StepOfCall
    <3> QED
      BY <1>8, <3>1, NoSet
  <2> QED
    BY <2>1, <2>2
<1>9. ASSUME NEW p \in Proc \ {q}, Step(p) PROVE SetOf(q)'
  <2>1. /\ pc'[q] = pc[q] /\ call'[q] = call[q] /\ ring'[q] = ring[q]
        /\ id'[q] = id[q] /\ result'[q] = result[q]
    <3>1. CASE Add(p) \/ LinkKey(p)
      BY <1>1, <3>1 DEF Add, LinkKey, Finish, Go, ProcTyped
    <3>2. CASE QuietStep(p)
      BY <3>2, QuietStepProc
    <3> QED
      BY <1>9, <3>1, <3>2 DEF Step, QuietStep
  <2> QED
    BY <1>8, <1>9, <2>1, StepLeft
<1>10. ASSUME NEW p \in Proc \ {q}, Open(p) \/ Call(p) \/ SyscallError(p) \/ Crash(p) PROVE SetOf(q)'
  <2>1. /\ pc'[q] = pc[q] /\ call'[q] = call[q] /\ ring'[q] = ring[q]
        /\ id'[q] = id[q] /\ result'[q] = result[q]
    BY <1>1, <1>10 DEF Open, Call, SyscallError, Crash, Forget, Finish, Go, ProcTyped
  <2>2. Left(q)
    BY <1>10 DEF Open, Call, SyscallError, Crash, Left, ItemKeys
  <2> QED
    BY <1>8, <2>1, <2>2
<1>11. ASSUME NEW u \in Proc, NEW k \in Strangers,
              StrangerAdds(SessionOf[u], k) \/ StrangerRemoves(SessionOf[u], k)
       PROVE  SetOf(q)'
  <2>1. UNCHANGED procVars
    BY <1>11 DEF StrangerAdds, StrangerRemoves
  <2>2. CASE StrangerAdds(SessionOf[u], k) /\ Matches(SessionOf[u], "user", k) # {}
    BY <1>1, <1>8, <2>1, <2>2, UpdatedSet DEF procVars, Sessions
  <2>3. CASE ~(StrangerAdds(SessionOf[u], k) /\ Matches(SessionOf[u], "user", k) # {})
    BY <1>8, <1>11, <2>1, <2>3, StrangerLeft DEF procVars
  <2> QED
    BY <2>2, <2>3
<1> QED
  BY <1>2, <1>3, <1>4, <1>5, <1>6, <1>7, <1>9, <1>10, <1>11 DEF Next

\* A Set that returns nil has left its own item in its own keyring
\* (keyctl.go:119-149): whatever other services do in the same scope, and
\* whichever calls failed or died half way before.  Other programs that add keys to
\* the session it goes through, or remove them, can only do one thing to it: put their
\* own data in the place of a key of the same name.  Each process that sets permissions
\* needs a session of its own, and nobody else may use its keyring.
THEOREM SetLeavesItemHolds ==
  SessionsApart /\ OwnSessions /\ OwnKeyrings => (Spec => []SetLeavesItem)
<1> SUFFICES ASSUME SessionsApart, OwnSessions, OwnKeyrings PROVE Spec => []SetLeavesItem
  OBVIOUS
<1>1. Init => PermInv /\ AliveInv /\ HomeInv /\ HoldApart /\ SetInv
  <2> SUFFICES ASSUME Init PROVE PermInv /\ AliveInv /\ HomeInv /\ HoldApart /\ SetInv
    OBVIOUS
  <2>1. ASSUME NEW q \in Proc PROVE Held(q) = {} /\ HomeOf(q) /\ SetOf(q)
    <3>1. SessionOf[q] \in Anchor /\ Scope[q] \in Anchor /\ NoId \notin Id
      BY KeyctlAssumption, KernelAssumption
    <3>2. Top(q) = {}
      BY <3>1 DEF Init, Top, Through
    <3> QED
      BY <3>2, IdleIsNoCall, OpeningIsNoCall DEF Init, Held, HomeOf, SetOf
  <2>2. AliveInv /\ PermInv
    BY DEF Init, AliveInv, PermInv
  <2> QED
    BY <2>1, <2>2 DEF HomeInv, HoldApart, SetInv
<1>2. SetInv => SetLeavesItem
  <2> SUFFICES ASSUME SetInv, NEW p \in Proc, pc[p] = "return", call[p].op = "Set", result[p] = Ok
               PROVE  \E i \in Matches(ring[p], "user", call[p].key) :
                        \/ key[i].data = call[p].data
                        \/ key[i].perm /\ call[p].key \in Strangers /\ key[i].data = Stranger
    BY DEF SetLeavesItem
  <2>1. PICK i \in ItemKeys(p) : /\ key[i].desc = call[p].key /\ Given(p, i)
                                 /\ key[i].perm \/ key[i].data = call[p].data
    BY DEF SetInv, SetOf
  <2>2. i \in Matches(ring[p], "user", call[p].key)
    BY <2>1 DEF ItemKeys, Matches
  <2> QED
    BY <2>1, <2>2, Zenon DEF Given
<1> QED
  BY <1>1, <1>2, InitTypeInv, NextTypeInv, NextPermInv, NextAlive, NextHome, NextApart, NextSet, PTL DEF Spec

-----------------------------------------------------------------------------
\* One keyring is shared by all, and all set permissions or none does.
SharedKeyring == \A p, q \in Proc : Scope[p] = Scope[q] /\ Service[p] = Service[q]
SameWay == \A p, q \in Proc : UsePerm[p] = UsePerm[q]

\* The marks of the refinement mapping are no items.
DataApart == "no item" \notin Data /\ "damaged" \notin Data

\* No keyring links two keys of one type and name.
UniqueIn(lk, ky) ==
  \A r \in Anchor \cup Id : \A i, j \in lk[r] :
    ky[i].type = ky[j].type /\ ky[i].desc = ky[j].desc => i = j

NamesUnique == UniqueIn(link, key)

\* Each named keyring is that of a service.
KeyringsNamed == \A i \in Id : key[i] # NoKey /\ key[i].type = "keyring" => key[i].desc # NoService

KernelUnique == NamesUnique /\ KeyringsNamed

LEMMA SettleUnique ==
  ASSUME NEW lk, NEW ky, Settle(lk, ky), KernelInv', UniqueIn(lk, ky)
  PROVE  NamesUnique'
<1> SUFFICES ASSUME NEW r \in Anchor \cup Id, NEW i \in link'[r], NEW j \in link'[r],
                    key'[i].type = key'[j].type, key'[i].desc = key'[j].desc
             PROVE  i = j
  BY DEF NamesUnique, UniqueIn
<1>1. i \in Id /\ j \in Id /\ key'[i] # NoKey /\ key'[j] # NoKey
  BY DEF KernelInv, KernelTyped, ShapeOf
<1>2. key'[i] = ky[i] /\ key'[j] = ky[j]
  BY <1>1 DEF Settle
<1>3. i \in lk[r] /\ j \in lk[r]
  BY DEF Settle
<1> QED
  BY <1>2, <1>3 DEF UniqueIn

LEMMA AddKeyUnique ==
  ASSUME KernelInv, KernelInv', KernelUnique, NEW r \in Anchor \cup Id, NEW type, NEW desc, NEW data, NEW n \in Id,
         [type |-> type, desc |-> desc, data |-> data, perm |-> FALSE] \in KeyRecord,
         type = "keyring" => desc # NoService,
         AddKey(r, type, desc, data, n, Free)
  PROVE  KernelUnique'
<1> DEFINE old == Matches(r, type, desc)
           new == [type |-> type, desc |-> desc, data |-> data, perm |-> FALSE]
<1>1. CASE type = "user" /\ old # {}
  <2>1. link' = link /\ key' = [key EXCEPT ![n].data = data] /\ n \in link[r] /\ key[n] \in KeyRecord
    BY <1>1 DEF AddKey, Matches, KernelInv, KernelTyped, ShapeOf
  <2>2. \A i \in Id \ {n} : key'[i] = key[i]
    BY <2>1 DEF KernelInv, KernelTyped
  <2>3. key'[n].type = key[n].type /\ key'[n].desc = key[n].desc /\ key[n] # NoKey
    BY <2>1, KeyKinds DEF KernelInv, KernelTyped, KeyRecord
  <2>4. \A s \in Anchor \cup Id : link[s] \subseteq Id
    BY DEF KernelInv, KernelTyped
  <2>5. \A i \in Id : key'[i].type = key[i].type /\ key'[i].desc = key[i].desc
    BY <2>2, <2>3
  <2> QED
    BY <2>1, <2>2, <2>3, <2>4, <2>5 DEF KernelUnique, NamesUnique, UniqueIn, KeyringsNamed
<1>2. CASE ~(type = "user" /\ old # {})
  <2> DEFINE lk == [link EXCEPT ![r] = (@ \ old) \cup {n}]
             ky == [key EXCEPT ![n] = new]
  <2>1. n \in Free /\ Settle(lk, ky)
    BY <1>2 DEF AddKey
  <2>2. \A s \in Anchor \cup Id : n \notin link[s] /\ link[s] \subseteq Id
    BY <2>1 DEF Free, KernelInv, KernelTyped, ShapeOf
  <2>3. ky[n] = new /\ \A i \in Id \ {n} : ky[i] = key[i]
    BY DEF KernelInv, KernelTyped
  <2>4. lk[r] = (link[r] \ old) \cup {n} /\ \A s \in (Anchor \cup Id) \ {r} : lk[s] = link[s]
    BY DEF KernelInv, KernelTyped
  <2>5. UniqueIn(lk, ky)
    <3> SUFFICES ASSUME NEW s \in Anchor \cup Id, NEW i \in lk[s], NEW j \in lk[s],
                        ky[i].type = ky[j].type, ky[i].desc = ky[j].desc
                 PROVE  i = j
      BY DEF UniqueIn
    <3>1. ASSUME NEW u \in link[s], u \in lk[s], s = r, ky[u].type = type, ky[u].desc = desc PROVE FALSE
      <4>1. u \in Id \ {n}
        BY <2>2
      <4> QED
        BY <2>3, <2>4, <3>1, <4>1 DEF Matches
    <3>2. new.type = type /\ new.desc = desc
      OBVIOUS
    <3>3. CASE s = r
      BY <2>2, <2>3, <2>4, <3>1, <3>2, <3>3 DEF KernelUnique, NamesUnique, UniqueIn
    <3>4. CASE s # r
      BY <2>2, <2>3, <2>4, <3>4 DEF KernelUnique, NamesUnique, UniqueIn
    <3> QED
      BY <3>3, <3>4
  <2>6. KeyringsNamed'
    <3>1. \A i \in Id : key'[i] \in {ky[i], NoKey}
      BY <2>1 DEF Settle
    <3> HIDE DEF ky, lk
    <3> SUFFICES ASSUME NEW i \in Id, key'[i] # NoKey, key'[i].type = "keyring" PROVE key'[i].desc # NoService
      BY DEF KeyringsNamed
    <3>2. key'[i] = ky[i]
      BY <3>1
    <3> QED
      BY <2>3, <3>2 DEF KernelUnique, KeyringsNamed
  <2> HIDE DEF ky, lk
  <2> QED
    BY <2>1, <2>5, <2>6, SettleUnique DEF KernelUnique
<1> QED
  BY <1>1, <1>2

LEMMA SettledNamed ==
  ASSUME KeyringsNamed, NEW lk, Settle(lk, key) PROVE KeyringsNamed'
<1> SUFFICES ASSUME NEW i \in Id, key'[i] # NoKey, key'[i].type = "keyring" PROVE key'[i].desc # NoService
  BY DEF KeyringsNamed
<1>1. key'[i] = key[i]
  BY DEF Settle
<1> QED
  BY <1>1 DEF KeyringsNamed

LEMMA LinkUnique ==
  ASSUME KernelInv, KernelInv', KernelUnique, NEW r \in Anchor \cup Id, NEW j \in Id, Link(r, j)
  PROVE  KernelUnique'
<1> DEFINE lk == [link EXCEPT ![r] = (@ \ Matches(r, key[j].type, key[j].desc)) \cup {j}]
<1>1. Settle(lk, key)
  BY DEF Link
<1>2. lk[r] = (link[r] \ Matches(r, key[j].type, key[j].desc)) \cup {j}
      /\ \A s \in (Anchor \cup Id) \ {r} : lk[s] = link[s]
  BY DEF KernelInv, KernelTyped
<1>3. UniqueIn(lk, key)
  BY <1>2 DEF UniqueIn, KernelUnique, NamesUnique, Matches
<1> HIDE DEF lk
<1> QED
  BY <1>1, <1>3, SettleUnique, SettledNamed DEF KernelUnique

LEMMA UnlinkUnique ==
  ASSUME KernelInv, KernelInv', KernelUnique, NEW r \in Anchor \cup Id, NEW j, Unlink(r, j)
  PROVE  KernelUnique'
<1> DEFINE lk == [link EXCEPT ![r] = @ \ {j}]
<1>1. Settle(lk, key)
  BY DEF Unlink
<1>2. \A s \in Anchor \cup Id : lk[s] \subseteq link[s]
  BY DEF KernelInv, KernelTyped
<1>3. UniqueIn(lk, key)
  BY <1>2 DEF UniqueIn, KernelUnique, NamesUnique
<1> HIDE DEF lk
<1> QED
  BY <1>1, <1>3, SettleUnique, SettledNamed DEF KernelUnique

LEMMA NothingUnique == ASSUME KernelUnique, UNCHANGED <<key, link>> PROVE KernelUnique'
  BY DEF KernelUnique, NamesUnique, UniqueIn, KeyringsNamed

LEMMA SetPermKey ==
  ASSUME KernelInv, NEW j \in Id, key[j] # NoKey, SetPerm(j)
  PROVE  /\ link' = link
         /\ \A i \in Id : /\ key'[i].type = key[i].type /\ key'[i].desc = key[i].desc
                          /\ key'[i].data = key[i].data
                          /\ key'[i] = NoKey <=> key[i] = NoKey
<1>1. key' = [key EXCEPT ![j].perm = TRUE] /\ link' = link /\ key[j] \in KeyRecord
  BY DEF SetPerm, KernelInv, KernelTyped
<1>2. \A i \in Id \ {j} : key'[i] = key[i]
  BY <1>1 DEF KernelInv, KernelTyped
<1>3. /\ key'[j].type = key[j].type /\ key'[j].desc = key[j].desc /\ key'[j].data = key[j].data
      /\ key'[j] \in KeyRecord
  BY <1>1 DEF KernelInv, KernelTyped, KeyRecord
<1> QED
  BY <1>1, <1>2, <1>3, KeyKinds

LEMMA SetPermUnique ==
  ASSUME KernelInv, KernelUnique, NEW j \in Id, key[j] # NoKey, SetPerm(j) PROVE KernelUnique'
<1>1. \A r \in Anchor \cup Id : link[r] \subseteq Id
  BY DEF KernelInv, KernelTyped
<1>2. /\ link' = link
      /\ \A i \in Id : /\ key'[i].type = key[i].type /\ key'[i].desc = key[i].desc
                       /\ key'[i] = NoKey <=> key[i] = NoKey
  BY SetPermKey
<1>3. NamesUnique'
  BY <1>1, <1>2 DEF KernelUnique, NamesUnique, UniqueIn
<1>4. KeyringsNamed'
  BY <1>2 DEF KernelUnique, KeyringsNamed
<1> QED
  BY <1>3, <1>4 DEF KernelUnique

-----------------------------------------------------------------------------
\* The keyrings that hold the items of the store, and the keys of one name in it.
Rings == UNION {RingsOf(p) : p \in Proc}
ItemsOf(k) == {i \in UNION {link[r] : r \in Rings} : key[i].type = "user" /\ key[i].desc = k}

LEMMA ItemInIs == \A k : ItemIn(k) = IF ItemsOf(k) = {} THEN "no item" ELSE key[CHOOSE i \in ItemsOf(k) : TRUE].data
  BY DEF ItemIn, ItemsOf, Rings

LEMMA RingsShared ==
  ASSUME SharedKeyring, NEW p \in Proc
  PROVE  Rings = RingsOf(p) /\ Rings' = RingsOf(p)'
<1>1. \A q \in Proc : Scope[q] = Scope[p] /\ Service[q] = Service[p]
  BY DEF SharedKeyring
<1>2. \A q \in Proc : RingsOf(q) = RingsOf(p) /\ RingsOf(q)' = RingsOf(p)'
  BY <1>1 DEF RingsOf
<1> QED
  BY <1>2 DEF Rings

\* A keyring of items is linked in the scope or is the scope's, and is no session.
LEMMA RingPlace ==
  ASSUME SharedKeyring, KernelInv, SessionsApart, NEW p \in Proc, NEW r \in Rings
  PROVE  /\ r \in Anchor \cup Id /\ r \notin Sessions /\ Scope[p] \in Anchor
         /\ r \in Id => r \in link[Scope[p]] /\ key[r] # NoKey /\ key[r].type = "keyring"
         /\ r \in Anchor => r = Scope[p] /\ Service[p] = NoService
         /\ Service[p] = NoService => r = Scope[p]
<1>1. r \in RingsOf(p) /\ Scope[p] \in Anchor
  BY RingsShared, KeyctlAssumption
<1>2. Anchor \cap Id = {} /\ Sessions \subseteq Anchor /\ Scope[p] \notin Sessions
  BY KernelAssumption, SessionAnchors DEF Sessions, SessionsApart
<1>3. CASE Service[p] = NoService
  BY <1>1, <1>2, <1>3 DEF RingsOf
<1>4. CASE Service[p] # NoService
  <2>1. r \in link[Scope[p]] /\ key[r].type = "keyring"
    BY <1>1, <1>4 DEF RingsOf, Matches
  <2> QED
    BY <1>1, <1>2, <1>4, <2>1 DEF KernelInv, KernelTyped, ShapeOf
<1> QED
  BY <1>3, <1>4

LEMMA RingsOne ==
  ASSUME SharedKeyring, KernelInv, NamesUnique, NEW r \in Rings
  PROVE  Rings = {r}
<1>1. PICK p \in Proc : r \in RingsOf(p)
  BY DEF Rings
<1>2. Rings = RingsOf(p) /\ Scope[p] \in Anchor
  BY RingsShared, KeyctlAssumption
<1> QED
  BY <1>1, <1>2 DEF RingsOf, Matches, NamesUnique, UniqueIn

\* Who has opened the keyring has that one.
LEMMA RingIs ==
  ASSUME SharedKeyring, KernelInv, HandleInv, NamesUnique, NEW p \in Proc,
         pc[p] \notin {"closed", "find"}, call[p] # Opening
  PROVE  Rings = {ring[p]}
  BY RingsOne DEF HandleInv, HandleOf, Rings

LEMMA ItemFound ==
  ASSUME KernelInv, NamesUnique, NEW r \in Anchor \cup Id, Rings = {r}, NEW i \in link[r], key[i].type = "user"
  PROVE  ItemIn(key[i].desc) = key[i].data /\ key[i].data \in Data /\ key[i].desc \in Key
<1>1. ItemsOf(key[i].desc) = {i}
  BY DEF ItemsOf, NamesUnique, UniqueIn
<1>2. i \in Id /\ key[i] \in KeyRecord
  BY DEF KernelInv, KernelTyped, ShapeOf
<1> QED
  BY <1>1, <1>2, ItemInIs, KeyKinds

LEMMA ItemAbsent ==
  ASSUME NEW r, Rings = {r} \/ Rings = {}, NEW k,
         Rings = {r} => \A i \in link[r] : ~(key[i].type = "user" /\ key[i].desc = k)
  PROVE  ItemIn(k) = "no item"
<1>1. ItemsOf(k) = {}
  BY DEF ItemsOf
<1> QED
  BY <1>1, ItemInIs

\* The store is the same if the keyrings are and link the same.
LEMMA StoreSame ==
  ASSUME Rings' = Rings,
         \A r \in Rings : link'[r] = link[r]
                          /\ \A i \in link[r] : /\ key'[i].type = key[i].type /\ key'[i].desc = key[i].desc
                                                /\ key'[i].data = key[i].data
  PROVE  Stored' = Stored
<1>1. UNION {link'[r] : r \in Rings'} = UNION {link[r] : r \in Rings}
  OBVIOUS
<1>2. \A i \in UNION {link[r] : r \in Rings} :
        key'[i].type = key[i].type /\ key'[i].desc = key[i].desc /\ key'[i].data = key[i].data
  OBVIOUS
<1>3. ASSUME NEW k PROVE ItemsOf(k)' = ItemsOf(k)
  BY <1>1, <1>2 DEF ItemsOf
<1>4. ASSUME NEW k PROVE ItemIn(k)' = ItemIn(k)
  <2>1. ItemIn(k)' = IF ItemsOf(k)' = {} THEN "no item" ELSE key'[CHOOSE i \in ItemsOf(k)' : TRUE].data
    BY DEF ItemIn, ItemsOf, Rings
  <2>2. ItemsOf(k) \subseteq UNION {link[r] : r \in Rings}
    BY DEF ItemsOf
  <2>3. CASE ItemsOf(k) = {}
    BY <1>3, <2>1, <2>3, ItemInIs
  <2>4. CASE ItemsOf(k) # {}
    <3>1. (CHOOSE i \in ItemsOf(k) : TRUE) \in ItemsOf(k)
      BY <2>4
    <3> QED
      BY <1>2, <1>3, <2>1, <2>2, <2>4, <3>1, ItemInIs
  <2> QED
    BY <2>3, <2>4
<1> QED
  BY <1>4 DEF Stored

\* One key of the keyring is put or replaced, and that is one item of the store.
LEMMA StorePuts ==
  ASSUME KernelInv, KernelInv', KeysEvolve, NamesUnique, NamesUnique', NEW r \in Anchor \cup Id, Rings = {r},
         Rings' = {r}, NEW n \in link'[r], NEW k \in Key, NEW d,
         key'[n].type = "user", key'[n].desc = k, key'[n].data = d,
         link'[r] \subseteq link[r] \cup {n},
         \A i \in link[r] : ~(key[i].type = "user" /\ key[i].desc = k) => i \in link'[r] /\ key'[i] = key[i]
  PROVE  Stored' = [Stored EXCEPT ![k] = d]
<1>1. ItemsOf(k)' = {n}
  <2>1. NamesUnique'
    OBVIOUS
  <2>2. \A i, j \in link'[r] : key'[i].type = key'[j].type /\ key'[i].desc = key'[j].desc => i = j
    BY <2>1 DEF NamesUnique, UniqueIn
  <2> QED
    BY <2>2 DEF ItemsOf
<1>2. ItemIn(k)' = d
  <2>1. ItemIn(k)' = IF ItemsOf(k)' = {} THEN "no item" ELSE key'[CHOOSE i \in ItemsOf(k)' : TRUE].data
    BY DEF ItemIn, ItemsOf, Rings
  <2> QED
    BY <1>1, <2>1
<1>3. ASSUME NEW j \in Key \ {k} PROVE ItemIn(j)' = ItemIn(j)
  <2>1. ASSUME NEW i \in link'[r], key'[i].type = "user", key'[i].desc = j
        PROVE  i \in link[r] /\ key'[i] = key[i]
    <3>1. i \in link[r] /\ i \in Id /\ key'[i] # NoKey /\ key[i] # NoKey
      BY <1>3, <2>1 DEF KernelInv, KernelTyped, ShapeOf
    <3>2. key'[i].type = key[i].type /\ key'[i].desc = key[i].desc
      BY <3>1 DEF KeysEvolve, Free
    <3> QED
      BY <1>3, <2>1, <3>1, <3>2
  <2>2. ItemsOf(j)' = ItemsOf(j) /\ \A i \in ItemsOf(j) : key'[i] = key[i]
    BY <1>3, <2>1 DEF ItemsOf
  <2>3. ItemIn(j)' = IF ItemsOf(j)' = {} THEN "no item" ELSE key'[CHOOSE i \in ItemsOf(j)' : TRUE].data
    BY DEF ItemIn, ItemsOf, Rings
  <2> QED
    BY <2>2, <2>3, ItemInIs
<1> QED
  BY <1>2, <1>3 DEF Stored

\* One key is taken from it, and that is one item less.
LEMMA StoreTakes ==
  ASSUME KernelInv, NamesUnique, NEW r \in Anchor \cup Id, Rings = {r}, Rings' = {r},
         NEW n \in link[r], NEW k \in Key, key[n].type = "user", key[n].desc = k,
         link'[r] = link[r] \ {n}, \A i \in link'[r] : key'[i] = key[i]
  PROVE  Stored' = [Stored EXCEPT ![k] = "no item"]
<1>0. ASSUME NEW j PROVE ItemIn(j)' = IF ItemsOf(j)' = {} THEN "no item" ELSE key'[CHOOSE i \in ItemsOf(j)' : TRUE].data
  BY DEF ItemIn, ItemsOf, Rings
<1>1. ItemsOf(k)' = {}
  BY DEF ItemsOf, NamesUnique, UniqueIn
<1>2. ASSUME NEW j \in Key \ {k} PROVE ItemIn(j)' = ItemIn(j)
  <2>1. ItemsOf(j)' = ItemsOf(j) /\ \A i \in ItemsOf(j) : key'[i] = key[i]
    BY <1>2 DEF ItemsOf
  <2>2. ItemIn(j)' = IF ItemsOf(j)' = {} THEN "no item" ELSE key'[CHOOSE i \in ItemsOf(j)' : TRUE].data
    BY <1>0
  <2> QED
    BY <2>1, <2>2, ItemInIs
<1>3. ItemIn(k)' = "no item"
  BY <1>0, <1>1
<1> QED
  BY <1>2, <1>3 DEF Stored

-----------------------------------------------------------------------------
\* The data of a key that a Get has found are changed by no other call or program.
Steady == AllByWay /\ Strangers = {}

\* What a process keeps besides its step and its call.
RestInv(q) ==
  /\ pc[q] # "return" => result[q] = Error
  /\ pc[q] \notin {"read", "describe", "return"} => seen[q] = Error
  /\ pc[q] = "read" /\ call[q].op # "Get" => seen[q] = Error
  /\ pc[q] \notin {"describe", "return"} => names[q] = {}
  /\ pc[q] \in Through => UsePerm[q]

\* What the key is that a call works on, if it still is.
WorkInv(q) ==
  /\ pc[q] \in {"setperm", "link"} /\ call[q] # Opening /\ key[id[q]] # NoKey => Given(q, id[q])
  /\ pc[q] \in {"setperm", "link"} /\ call[q] = Opening => link[id[q]] = {}
  /\ pc[q] = "remove" /\ key[id[q]] # NoKey => key[id[q]].desc = call[q].key
  /\ pc[q] = "read" /\ call[q].op = "Get" /\ key[id[q]] # NoKey =>
       key[id[q]].desc = call[q].key /\ (Steady => seen[q] = Found(key[id[q]].data))

\* A list that finds all its keys will be that of the keyring as it was read.
DescsOf(S) == {key[i].desc : i \in {j \in S : key[j].type = "user"}}

ListInv(q) ==
  pc[q] = "describe" /\ (\A i \in ids[q] : key[i] # NoKey) => seen[q] = Listing(names[q] \cup DescsOf(ids[q]))

CallInv(q) == RestInv(q) /\ WorkInv(q) /\ ListInv(q)

DataKept == \A i \in Id : key'[i] = NoKey \/ i \in Free \/ key'[i].data = key[i].data

\* Data change only where another program puts its own.
DataGiven ==
  \A i \in Id : \/ key'[i] = NoKey
                \/ i \in Free
                \/ key'[i].data = key[i].data
                \/ key[i].desc \in Strangers /\ key'[i].data = Stranger

LEMMA CallFrame ==
  ASSUME TypeInv, KeysEvolve, NEW q \in Proc, CallInv(q),
         pc'[q] = pc[q], call'[q] = call[q], result'[q] = result[q], id'[q] = id[q], ids'[q] = ids[q],
         names'[q] = names[q], seen'[q] = seen[q],
         DataKept \/ (~Steady /\ (~UsePerm[q] \/ DataGiven)),
         pc[q] \in {"setperm", "link"} /\ call[q] = Opening => link'[id[q]] \subseteq link[id[q]]
  PROVE  CallInv(q)'
<1>1. ProcTyped /\ ProcInv(q) /\ ids[q] \subseteq Id
  BY TypeInvParts DEF ProcTyped
<1>2. RestInv(q)'
  BY DEF CallInv, RestInv
<1>3. id[q] \notin Free /\ ids[q] \cap Free = {}
  BY DEF Free
<1>4. ASSUME NEW i \in Id \ Free, key'[i] # NoKey
      PROVE  /\ key[i] # NoKey /\ key'[i].type = key[i].type /\ key'[i].desc = key[i].desc
             /\ DataKept => key'[i].data = key[i].data
             /\ DataGiven => (\/ key'[i].data = key[i].data
                              \/ key[i].desc \in Strangers /\ key'[i].data = Stranger)
  BY <1>4 DEF KeysEvolve, DataKept, DataGiven
<1>5. WorkInv(q)'
  <2>1. pc[q] \in {"setperm", "link"} => id[q] \in Id /\ UsePerm[q]
    BY <1>1 DEF ProcInv, IdInv, Through, CallInv, RestInv
  <2>2. pc[q] = "remove" \/ (pc[q] = "read" /\ call[q].op = "Get") => id[q] \in Id
    BY <1>1 DEF ProcInv, IdInv
  <2>3. (pc[q] \in {"setperm", "link"} /\ call[q] # Opening /\ key[id[q]] # NoKey => Given(q, id[q]))'
    <3> SUFFICES ASSUME pc[q] \in {"setperm", "link"}, call[q] # Opening, key'[id[q]] # NoKey
                 PROVE  \/ key'[id[q]].data = call[q].data
                        \/ call[q].key \in Strangers /\ key'[id[q]].data = Stranger
      BY DEF Given
    <3>1. id[q] \in Id \ Free /\ key[id[q]] # NoKey /\ (DataKept \/ DataGiven)
      BY <1>3, <1>4, <2>1
    <3>2. \/ key[id[q]].data = call[q].data
          \/ call[q].key \in Strangers /\ key[id[q]].data = Stranger
      BY <3>1 DEF CallInv, WorkInv, Given
    <3>3. key[id[q]].desc = call[q].key
      BY <1>1, <3>1 DEF ProcInv, IdInv, Through
    <3>4. \/ key'[id[q]].data = key[id[q]].data
          \/ key[id[q]].desc \in Strangers /\ key'[id[q]].data = Stranger
      BY <1>4, <3>1
    <3> QED
      BY <3>2, <3>3, <3>4, Zenon
  <2>4. (pc[q] \in {"setperm", "link"} /\ call[q] = Opening => link[id[q]] = {})'
    BY DEF CallInv, WorkInv
  <2>5. (pc[q] = "remove" /\ key[id[q]] # NoKey => key[id[q]].desc = call[q].key)'
    BY <1>3, <1>4, <2>2 DEF CallInv, WorkInv
  <2>6. (pc[q] = "read" /\ call[q].op = "Get" /\ key[id[q]] # NoKey =>
           key[id[q]].desc = call[q].key /\ (Steady => seen[q] = Found(key[id[q]].data)))'
    BY <1>3, <1>4, <2>2 DEF CallInv, WorkInv, Steady, AllByWay
  <2> QED
    BY <2>3, <2>4, <2>5, <2>6 DEF WorkInv
<1>6. ListInv(q)'
  <2> SUFFICES ASSUME pc[q] = "describe", \A i \in ids[q] : key'[i] # NoKey
               PROVE  seen[q] = Listing(names[q] \cup DescsOf(ids[q])')
    BY DEF ListInv, DescsOf
  <2>1. \A i \in ids[q] : key[i] # NoKey /\ key'[i].type = key[i].type /\ key'[i].desc = key[i].desc
    BY <1>1, <1>3, <1>4
  <2>2. DescsOf(ids[q])' = DescsOf(ids[q])
    BY <2>1 DEF DescsOf
  <2> QED
    BY <2>1, <2>2 DEF CallInv, ListInv
<1> QED
  BY <1>2, <1>5, <1>6 DEF CallInv

\* A call that is over, and one that is given up, leave nothing behind.
LEMMA FinishCall ==
  ASSUME TypeInv, NEW p \in Proc, CallInv(p), pc[p] \notin {"closed", "idle", "return"}, NEW r, Finish(p, r),
         UNCHANGED <<seen, names>>
  PROVE  CallInv(p)'
<1>1. ProcTyped /\ ProcInv(p)
  BY TypeInvParts
<1>2. IF call[p] = Opening
      THEN pc'[p] \in {"idle", "closed"} /\ result'[p] = result[p]
      ELSE pc'[p] = "return"
  BY <1>1 DEF Finish, Go, ProcTyped
<1>3. call[p] = Opening => pc[p] \notin {"read", "describe", "return"}
  BY <1>1, OpeningIsNoCall DEF ProcInv, StepOfCall
<1> QED
  BY <1>2, <1>3 DEF CallInv, RestInv, WorkInv, ListInv, Through

LEMMA ForgetCall ==
  ASSUME TypeInv, NEW p \in Proc, Forget(p), NEW step \in {"idle", "closed"}, Go(p, step)
  PROVE  CallInv(p)'
<1>1. ProcTyped
  BY TypeInvParts
<1>2. pc'[p] = step /\ result'[p] = Error /\ seen'[p] = Error /\ names'[p] = {}
  BY <1>1 DEF Forget, Go, ProcTyped
<1> QED
  BY <1>2 DEF CallInv, RestInv, WorkInv, ListInv, Through

LEMMA BeginCall ==
  ASSUME TypeInv, NEW p \in Proc, CallInv(p), Open(p) \/ Call(p)
  PROVE  CallInv(p)'
<1>1. ProcTyped
  BY TypeInvParts
<1>2. /\ result'[p] = result[p] /\ seen'[p] = seen[p] /\ names'[p] = names[p] /\ pc[p] \in {"closed", "idle"}
  BY DEF Open, Call
<1>3. /\ pc'[p] \in {"idle", "find", "search", "add", "read", "return"}
      /\ pc'[p] = "read" => call'[p].op # "Get"
  <2>1. CASE Open(p)
    BY <1>1, <2>1 DEF Open, Go, ProcTyped
  <2>2. CASE Call(p)
    <3>1. PICK cl \in Calls : call' = [call EXCEPT ![p] = cl] /\ Go(p, FirstStep(cl.op))
      BY <2>2 DEF Call
    <3>2. cl.op \in {"Get", "GetMetadata", "Remove", "Set", "Keys"}
      BY CallArguments
    <3>3. call'[p] = cl /\ pc'[p] = FirstStep(cl.op)
      BY <1>1, <3>1 DEF Go, ProcTyped
    <3> QED
      BY <3>2, <3>3 DEF FirstStep
  <2> QED
    BY <2>1, <2>2
<1> QED
  BY <1>2, <1>3 DEF CallInv, RestInv, WorkInv, ListInv, Through

\* A new key on its way is what the call is about, and a new keyring is empty.
LEMMA AddCall ==
  ASSUME TypeInv, AliveInv, NEW p \in Proc, CallInv(p), Add(p) PROVE CallInv(p)'
<1>1. KernelInv /\ ProcTyped /\ ProcInv(p)
  BY TypeInvParts
<1>2. pc[p] = "add" /\ Exists(AddTo(p)) /\ UNCHANGED <<seen, names>>
  BY DEF Add
<1>3. CASE ~UsePerm[p]
  <2>1. Finish(p, Ok)
    BY <1>3 DEF Add
  <2> QED
    BY <1>2, <2>1, FinishCall
<1>4. CASE UsePerm[p]
  <2>1. PICK n \in Id :
          /\ IF call[p] = Opening
             THEN AddKey(SessionOf[p], "keyring", Service[p], NoData, n, Free)
             ELSE AddKey(SessionOf[p], "user", call[p].key, call[p].data, n, Free)
          /\ id' = [id EXCEPT ![p] = n] /\ Go(p, "setperm") /\ UNCHANGED <<ring, call, result>>
    BY <1>4 DEF Add, AddTo
  <2>2. pc'[p] = "setperm" /\ id'[p] = n /\ SessionOf[p] \in Anchor /\ SessionOf[p] # n
    BY <1>1, <2>1, KeyctlAssumption, KernelAssumption DEF Go, ProcTyped
  <2>3. RestInv(p)'
    BY <1>2, <1>4, <2>1, <2>2 DEF CallInv, RestInv
  <2>4. call[p] # Opening => key'[n].data = call[p].data
    <3>1. SUFFICES ASSUME call[p] # Opening PROVE key'[n].data = call[p].data
      OBVIOUS
    <3>2. call[p] \in Calls /\ call[p].op = "Set"
      BY <1>1, <1>2, <3>1, IdleIsNoCall DEF ProcTyped, ProcInv, StepOfCall, Through
    <3>3. [type |-> "user", desc |-> call[p].key, data |-> call[p].data, perm |-> FALSE] \in KeyRecord
      BY <3>2, CallArguments DEF KeyRecord
    <3> QED
      BY <1>1, <1>2, <2>1, <2>2, <3>1, <3>3, AddKeyGives, KernelAssumption DEF Exists
  <2>5. call[p] = Opening => link'[n] = {}
    <3>1. SUFFICES ASSUME call[p] = Opening PROVE link'[n] = {}
      OBVIOUS
    <3>2. n \in Free
      BY <2>1, <3>1 DEF AddKey
    <3>3. [type |-> "keyring", desc |-> Service[p], data |-> NoData, perm |-> FALSE] \in KeyRecord
      BY DEF KeyRecord
    <3>4. link'[n] \subseteq link[n]
      BY <1>1, <2>1, <2>2, <3>1, <3>3, AddKeyEffect, KernelAssumption DEF Exists
    <3> QED
      BY <3>2, <3>4, FreeIsUnheld
  <2>6. WorkInv(p)' /\ ListInv(p)'
    BY <2>1, <2>2, <2>4, <2>5 DEF WorkInv, ListInv, Given
  <2> QED
    BY <2>3, <2>6 DEF CallInv
<1> QED
  BY <1>3, <1>4

LEMMA PassCall ==
  ASSUME TypeInv, NEW p \in Proc, CallInv(p), SetPermission(p) \/ LinkKey(p) PROVE CallInv(p)'
<1>1. KernelInv /\ ProcTyped /\ ProcInv(p)
  BY TypeInvParts
<1>2. UNCHANGED <<call, result, id, seen, names>> /\ pc[p] \in {"setperm", "link"} /\ key[id[p]] # NoKey
  BY DEF SetPermission, LinkKey
<1>3. id[p] \in Id /\ UsePerm[p]
  BY <1>1, <1>2 DEF ProcInv, IdInv, Through, CallInv, RestInv
<1>4. CASE SetPermission(p)
  <2>1. pc[p] = "setperm" /\ pc'[p] = "link" /\ SetPerm(id[p])
    BY <1>1, <1>4 DEF SetPermission, Go, ProcTyped
  <2>2. link' = link /\ key'[id[p]].data = key[id[p]].data
    BY <1>1, <1>2, <1>3, <2>1, SetPermKey
  <2> QED
    BY <1>2, <1>3, <2>1, <2>2 DEF CallInv, RestInv, WorkInv, ListInv, Given
<1>5. CASE LinkKey(p)
  <2>1. pc[p] = "link" /\ pc'[p] = "unlink"
    BY <1>1, <1>5 DEF LinkKey, Go, ProcTyped
  <2> QED
    BY <1>2, <1>3, <2>1 DEF CallInv, RestInv, WorkInv, ListInv
<1> QED
  BY <1>4, <1>5

LEMMA HitsMatch ==
  ASSUME TypeInv, NEW p \in Proc, NEW i \in Hits(p)
  PROVE  i \in Id /\ key[i] # NoKey /\ key[i].type = "user" /\ key[i].desc = call[p].key
<1>1. KernelInv /\ Exists(ring[p])
  BY TypeInvParts DEF Hits
<1>2. PICK r : r \in Anchor \cup Id /\ i \in Matches(r, "user", call[p].key)
  BY <1>1 DEF Hits, Search, Matches, Exists, KernelInv, KernelTyped
<1> QED
  BY <1>1, <1>2 DEF Matches, KernelInv, KernelTyped, ShapeOf

LEMMA LookCall ==
  ASSUME TypeInv, NEW p \in Proc, CallInv(p), SearchFinds(p) \/ ReadGrows(p) \/ ReadRing(p) PROVE CallInv(p)'
<1>1. ProcTyped /\ ProcInv(p)
  BY TypeInvParts
<1>2. UNCHANGED <<key, link, ring, call, result, names>>
  BY DEF SearchFinds, ReadGrows, ReadRing
<1>3. CASE SearchFinds(p)
  <2>1. PICK i \in Hits(p) :
          /\ id' = [id EXCEPT ![p] = i]
          /\ seen' = [seen EXCEPT ![p] = IF call[p].op = "Get" THEN Found(key[i].data) ELSE @]
    BY <1>3 DEF SearchFinds
  <2>2. /\ pc[p] = "search" /\ id'[p] = i /\ pc'[p] = (IF call[p].op = "Get" THEN "read" ELSE "remove")
        /\ seen'[p] = IF call[p].op = "Get" THEN Found(key[i].data) ELSE seen[p]
    BY <1>1, <1>3, <2>1 DEF SearchFinds, Go, ProcTyped
  <2> QED
    BY <1>2, <2>1, <2>2, HitsMatch DEF CallInv, RestInv, WorkInv, ListInv, Through
<1>4. CASE ReadGrows(p)
  BY <1>2, <1>4 DEF ReadGrows, CallInv, RestInv, WorkInv, ListInv, DescsOf
<1>5. CASE ReadRing(p)
  <2>1. /\ pc[p] = "read" /\ pc'[p] = "describe" /\ ids'[p] = link[ring[p]]
        /\ seen'[p] = Listing(UserKeys(ring[p])) /\ names'[p] = names[p]
    BY <1>1, <1>2, <1>5 DEF ReadRing, Go, ProcTyped
  <2>2. names[p] = {}
    BY <2>1 DEF CallInv, RestInv
  <2>3. DescsOf(ids[p])' = UserKeys(ring[p])
    BY <1>2, <2>1 DEF DescsOf, UserKeys
  <2>4. ListInv(p)'
    <3>1. names'[p] \cup DescsOf(ids[p])' = UserKeys(ring[p])
      BY <2>1, <2>2, <2>3
    <3> QED
      BY <2>1, <3>1 DEF ListInv, DescsOf
  <2> QED
    BY <1>2, <2>1, <2>4 DEF CallInv, RestInv, WorkInv, Through
<1> QED
  BY <1>3, <1>4, <1>5

LEMMA DescribeCall ==
  ASSUME TypeInv, NEW p \in Proc, CallInv(p), Describe(p) PROVE CallInv(p)'
<1>1. ProcTyped /\ pc[p] = "describe" /\ UNCHANGED <<key, link, id, seen>>
  BY TypeInvParts DEF Describe
<1>2. PICK i \in ids[p] :
        /\ ids' = [ids EXCEPT ![p] = @ \ {i}]
        /\ IF key[i] = NoKey
           THEN Finish(p, Error) /\ UNCHANGED names
           ELSE /\ names' = [names EXCEPT ![p] = IF key[i].type = "user" THEN @ \cup {key[i].desc} ELSE @]
                /\ UNCHANGED <<call, pc, result>>
  BY DEF Describe
<1>3. CASE key[i] = NoKey
  BY <1>1, <1>2, <1>3, FinishCall
<1>4. CASE key[i] # NoKey
  <2>1. /\ ids'[p] = ids[p] \ {i} /\ UNCHANGED <<call, pc, result>>
        /\ names'[p] = IF key[i].type = "user" THEN names[p] \cup {key[i].desc} ELSE names[p]
    BY <1>1, <1>2, <1>4 DEF ProcTyped
  <2>2. DescsOf(ids[p]) = DescsOf(ids[p] \ {i}) \cup (IF key[i].type = "user" THEN {key[i].desc} ELSE {})
    BY DEF DescsOf
  <2>3. DescsOf(ids[p])' = DescsOf(ids[p] \ {i})
    BY <1>1, <2>1 DEF DescsOf
  <2>4. names'[p] \cup DescsOf(ids[p])' = names[p] \cup DescsOf(ids[p])
    BY <2>1, <2>2, <2>3
  <2>5. ListInv(p)'
    BY <1>1, <1>4, <2>1, <2>4 DEF CallInv, ListInv, DescsOf
  <2> QED
    BY <1>1, <2>1, <2>5 DEF CallInv, RestInv, WorkInv
<1> QED
  BY <1>3, <1>4

\* What a step leaves of the call it is a step of.
LEMMA StepCall ==
  ASSUME TypeInv, AliveInv, NEW p \in Proc, CallInv(p),
         Open(p) \/ Call(p) \/ Step(p) \/ SyscallError(p) \/ Crash(p)
  PROVE  CallInv(p)'
<1>1. ProcTyped
  BY TypeInvParts
<1>2. CASE Open(p) \/ Call(p)
  BY <1>2, BeginCall
<1>3. CASE Add(p)
  BY <1>3, AddCall
<1>4. CASE SetPermission(p) \/ LinkKey(p)
  BY <1>4, PassCall
<1>5. CASE SearchFinds(p) \/ ReadGrows(p) \/ ReadRing(p)
  BY <1>5, LookCall
<1>6. CASE Describe(p)
  BY <1>6, DescribeCall
<1>7. CASE Return(p) \/ Crash(p)
  BY <1>7, ForgetCall DEF Return, Crash
<1>8. CASE FindRing(p) /\ Go(p, "add") /\ UNCHANGED <<ring, call, result>>
  <2>1. /\ pc[p] = "find" /\ pc'[p] = "add" /\ UNCHANGED <<result, seen, names>>
    BY <1>1, <1>8 DEF FindRing, Go, ProcTyped
  <2> QED
    BY <2>1 DEF CallInv, RestInv, WorkInv, ListInv, Through
<1>9. CASE \/ FindRing(p) /\ Finish(p, Ok)
           \/ UnlinkKey(p) \/ SetFails(p) \/ SearchMisses(p) \/ RemoveUnlinks(p) \/ ReadGone(p) \/ ReadItem(p)
           \/ Described(p) \/ SyscallError(p)
  <2>1. /\ pc[p] \notin {"closed", "idle", "return"} /\ UNCHANGED <<seen, names>>
        /\ \E r : Finish(p, r)
    BY <1>9 DEF FindRing, UnlinkKey, SetFails, SearchMisses, RemoveUnlinks, ReadGone, ReadItem, Described,
                SyscallError
  <2> QED
    BY <2>1, FinishCall
<1>10. FindRing(p) => Finish(p, Ok) \/ (Go(p, "add") /\ UNCHANGED <<ring, call, result>>)
  BY DEF FindRing
<1> QED
  BY <1>2, <1>3, <1>4, <1>5, <1>6, <1>7, <1>8, <1>9, <1>10 DEF Step

\* Processes together, undisturbed, each with a session of its own if they set permissions.
Together == OpenAlone /\ Undisturbed /\ OwnSessions /\ SameWay

\* What a step does to the processes that do not make it: nothing.
LEMMA StepOthers ==
  ASSUME TypeInv, NEW p \in Proc, Open(p) \/ Call(p) \/ Step(p) \/ SyscallError(p) \/ Crash(p), NEW q \in Proc \ {p}
  PROVE  /\ pc'[q] = pc[q] /\ call'[q] = call[q] /\ result'[q] = result[q] /\ id'[q] = id[q]
         /\ ids'[q] = ids[q] /\ names'[q] = names[q] /\ seen'[q] = seen[q] /\ ring'[q] = ring[q]
<1>1. ProcTyped
  BY TypeInvParts
<1>2. CASE Open(p) \/ Call(p) \/ SyscallError(p) \/ Crash(p)
  BY <1>1, <1>2 DEF Open, Call, SyscallError, Crash, Forget, Finish, Go, ProcTyped
<1>3. CASE Add(p) \/ LinkKey(p) \/ FindRing(p) \/ SetPermission(p) \/ UnlinkKey(p) \/ SetFails(p)
  BY <1>1, <1>3 DEF Add, LinkKey, FindRing, SetPermission, UnlinkKey, SetFails, Finish, Go, ProcTyped
<1>4. CASE \/ SearchMisses(p) \/ SearchFinds(p) \/ RemoveUnlinks(p) \/ ReadGone(p) \/ ReadGrows(p)
           \/ ReadItem(p) \/ ReadRing(p) \/ Describe(p) \/ Described(p) \/ Return(p)
  BY <1>1, <1>4 DEF SearchMisses, SearchFinds, RemoveUnlinks, ReadGone, ReadGrows, ReadItem, ReadRing,
                    Describe, Described, Return, Forget, Finish, Go, ProcTyped
<1> QED
  BY <1>2, <1>3, <1>4 DEF Step

LEMMA RingsKept == RingsSame => Rings' = Rings
<1> SUFFICES ASSUME RingsSame PROVE Rings' = Rings
  OBVIOUS
<1>1. \A p \in Proc : RingsOf(p)' = RingsOf(p)
  BY DEF RingsSame, RingsOf, Named
<1> QED
  BY <1>1 DEF Rings

\* Most steps leave the keyrings, and of the keys all that they do not destroy.
LEMMA QuietKeys ==
  ASSUME TypeInv, KernelUnique, KernelInv', SessionsApart, NEW p \in Proc, QuietStep(p)
  PROVE  DataKept /\ RingsSame /\ KernelUnique'
<1>1. KernelInv /\ ProcTyped /\ ProcInv(p) /\ SessionOf[p] \in Anchor /\ \A q \in Proc : Scope[q] \in Anchor
  BY TypeInvParts, KeyctlAssumption
<1>2. CASE UNCHANGED <<key, link>>
  BY <1>2, NothingRings, NothingUnique DEF DataKept
<1>3. CASE SetPermission(p)
  <2>1. id[p] \in Id /\ key[id[p]] # NoKey /\ SetPerm(id[p])
    BY <1>1, <1>3 DEF SetPermission, ProcInv, IdInv, Through
  <2>2. /\ link' = link
        /\ \A i \in Id : key'[i].type = key[i].type /\ key'[i].desc = key[i].desc /\ key'[i].data = key[i].data
    BY <1>1, <2>1, SetPermKey
  <2>3. \A r \in Anchor \cup Id : link[r] \subseteq Id
    BY <1>1 DEF KernelInv, KernelTyped
  <2>4. DataKept
    BY <2>2 DEF DataKept
  <2>5. RingsSame
    BY <1>1, <2>2, <2>3 DEF RingsSame, Named, Matches
  <2> QED
    BY <1>1, <2>1, <2>4, <2>5, SetPermUnique
<1>4. ASSUME NEW r \in Anchor \cup Id, NEW j, Unlink(r, j),
             \A q \in Proc : Scope[q] # r \/ (j \in link[r] => key[j].type = "user")
      PROVE  DataKept /\ RingsSame /\ KernelUnique'
  <2>1. \A i \in Id : key'[i] \in {key[i], NoKey}
    BY <1>4 DEF Unlink, Settle
  <2>2. DataKept
    BY <2>1 DEF DataKept
  <2>3. RingsSame
    BY <1>1, <1>4, UnlinkRings DEF RingsSame, Named
  <2> QED
    BY <1>1, <1>4, <2>2, <2>3, UnlinkUnique
<1>5. CASE UnlinkKey(p)
  <2>1. Unlink(SessionOf[p], id[p]) /\ \A q \in Proc : Scope[q] # SessionOf[p]
    BY <1>5 DEF UnlinkKey, SessionsApart
  <2> QED
    BY <1>1, <1>4, <2>1
<1>6. CASE RemoveUnlinks(p) /\ Exists(ring[p]) /\ id[p] \in link[ring[p]]
  <2>1. ring[p] \in Anchor \cup Id /\ Unlink(ring[p], id[p]) /\ pc[p] = "remove"
    BY <1>6 DEF RemoveUnlinks, Exists
  <2>2. key[id[p]] # NoKey
    BY <1>1, <1>6, <2>1 DEF KernelInv, ShapeOf
  <2>3. key[id[p]].type = "user"
    BY <1>1, <2>1, <2>2 DEF ProcInv, IdInv
  <2> QED
    BY <1>4, <2>1, <2>3
<1> QED
  BY <1>2, <1>3, <1>5, <1>6
     DEF QuietStep, FindRing, SetFails, SearchMisses, SearchFinds, RemoveUnlinks, ReadGone, ReadGrows,
         ReadItem, ReadRing, Describe, Described, Return

LEMMA OpensByItself ==
  ASSUME TypeInv, HandleInv, SharedKeyring, NEW q \in Proc, call[q] = Opening, pc[q] \in {"add", "setperm", "link"},
         NEW p \in Proc \ {q}
  PROVE  pc[p] = "closed" /\ Rings = {}
<1>1. Service[q] # NoService /\ Named(q) = {}
  BY DEF HandleInv, HandleOf
<1>2. RingsOf(p) = {} /\ RingsOf(q) = {}
  BY <1>1 DEF RingsOf, Named, SharedKeyring
<1>3. call[p] # Opening
  BY DEF HandleInv
<1>4. pc[p] \in {"closed", "find"}
  BY <1>2, <1>3 DEF HandleInv, HandleOf
<1>5. pc[p] # "find"
  BY <1>3, TypeInvParts DEF ProcInv, StepOfCall
<1> QED
  BY <1>2, <1>4, <1>5, RingsShared

\* A process that goes through its session finds it empty.
LEMMA OwnSession ==
  ASSUME TypeInv, SessionClean, OwnSessions, AllByWay, NEW p \in Proc, pc[p] \notin Through
  PROVE  link[SessionOf[p]] = {}
  BY DEF SessionClean, OwnSessions, AllByWay, Through

\* A fresh key, and a key that is linked, change no data.
LEMMA AddKeyData ==
  ASSUME NEW r \in Anchor \cup Id, NEW type, NEW desc, NEW data, NEW n \in Id, KernelInv,
         AddKey(r, type, desc, data, n, Free), type = "keyring" \/ Matches(r, type, desc) = {}
  PROVE  DataKept
<1>1. n \in Free
  BY DEF AddKey
<1>2. \A i \in Id \ {n} : key'[i] \in {key[i], NoKey}
  BY AddKeyOthers
<1> QED
  BY <1>1, <1>2 DEF DataKept

LEMMA LinkKeeper ==
  ASSUME NEW r, NEW j, Link(r, j) \/ Unlink(r, j) PROVE DataKept
<1>1. \A i \in Id : key'[i] \in {key[i], NoKey}
  BY DEF Link, Unlink, Settle
<1> QED
  BY <1>1 DEF DataKept

\* What Add and LinkKey give the kernel to do.
LEMMA AddIs ==
  ASSUME TypeInv, NEW p \in Proc, Add(p)
  PROVE  /\ pc[p] = "add" /\ Exists(AddTo(p)) /\ AddTo(p) \in Anchor \cup Id
         /\ AddTo(p) \in Id => call[p] # Opening /\ key[AddTo(p)].type = "keyring"
         /\ call[p] # Opening => call[p] \in Calls /\ call[p].op = "Set" /\ call[p].key \in Key /\ call[p].data \in Data
         /\ \E n \in Id, type \in {"keyring", "user"} : \E desc, data :
              /\ AddKey(AddTo(p), type, desc, data, n, Free)
              /\ [type |-> type, desc |-> desc, data |-> data, perm |-> FALSE] \in KeyRecord
              /\ IF call[p] = Opening THEN type = "keyring" /\ desc = Service[p] /\ data = NoData
                                      ELSE type = "user" /\ desc = call[p].key /\ data = call[p].data
              /\ IF UsePerm[p]
                 THEN id' = [id EXCEPT ![p] = n] /\ Go(p, "setperm") /\ UNCHANGED <<ring, call, result>>
                 ELSE /\ ring' = IF call[p] = Opening THEN [ring EXCEPT ![p] = n] ELSE ring
                      /\ Finish(p, Ok) /\ UNCHANGED id
<1>1. KernelInv /\ ProcTyped /\ ProcInv(p)
  BY TypeInvParts
<1>2. pc[p] = "add" /\ Exists(AddTo(p))
  BY DEF Add
<1>3. /\ AddTo(p) \in Anchor \cup Id
      /\ AddTo(p) \in Id => call[p] # Opening /\ key[AddTo(p)].type = "keyring"
  BY <1>2, AddToRing
<1>4. call[p] # Opening => call[p] \in Calls /\ call[p].op = "Set"
  BY <1>1, <1>2, IdleIsNoCall DEF ProcTyped, ProcInv, StepOfCall, Through
<1>5. call[p] # Opening => call[p].key \in Key /\ call[p].data \in Data
  BY <1>4, CallArguments
<1>6. PICK n \in Id :
        /\ IF call[p] = Opening
           THEN AddKey(AddTo(p), "keyring", Service[p], NoData, n, Free)
           ELSE AddKey(AddTo(p), "user", call[p].key, call[p].data, n, Free)
        /\ IF UsePerm[p]
           THEN id' = [id EXCEPT ![p] = n] /\ Go(p, "setperm") /\ UNCHANGED <<ring, call, result>>
           ELSE /\ ring' = IF call[p] = Opening THEN [ring EXCEPT ![p] = n] ELSE ring
                /\ Finish(p, Ok) /\ UNCHANGED id
  BY DEF Add
<1>7. CASE call[p] = Opening
  <2>1. [type |-> "keyring", desc |-> Service[p], data |-> NoData, perm |-> FALSE] \in KeyRecord
    BY DEF KeyRecord
  <2> QED
    BY <1>2, <1>3, <1>6, <1>7, <2>1
<1>8. CASE call[p] # Opening
  <2>1. [type |-> "user", desc |-> call[p].key, data |-> call[p].data, perm |-> FALSE] \in KeyRecord
    BY <1>5, <1>8 DEF KeyRecord
  <2> QED
    BY <1>2, <1>3, <1>4, <1>5, <1>6, <1>8, <2>1
<1> QED
  BY <1>7, <1>8

Setting == SharedKeyring /\ SessionsApart /\ (Alone \/ Together)

StoreInv == KernelUnique /\ \A q \in Proc : CallInv(q)

\* What the steps that add and link keys leave to the calls of others.
LEMMA AddOthers ==
  ASSUME TypeInv, TypeInv', HandleInv, AliveInv, StoreInv, Together => SessionClean, Setting, NEW p \in Proc, Add(p)
  PROVE  StoreInv'
<1>1. KernelInv /\ KernelInv' /\ ProcTyped
  BY TypeInvParts DEF TypeInv, TypeOK, KernelInv, KernelTyped
<1>2. PICK n \in Id, type \in {"keyring", "user"} : \E desc, data :
        /\ AddKey(AddTo(p), type, desc, data, n, Free)
        /\ [type |-> type, desc |-> desc, data |-> data, perm |-> FALSE] \in KeyRecord
        /\ IF call[p] = Opening THEN type = "keyring" /\ desc = Service[p] /\ data = NoData
                                ELSE type = "user" /\ desc = call[p].key /\ data = call[p].data
  BY AddIs
<1>3. PICK desc, data :
        /\ AddKey(AddTo(p), type, desc, data, n, Free)
        /\ [type |-> type, desc |-> desc, data |-> data, perm |-> FALSE] \in KeyRecord
        /\ IF call[p] = Opening THEN type = "keyring" /\ desc = Service[p] /\ data = NoData
                                ELSE type = "user" /\ desc = call[p].key /\ data = call[p].data
  BY <1>2
<1>4. /\ pc[p] = "add" /\ Exists(AddTo(p)) /\ AddTo(p) \in Anchor \cup Id
      /\ AddTo(p) \in Id => call[p] # Opening /\ key[AddTo(p)].type = "keyring"
  BY AddIs
<1>5. KeysEvolve
  BY <1>1, <1>3, <1>4, AddKeyKeeps
<1>6. KernelUnique'
  <2>1. type = "keyring" => desc # NoService
    BY <1>3 DEF HandleInv, HandleOf
  <2> QED
    BY <1>1, <1>3, <1>4, <2>1, AddKeyUnique DEF StoreInv
<1>7. CallInv(p)'
  BY StepCall DEF StoreInv, Step
<1>8. ASSUME NEW q \in Proc \ {p} PROVE CallInv(q)'
  <2>1. Together /\ SessionClean /\ ~Alone
    BY <1>8 DEF Setting, Alone
  <2>2. DataKept \/ (~Steady /\ ~UsePerm[q])
    <3>1. CASE AllByWay
      <4>1. AddTo(p) = SessionOf[p] /\ link[SessionOf[p]] = {}
        BY <1>4, <2>1, <3>1, OwnSession DEF AddTo, AllByWay, Together, Through
      <4>2. Matches(AddTo(p), type, desc) = {}
        BY <4>1 DEF Matches
      <4> QED
        BY <1>1, <1>3, <1>4, <4>2, AddKeyData
    <3>2. CASE ~AllByWay
      BY <2>1, <3>2 DEF Steady, AllByWay, Together, SameWay
    <3> QED
      BY <3>1, <3>2
  <2>3. pc[q] \in {"setperm", "link"} /\ call[q] = Opening => link'[id[q]] \subseteq link[id[q]]
    BY <1>4, <1>8, OpensByItself DEF Setting
  <2> QED
    BY <1>5, <1>8, <2>2, <2>3, StepOthers, CallFrame DEF StoreInv, Step
<1> QED
  BY <1>6, <1>7, <1>8 DEF StoreInv

LEMMA LinkOthers ==
  ASSUME TypeInv, TypeInv', HandleInv, AliveInv, StoreInv, Setting, NEW p \in Proc, LinkKey(p)
  PROVE  StoreInv'
<1>1. KernelInv /\ KernelInv' /\ ProcTyped
  BY TypeInvParts DEF TypeInv, TypeOK, KernelInv, KernelTyped
<1>2. /\ pc[p] = "link" /\ key[id[p]] # NoKey /\ Exists(ring[p]) /\ Link(ring[p], id[p])
  BY DEF LinkKey
<1>3. /\ id[p] \in Id /\ ring[p] \in Anchor \cup Id
      /\ ring[p] \in Id => key[ring[p]].type = "keyring" /\ key[id[p]].type = "user"
  BY <1>2, LinkArguments
<1>4. KeysEvolve /\ DataKept
  BY <1>1, <1>2, <1>3, LinkKeeps, LinkKeeper
<1>5. KernelUnique'
  BY <1>1, <1>2, <1>3, LinkUnique DEF StoreInv
<1>6. CallInv(p)'
  BY StepCall DEF StoreInv, Step
<1>7. ASSUME NEW q \in Proc \ {p} PROVE CallInv(q)'
  <2>1. pc[q] \in {"setperm", "link"} /\ call[q] = Opening => link'[id[q]] \subseteq link[id[q]]
    BY <1>2, <1>7, OpensByItself DEF Setting
  <2> QED
    BY <1>4, <1>7, <2>1, StepOthers, CallFrame DEF StoreInv, Step
<1> QED
  BY <1>5, <1>6, <1>7 DEF StoreInv

LEMMA StrangerKeys ==
  ASSUME TypeInv, KernelUnique, KernelInv', SessionsApart, NEW u \in Proc, NEW k \in Strangers,
         StrangerAdds(SessionOf[u], k) \/ StrangerRemoves(SessionOf[u], k)
  PROVE  /\ KeysEvolve /\ DataGiven /\ RingsSame /\ KernelUnique' /\ UNCHANGED procVars
         /\ \A r \in Id : link'[r] \subseteq link[r]
<1>1. KernelInv /\ SessionOf[u] \in Anchor /\ SessionOf[u] \notin Id /\ Exists(SessionOf[u])
  BY TypeInvParts, KeyctlAssumption, KernelAssumption DEF Exists
<1>2. \A q \in Proc : Scope[q] \in Anchor /\ Scope[q] # SessionOf[u]
  BY KeyctlAssumption DEF SessionsApart
<1>3. UNCHANGED procVars
  BY DEF StrangerAdds, StrangerRemoves
<1>4. CASE StrangerAdds(SessionOf[u], k)
  <2>1. PICK n \in Id : AddKey(SessionOf[u], "user", k, Stranger, n, Free)
    BY <1>4 DEF StrangerAdds
  <2>2. [type |-> "user", desc |-> k, data |-> Stranger, perm |-> FALSE] \in KeyRecord
    BY KeyctlAssumption DEF KeyRecord
  <2>3. KeysEvolve /\ \A r \in Id : link'[r] \subseteq link[r]
    BY <1>1, <2>1, <2>2, AddKeyKeeps, AddKeyEffect
  <2>4. KernelUnique'
    BY <1>1, <2>1, <2>2, AddKeyUnique
  <2>5. RingsSame
    BY <1>1, <1>2, <2>1, AddKeyRings DEF RingsSame, Named
  <2>6. DataGiven
    <3>1. CASE Matches(SessionOf[u], "user", k) = {}
      <4>1. DataKept
        BY <1>1, <2>1, <3>1, AddKeyData
      <4> QED
        BY <4>1 DEF DataKept, DataGiven
    <3>2. CASE Matches(SessionOf[u], "user", k) # {}
      BY <1>1, <1>4, <3>2, StrangerUpdates DEF DataGiven, Matches
    <3> QED
      BY <3>1, <3>2
  <2> QED
    BY <1>3, <2>3, <2>4, <2>5, <2>6
<1>5. CASE StrangerRemoves(SessionOf[u], k)
  <2>1. PICK i : Unlink(SessionOf[u], i)
    BY <1>5 DEF StrangerRemoves
  <2>2. KeysEvolve /\ DataKept /\ KernelUnique' /\ \A r \in Id : link'[r] \subseteq link[r]
    BY <1>1, <2>1, UnlinkKeeps, UnlinkEffect, LinkKeeper, UnlinkUnique
  <2>3. RingsSame
    BY <1>1, <1>2, <2>1, UnlinkRings DEF RingsSame, Named
  <2> QED
    BY <1>3, <2>2, <2>3 DEF DataKept, DataGiven
<1> QED
  BY <1>4, <1>5

LEMMA NextStoreInv ==
  ASSUME Setting
  PROVE  TypeInv /\ TypeInv' /\ HandleInv /\ AliveInv /\ (Together => SessionClean) /\ StoreInv /\ [Next]_vars => StoreInv'
<1> SUFFICES ASSUME TypeInv, TypeInv', HandleInv, AliveInv, Together => SessionClean, StoreInv, [Next]_vars
             PROVE  StoreInv'
  OBVIOUS
<1>1. KernelInv /\ KernelInv' /\ ProcTyped
  BY TypeInvParts DEF TypeInv, TypeOK, KernelInv, KernelTyped
<1>2. ASSUME NEW p \in Proc, Open(p) \/ Call(p) \/ Step(p) \/ SyscallError(p) \/ Crash(p),
             KeysEvolve, DataKept, KernelUnique', \A r \in Anchor \cup Id : link'[r] \subseteq link[r]
      PROVE  StoreInv'
  <2>1. CallInv(p)'
    BY <1>2, StepCall DEF StoreInv
  <2>2. ASSUME NEW q \in Proc \ {p} PROVE CallInv(q)'
    <3>1. pc[q] \in {"setperm", "link"} => id[q] \in Id
      BY TypeInvParts DEF ProcInv, IdInv, Through
    <3> QED
      BY <1>2, <2>2, <3>1, StepOthers, CallFrame DEF StoreInv
  <2> QED
    BY <1>2, <2>1, <2>2 DEF StoreInv
<1>3. CASE UNCHANGED vars
  <2>1. UNCHANGED <<key, link>> /\ UNCHANGED procVars
    BY <1>3 DEF vars
  <2>2. KeysEvolve /\ DataKept /\ KernelUnique'
    BY <1>1, <2>1, NothingKeeps, NothingUnique DEF StoreInv, DataKept
  <2>3. \A q \in Proc : CallInv(q)'
    BY <2>1, <2>2, CallFrame DEF StoreInv, procVars
  <2> QED
    BY <2>2, <2>3 DEF StoreInv
<1>4. ASSUME NEW p \in Proc, Open(p) \/ Call(p) \/ SyscallError(p) \/ Crash(p) PROVE StoreInv'
  <2>1. UNCHANGED <<key, link>>
    BY <1>4 DEF Open, Call, SyscallError, Crash
  <2> QED
    BY <1>1, <1>2, <1>4, <2>1, NothingKeeps, NothingUnique DEF StoreInv, DataKept
<1>5. ASSUME NEW p \in Proc, QuietStep(p) PROVE StoreInv'
  <2>1. DataKept /\ KernelUnique'
    BY <1>1, <1>5, QuietKeys DEF StoreInv, Setting
  <2>2. KeysEvolve /\ \A r \in Anchor \cup Id : link'[r] \subseteq link[r]
    BY <1>5, QuietStepLinks
  <2> QED
    BY <1>2, <1>5, <2>1, <2>2 DEF QuietStep, Step
<1>6. ASSUME NEW p \in Proc, Step(p) PROVE StoreInv'
  BY <1>5, <1>6, AddOthers, LinkOthers DEF Step, QuietStep
<1>7. ASSUME NEW u \in Proc, NEW k \in Strangers,
             StrangerAdds(SessionOf[u], k) \/ StrangerRemoves(SessionOf[u], k)
      PROVE  StoreInv'
  <2>1. /\ KeysEvolve /\ DataGiven /\ KernelUnique' /\ UNCHANGED procVars /\ \A r \in Id : link'[r] \subseteq link[r]
        /\ ~Steady
    BY <1>1, <1>7, StrangerKeys DEF StoreInv, Setting, Steady
  <2>2. ASSUME NEW q \in Proc PROVE CallInv(q)'
    <3>1. pc[q] \in {"setperm", "link"} => id[q] \in Id
      BY TypeInvParts DEF ProcInv, IdInv, Through
    <3> QED
      BY <2>1, <2>2, <3>1, CallFrame DEF StoreInv, procVars
  <2> QED
    BY <2>1, <2>2 DEF StoreInv
<1> QED
  BY <1>3, <1>4, <1>6, <1>7 DEF Next

\* Without permissions an item is nowhere but in its keyring.
ItemsAtHome == \A r \in Anchor \cup Id : \A i \in link[r] : key[i].type = "user" => r \in Rings

LEMMA OpensUpon ==
  ASSUME HandleInv, SharedKeyring, NEW p \in Proc, call[p] = Opening, pc[p] \in {"add", "setperm", "link"}
  PROVE  Rings = {} /\ Service[p] # NoService /\ Named(p) = {}
  BY RingsShared DEF HandleInv, HandleOf, RingsOf, Named

\* A Set, and what is put into a session, change no keyring of items for another.
LEMMA AddRings ==
  ASSUME TypeInv, SessionsApart, NEW p \in Proc, Add(p), UsePerm[p] \/ call[p] # Opening
  PROVE  RingsSame
<1>1. KernelInv /\ SessionOf[p] \in Anchor
  BY TypeInvParts, KeyctlAssumption
<1>2. PICK n \in Id, type \in {"keyring", "user"} : \E desc, data :
        /\ AddKey(AddTo(p), type, desc, data, n, Free)
        /\ IF call[p] = Opening THEN type = "keyring" /\ desc = Service[p] /\ data = NoData
                                ELSE type = "user" /\ desc = call[p].key /\ data = call[p].data
  BY AddIs
<1>3. PICK desc, data : AddKey(AddTo(p), type, desc, data, n, Free)
  BY <1>2
<1>4. AddTo(p) \in Anchor \cup Id
  BY AddIs
<1>5. \A q \in Proc : Scope[q] \in Anchor /\ (Scope[q] # AddTo(p) \/ type = "user")
  BY <1>2, KeyctlAssumption DEF AddTo, SessionsApart
<1> QED
  BY <1>1, <1>3, <1>4, <1>5, AddKeyRings DEF RingsSame, Named

LEMMA AtHomeFrame ==
  ASSUME KernelInv, KernelInv', KeysEvolve, ItemsAtHome, Rings' = Rings, NEW h \in Rings \cup {NoId},
         \A r \in (Anchor \cup Id) \ {h} : link'[r] \subseteq link[r]
  PROVE  ItemsAtHome'
<1> SUFFICES ASSUME NEW r \in Anchor \cup Id, NEW i \in link'[r], key'[i].type = "user", r # h PROVE r \in Rings
  BY KernelAssumption DEF ItemsAtHome
<1>1. i \in link[r] /\ i \in Id /\ key'[i] # NoKey /\ key[i] # NoKey
  BY DEF KernelInv, KernelTyped, ShapeOf
<1>2. key[i].type = "user"
  BY <1>1 DEF KeysEvolve, Free
<1> QED
  BY <1>1, <1>2 DEF ItemsAtHome

LEMMA AddAtHome ==
  ASSUME Setting, TypeInv, TypeInv', HandleInv, StoreInv, ItemsAtHome, NEW p \in Proc, Add(p), ~UsePerm[p]
  PROVE  ItemsAtHome'
<1>1. KernelInv /\ KernelInv'
  BY TypeInvParts DEF TypeInv, TypeOK, KernelInv, KernelTyped
<1>2. PICK n \in Id, type \in {"keyring", "user"} : \E desc, data :
        /\ AddKey(AddTo(p), type, desc, data, n, Free)
        /\ [type |-> type, desc |-> desc, data |-> data, perm |-> FALSE] \in KeyRecord
        /\ IF call[p] = Opening THEN type = "keyring" /\ desc = Service[p] /\ data = NoData
                                ELSE type = "user" /\ desc = call[p].key /\ data = call[p].data
  BY AddIs
<1>3. PICK desc, data :
        /\ AddKey(AddTo(p), type, desc, data, n, Free)
        /\ [type |-> type, desc |-> desc, data |-> data, perm |-> FALSE] \in KeyRecord
        /\ IF call[p] = Opening THEN type = "keyring" /\ desc = Service[p] /\ data = NoData
                                ELSE type = "user" /\ desc = call[p].key /\ data = call[p].data
  BY <1>2
<1>4. /\ pc[p] = "add" /\ Exists(AddTo(p)) /\ AddTo(p) \in Anchor \cup Id /\ AddTo(p) = ring[p]
      /\ AddTo(p) \in Id => call[p] # Opening /\ key[AddTo(p)].type = "keyring"
  BY AddIs DEF AddTo
<1>5. /\ KeysEvolve /\ link'[AddTo(p)] \subseteq link[AddTo(p)] \cup {n}
      /\ \A r \in (Anchor \cup Id) \ {AddTo(p)} : link'[r] \subseteq link[r]
      /\ key'[n] # NoKey => key'[n].type = type
  BY <1>1, <1>3, <1>4, AddKeyKeeps, AddKeyEffect
<1>6. CASE call[p] # Opening
  <2>1. ring[p] \in Rings
    BY <1>4, <1>6 DEF HandleInv, HandleOf, Rings
  <2>2. Rings' = Rings
    BY <1>6, AddRings, RingsKept DEF Setting
  <2> QED
    BY <1>1, <1>4, <1>5, <2>1, <2>2, AtHomeFrame
<1>7. CASE call[p] = Opening
  <2>1. Rings = {} /\ type = "keyring"
    BY <1>3, <1>4, <1>7, OpensUpon DEF Setting
  <2>2. SUFFICES ASSUME NEW r \in Anchor \cup Id, NEW i \in link'[r], key'[i].type = "user" PROVE FALSE
    BY DEF ItemsAtHome
  <2>3. i \in Id /\ key'[i] # NoKey
    BY <1>1 DEF KernelInv, KernelTyped, ShapeOf
  <2>4. i # n
    BY <1>5, <2>1, <2>2, <2>3
  <2>5. i \in link[r] /\ key[i] # NoKey
    BY <1>1, <1>5, <2>4 DEF KernelInv, ShapeOf
  <2>6. key[i].type = "user"
    BY <1>5, <2>2, <2>3, <2>5 DEF KeysEvolve, Free
  <2> QED
    BY <2>1, <2>5, <2>6 DEF ItemsAtHome
<1> QED
  BY <1>6, <1>7

LEMMA NextAtHome ==
  ASSUME Setting, Together, \A p \in Proc : ~UsePerm[p]
  PROVE  TypeInv /\ TypeInv' /\ HandleInv /\ StoreInv /\ ItemsAtHome /\ [Next]_vars => ItemsAtHome'
<1> SUFFICES ASSUME TypeInv, TypeInv', HandleInv, StoreInv, ItemsAtHome, [Next]_vars PROVE ItemsAtHome'
  OBVIOUS
<1>1. KernelInv /\ KernelInv' /\ NoId \in Rings \cup {NoId}
  BY TypeInvParts DEF TypeInv, TypeOK, KernelInv, KernelTyped
<1>2. CASE UNCHANGED <<key, link>>
  <2>1. KeysEvolve /\ Rings' = Rings
    BY <1>1, <1>2, NothingKeeps, NothingRings, RingsKept
  <2> QED
    BY <1>1, <1>2, <2>1, AtHomeFrame
<1>3. ASSUME NEW p \in Proc, QuietStep(p) PROVE ItemsAtHome'
  <2>1. Rings' = Rings
    BY <1>1, <1>3, QuietKeys, RingsKept DEF StoreInv, Setting
  <2>2. KeysEvolve /\ \A r \in Anchor \cup Id : link'[r] \subseteq link[r]
    BY <1>3, QuietStepLinks
  <2> QED
    BY <1>1, <2>1, <2>2, AtHomeFrame
<1>4. ASSUME NEW p \in Proc PROVE ~LinkKey(p)
  BY DEF LinkKey, StoreInv, CallInv, RestInv, Through
<1>5. ASSUME NEW p \in Proc, Add(p) PROVE ItemsAtHome'
  BY <1>5, AddAtHome
<1>6. \A p \in Proc : Open(p) \/ Call(p) \/ SyscallError(p) \/ Crash(p) => UNCHANGED <<key, link>>
  BY DEF Open, Call, SyscallError, Crash
<1>7. Strangers = {}
  BY DEF Together, Undisturbed
<1> QED
  BY <1>2, <1>3, <1>4, <1>5, <1>6, <1>7 DEF Next, Step, QuietStep, vars

-----------------------------------------------------------------------------
\* The store of the contract is that of the keyrings, which a session is not.
LEMMA StoreUnchanged == ASSUME UNCHANGED <<key, link>> PROVE Stored' = Stored
<1>1. Rings' = Rings
  BY NothingRings, RingsKept
<1> QED
  BY <1>1, StoreSame

LEMMA StoreEmpty ==
  ASSUME Rings = {}, Rings' = {} \/ \E r : Rings' = {r} /\ link'[r] = {} PROVE Stored' = Stored
<1>1. ASSUME NEW k PROVE ItemIn(k)' = ItemIn(k)
  <2>1. ItemIn(k)' = IF ItemsOf(k)' = {} THEN "no item" ELSE key'[CHOOSE i \in ItemsOf(k)' : TRUE].data
    BY DEF ItemIn, ItemsOf, Rings
  <2>2. ItemsOf(k)' = {} /\ ItemsOf(k) = {}
    BY DEF ItemsOf
  <2> QED
    BY <2>1, <2>2, ItemInIs
<1> QED
  BY <1>1 DEF Stored

LEMMA UnlinkSpares ==
  ASSUME KernelInv, NEW r \in Anchor \cup Id, NEW j, Unlink(r, j), NEW t \in Anchor \cup Id,
         NEW a \in Anchor \ {r}, t \in Id => t \in link[a], NEW i \in link[t], i # j \/ t # r
  PROVE  i \in link'[t] /\ key'[i] = key[i]
<1> DEFINE lk == [link EXCEPT ![r] = @ \ {j}]
<1>1. Settle(lk, key) /\ KernelTyped(lk, key)
  BY DEF Unlink, KernelInv, KernelTyped
<1>2. i \in lk[t] /\ (t \in Id => t \in lk[a])
  BY DEF KernelInv, KernelTyped
<1> HIDE DEF lk
<1> QED
  BY <1>1, <1>2, SettleLink

LEMMA UnlinkStore ==
  ASSUME SharedKeyring, SessionsApart, KernelInv, NEW u \in Proc, NEW j, Unlink(SessionOf[u], j)
  PROVE  Stored' = Stored
<1>1. SessionOf[u] \in Anchor /\ SessionOf[u] \in Sessions
  BY SessionAnchors
<1>2. \A q \in Proc : Scope[q] \in Anchor /\ Scope[q] # SessionOf[u]
  BY KeyctlAssumption DEF SessionsApart
<1>3. RingsSame
  BY <1>1, <1>2, UnlinkRings DEF RingsSame, Named
<1>4. ASSUME NEW r \in Rings
      PROVE  link'[r] = link[r] /\ \A i \in link[r] : key'[i] = key[i]
  <2>1. r \in Anchor \cup Id /\ r # SessionOf[u] /\ (r \in Id => r \in link[Scope[u]])
    BY <1>1, RingPlace
  <2>2. link'[r] \subseteq link[r]
    BY <1>1, <2>1, UnlinkEffect
  <2>3. \A i \in link[r] : i \in link'[r] /\ key'[i] = key[i]
    BY <1>1, <1>2, <2>1, UnlinkSpares
  <2> QED
    BY <2>2, <2>3
<1> QED
  BY <1>3, <1>4, RingsKept, StoreSame

LEMMA AddStore ==
  ASSUME SharedKeyring, SessionsApart, KernelInv, AliveInv, NEW u \in Proc, NEW desc, NEW data, NEW n \in Id,
         [type |-> "user", desc |-> desc, data |-> data, perm |-> FALSE] \in KeyRecord,
         AddKey(SessionOf[u], "user", desc, data, n, Free), Matches(SessionOf[u], "user", desc) = {}
  PROVE  Stored' = Stored
<1>1. SessionOf[u] \in Anchor /\ SessionOf[u] \in Sessions /\ SessionOf[u] \notin Id /\ Exists(SessionOf[u])
  BY SessionAnchors, KernelAssumption DEF Exists
<1>2. RingsSame
  BY <1>1, KeyctlAssumption, AddKeyRings DEF RingsSame, Named
<1>3. ASSUME NEW r \in Rings
      PROVE  link'[r] = link[r] /\ \A i \in link[r] : key'[i] = key[i]
  <2>1. r \in Anchor \cup Id /\ r # SessionOf[u]
    BY <1>1, RingPlace
  <2>2. link'[r] \subseteq link[r]
    BY <1>1, <2>1, AddKeyEffect
  <2>3. \A i \in link[r] : i \in link'[r] /\ key'[i] = key[i]
    BY <1>1, <2>1, AddKeyLeaves
  <2> QED
    BY <2>2, <2>3
<1> QED
  BY <1>2, <1>3, RingsKept, StoreSame

\* A Set in place, of a key that a failed one has left, is one of the store if the key is in it.
LEMMA UpdateStore ==
  ASSUME KernelInv, KernelInv', NamesUnique, NamesUnique', KeysEvolve,
         NEW r \in Anchor \cup Id, Rings = {r}, Rings' = {r}, NEW s, NEW k \in Key, NEW data,
         NEW n \in Id, AddKey(s, "user", k, data, n, Free), Matches(s, "user", k) # {}, s \in Anchor
  PROVE  Stored' = Stored \/ (n \in link[r] /\ Stored' = [Stored EXCEPT ![k] = data])
<1>1. link' = link /\ key' = [key EXCEPT ![n].data = data] /\ n \in Matches(s, "user", k)
  BY DEF AddKey
<1>2. key[n].type = "user" /\ key[n].desc = k /\ key[n] \in KeyRecord
  BY <1>1 DEF Matches, KernelInv, KernelTyped, ShapeOf
<1>3. key[n] \in [type : {"user"}, desc : Key, data : Data, perm : BOOLEAN]
  BY <1>2 DEF KeyRecord
<1>4. /\ key'[n].type = "user" /\ key'[n].desc = k /\ key'[n].data = data
      /\ \A i \in Id \ {n} : key'[i] = key[i]
  BY <1>1, <1>2, <1>3 DEF KernelInv, KernelTyped
<1>5. link[r] \subseteq Id
  BY DEF KernelInv, KernelTyped
<1>6. CASE n \in link[r]
  BY <1>1, <1>2, <1>4, <1>5, <1>6, StorePuts
<1>7. CASE n \notin link[r]
  BY <1>1, <1>4, <1>5, <1>7, StoreSame
<1> QED
  BY <1>6, <1>7

\* What add_key and KEYCTL_LINK put into the keyring.
LEMMA AddPuts ==
  ASSUME KernelInv, KernelInv', AliveInv, NamesUnique, NamesUnique', NEW r \in Anchor \cup Id, Exists(r),
         r \in Id => key[r].type = "keyring", Rings = {r}, Rings' = {r}, NEW k \in Key, NEW data, NEW n \in Id,
         [type |-> "user", desc |-> k, data |-> data, perm |-> FALSE] \in KeyRecord,
         AddKey(r, "user", k, data, n, Free)
  PROVE  Stored' = [Stored EXCEPT ![k] = data]
<1>1. n \in link'[r] /\ key'[n].type = "user" /\ key'[n].desc = k /\ key'[n].data = data
  BY AddKeyGives
<1>2. KeysEvolve /\ link'[r] \subseteq link[r] \cup {n}
  BY AddKeyKeeps, AddKeyEffect
<1>3. r \notin Matches(r, "user", k)
  BY KernelAssumption DEF Matches, KernelInv, KernelTyped
<1>4. ASSUME NEW i \in link[r], ~(key[i].type = "user" /\ key[i].desc = k) PROVE i \in link'[r] /\ key'[i] = key[i]
  BY <1>3, <1>4, AddKeyLeaves DEF Matches
<1> QED
  BY <1>1, <1>2, <1>4, StorePuts

LEMMA LinkPuts ==
  ASSUME KernelInv, KernelInv', AliveInv, NamesUnique, NamesUnique', NEW r \in Anchor \cup Id, Exists(r),
         r \in Id => key[r].type = "keyring", Rings = {r}, Rings' = {r}, NEW k \in Key, NEW n \in Id,
         key[n] # NoKey, key[n].type = "user", key[n].desc = k, Link(r, n)
  PROVE  Stored' = [Stored EXCEPT ![k] = key[n].data]
<1>1. n # r
  OBVIOUS
<1>2. n \in link'[r] /\ key'[n] = key[n]
  BY <1>1, LinkGives
<1>3. KeysEvolve /\ link'[r] \subseteq link[r] \cup {n}
  BY LinkKeeps, LinkEffect
<1>4. r \notin Matches(r, "user", k)
  BY KernelAssumption DEF Matches, KernelInv, KernelTyped
<1>5. ASSUME NEW i \in link[r], ~(key[i].type = "user" /\ key[i].desc = k) PROVE i \in link'[r] /\ key'[i] = key[i]
  BY <1>4, <1>5, LinkLeaves DEF Matches
<1> QED
  BY <1>2, <1>3, <1>5, StorePuts

-----------------------------------------------------------------------------
\* The words of the contract are those of the backend.
LEMMA ContractWords ==
  /\ C!Idle = Idle /\ C!Ok = Ok /\ C!NotFound = NotFound /\ C!Error = Error
  /\ W!Idle = Idle /\ W!Ok = Ok /\ W!NotFound = NotFound /\ W!Error = Error
  /\ C!Calls = Calls /\ W!Calls = Calls
  /\ \A d : C!Found(d) = Found(d) /\ W!Found(d) = Found(d)
  /\ \A S : C!Listing(S) = Listing(S) /\ W!Listing(S) = Listing(S)
  /\ \A cl, k : C!IsSetOf(cl, k) = IsSetOf(cl, k) /\ W!IsSetOf(cl, k) = IsSetOf(cl, k)
  BY DEF C!Idle, C!Ok, C!NotFound, C!Error, C!Calls, C!Found, C!Listing, C!IsSetOf,
         W!Idle, W!Ok, W!NotFound, W!Error, W!Calls, W!Found, W!Listing, W!IsSetOf,
         Idle, Ok, NotFound, Error, Calls, Found, Listing, IsSetOf

LEMMA Weaker == C!CNext => W!CNext
<1> SUFFICES ASSUME NEW c \in Proc,
                    \/ C!Begin(c) \/ C!Look(c) \/ C!Stat(c) \/ C!List(c) \/ C!Spoil(c) \/ C!Store(c)
                    \/ C!Erase(c) \/ C!Miss(c) \/ C!Drop(c) \/ C!Fail(c) \/ C!Return(c)
             PROVE  W!CNext
  BY DEF C!CNext
<1> USE ContractWords
<1>1. C!Begin(c) => W!Begin(c)
  BY DEF C!Begin, W!Begin
<1>2. C!Look(c) => W!Look(c)
  <2>1. \A item : C!Answer(item) = W!Answer(item)
    BY DEF C!Answer, W!Answer
  <2> QED
    BY <2>1 DEF C!Look, W!Look, C!Unseen, W!Unseen
<1>3. C!Stat(c) => W!Stat(c)
  BY DEF C!Stat, W!Stat, C!Unseen, W!Unseen
<1>4. C!List(c) => W!List(c)
  BY DEF C!List, W!List
<1>5. C!Spoil(c) => W!Spoil(c)
  BY DEF C!Spoil, W!Spoil
<1>6. C!Store(c) => W!Store(c)
  BY DEF C!Store, W!Store
<1>7. C!Erase(c) => W!Erase(c)
  BY DEF C!Erase, W!Erase, C!IsSetOf, W!IsSetOf, C!Ok, W!Ok, C!Error, W!Error
<1>8. C!Miss(c) => W!Miss(c)
  BY DEF C!Miss, W!Miss
<1>9. C!Drop(c) => W!Drop(c)
  BY DEF C!Drop, W!Drop
<1>10. C!Fail(c) => W!Fail(c)
  BY DEF C!Fail, W!Fail
<1>11. C!Return(c) => W!Return(c)
  BY DEF C!Return, W!Return
<1> QED
  BY <1>1, <1>2, <1>3, <1>4, <1>5, <1>6, <1>7, <1>8, <1>9, <1>10, <1>11 DEF W!CNext

\* What a step of p is to the contract: a reply of p, and a change of the store.
LEMMA Mapped ==
  ASSUME TypeInv, NEW p \in Proc, Open(p) \/ Call(p) \/ Step(p) \/ SyscallError(p) \/ Crash(p)
  PROVE  /\ DueNow' = [DueNow EXCEPT ![p] = Due(p)']
         /\ CallNow' = [CallNow EXCEPT ![p] = IF call'[p] = Opening THEN Idle ELSE call'[p]]
         /\ CallNow[p] = IF call[p] = Opening THEN Idle ELSE call[p]
<1>1. ASSUME NEW q \in Proc \ {p} PROVE Due(q)' = Due(q) /\ call'[q] = call[q]
  <2>1. pc'[q] = pc[q] /\ call'[q] = call[q] /\ result'[q] = result[q] /\ seen'[q] = seen[q]
    BY <1>1, StepOthers
  <2> QED
    BY <2>1 DEF Due
<1> QED
  BY <1>1 DEF DueNow, CallNow

LEMMA FinishMapped ==
  ASSUME TypeInv, NEW p \in Proc, CallInv(p), Step(p) \/ SyscallError(p), pc[p] \notin {"closed", "idle", "return"},
         NEW r, Finish(p, r)
  PROVE  /\ call[p] = Opening => CallNow' = CallNow /\ DueNow' = DueNow
         /\ call[p] # Opening => /\ CallNow' = CallNow /\ DueNow' = [DueNow EXCEPT ![p] = r]
                                 /\ CallNow[p] = call[p] /\ call[p] \in Calls /\ call[p] # Idle
<1>1. ProcTyped /\ ProcInv(p)
  BY TypeInvParts
<1>2. /\ DueNow' = [DueNow EXCEPT ![p] = Due(p)']
      /\ CallNow' = [CallNow EXCEPT ![p] = IF call'[p] = Opening THEN Idle ELSE call'[p]]
      /\ CallNow[p] = IF call[p] = Opening THEN Idle ELSE call[p]
  BY Mapped
<1>3. DueNow[p] = Due(p) /\ DueNow = [DueNow EXCEPT ![p] = DueNow[p]] /\ CallNow = [CallNow EXCEPT ![p] = CallNow[p]]
  BY DEF DueNow, CallNow
<1>4. CASE call[p] = Opening
  <2>1. pc'[p] \in {"idle", "closed"} /\ call'[p] = Idle
    BY <1>1, <1>4 DEF Finish, Go, ProcTyped
  <2>2. Due(p)' = Error
    BY <2>1 DEF Due
  <2>3. Due(p) = Error
    BY <1>1, <1>4, OpeningIsNoCall DEF Due, ProcInv, StepOfCall
  <2> QED
    BY <1>2, <1>3, <1>4, <2>1, <2>2, <2>3, OpeningIsNoCall
<1>5. CASE call[p] # Opening
  <2>1. pc'[p] = "return" /\ result'[p] = r /\ UNCHANGED call
    BY <1>1, <1>5 DEF Finish, Go, ProcTyped
  <2>2. Due(p)' = r
    BY <2>1 DEF Due
  <2>3. call[p] # Idle /\ call[p] \in Calls
    BY <1>1, <1>5 DEF ProcInv, StepOfCall, ProcTyped
  <2> QED
    BY <1>2, <1>3, <1>5, <2>1, <2>2, <2>3
<1> QED
  BY <1>4, <1>5

\* What the contract can answer of the store.
LEMMA StoredIs == \A k \in Key : Stored[k] = ItemIn(k)
  BY DEF Stored

LEMMA ContractFail ==
  ASSUME NEW p \in Proc, Stored' = Stored, CallNow' = CallNow, DueNow' = [DueNow EXCEPT ![p] = Error], CallNow[p] # Idle
  PROVE  C!Fail(p)
  BY ContractWords DEF C!Fail

LEMMA FailRefines ==
  ASSUME TypeInv, NEW p \in Proc, CallInv(p), Step(p) \/ SyscallError(p), pc[p] \notin {"closed", "idle", "return"},
         Finish(p, Error), UNCHANGED <<key, link>>
  PROVE  C!CNext \/ UNCHANGED C!cvars
<1>1. Stored' = Stored
  BY StoreUnchanged
<1>2. CASE call[p] = Opening
  BY <1>1, <1>2, FinishMapped DEF C!cvars
<1>3. CASE call[p] # Opening
  BY <1>1, <1>3, FinishMapped, ContractFail DEF C!CNext
<1> QED
  BY <1>2, <1>3

LEMMA ContractStore ==
  ASSUME NEW p \in Proc, CallNow' = CallNow, CallNow[p] = call[p], call[p].op = "Set", call[p].key \in Key,
         DueNow[p] = Error, NEW r \in {Ok, Error}, DueNow' = [DueNow EXCEPT ![p] = r],
         Stored' = [Stored EXCEPT ![call[p].key] = call[p].data]
  PROVE  C!CNext
<1>1. C!Store(p)
  BY ContractWords DEF C!Store
<1> QED
  BY <1>1 DEF C!CNext

\* A step on a key's way, with what it changes in the store.
LEMMA WayMapped ==
  ASSUME TypeInv, NEW p \in Proc, Step(p), pc[p] \in {"add", "setperm", "link"},
         NEW step \in Through, Go(p, step), UNCHANGED <<call, result>>
  PROVE  /\ CallNow' = CallNow /\ DueNow[p] = Error
         /\ DueNow' = [DueNow EXCEPT ![p] = IF step = "unlink" /\ call[p] # Opening THEN Ok ELSE Error]
         /\ call[p] # Opening => CallNow[p] = call[p]
<1>1. ProcTyped
  BY TypeInvParts
<1>2. pc'[p] = step
  BY <1>1 DEF Go, ProcTyped
<1>3. Due(p)' = (IF step = "unlink" /\ call[p] # Opening THEN Ok ELSE Error) /\ Due(p) = Error
  BY <1>2 DEF Due, Through
<1> QED
  BY <1>3, Mapped DEF DueNow, CallNow

LEMMA RingsOneNext ==
  ASSUME SharedKeyring, KernelInv', NamesUnique', NEW r \in Rings'
  PROVE  Rings' = {r}
<1>1. PICK p \in Proc : r \in RingsOf(p)'
  BY DEF Rings
<1>2. Rings' = RingsOf(p)' /\ Scope[p] \in Anchor
  BY RingsShared, KeyctlAssumption
<1>3. \A i, j \in link'[Scope[p]] : key'[i].type = key'[j].type /\ key'[i].desc = key'[j].desc => i = j
  BY <1>2 DEF NamesUnique, UniqueIn
<1> QED
  BY <1>1, <1>2, <1>3 DEF RingsOf, Matches

LEMMA AddRefines ==
  ASSUME Setting, TypeInv, TypeInv', HandleInv, HandleInv', AliveInv, StoreInv, StoreInv', NEW p \in Proc, Add(p)
  PROVE  C!CNext \/ UNCHANGED C!cvars
<1>1. /\ KernelInv /\ KernelInv' /\ ProcTyped /\ ProcInv(p)
      /\ SharedKeyring /\ SessionsApart /\ NamesUnique /\ NamesUnique' /\ CallInv(p)
  BY TypeInvParts DEF TypeInv, TypeOK, KernelInv, KernelTyped, Setting, StoreInv, KernelUnique
<1>2. PICK n \in Id, type \in {"keyring", "user"} : \E desc, data :
        /\ AddKey(AddTo(p), type, desc, data, n, Free)
        /\ [type |-> type, desc |-> desc, data |-> data, perm |-> FALSE] \in KeyRecord
        /\ IF call[p] = Opening THEN type = "keyring" /\ desc = Service[p] /\ data = NoData
                                ELSE type = "user" /\ desc = call[p].key /\ data = call[p].data
        /\ IF UsePerm[p]
           THEN id' = [id EXCEPT ![p] = n] /\ Go(p, "setperm") /\ UNCHANGED <<ring, call, result>>
           ELSE /\ ring' = IF call[p] = Opening THEN [ring EXCEPT ![p] = n] ELSE ring
                /\ Finish(p, Ok) /\ UNCHANGED id
  BY AddIs
<1>3. PICK desc, data :
        /\ AddKey(AddTo(p), type, desc, data, n, Free)
        /\ [type |-> type, desc |-> desc, data |-> data, perm |-> FALSE] \in KeyRecord
        /\ IF call[p] = Opening THEN type = "keyring" /\ desc = Service[p] /\ data = NoData
                                ELSE type = "user" /\ desc = call[p].key /\ data = call[p].data
        /\ IF UsePerm[p]
           THEN id' = [id EXCEPT ![p] = n] /\ Go(p, "setperm") /\ UNCHANGED <<ring, call, result>>
           ELSE /\ ring' = IF call[p] = Opening THEN [ring EXCEPT ![p] = n] ELSE ring
                /\ Finish(p, Ok) /\ UNCHANGED id
  BY <1>2
<1>4. /\ pc[p] = "add" /\ Exists(AddTo(p)) /\ AddTo(p) \in Anchor \cup Id
      /\ AddTo(p) \in Id => call[p] # Opening /\ key[AddTo(p)].type = "keyring"
      /\ call[p] # Opening => call[p] \in Calls /\ call[p].op = "Set" /\ call[p].key \in Key /\ call[p].data \in Data
  BY AddIs
<1>5. Step(p)
  BY DEF Step
<1>6. UsePerm[p] => /\ CallNow' = CallNow /\ DueNow[p] = Error /\ DueNow' = [DueNow EXCEPT ![p] = Error]
                    /\ call[p] # Opening => CallNow[p] = call[p]
  BY <1>3, <1>4, <1>5, WayMapped DEF Through
<1>7. DueNow' = [DueNow EXCEPT ![p] = Error] /\ DueNow[p] = Error => DueNow' = DueNow
  BY DEF DueNow
<1>8. CASE call[p] = Opening /\ UsePerm[p]
  <2>1. Rings = {} /\ Rings' = Rings
    BY <1>1, <1>4, <1>8, OpensUpon, AddRings, RingsKept
  <2> QED
    BY <1>6, <1>7, <1>8, <2>1, StoreEmpty DEF C!cvars
<1>9. CASE call[p] = Opening /\ ~UsePerm[p]
  <2>1. Rings = {}
    BY <1>1, <1>4, <1>9, OpensUpon
  <2>2. n \in Free /\ AddTo(p) \in Anchor /\ AddTo(p) # n
    BY <1>3, <1>4, <1>9, KernelAssumption DEF AddKey
  <2>3. link'[n] \subseteq link[n] /\ link[n] = {}
    BY <1>1, <1>3, <1>4, <2>2, AddKeyEffect, FreeIsUnheld, KernelAssumption
  <2>4. ring'[p] = n /\ pc'[p] = "idle" /\ call'[p] = Idle
    BY <1>1, <1>3, <1>9 DEF Finish, Go, ProcTyped
  <2>5. n \in RingsOf(p)'
    BY <2>4, OpeningIsNoCall DEF HandleInv, HandleOf
  <2>6. Rings' = {n}
    BY <1>1, <2>5, RingsOneNext, RingsShared
  <2>7. CallNow' = CallNow /\ DueNow' = DueNow
    BY <1>1, <1>3, <1>4, <1>5, <1>9, FinishMapped
  <2> QED
    BY <2>1, <2>3, <2>6, <2>7, StoreEmpty DEF C!cvars
<1>10. CASE call[p] # Opening
  <2>1. Rings = {ring[p]} /\ Rings' = Rings
    BY <1>1, <1>4, <1>10, RingIs, AddRings, RingsKept
  <2>2. ring[p] \in Anchor \cup Id
    BY <1>1, <2>1, RingPlace
  <2>3. CASE UsePerm[p]
    <3>1. AddTo(p) = SessionOf[p] /\ SessionOf[p] \in Anchor
      BY <2>3, KeyctlAssumption DEF AddTo
    <3>2. KeysEvolve
      BY <1>1, <1>3, <1>4, <3>1, AddKeyKeeps
    <3>3. AddKey(SessionOf[p], "user", call[p].key, call[p].data, n, Free)
      BY <1>3, <1>10, <3>1
    <3>4. Stored' = Stored \/ Stored' = [Stored EXCEPT ![call[p].key] = call[p].data]
      <4>1. CASE Matches(SessionOf[p], "user", call[p].key) = {}
        BY <1>1, <1>3, <1>10, <3>3, <4>1, AddStore
      <4>2. CASE Matches(SessionOf[p], "user", call[p].key) # {}
        BY <1>1, <1>4, <1>10, <2>1, <2>2, <3>1, <3>2, <3>3, <4>2, UpdateStore
      <4> QED
        BY <4>1, <4>2
    <3>5. CASE Stored' = Stored
      BY <1>6, <1>7, <2>3, <3>5 DEF C!cvars
    <3>6. CASE Stored' = [Stored EXCEPT ![call[p].key] = call[p].data]
      BY <1>4, <1>6, <1>10, <2>3, <3>6, ContractStore
    <3> QED
      BY <3>4, <3>5, <3>6
  <2>4. CASE ~UsePerm[p]
    <3>1. AddTo(p) = ring[p]
      BY <2>4 DEF AddTo
    <3>2. Stored' = [Stored EXCEPT ![call[p].key] = call[p].data]
      BY <1>1, <1>3, <1>4, <1>10, <2>1, <3>1, AddPuts
    <3>3. CallNow' = CallNow /\ DueNow' = [DueNow EXCEPT ![p] = Ok] /\ CallNow[p] = call[p]
      BY <1>1, <1>3, <1>4, <1>5, <1>10, <2>4, FinishMapped
    <3>4. DueNow[p] = Error
      BY <1>4 DEF DueNow, Due
    <3> QED
      BY <1>4, <1>10, <3>2, <3>3, <3>4, ContractStore
  <2> QED
    BY <2>3, <2>4
<1> QED
  BY <1>8, <1>9, <1>10

LEMMA LinkRefines ==
  ASSUME Setting, TypeInv, TypeInv', HandleInv, HandleInv', AliveInv, StoreInv, StoreInv', NEW p \in Proc, LinkKey(p)
  PROVE  C!CNext \/ UNCHANGED C!cvars \/ (Exchanges /\ Strangers # {})
<1>1. /\ KernelInv /\ KernelInv' /\ ProcTyped /\ ProcInv(p)
      /\ SharedKeyring /\ SessionsApart /\ NamesUnique /\ NamesUnique' /\ CallInv(p)
  BY TypeInvParts DEF TypeInv, TypeOK, KernelInv, KernelTyped, Setting, StoreInv, KernelUnique
<1>2. /\ pc[p] = "link" /\ key[id[p]] # NoKey /\ Exists(ring[p]) /\ Link(ring[p], id[p])
      /\ Go(p, "unlink") /\ UNCHANGED <<call, result, id>> /\ Step(p)
  BY DEF LinkKey, Step
<1>3. /\ id[p] \in Id /\ ring[p] \in Anchor \cup Id
      /\ ring[p] \in Id => key[ring[p]].type = "keyring" /\ key[id[p]].type = "user"
  BY <1>2, LinkArguments
<1>4. /\ CallNow' = CallNow /\ DueNow[p] = Error
      /\ DueNow' = [DueNow EXCEPT ![p] = IF call[p] # Opening THEN Ok ELSE Error]
      /\ call[p] # Opening => CallNow[p] = call[p]
  BY <1>2, WayMapped DEF Through
<1>5. CASE call[p] = Opening
  <2>1. Rings = {} /\ link[id[p]] = {} /\ ring[p] = Scope[p] /\ ring[p] # id[p]
    BY <1>1, <1>2, <1>3, <1>5, OpensUpon, KeyctlAssumption, KernelAssumption
       DEF CallInv, WorkInv, ProcInv, RingInv
  <2>2. link'[id[p]] = {}
    BY <1>1, <1>2, <1>3, <2>1, LinkEffect
  <2>3. pc'[p] = "unlink" /\ call'[p] = Opening /\ id'[p] = id[p]
    BY <1>1, <1>2, <1>5 DEF Go, ProcTyped
  <2>4. id[p] \in Named(p)' /\ Service[p] # NoService
    BY <2>3 DEF HandleInv, HandleOf
  <2>5. id[p] \in RingsOf(p)'
    BY <2>4 DEF RingsOf, Named
  <2>6. Rings' = {id[p]}
    BY <1>1, <2>5, RingsOneNext, RingsShared
  <2>7. Stored' = Stored
    BY <2>1, <2>2, <2>6, StoreEmpty
  <2>8. DueNow' = DueNow
    BY <1>4, <1>5 DEF DueNow
  <2> QED
    BY <1>4, <2>7, <2>8 DEF C!cvars
<1>6. CASE call[p] # Opening
  <2>1. call[p].op = "Set" /\ call[p] \in Calls
    BY <1>1, <1>2, <1>6, IdleIsNoCall DEF ProcInv, StepOfCall, ProcTyped, Through
  <2>2. call[p].key \in Key
    BY <2>1, CallArguments
  <2>3. /\ key[id[p]].type = "user" /\ key[id[p]].desc = call[p].key
        /\ \/ key[id[p]].data = call[p].data
           \/ call[p].key \in Strangers /\ key[id[p]].data = Stranger
    BY <1>1, <1>2, <1>6 DEF ProcInv, IdInv, Through, CallInv, WorkInv, Given
  <2>4. RingsSame
    BY <1>1, <1>2, <1>3, <2>3, LinkRings, KeyctlAssumption DEF RingsSame, Named
  <2>5. Rings = {ring[p]} /\ Rings' = Rings
    BY <1>1, <1>2, <1>6, <2>4, RingIs, RingsKept
  <2>6. ring[p] \in Id => key[ring[p]].type = "keyring"
    BY <1>3
  <2>7. Stored' = [Stored EXCEPT ![call[p].key] = key[id[p]].data]
    BY <1>1, <1>2, <1>3, <2>2, <2>3, <2>5, <2>6, LinkPuts
  <2>8. CASE key[id[p]].data = call[p].data
    BY <1>4, <1>6, <2>1, <2>2, <2>7, <2>8, ContractStore
  <2>9. CASE call[p].key \in Strangers /\ key[id[p]].data = Stranger
    BY <1>4, <1>6, <2>1, <2>7, <2>9 DEF Exchanges, IsSetOf
  <2> QED
    BY <2>3, <2>8, <2>9
<1> QED
  BY <1>5, <1>6

LEMMA PermRefines ==
  ASSUME Setting, TypeInv, TypeInv', StoreInv, NEW p \in Proc, SetPermission(p)
  PROVE  UNCHANGED C!cvars
<1>1. /\ KernelInv /\ KernelInv' /\ ProcInv(p) /\ SharedKeyring /\ SessionsApart /\ KernelUnique
  BY TypeInvParts DEF TypeInv, TypeOK, KernelInv, KernelTyped, Setting, StoreInv
<1>2. /\ pc[p] = "setperm" /\ key[id[p]] # NoKey /\ SetPerm(id[p]) /\ id[p] \in Id
      /\ Go(p, "link") /\ UNCHANGED <<call, result>> /\ Step(p)
  BY <1>1 DEF SetPermission, Step, ProcInv, IdInv, Through
<1>3. CallNow' = CallNow /\ DueNow' = [DueNow EXCEPT ![p] = Error] /\ DueNow[p] = Error
  BY <1>2, WayMapped DEF Through
<1>4. Rings' = Rings
  BY <1>1, QuietKeys, RingsKept DEF QuietStep
<1>5. /\ link' = link
      /\ \A i \in Id : key'[i].type = key[i].type /\ key'[i].desc = key[i].desc /\ key'[i].data = key[i].data
  BY <1>1, <1>2, SetPermKey
<1>6. \A r \in Rings : link[r] \subseteq Id
  BY <1>1, RingPlace DEF KernelInv, KernelTyped
<1>7. Stored' = Stored
  BY <1>4, <1>5, <1>6, StoreSame
<1>8. DueNow' = DueNow
  BY <1>3 DEF DueNow
<1> QED
  BY <1>3, <1>7, <1>8 DEF C!cvars

LEMMA UnlinkRefines ==
  ASSUME Setting, TypeInv, StoreInv, NEW p \in Proc, UnlinkKey(p)
  PROVE  UNCHANGED C!cvars
<1>1. KernelInv /\ SharedKeyring /\ SessionsApart /\ CallInv(p)
  BY TypeInvParts DEF Setting, StoreInv
<1>2. pc[p] = "unlink" /\ Unlink(SessionOf[p], id[p]) /\ Finish(p, Ok) /\ Step(p)
  BY DEF UnlinkKey, Step
<1>3. Stored' = Stored
  BY <1>1, <1>2, UnlinkStore
<1>4. CallNow' = CallNow /\ (DueNow' = DueNow \/ DueNow' = [DueNow EXCEPT ![p] = Ok])
  BY <1>1, <1>2, FinishMapped
<1>5. call[p] # Opening => DueNow[p] = Ok
  BY <1>2 DEF DueNow, Due
<1>6. DueNow' = DueNow
  <2>1. CASE call[p] = Opening
    BY <1>1, <1>2, <2>1, FinishMapped
  <2>2. CASE call[p] # Opening
    BY <1>4, <1>5, <2>2 DEF DueNow
  <2> QED
    BY <2>1, <2>2
<1> QED
  BY <1>3, <1>4, <1>6 DEF C!cvars

LEMMA FindRefines ==
  ASSUME TypeInv, StoreInv, NEW p \in Proc, FindRing(p) PROVE UNCHANGED C!cvars
<1>1. ProcTyped /\ ProcInv(p) /\ CallInv(p)
  BY TypeInvParts DEF StoreInv
<1>2. pc[p] = "find" /\ call[p] = Opening /\ Step(p) /\ UNCHANGED <<key, link>>
  BY <1>1 DEF FindRing, Step, ProcInv, StepOfCall
<1>3. Stored' = Stored
  BY <1>2, StoreUnchanged
<1>4. CASE Finish(p, Ok)
  BY <1>1, <1>2, <1>3, <1>4, FinishMapped DEF C!cvars
<1>5. CASE Go(p, "add") /\ UNCHANGED <<ring, call, result>>
  <2>1. pc'[p] = "add" /\ call'[p] = Opening
    BY <1>1, <1>2, <1>5 DEF Go, ProcTyped
  <2>2. Due(p)' = Error /\ Due(p) = Error
    BY <1>2, <2>1 DEF Due
  <2> QED
    BY <1>2, <1>3, <2>1, <2>2, Mapped DEF C!cvars, DueNow, CallNow
<1> QED
  BY <1>4, <1>5 DEF FindRing

-----------------------------------------------------------------------------
\* A search finds an item if the store has one, and reads no other.
LEMMA SearchIs ==
  ASSUME Setting, TypeInv, HandleInv, StoreInv, NEW p \in Proc, pc[p] = "search"
  PROVE  /\ Exists(ring[p]) /\ ring[p] \in Anchor \cup Id /\ Rings = {ring[p]}
         /\ Hits(p) = {i \in link[ring[p]] : key[i].type = "user" /\ key[i].desc = call[p].key}
<1>1. /\ KernelInv /\ ProcTyped /\ ProcInv(p) /\ SharedKeyring /\ SessionsApart /\ NamesUnique /\ KeyringsNamed
  BY TypeInvParts DEF Setting, StoreInv, KernelUnique
<1>2. call[p] # Opening /\ Exists(ring[p])
  BY <1>1, RingStays, OpeningIsNoCall DEF ProcInv, StepOfCall
<1>3. Rings = {ring[p]}
  BY <1>1, <1>2, RingIs
<1>4. /\ ring[p] \in Anchor \cup Id /\ (ring[p] \in Anchor => Service[p] = NoService)
  BY <1>1, <1>3, RingPlace
<1>5. ASSUME NEW i \in link[ring[p]], key[i].type = "keyring" PROVE FALSE
  <2>1. i \in Id /\ key[i] # NoKey /\ key[i] \in KeyRecord
    BY <1>1, <1>4 DEF KernelInv, KernelTyped, ShapeOf
  <2>2. CASE ring[p] \in Id
    BY <1>1, <1>5, <2>2 DEF KernelInv, ShapeOf
  <2>3. CASE ring[p] \in Anchor
    <3>1. \A q \in Proc : Service[q] = NoService
      BY <1>1, <1>4, <2>3 DEF SharedKeyring
    <3>2. key[i].desc = NoService
      BY <1>5, <2>1, <3>1 DEF KeyRecord
    <3> QED
      BY <1>1, <1>5, <2>1, <3>2 DEF KeyringsNamed
  <2> QED
    BY <1>4, <2>2, <2>3
<1>6. Search(ring[p], "user", call[p].key) = Matches(ring[p], "user", call[p].key)
  BY <1>5 DEF Search
<1> QED
  BY <1>2, <1>3, <1>4, <1>6 DEF Hits, Matches

LEMMA ContractLook ==
  ASSUME NEW p \in Proc, Stored' = Stored, CallNow' = CallNow, CallNow[p] = call[p], call[p].op = "Get", call[p].key \in Key,
         DataApart,
         \/ ItemIn(call[p].key) = "no item" /\ DueNow' = [DueNow EXCEPT ![p] = NotFound]
         \/ ItemIn(call[p].key) \in Data /\ DueNow' = [DueNow EXCEPT ![p] = Found(ItemIn(call[p].key))]
  PROVE  C!CNext
<1>1. Stored[call[p].key] = ItemIn(call[p].key)
  BY StoredIs
<1>2. DueNow' = [DueNow EXCEPT ![p] = C!Answer(Stored[call[p].key])]
  BY <1>1, ContractWords DEF C!Answer, DataApart
<1>3. C!Look(p)
  BY <1>2, ContractWords DEF C!Look
<1> QED
  BY <1>3 DEF C!CNext

LEMMA SearchRefines ==
  ASSUME Setting, DataApart, TypeInv, HandleInv, StoreInv, NEW p \in Proc, SearchMisses(p) \/ SearchFinds(p)
  PROVE  C!CNext \/ UNCHANGED C!cvars
<1>1. /\ KernelInv /\ ProcTyped /\ ProcInv(p) /\ CallInv(p) /\ NamesUnique
  BY TypeInvParts DEF StoreInv, KernelUnique
<1>2. /\ pc[p] = "search" /\ Step(p) /\ UNCHANGED <<key, link>>
  BY DEF SearchMisses, SearchFinds, Step
<1>3. call[p].op \in {"Get", "Remove"} /\ call[p] # Opening /\ call[p] \in Calls /\ call[p] # Idle
  BY <1>1, <1>2, OpeningIsNoCall, IdleIsNoCall DEF ProcInv, StepOfCall, ProcTyped
<1>4. call[p].key \in Key /\ Stored' = Stored /\ DueNow[p] = Error
  BY <1>2, <1>3, CallArguments, StoreUnchanged DEF DueNow, Due
<1>5. /\ ring[p] \in Anchor \cup Id /\ Rings = {ring[p]}
      /\ Hits(p) = {i \in link[ring[p]] : key[i].type = "user" /\ key[i].desc = call[p].key}
  BY <1>2, SearchIs
<1>6. CASE SearchMisses(p)
  <2>1. CallNow' = CallNow /\ DueNow' = [DueNow EXCEPT ![p] = NotFound] /\ CallNow[p] = call[p]
    BY <1>1, <1>2, <1>3, <1>6, FinishMapped DEF SearchMisses
  <2>2. ItemIn(call[p].key) = "no item"
    BY <1>5, <1>6, ItemAbsent DEF SearchMisses
  <2>3. CASE call[p].op = "Get"
    BY <1>4, <2>1, <2>2, <2>3, ContractLook
  <2>4. CASE call[p].op = "Remove"
    <3>1. C!Miss(p)
      BY <1>4, <2>1, <2>2, <2>4, StoredIs, ContractWords DEF C!Miss
    <3> QED
      BY <3>1 DEF C!CNext
  <2> QED
    BY <1>3, <2>3, <2>4
<1>7. CASE SearchFinds(p)
  <2>1. PICK i \in Hits(p) :
          seen' = [seen EXCEPT ![p] = IF call[p].op = "Get" THEN Found(key[i].data) ELSE @]
    BY <1>7 DEF SearchFinds
  <2>2. UNCHANGED <<call, result>> /\ pc'[p] = IF call[p].op = "Get" THEN "read" ELSE "remove"
    BY <1>1, <1>7 DEF SearchFinds, Go, ProcTyped
  <2>3. CallNow' = CallNow /\ CallNow[p] = call[p] /\ DueNow' = [DueNow EXCEPT ![p] = Due(p)']
    BY <1>2, <1>3, <2>2, Mapped DEF CallNow
  <2>4. CASE call[p].op = "Get"
    <3>1. Due(p)' = Found(key[i].data)
      BY <1>1, <2>1, <2>2, <2>4 DEF Due, ProcTyped
    <3>2. ItemIn(call[p].key) = key[i].data /\ key[i].data \in Data
      BY <1>1, <1>5, <2>1, ItemFound
    <3> QED
      BY <1>4, <2>3, <2>4, <3>1, <3>2, ContractLook
  <2>5. CASE call[p].op = "Remove"
    <3>1. Due(p)' = Error
      BY <2>2, <2>5 DEF Due
    <3> QED
      BY <1>4, <2>3, <3>1 DEF C!cvars, DueNow
  <2> QED
    BY <1>3, <2>4, <2>5
<1> QED
  BY <1>6, <1>7

LEMMA RemoveRefines ==
  ASSUME Setting, DataApart, TypeInv, TypeInv', HandleInv, StoreInv, NEW p \in Proc, RemoveUnlinks(p)
  PROVE  C!CNext \/ UNCHANGED C!cvars
<1>1. /\ KernelInv /\ KernelInv' /\ ProcTyped /\ ProcInv(p) /\ CallInv(p) /\ KernelUnique /\ NamesUnique
      /\ SharedKeyring /\ SessionsApart
  BY TypeInvParts DEF TypeInv, TypeOK, KernelInv, KernelTyped, StoreInv, KernelUnique, Setting
<1>2. pc[p] = "remove" /\ Step(p)
  BY DEF RemoveUnlinks, Step
<1>3. call[p].op = "Remove" /\ call[p] # Opening /\ call[p] \in Calls /\ call[p] # Idle
  BY <1>1, <1>2, OpeningIsNoCall, IdleIsNoCall DEF ProcInv, StepOfCall, ProcTyped
<1>4. call[p].key \in Key /\ DueNow[p] = Error
  BY <1>2, <1>3, CallArguments DEF DueNow, Due
<1>5. CASE ~(Exists(ring[p]) /\ id[p] \in link[ring[p]])
  <2>1. UNCHANGED <<key, link>> /\ Finish(p, Error)
    BY <1>5 DEF RemoveUnlinks
  <2> QED
    BY <1>1, <1>2, <2>1, FailRefines
<1>6. CASE Exists(ring[p]) /\ id[p] \in link[ring[p]]
  <2>1. Unlink(ring[p], id[p]) /\ Finish(p, Ok)
    BY <1>6 DEF RemoveUnlinks
  <2>2. Rings = {ring[p]} /\ Rings' = Rings
    BY <1>1, <1>2, <1>3, RingIs, QuietKeys, RingsKept DEF QuietStep
  <2>3. /\ ring[p] \in Anchor \cup Id /\ ring[p] \notin Sessions /\ Scope[p] \in Anchor
        /\ ring[p] \in Id => ring[p] \in link[Scope[p]]
    BY <1>1, <2>2, RingPlace
  <2>4. key[id[p]] # NoKey
    BY <1>1, <1>6, <2>3 DEF KernelInv, ShapeOf
  <2>5. key[id[p]].type = "user" /\ key[id[p]].desc = call[p].key
    BY <1>1, <1>2, <2>4 DEF ProcInv, IdInv, CallInv, WorkInv
  <2>6. PICK a \in Anchor \ {ring[p]} : ring[p] \in Id => ring[p] \in link[a]
    <3>1. SessionOf[p] \in Anchor \ {ring[p]}
      BY <2>3, SessionAnchors
    <3>2. ring[p] \in Id => Scope[p] \in Anchor \ {ring[p]}
      BY <2>3, KernelAssumption
    <3> QED
      BY <2>3, <3>1, <3>2
  <2>7. \A i \in link[ring[p]] \ {id[p]} : i \in link'[ring[p]] /\ key'[i] = key[i]
    BY <1>1, <2>1, <2>3, <2>6, UnlinkSpares
  <2>8. link'[ring[p]] \subseteq link[ring[p]] \ {id[p]}
    BY <1>1, <2>1, <2>3 DEF Unlink, Settle, KernelInv, KernelTyped
  <2>9. link'[ring[p]] = link[ring[p]] \ {id[p]} /\ \A i \in link'[ring[p]] : key'[i] = key[i]
    BY <2>7, <2>8
  <2>10. Stored' = [Stored EXCEPT ![call[p].key] = "no item"]
    BY <1>1, <1>4, <1>6, <2>2, <2>3, <2>5, <2>9, StoreTakes
  <2>11. Stored[call[p].key] # "no item"
    BY <1>1, <1>4, <1>6, <2>2, <2>3, <2>5, ItemFound, StoredIs DEF DataApart
  <2>12. CallNow' = CallNow /\ DueNow' = [DueNow EXCEPT ![p] = Ok] /\ CallNow[p] = call[p]
    BY <1>1, <1>2, <1>3, <2>1, FinishMapped
  <2>13. DueNow' = [d \in Proc |-> IF d = p THEN Ok ELSE IF d \in {} THEN Ok ELSE DueNow[d]]
    BY <2>12 DEF DueNow
  <2>14. C!Erase(p)
    <3>1. {} \in SUBSET {d \in Proc : C!IsSetOf(CallNow[d], CallNow[p].key)} /\ Ok \in {C!Ok, C!Error}
      BY ContractWords
    <3>2. \E over \in SUBSET {d \in Proc : C!IsSetOf(CallNow[d], CallNow[p].key)}, r \in {C!Ok, C!Error} :
            DueNow' = [d \in Proc |-> IF d = p THEN r ELSE IF d \in over THEN C!Ok ELSE DueNow[d]]
      BY <2>13, <3>1, ContractWords
    <3>3. CallNow[p].op = "Remove" /\ CallNow[p].key = call[p].key /\ CallNow' = CallNow /\ DueNow[p] = C!Error
      BY <1>3, <1>4, <2>12, ContractWords
    <3>4. Stored[CallNow[p].key] # "no item"
      BY <2>11, <3>3
    <3>5. Stored' = [Stored EXCEPT ![CallNow[p].key] = "no item"]
      BY <2>10, <3>3
    <3>6. UNCHANGED CallNow
      BY <3>3
    <3> QED
      BY <3>2, <3>3, <3>4, <3>5, <3>6 DEF C!Erase
  <2> QED
    BY <2>14 DEF C!CNext
<1> QED
  BY <1>5, <1>6

LEMMA AliveLinked ==
  ASSUME KernelInv, AliveInv, NEW i \in Id, key[i] # NoKey PROVE \E r \in Anchor \cup Id : i \in link[r]
<1>1. i \in Alive(link)
  BY DEF AliveInv
<1> QED
  BY <1>1 DEF Alive, KernelInv, KernelTyped

\* The key that a Get is about to read is one of a keyring of items.
ReadAtHome == \A q \in Proc : pc[q] = "read" /\ call[q].op = "Get" /\ key[id[q]] # NoKey
                => \E r \in Rings : id[q] \in link[r]

LEMMA HomeIsRead == ASSUME TypeInv, AliveInv, ItemsAtHome PROVE ReadAtHome
<1> SUFFICES ASSUME NEW q \in Proc, pc[q] = "read", call[q].op = "Get", key[id[q]] # NoKey
             PROVE  \E r \in Rings : id[q] \in link[r]
  BY DEF ReadAtHome
<1>1. KernelInv /\ id[q] \in Id /\ key[id[q]].type = "user"
  BY TypeInvParts DEF ProcInv, IdInv
<1>2. PICK r \in Anchor \cup Id : id[q] \in link[r]
  BY <1>1, AliveLinked
<1> QED
  BY <1>1, <1>2 DEF ItemsAtHome

LEMMA ReadRefines ==
  ASSUME Setting, DataApart, TypeInv, HandleInv, AliveInv, StoreInv, ~Steady => ReadAtHome,
         NEW p \in Proc, ReadItem(p)
  PROVE  C!CNext \/ UNCHANGED C!cvars
<1>1. KernelInv /\ ProcTyped /\ ProcInv(p) /\ CallInv(p) /\ NamesUnique /\ SharedKeyring /\ SessionsApart
  BY TypeInvParts DEF StoreInv, KernelUnique, Setting
<1>2. /\ pc[p] = "read" /\ call[p].op = "Get" /\ Exists(id[p]) /\ Step(p) /\ UNCHANGED <<key, link>>
      /\ Finish(p, Found(key[id[p]].data))
  BY DEF ReadItem, Source, Step
<1>3. call[p] # Opening /\ call[p] \in Calls /\ call[p] # Idle /\ call[p].key \in Key
  BY <1>1, <1>2, OpeningIsNoCall, IdleIsNoCall, CallArguments DEF ProcTyped
<1>4. id[p] \in Id /\ key[id[p]] # NoKey
  BY <1>1, <1>2, KernelAssumption DEF ProcInv, IdInv, Exists
<1>5. /\ CallNow' = CallNow /\ DueNow' = [DueNow EXCEPT ![p] = Found(key[id[p]].data)] /\ CallNow[p] = call[p]
      /\ Stored' = Stored
  BY <1>1, <1>2, <1>3, FinishMapped, StoreUnchanged
<1>6. key[id[p]].type = "user" /\ key[id[p]].desc = call[p].key
  BY <1>1, <1>2, <1>4 DEF ProcInv, IdInv, CallInv, WorkInv
<1>7. CASE Steady
  <2>1. DueNow[p] = Found(key[id[p]].data)
    BY <1>1, <1>2, <1>4, <1>7 DEF DueNow, Due, CallInv, WorkInv
  <2> QED
    BY <1>5, <2>1 DEF C!cvars, DueNow
<1>8. CASE ~Steady
  <2>1. PICK r \in Rings : id[p] \in link[r]
    BY <1>2, <1>4, <1>8 DEF ReadAtHome
  <2>2. r \in Anchor \cup Id
    BY <1>1, <2>1, RingPlace
  <2>3. Rings = {r}
    BY <1>1, <2>1, RingsOne
  <2>4. ItemIn(call[p].key) = key[id[p]].data /\ key[id[p]].data \in Data
    BY <1>1, <1>6, <2>1, <2>2, <2>3, ItemFound
  <2> QED
    BY <1>2, <1>3, <1>5, <2>4, ContractLook
<1> QED
  BY <1>7, <1>8

\* The list of the keyring is that of the store.
LEMMA ListRefines ==
  ASSUME Setting, DataApart, TypeInv, HandleInv, StoreInv, NEW p \in Proc, ReadRing(p)
  PROVE  C!CNext
<1>1. KernelInv /\ ProcTyped /\ ProcInv(p) /\ NamesUnique /\ SharedKeyring /\ SessionsApart
  BY TypeInvParts DEF StoreInv, KernelUnique, Setting
<1>2. /\ pc[p] = "read" /\ call[p].op = "Keys" /\ Step(p) /\ UNCHANGED <<key, link, call>>
      /\ pc'[p] = "describe" /\ seen'[p] = Listing(UserKeys(ring[p]))
  BY <1>1 DEF ReadRing, Step, Go, ProcTyped
<1>3. call[p] # Opening
  BY <1>2, OpeningIsNoCall
<1>4. Rings = {ring[p]} /\ Stored' = Stored
  BY <1>1, <1>2, <1>3, RingIs, StoreUnchanged
<1>5. ring[p] \in Anchor \cup Id
  BY <1>1, <1>4, RingPlace
<1>6. {k \in Key : Stored[k] # "no item"} = UserKeys(ring[p])
  <2>1. ASSUME NEW k \in Key, k \notin UserKeys(ring[p]) PROVE Stored[k] = "no item"
    <3>1. \A i \in link[ring[p]] : ~(key[i].type = "user" /\ key[i].desc = k)
      BY <2>1 DEF UserKeys
    <3> QED
      BY <1>4, <3>1, ItemAbsent, StoredIs
  <2>2. ASSUME NEW k \in UserKeys(ring[p]) PROVE k \in Key /\ Stored[k] # "no item"
    <3>1. PICK i \in link[ring[p]] : key[i].type = "user" /\ key[i].desc = k
      BY <2>2 DEF UserKeys
    <3> QED
      BY <1>1, <1>4, <1>5, <3>1, ItemFound, StoredIs DEF DataApart
  <2> QED
    BY <2>1, <2>2
<1>7. CallNow' = CallNow /\ CallNow[p] = call[p] /\ DueNow' = [DueNow EXCEPT ![p] = Listing(UserKeys(ring[p]))]
  <2>1. Due(p)' = Listing(UserKeys(ring[p]))
    BY <1>2 DEF Due
  <2> QED
    BY <1>2, <1>3, <2>1, Mapped DEF CallNow
<1>8. C!List(p)
  BY <1>2, <1>4, <1>6, <1>7, ContractWords DEF C!List
<1> QED
  BY <1>8 DEF C!CNext

LEMMA DescribeRefines ==
  ASSUME TypeInv, StoreInv, NEW p \in Proc, Describe(p) \/ Described(p) \/ ReadGrows(p)
  PROVE  C!CNext \/ UNCHANGED C!cvars
<1>1. ProcTyped /\ ProcInv(p) /\ CallInv(p)
  BY TypeInvParts DEF StoreInv
<1>2. Step(p) /\ UNCHANGED <<key, link, seen>> /\ pc[p] \in {"read", "describe"}
  BY DEF Step, Describe, Described, ReadGrows
<1>3. Stored' = Stored
  BY <1>2, StoreUnchanged
<1>4. CASE UNCHANGED <<call, pc, result>>
  BY <1>2, <1>3, <1>4 DEF C!cvars, DueNow, CallNow, Due
<1>5. CASE Finish(p, Error)
  BY <1>1, <1>2, <1>5, FailRefines
<1>6. CASE Described(p)
  <2>1. pc[p] = "describe" /\ ids[p] = {} /\ Finish(p, Listing(names[p]))
    BY <1>6 DEF Described
  <2>2. call[p] # Opening
    BY <1>1, <2>1, OpeningIsNoCall DEF ProcInv, StepOfCall
  <2>3. seen[p] = Listing(names[p])
    <3>1. DescsOf(ids[p]) = {}
      BY <2>1 DEF DescsOf
    <3>2. names[p] \cup DescsOf(ids[p]) = names[p]
      BY <3>1
    <3> QED
      BY <1>1, <2>1, <3>2 DEF CallInv, ListInv
  <2>4. DueNow[p] = Listing(names[p])
    BY <2>1, <2>3 DEF DueNow, Due
  <2>5. CallNow' = CallNow /\ DueNow' = [DueNow EXCEPT ![p] = Listing(names[p])]
    BY <1>1, <1>2, <2>1, <2>2, FinishMapped
  <2> QED
    BY <1>3, <2>4, <2>5 DEF C!cvars, DueNow
<1>7. Describe(p) => Finish(p, Error) \/ UNCHANGED <<call, pc, result>>
  BY DEF Describe
<1> QED
  BY <1>4, <1>5, <1>6, <1>7 DEF ReadGrows

-----------------------------------------------------------------------------
LEMMA EndRefines ==
  ASSUME TypeInv, NEW p \in Proc, Return(p) \/ Crash(p)
  PROVE  C!CNext \/ UNCHANGED C!cvars
<1>1. ProcTyped /\ ProcInv(p)
  BY TypeInvParts
<1>2. /\ UNCHANGED <<key, link>> /\ Forget(p) /\ \E step \in {"idle", "closed"} : Go(p, step)
  BY DEF Return, Crash
<1>3. call'[p] = Idle /\ pc'[p] \in {"idle", "closed"}
  BY <1>1, <1>2 DEF Forget, Go, ProcTyped
<1>4. Due(p)' = Error
  BY <1>3 DEF Due
<1>5. /\ DueNow' = [DueNow EXCEPT ![p] = Error] /\ CallNow' = [CallNow EXCEPT ![p] = Idle]
      /\ CallNow[p] = IF call[p] = Opening THEN Idle ELSE call[p]
  BY <1>3, <1>4, Mapped, OpeningIsNoCall DEF Step
<1>6. Stored' = Stored
  BY <1>2, StoreUnchanged
<1>7. CASE call[p] \in {Idle, Opening}
  <2>1. Due(p) = Error
    BY <1>1, <1>7, OpeningIsNoCall, IdleIsNoCall DEF Due, ProcInv, StepOfCall
  <2>2. CallNow[p] = Idle
    BY <1>5, <1>7, OpeningIsNoCall
  <2> QED
    BY <1>5, <1>6, <2>1, <2>2 DEF C!cvars, DueNow, CallNow
<1>8. CASE call[p] \notin {Idle, Opening}
  <2>1. C!Return(p)
    BY <1>5, <1>6, <1>8, ContractWords DEF C!Return
  <2> QED
    BY <2>1 DEF C!CNext
<1> QED
  BY <1>7, <1>8

LEMMA BeginRefines ==
  ASSUME TypeInv, StoreInv, StoreInv', NEW p \in Proc, Open(p) \/ Call(p)
  PROVE  C!CNext \/ UNCHANGED C!cvars
<1>1. ProcTyped /\ ProcInv(p) /\ CallInv(p)
  BY TypeInvParts DEF StoreInv
<1>2. UNCHANGED <<key, link, result, seen>> /\ pc[p] \in {"closed", "idle"} /\ call[p] = Idle
  BY <1>1 DEF Open, Call, ProcInv, StepOfCall
<1>3. Stored' = Stored
  BY <1>2, StoreUnchanged
<1>4. Due(p) = Error /\ CallNow[p] = Idle /\ result[p] = Error /\ seen[p] = Error
  BY <1>1, <1>2, OpeningIsNoCall DEF Due, CallNow, CallInv, RestInv
<1>5. /\ DueNow' = [DueNow EXCEPT ![p] = Due(p)']
      /\ CallNow' = [CallNow EXCEPT ![p] = IF call'[p] = Opening THEN Idle ELSE call'[p]]
  BY Mapped
<1>6. CASE Open(p)
  <2>1. pc'[p] \in {"idle", "find"} /\ call'[p] \in {Idle, Opening}
    BY <1>1, <1>2, <1>6 DEF Open, Go, ProcTyped
  <2>2. Due(p)' = Error
    BY <2>1 DEF Due
  <2> QED
    BY <1>3, <1>4, <1>5, <2>1, <2>2 DEF C!cvars, DueNow, CallNow
<1>7. CASE Call(p)
  <2>1. PICK cl \in Calls : call' = [call EXCEPT ![p] = cl] /\ Go(p, FirstStep(cl.op))
    BY <1>7 DEF Call
  <2>2. cl.op \in {"Get", "GetMetadata", "Remove", "Set", "Keys"} /\ cl # Opening
    BY CallArguments, OpeningIsNoCall
  <2>3. call'[p] = cl /\ pc'[p] = FirstStep(cl.op) /\ pc'[p] \in {"search", "add", "read", "return"}
    BY <1>1, <2>1, <2>2 DEF Go, ProcTyped, FirstStep
  <2>4. result'[p] = Error /\ seen'[p] = Error
    BY <1>2, <1>4
  <2>5. Due(p)' = Error
    BY <2>3, <2>4 DEF Due
  <2>6. C!Begin(p)
    BY <1>3, <1>4, <1>5, <2>2, <2>3, <2>5, ContractWords DEF C!Begin
  <2> QED
    BY <2>6 DEF C!CNext
<1> QED
  BY <1>6, <1>7

-----------------------------------------------------------------------------
\* Every step of a process is one of the contract, or none.
LEMMA GoneRefines ==
  ASSUME TypeInv, StoreInv, NEW p \in Proc, SetFails(p) \/ ReadGone(p)
  PROVE  C!CNext \/ UNCHANGED C!cvars
<1>1. /\ pc[p] \in {"add", "setperm", "link", "unlink", "read"}
      /\ Finish(p, Error) /\ UNCHANGED <<key, link>> /\ Step(p)
  BY DEF SetFails, ReadGone, Step
<1> QED
  BY <1>1, FailRefines DEF StoreInv

StoreFacts == TypeInv /\ HandleInv /\ AliveInv /\ StoreInv /\ PermInv

LEMMA StepRefines ==
  ASSUME Setting, DataApart, StoreFacts, StoreFacts', ~Steady => ReadAtHome, NEW p \in Proc, Step(p)
  PROVE  C!CNext \/ UNCHANGED C!cvars \/ (Exchanges /\ Strangers # {})
<1> USE DEF StoreFacts
<1>1. Add(p) \/ LinkKey(p) => C!CNext \/ UNCHANGED C!cvars \/ (Exchanges /\ Strangers # {})
  BY AddRefines, LinkRefines
<1>2. FindRing(p) \/ SetPermission(p) \/ UnlinkKey(p) => UNCHANGED C!cvars
  BY FindRefines, PermRefines, UnlinkRefines
<1>3. SetFails(p) \/ ReadGone(p) => C!CNext \/ UNCHANGED C!cvars
  BY GoneRefines
<1>4. SearchMisses(p) \/ SearchFinds(p) \/ RemoveUnlinks(p) => C!CNext \/ UNCHANGED C!cvars
  BY SearchRefines, RemoveRefines
<1>5. ReadItem(p) \/ ReadRing(p) => C!CNext \/ UNCHANGED C!cvars
  BY ReadRefines, ListRefines
<1>6. ReadGrows(p) \/ Describe(p) \/ Described(p) => C!CNext \/ UNCHANGED C!cvars
  BY DescribeRefines
<1>7. Return(p) => C!CNext \/ UNCHANGED C!cvars
  BY EndRefines
<1> QED
  BY <1>1, <1>2, <1>3, <1>4, <1>5, <1>6, <1>7 DEF Step

\* A system call that fails: the call fails, or, a Remove that was searching, says
\* that there is nothing to remove.
LEMMA ErrorRefines ==
  ASSUME TypeInv, StoreInv, NEW p \in Proc, SyscallError(p)
  PROVE  W!CNext \/ UNCHANGED C!cvars
<1>1. ProcTyped /\ ProcInv(p) /\ CallInv(p)
  BY TypeInvParts DEF StoreInv
<1>2. /\ pc[p] \notin {"closed", "idle", "return"} /\ UNCHANGED <<key, link>>
      /\ Finish(p, IF pc[p] = "search" /\ call[p].op = "Remove" THEN NotFound ELSE Error)
  BY DEF SyscallError
<1>3. CASE pc[p] = "search" /\ call[p].op = "Remove"
  <2>1. Finish(p, NotFound) /\ call[p] # Opening
    BY <1>2, <1>3, <1>1, OpeningIsNoCall DEF ProcInv, StepOfCall
  <2>2. CallNow' = CallNow /\ DueNow' = [DueNow EXCEPT ![p] = NotFound] /\ CallNow[p] = call[p]
    BY <1>1, <1>2, <2>1, FinishMapped
  <2>3. Stored' = Stored
    BY <1>2, StoreUnchanged
  <2>4. DueNow[p] = Error
    BY <1>3 DEF DueNow, Due
  <2>5. W!Miss(p)
    BY <1>3, <2>2, <2>3, <2>4, ContractWords DEF W!Miss
  <2> QED
    BY <2>5 DEF W!CNext
<1>4. CASE ~(pc[p] = "search" /\ call[p].op = "Remove")
  BY <1>1, <1>2, <1>4, FailRefines, Weaker
<1> QED
  BY <1>3, <1>4

\* What other programs do to a session keyring is not seen in the store, but for what
\* they put in the place of a key that came through it.
LEMMA StrangerRefines ==
  ASSUME SharedKeyring, SessionsApart, StoreFacts, StoreFacts', NEW u \in Proc, NEW k \in Strangers,
         StrangerAdds(SessionOf[u], k) \/ StrangerRemoves(SessionOf[u], k)
  PROVE  UNCHANGED C!cvars \/ Exchanges
<1>1. /\ TypeInv /\ AliveInv /\ PermInv /\ KernelInv /\ KernelInv' /\ NamesUnique /\ NamesUnique' /\ KernelUnique
      /\ SessionOf[u] \in Anchor /\ SessionOf[u] \in Sessions /\ k \in Key
  BY TypeInvParts, SessionAnchors, KeyctlAssumption
     DEF StoreFacts, StoreInv, KernelUnique, TypeInv, TypeOK, KernelInv, KernelTyped
<1>2. CallNow' = CallNow /\ DueNow' = DueNow
  BY DEF StrangerAdds, StrangerRemoves, procVars, CallNow, DueNow, Due
<1>3. CASE StrangerAdds(SessionOf[u], k) /\ Matches(SessionOf[u], "user", k) = {}
  <2>1. PICK n \in Id : AddKey(SessionOf[u], "user", k, Stranger, n, Free)
    BY <1>3 DEF StrangerAdds
  <2>2. [type |-> "user", desc |-> k, data |-> Stranger, perm |-> FALSE] \in KeyRecord
    BY KeyctlAssumption DEF KeyRecord
  <2>3. Stored' = Stored
    BY <1>1, <1>3, <2>1, <2>2, AddStore
  <2> QED
    BY <1>2, <2>3 DEF C!cvars
<1>4. CASE StrangerAdds(SessionOf[u], k) /\ Matches(SessionOf[u], "user", k) # {}
  <2>1. PICK n \in Id : AddKey(SessionOf[u], "user", k, Stranger, n, Free)
    BY <1>4 DEF StrangerAdds
  <2>2. n \in Matches(SessionOf[u], "user", k)
    BY <1>4, <2>1 DEF AddKey
  <2>3. KeysEvolve /\ Rings' = Rings
    BY <1>1, <1>4, StrangerKeys, RingsKept
  <2>4. CASE Rings = {}
    BY <1>2, <2>3, <2>4, StoreEmpty DEF C!cvars
  <2>5. ASSUME NEW r \in Rings PROVE UNCHANGED C!cvars \/ Exchanges
    <3>1. Rings = {r} /\ r \in Anchor \cup Id /\ r \notin Sessions
      BY <1>1, <2>5, RingPlace, RingsOne
    <3>2. Stored' = Stored \/ (n \in link[r] /\ Stored' = [Stored EXCEPT ![k] = Stranger])
      BY <1>1, <1>4, <2>1, <2>3, <3>1, UpdateStore
    <3>3. n \in link[r] => key[n].perm
      BY <2>2, <3>1, <1>1 DEF Matches, PermInv, Passing, Sessions
    <3>4. CASE Stored' = Stored
      BY <1>2, <3>4 DEF C!cvars
    <3>5. CASE n \in link[r] /\ Stored' = [Stored EXCEPT ![k] = Stranger]
      BY <1>2, <1>4, <2>2, <3>3, <3>5 DEF Exchanges
    <3> QED
      BY <3>2, <3>4, <3>5
  <2> QED
    BY <2>4, <2>5
<1>5. CASE StrangerRemoves(SessionOf[u], k)
  <2>1. PICK i : Unlink(SessionOf[u], i)
    BY <1>5 DEF StrangerRemoves
  <2>2. Stored' = Stored
    BY <1>1, <2>1, UnlinkStore
  <2> QED
    BY <1>2, <2>2 DEF C!cvars
<1> QED
  BY <1>3, <1>4, <1>5

LEMMA NothingRefines == UNCHANGED vars => UNCHANGED C!cvars
<1> SUFFICES ASSUME UNCHANGED vars PROVE UNCHANGED C!cvars
  OBVIOUS
<1>1. Stored' = Stored
  BY StoreUnchanged DEF vars
<1>2. CallNow' = CallNow /\ DueNow' = DueNow
  BY DEF vars, procVars, CallNow, DueNow, Due
<1> QED
  BY <1>1, <1>2 DEF C!cvars

LEMMA SameVariables == UNCHANGED C!cvars <=> UNCHANGED W!cvars
  BY DEF C!cvars, W!cvars

\* Without failures every step keeps the contract; with them, and one process,
\* the weaker one.
LEMMA NextRefines ==
  ASSUME Setting, DataApart, StoreFacts, StoreFacts', ~Steady => ReadAtHome, [Next]_vars
  PROVE  /\ Undisturbed => C!CNext \/ UNCHANGED C!cvars
         /\ W!CNext \/ Exchanges \/ UNCHANGED W!cvars
<1>1. CASE UNCHANGED vars
  BY <1>1, NothingRefines, SameVariables
<1>2. ASSUME NEW p \in Proc, Open(p) \/ Call(p) \/ Step(p) \/ Crash(p)
      PROVE  C!CNext \/ UNCHANGED C!cvars \/ (Exchanges /\ Strangers # {})
  BY <1>2, BeginRefines, StepRefines, EndRefines DEF StoreFacts
<1>3. ASSUME NEW p \in Proc, SyscallError(p)
      PROVE  ~Undisturbed /\ (W!CNext \/ UNCHANGED W!cvars)
  BY <1>3, ErrorRefines, SameVariables DEF StoreFacts, Undisturbed, SyscallError
<1>4. ASSUME NEW u \in Proc, NEW k \in Strangers,
             StrangerAdds(SessionOf[u], k) \/ StrangerRemoves(SessionOf[u], k)
      PROVE  ~Undisturbed /\ (UNCHANGED C!cvars \/ Exchanges)
  BY <1>4, StrangerRefines DEF Setting, Undisturbed
<1>5. Undisturbed => Strangers = {}
  BY DEF Undisturbed
<1> QED
  BY <1>1, <1>2, <1>3, <1>4, <1>5, Weaker, SameVariables DEF Next

\* One process reads what is in its keyring: nobody else takes a key from there.
LEMMA NextReadAtHome ==
  ASSUME Setting, Alone
  PROVE  StoreFacts /\ StoreFacts' /\ ReadAtHome /\ [Next]_vars => ReadAtHome'
<1> SUFFICES ASSUME StoreFacts, StoreFacts', ReadAtHome, [Next]_vars PROVE ReadAtHome'
  OBVIOUS
<1>1. /\ TypeInv /\ KernelInv /\ KernelInv' /\ ProcTyped /\ HandleInv /\ AliveInv /\ StoreInv /\ KernelUnique
      /\ SharedKeyring /\ SessionsApart
  BY TypeInvParts DEF StoreFacts, StoreInv, TypeInv, TypeOK, KernelInv, KernelTyped, Setting
<1>2. ASSUME NEW p \in Proc, pc'[p] # "read" \/ call'[p].op # "Get" PROVE ReadAtHome'
  BY <1>2 DEF ReadAtHome, Alone
<1>3. CASE UNCHANGED <<key, link, pc, call, id>>
  BY <1>3, NothingRings, RingsKept DEF ReadAtHome
<1>4. ASSUME NEW p \in Proc, Open(p) \/ Call(p) PROVE ReadAtHome'
  <2>1. pc'[p] = "read" => call'[p].op # "Get"
    <3>1. CASE Open(p)
      BY <1>1, <3>1 DEF Open, Go, ProcTyped
    <3>2. CASE Call(p)
      <4>1. PICK cl \in Calls : call' = [call EXCEPT ![p] = cl] /\ Go(p, FirstStep(cl.op))
        BY <3>2 DEF Call
      <4> QED
        BY <1>1, <4>1, CallArguments DEF Go, ProcTyped, FirstStep
    <3> QED
      BY <1>4, <3>1, <3>2
  <2> QED
    BY <1>2, <2>1
<1>5. ASSUME NEW p \in Proc, Crash(p) \/ SyscallError(p) PROVE ReadAtHome'
  <2>1. pc'[p] # "read"
    BY <1>1, <1>5, FinishGoes DEF Crash, SyscallError, Go, ProcTyped
  <2> QED
    BY <1>2, <2>1
<1>6. ASSUME NEW p \in Proc, SearchFinds(p) PROVE ReadAtHome'
  <2>1. /\ pc[p] = "search" /\ UNCHANGED <<key, link>>
        /\ \E i \in Hits(p) : id'[p] = i
    BY <1>1, <1>6 DEF SearchFinds, ProcTyped
  <2>2. ring[p] \in Rings' /\ id'[p] \in link'[ring[p]]
    <3>1. Rings' = Rings
      BY <2>1, NothingRings, RingsKept
    <3> QED
      BY <1>1, <2>1, <3>1, SearchIs
  <2> QED
    BY <2>2 DEF ReadAtHome, Alone
<1>7. ASSUME NEW p \in Proc, Step(p), ~SearchFinds(p) PROVE ReadAtHome'
  <2>1. CASE ReadGrows(p)
    BY <1>3, <2>1 DEF ReadGrows
  <2>2. CASE Add(p) \/ LinkKey(p) \/ FindRing(p) \/ SetPermission(p) \/ UnlinkKey(p) \/ SetFails(p)
    <3>1. pc'[p] # "read"
      BY <1>1, <2>2 DEF Add, LinkKey, FindRing, SetPermission, UnlinkKey, SetFails, Finish, Go, ProcTyped
    <3> QED
      BY <1>2, <3>1
  <2>3. CASE \/ SearchMisses(p) \/ RemoveUnlinks(p) \/ ReadGone(p) \/ ReadItem(p) \/ ReadRing(p)
             \/ Describe(p) \/ Described(p) \/ Return(p)
    <3>1. pc'[p] # "read"
      BY <1>1, <2>3 DEF SearchMisses, RemoveUnlinks, ReadGone, ReadItem, ReadRing, Describe, Described,
                        Return, Finish, Go, ProcTyped
    <3> QED
      BY <1>2, <3>1
  <2> QED
    BY <1>7, <2>1, <2>2, <2>3 DEF Step
<1>8. ASSUME NEW u \in Proc, NEW k \in Strangers,
             StrangerAdds(SessionOf[u], k) \/ StrangerRemoves(SessionOf[u], k)
      PROVE  ReadAtHome'
  <2>1. /\ KeysEvolve /\ Rings' = Rings /\ UNCHANGED procVars
        /\ SessionOf[u] \in Anchor /\ SessionOf[u] \in Sessions
    BY <1>1, <1>8, StrangerKeys, RingsKept, SessionAnchors
  <2> SUFFICES ASSUME NEW q \in Proc, pc[q] = "read", call[q].op = "Get", key'[id[q]] # NoKey
               PROVE  \E r \in Rings : id[q] \in link'[r]
    BY <2>1 DEF ReadAtHome, procVars
  <2>2. id[q] \in Id /\ key[id[q]] # NoKey
    BY <1>1, <2>1, TypeInvParts DEF ProcInv, IdInv, KeysEvolve, Free
  <2>3. PICK r \in Rings : id[q] \in link[r]
    BY <2>2 DEF ReadAtHome
  <2>4. /\ r \in Anchor \cup Id /\ r # SessionOf[u] /\ Scope[u] \in Anchor \ {SessionOf[u]}
        /\ r \in Id => r \in link[Scope[u]]
    BY <1>1, <2>1, <2>3, RingPlace, KeyctlAssumption DEF SessionsApart
  <2>5. CASE StrangerAdds(SessionOf[u], k) /\ Matches(SessionOf[u], "user", k) # {}
    BY <1>1, <2>1, <2>3, <2>5, StrangerUpdates
  <2>6. CASE StrangerAdds(SessionOf[u], k) /\ Matches(SessionOf[u], "user", k) = {}
    <3>1. PICK n \in Id : AddKey(SessionOf[u], "user", k, Stranger, n, Free)
      BY <2>6 DEF StrangerAdds
    <3>2. [type |-> "user", desc |-> k, data |-> Stranger, perm |-> FALSE] \in KeyRecord
      BY KeyctlAssumption DEF KeyRecord
    <3> QED
      BY <1>1, <2>1, <2>3, <2>4, <2>6, <3>1, <3>2, AddKeyLeaves
  <2>7. CASE StrangerRemoves(SessionOf[u], k)
    BY <1>1, <2>1, <2>3, <2>4, <2>7, UnlinkSpares DEF StrangerRemoves
  <2> QED
    BY <1>8, <2>5, <2>6, <2>7
<1> QED
  BY <1>3, <1>4, <1>5, <1>6, <1>7, <1>8 DEF Next, vars, procVars

-----------------------------------------------------------------------------
LEMMA StoreInit ==
  ASSUME SharedKeyring, SessionsApart, Init
  PROVE  StoreFacts /\ SessionClean /\ ItemsAtHome /\ C!CInit /\ W!CInit
<1>1. TypeInv /\ KernelInv
  BY InitTypeInv, TypeInvParts
<1>2. HandleInv
  BY OpeningIsNoCall DEF Init, HandleInv, HandleOf
<1>3. \A r \in Anchor \cup Id : link[r] = {}
  BY DEF Init
<1>4. AliveInv /\ SessionClean /\ ItemsAtHome
  BY <1>3, SessionAnchors DEF Init, AliveInv, SessionClean, ItemsAtHome
<1>5. KernelUnique
  BY <1>3 DEF Init, KernelUnique, NamesUnique, UniqueIn, KeyringsNamed
<1>6. ASSUME NEW q \in Proc PROVE CallInv(q)
  BY <1>1, IdleIsNoCall, OpeningIsNoCall DEF Init, CallInv, RestInv, WorkInv, ListInv, Through
<1>7. ASSUME NEW k \in Key PROVE Stored[k] = "no item"
  <2>1. \A r \in Rings : r \in Anchor \cup Id
    BY <1>1, RingPlace DEF Rings
  <2>2. ItemsOf(k) = {}
    BY <1>3, <2>1 DEF ItemsOf
  <2> QED
    BY <2>2, ItemInIs, StoredIs
<1>8. Stored = [k \in Key |-> "no item"]
  BY <1>7 DEF Stored
<1>9. CallNow = [p \in Proc |-> Idle] /\ DueNow = [p \in Proc |-> Error]
  BY OpeningIsNoCall DEF Init, CallNow, DueNow, Due
<1> QED
  BY <1>1, <1>2, <1>4, <1>5, <1>6, <1>8, <1>9, ContractWords
     DEF StoreFacts, StoreInv, C!CInit, W!CInit, Init, PermInv

\* Processes that share a keyring see in it the store of the Keyring interface
\* (keyctl.go:86-214): every Get, Set, Remove and Keys takes effect at one of its
\* system calls, overlapping Sets of one key included, and a Set by way of the
\* session (lines 125-148) at its link, never half.  All set permissions, each by
\* way of a session of its own, or none does; no system call fails, nobody else
\* uses the sessions and no two processes are in Open together.
THEOREM ContractHolds ==
  DataApart /\ SharedKeyring /\ SessionsApart /\ Together => (Spec => Contract)
<1> SUFFICES ASSUME DataApart, SharedKeyring, SessionsApart, Together PROVE Spec => Contract
  OBVIOUS
<1>1. Setting /\ OpenAlone /\ Undisturbed /\ (Steady \/ \A p \in Proc : ~UsePerm[p])
  BY DEF Setting, Together, SameWay, Steady, AllByWay, Undisturbed
<1>2. Init => StoreFacts /\ SessionClean /\ ItemsAtHome /\ C!CInit
  BY StoreInit
<1>3. StoreFacts /\ SessionClean /\ [Next]_vars => StoreFacts' /\ SessionClean'
  BY <1>1, NextTypeInv, NextHandle, NextAlive, NextClean, NextStoreInv, NextPermInv DEF StoreFacts
<1>4. CASE Steady
  <2>1. StoreFacts /\ StoreFacts' /\ [Next]_vars => [C!CNext]_(C!cvars)
    BY <1>1, <1>4, NextRefines
  <2> QED
    BY <1>2, <1>3, <2>1, PTL DEF Spec, Contract, C!CSpec
<1>5. CASE \A p \in Proc : ~UsePerm[p]
  <2>1. StoreFacts /\ StoreFacts' /\ ItemsAtHome /\ [Next]_vars => ItemsAtHome'
    BY <1>1, <1>5, NextAtHome DEF StoreFacts
  <2>2. StoreFacts /\ StoreFacts' /\ ItemsAtHome /\ [Next]_vars => [C!CNext]_(C!cvars)
    BY <1>1, NextRefines, HomeIsRead DEF StoreFacts
  <2> QED
    BY <1>2, <1>3, <2>1, <2>2, PTL DEF Spec, Contract, C!CSpec
<1> QED
  BY <1>1, <1>4, <1>5

\* The sessions are clean, unless a call has failed in one.
CleanTogether == Together => SessionClean

\* For one process the same holds when any system call may fail, when it may die
\* between two of them and when other programs use its session: what a failed Set
\* has left there (keyctl.go:131-148) never comes into the keyring by itself, and
\* is never read.  Two steps are beyond the contract: a Remove whose search fails
\* may say that there is nothing to remove (line 153), and another program that adds
\* a key of the name of one in the session, on its way or left, puts its own item
\* into the keyring with it (Exchanges).
THEOREM WeakContractHolds ==
  DataApart /\ SessionsApart /\ Alone => (Spec => WeakContract)
<1> SUFFICES ASSUME DataApart, SessionsApart, Alone PROVE Spec => WeakContract
  OBVIOUS
<1>1. Setting /\ SharedKeyring
  BY DEF Setting, SharedKeyring, Alone
<1>2. Init => StoreFacts /\ W!CInit /\ ReadAtHome
  BY <1>1, StoreInit DEF Init, ReadAtHome
<1>3. StoreFacts /\ CleanTogether /\ [Next]_vars => CleanTogether'
  BY NextClean DEF StoreFacts, CleanTogether, Together
<1>4. StoreFacts /\ CleanTogether /\ [Next]_vars => StoreFacts'
  BY <1>1, NextTypeInv, NextHandle, NextAlive, NextStoreInv, NextPermInv DEF StoreFacts, CleanTogether
<1>5. StoreFacts /\ StoreFacts' /\ ReadAtHome /\ [Next]_vars => ReadAtHome'
  BY <1>1, NextReadAtHome
<1>6. StoreFacts /\ StoreFacts' /\ ReadAtHome /\ [Next]_vars => [W!CNext \/ Exchanges]_(W!cvars)
  BY <1>1, NextRefines
<1>7. Init => CleanTogether
  BY <1>1, StoreInit DEF CleanTogether
<1> QED
  BY <1>2, <1>3, <1>4, <1>5, <1>6, <1>7, PTL DEF Spec, WeakContract
=============================================================================
