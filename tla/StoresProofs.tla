----------------------------- MODULE StoresProofs -----------------------------
(***************************************************************************)
(* PassKeyring, WinCred and KWallet keep their types and implement         *)
(* KeyringContract with the weaknesses that each names, for any processes, *)
(* keys, items, services and faults; in WinCred, services whose names do   *)
(* not begin with one another are apart.                                   *)
(*                                                                         *)
(* An item must be told from the two marks of the contract, "no item" and  *)
(* "damaged", which stand for what Get does not answer.                    *)
(***************************************************************************)
EXTENDS Stores, SequenceTheorems, TLAPS

DataApart == "no item" \notin Data /\ "damaged" \notin Data

-----------------------------------------------------------------------------
(* Calls and replies                                                        *)

\* A call carries the arguments of its operation.
LEMMA CallArguments ==
  \A cl \in Calls :
    /\ cl.op \in {"Get", "GetMetadata", "Remove", "Set", "Keys"}
    /\ cl.op \in {"Get", "GetMetadata", "Remove", "Set"} => cl.key \in Key
    /\ cl.op = "Set" => cl.data \in Data
  BY DEF Calls

\* A client without a call is in none of them.
LEMMA IdleIsNoCall == Idle \notin Calls /\ Idle.op = "idle"
  BY DEF Idle, Calls

\* What a backend can answer is a reply of the interface.
LEMMA ReplyTypes ==
  /\ Ok \in Replies /\ NotFound \in Replies /\ Error \in Replies
  /\ \A d \in Data : Found(d) \in Replies
  /\ \A S \in SUBSET Key : Listing(S) \in Replies
  BY DEF Replies, Ok, NotFound, Error, Found, Listing

-----------------------------------------------------------------------------
(* KWallet: its types                                                       *)

WalletStepOfCall ==
  \A c \in Client :
    /\ pc[c] \in {"closed", "opening", "idle"} <=> call[c] = Idle
    /\ pc[c] = "metadata" => call[c].op = "GetMetadata"
    /\ pc[c] \in {"check", "open"} => call[c].op # "GetMetadata"
    /\ pc[c] = "read" => call[c].op = "Get"
    /\ pc[c] = "write" => call[c].op = "Set"
    /\ pc[c] = "remove" => call[c].op = "Remove"
    /\ pc[c] = "list" => call[c].op = "Keys"

WalletInv == Wallet!TypeOK /\ WalletStepOfCall

\* The modules, and the contract under each of them, have the same words.
LEMMA WalletWords ==
  /\ Wallet!Idle = Idle /\ Wallet!Ok = Ok /\ Wallet!NotFound = NotFound /\ Wallet!Error = Error
  /\ Wallet!Calls = Calls /\ Wallet!Replies = Replies
  /\ \A d : Wallet!Found(d) = Found(d)
  /\ \A S : Wallet!Listing(S) = Listing(S)
  BY DEF Wallet!Idle, Wallet!Ok, Wallet!NotFound, Wallet!Error, Wallet!Calls, Wallet!Replies,
         Wallet!Found, Wallet!Listing, Idle, Ok, NotFound, Error, Calls, Replies, Found, Listing

\* Where a process goes on after it has a handle.
LEMMA WalletAfterOpen ==
  ASSUME WalletInv, NEW c \in Client, pc[c] \in {"opening", "check", "open"}
  PROVE  /\ pc[c] = "opening" => Wallet!AfterOpen(c) = "idle"
         /\ pc[c] # "opening" =>
              /\ Wallet!AfterOpen(c) \in {"read", "write", "remove", "list"}
              /\ Wallet!AfterOpen(c) = "read" => call[c].op = "Get"
              /\ Wallet!AfterOpen(c) = "write" => call[c].op = "Set"
              /\ Wallet!AfterOpen(c) = "remove" => call[c].op = "Remove"
              /\ Wallet!AfterOpen(c) = "list" => call[c].op = "Keys"
<1>1. pc[c] = "opening" => Wallet!AfterOpen(c) = "idle"
  BY IdleIsNoCall DEF Wallet!AfterOpen, WalletInv, WalletStepOfCall
<1>2. ASSUME pc[c] # "opening" PROVE call[c].op \in {"Get", "Set", "Remove", "Keys"}
  BY <1>2, CallArguments, WalletWords DEF WalletInv, Wallet!TypeOK, WalletStepOfCall
<1> QED
  BY <1>1, <1>2 DEF Wallet!AfterOpen

LEMMA WalletInit == Wallet!Init => WalletInv
<1> SUFFICES ASSUME Wallet!Init PROVE WalletInv
  OBVIOUS
<1>1. Wallet!TypeOK
  BY WalletWords, ReplyTypes DEF Wallet!Init, Wallet!TypeOK, Wallet!PCs
<1>2. WalletStepOfCall
  BY WalletWords DEF Wallet!Init, WalletStepOfCall
<1> QED
  BY <1>1, <1>2 DEF WalletInv

\* A step of a process that stays in its call, or ends it with a reply.
LEMMA WalletGoes ==
  ASSUME WalletInv, NEW c \in Client, NEW step \in Wallet!PCs,
         pc' = [pc EXCEPT ![c] = step], UNCHANGED call, call[c] # Idle,
         step \in {"open", "read", "write", "remove", "list", "return"},
         step = "open" => call[c].op # "GetMetadata",
         step = "read" => call[c].op = "Get",
         step = "write" => call[c].op = "Set",
         step = "remove" => call[c].op = "Remove",
         step = "list" => call[c].op = "Keys"
  PROVE  pc' \in [Client -> Wallet!PCs] /\ WalletStepOfCall'
  BY DEF WalletInv, Wallet!TypeOK, WalletStepOfCall

LEMMA WalletReplies ==
  ASSUME WalletInv, NEW c \in Client, NEW r \in Replies, Wallet!Reply(c, r), UNCHANGED call,
         call[c] # Idle, entries' \in [Key -> Data \cup {Nothing}], valid' \subseteq Client
  PROVE  WalletInv'
<1>1. "return" \in Wallet!PCs
  BY DEF Wallet!PCs
<1>2. pc' \in [Client -> Wallet!PCs] /\ WalletStepOfCall'
  BY <1>1, WalletGoes DEF Wallet!Reply, Wallet!Go
<1>3. result' \in [Client -> Replies]
  BY WalletWords DEF Wallet!Reply, WalletInv, Wallet!TypeOK
<1> QED
  BY <1>2, <1>3, WalletWords DEF WalletInv, Wallet!TypeOK

\* Lost answers change at most what the call was to change.
LEMMA WalletLost ==
  ASSUME WalletInv, NEW c \in Client, call[c] # Idle, Wallet!Lost(c)
  PROVE  /\ entries' \in [Key -> Data \cup {Nothing}]
         /\ \/ entries' = entries
            \/ pc[c] = "write" /\ entries' = [entries EXCEPT ![call[c].key] = call[c].data]
            \/ pc[c] = "remove" /\ entries' = [entries EXCEPT ![call[c].key] = Nothing]
<1>1. call[c] \in Calls
  BY WalletWords DEF WalletInv, Wallet!TypeOK
<1>2. \/ entries' = entries
      \/ pc[c] = "write" /\ entries' = [entries EXCEPT ![call[c].key] = call[c].data]
      \/ pc[c] = "remove" /\ entries' = [entries EXCEPT ![call[c].key] = Nothing]
  <2>1. CASE pc[c] = "write"
    BY <2>1 DEF Wallet!Lost
  <2>2. CASE pc[c] = "remove"
    BY <2>2 DEF Wallet!Lost
  <2>3. CASE pc[c] \notin {"write", "remove"}
    BY <2>3 DEF Wallet!Lost
  <2> QED
    BY <2>1, <2>2, <2>3
<1>3. pc[c] \in {"write", "remove"} => call[c].key \in Key /\ (pc[c] = "write" => call[c].data \in Data)
  BY <1>1, CallArguments DEF WalletInv, WalletStepOfCall
<1>4. entries \in [Key -> Data \cup {Nothing}]
  BY DEF WalletInv, Wallet!TypeOK
<1> QED
  BY <1>2, <1>3, <1>4

LEMMA WalletNext == WalletInv /\ [Wallet!Next]_(Wallet!vars) => WalletInv'
<1> SUFFICES ASSUME WalletInv, [Wallet!Next]_(Wallet!vars) PROVE WalletInv'
  OBVIOUS
<1> USE DEF WalletInv
<1>0. \A c \in Client : /\ call[c] = Idle \/ call[c] \in Calls
                        /\ call[c] # Idle => call[c] \in Calls
  BY WalletWords DEF Wallet!TypeOK
<1>1. ASSUME NEW c \in Client, Wallet!Opener(c) PROVE WalletInv'
  BY <1>1 DEF Wallet!Opener, Wallet!Go, Wallet!TypeOK, Wallet!PCs, WalletStepOfCall
<1>2. ASSUME NEW c \in Client, Wallet!Call(c) PROVE WalletInv'
  <2>1. PICK cl \in Calls :
          /\ pc[c] = "idle" /\ call' = [call EXCEPT ![c] = cl]
          /\ pc' = [pc EXCEPT ![c] = IF cl.op = "GetMetadata" THEN "metadata" ELSE "check"]
          /\ UNCHANGED <<entries, valid, result>>
    BY <1>2, WalletWords DEF Wallet!Call, Wallet!Go
  <2>2. cl # Idle /\ cl.op # "idle"
    BY IdleIsNoCall, CallArguments
  <2>3. Wallet!TypeOK'
    BY <2>1, WalletWords DEF Wallet!TypeOK, Wallet!PCs
  <2>4. WalletStepOfCall'
    BY <2>1, <2>2 DEF Wallet!TypeOK, WalletStepOfCall
  <2> QED
    BY <2>3, <2>4
<1>3. ASSUME NEW c \in Client, Wallet!GetMetadata(c) PROVE WalletInv'
  <2>1. call[c] # Idle
    BY <1>3 DEF Wallet!GetMetadata, WalletStepOfCall
  <2>2. Wallet!Reply(c, Error) /\ UNCHANGED <<entries, valid, call>>
    BY <1>3, WalletWords DEF Wallet!GetMetadata
  <2> QED
    BY <2>1, <2>2, ReplyTypes, WalletReplies DEF Wallet!TypeOK
<1>4. ASSUME NEW c \in Client, Wallet!IsOpen(c) PROVE WalletInv'
  <2> DEFINE step == IF c \in valid THEN Wallet!AfterOpen(c) ELSE "open"
  <2>1. /\ pc[c] = "check" /\ call[c] # Idle /\ call[c].op # "GetMetadata"
        /\ pc' = [pc EXCEPT ![c] = step] /\ UNCHANGED <<entries, valid, call, result>>
    BY <1>4 DEF Wallet!IsOpen, Wallet!Go, WalletStepOfCall
  <2>2. step \in {"open", "read", "write", "remove", "list"}
    BY <2>1, WalletAfterOpen
  <2>3. pc' \in [Client -> Wallet!PCs] /\ WalletStepOfCall'
    <3>1. step \in Wallet!PCs
      BY <2>2 DEF Wallet!PCs
    <3> QED
      BY <2>1, <2>2, <3>1, WalletGoes, WalletAfterOpen
  <2> QED
    BY <2>1, <2>3 DEF Wallet!TypeOK
<1>5. ASSUME NEW c \in Client, Wallet!Open(c) PROVE WalletInv'
  <2>1. /\ pc[c] \in {"opening", "open"} /\ valid' \subseteq Client
        /\ pc' = [pc EXCEPT ![c] = Wallet!AfterOpen(c)]
        /\ UNCHANGED <<entries, call, result>>
    BY <1>5 DEF Wallet!Open, Wallet!Go, Wallet!TypeOK
  <2>2. CASE pc[c] = "opening"
    <3>1. Wallet!AfterOpen(c) = "idle" /\ call[c] = Idle
      BY <2>2, WalletAfterOpen DEF WalletStepOfCall
    <3> QED
      BY <2>1, <3>1 DEF Wallet!TypeOK, Wallet!PCs, WalletStepOfCall
  <2>3. CASE pc[c] = "open"
    <3>1. /\ Wallet!AfterOpen(c) \in {"read", "write", "remove", "list"} /\ call[c] # Idle
          /\ Wallet!AfterOpen(c) \in Wallet!PCs
      BY <2>3, WalletAfterOpen DEF WalletStepOfCall, Wallet!PCs
    <3>2. pc' \in [Client -> Wallet!PCs] /\ WalletStepOfCall'
      BY <2>1, <2>3, <3>1, WalletGoes, WalletAfterOpen
    <3> QED
      BY <2>1, <3>2 DEF Wallet!TypeOK
  <2> QED
    BY <2>1, <2>2, <2>3
<1>6. ASSUME NEW c \in Client, Wallet!Read(c) PROVE WalletInv'
  <2> DEFINE r == IF c \in valid /\ entries[call[c].key] # Nothing
                  THEN Found(entries[call[c].key]) ELSE NotFound
  <2>1. /\ pc[c] = "read" /\ call[c] # Idle /\ call[c].op = "Get"
        /\ Wallet!Reply(c, r) /\ UNCHANGED <<entries, valid, call>>
    BY <1>6, WalletWords DEF Wallet!Read, WalletStepOfCall
  <2>2. call[c].key \in Key
    BY <1>0, <2>1, CallArguments
  <2>3. r \in Replies
    BY <2>2, ReplyTypes DEF Wallet!TypeOK
  <2> QED
    BY <2>1, <2>3, WalletReplies DEF Wallet!TypeOK
<1>7. ASSUME NEW c \in Client, Wallet!Write(c) PROVE WalletInv'
  <2>1. /\ pc[c] = "write" /\ call[c] # Idle /\ call[c].op = "Set"
        /\ entries' = [entries EXCEPT ![call[c].key] = call[c].data]
        /\ Wallet!Reply(c, Ok) /\ UNCHANGED <<valid, call>>
    BY <1>7, WalletWords DEF Wallet!Write, WalletStepOfCall
  <2>2. call[c].data \in Data
    BY <1>0, <2>1, CallArguments
  <2> QED
    BY <2>1, <2>2, ReplyTypes, WalletReplies DEF Wallet!TypeOK
<1>8. ASSUME NEW c \in Client, Wallet!Remove(c) PROVE WalletInv'
  <2>1. /\ pc[c] = "remove" /\ call[c] # Idle
        /\ entries' = [entries EXCEPT ![call[c].key] = Nothing]
        /\ Wallet!Reply(c, Ok) /\ UNCHANGED <<valid, call>>
    BY <1>8, WalletWords DEF Wallet!Remove, WalletStepOfCall
  <2> QED
    BY <2>1, ReplyTypes, WalletReplies DEF Wallet!TypeOK
<1>9. ASSUME NEW c \in Client, Wallet!CodeDropped(c) PROVE WalletInv'
  <2>1. /\ call[c] # Idle /\ Wallet!Reply(c, Ok) /\ UNCHANGED <<entries, valid, call>>
    BY <1>9, WalletWords DEF Wallet!CodeDropped, WalletStepOfCall
  <2> QED
    BY <2>1, ReplyTypes, WalletReplies DEF Wallet!TypeOK
<1>10. ASSUME NEW c \in Client, Wallet!Keys(c) PROVE WalletInv'
  <2> DEFINE S == {k \in Key : c \in valid /\ entries[k] # Nothing}
  <2>1. /\ call[c] # Idle /\ Wallet!Reply(c, Listing(S)) /\ UNCHANGED <<entries, valid, call>>
    BY <1>10, WalletWords DEF Wallet!Keys, WalletStepOfCall
  <2>2. Listing(S) \in Replies
    BY ReplyTypes
  <2> QED
    BY <2>1, <2>2, WalletReplies DEF Wallet!TypeOK
<1>11. ASSUME NEW c \in Client, Wallet!DBusError(c) PROVE WalletInv'
  <2>1. CASE pc[c] = "opening"
    <3>1. /\ pc' = [pc EXCEPT ![c] = "closed"] /\ UNCHANGED <<entries, valid, call, result>>
          /\ call[c] = Idle
      BY <1>11, <2>1 DEF Wallet!DBusError, Wallet!Go, WalletStepOfCall
    <3> QED
      BY <2>1, <3>1 DEF Wallet!TypeOK, Wallet!PCs, WalletStepOfCall
  <2>2. CASE pc[c] # "opening"
    <3>1. /\ call[c] # Idle /\ Wallet!Lost(c) /\ Wallet!Reply(c, Error)
          /\ UNCHANGED <<valid, call>>
      BY <1>11, <2>2, WalletWords DEF Wallet!DBusError, WalletStepOfCall
    <3>2. entries' \in [Key -> Data \cup {Nothing}]
      BY <3>1, WalletLost
    <3> QED
      BY <3>1, <3>2, ReplyTypes, WalletReplies DEF Wallet!TypeOK
  <2> QED
    BY <2>1, <2>2
<1>12. ASSUME NEW c \in Client, Wallet!Return(c) PROVE WalletInv'
  <2>1. /\ pc[c] = "return" /\ pc' = [pc EXCEPT ![c] = "idle"]
        /\ call' = [call EXCEPT ![c] = Idle] /\ result' = [result EXCEPT ![c] = Error]
        /\ UNCHANGED <<entries, valid>>
    BY <1>12, WalletWords DEF Wallet!Return, Wallet!Go
  <2>2. Wallet!TypeOK'
    BY <2>1, WalletWords, ReplyTypes DEF Wallet!TypeOK, Wallet!PCs
  <2>3. WalletStepOfCall'
    BY <2>1 DEF Wallet!TypeOK, WalletStepOfCall
  <2> QED
    BY <2>2, <2>3
<1>13. CASE Wallet!CloseWallet
  BY <1>13 DEF Wallet!CloseWallet, Wallet!TypeOK, WalletStepOfCall
<1>14. CASE UNCHANGED Wallet!vars
  BY <1>14 DEF Wallet!vars, Wallet!TypeOK, WalletStepOfCall
<1> QED
  BY <1>1, <1>2, <1>3, <1>4, <1>5, <1>6, <1>7, <1>8, <1>9, <1>10, <1>11, <1>12, <1>13, <1>14
     DEF Wallet!Next

-----------------------------------------------------------------------------
(* KWallet: the contract                                                    *)

LEMMA WalletContractWords ==
  /\ Wallet!C!Idle = Idle /\ Wallet!C!Ok = Ok /\ Wallet!C!NotFound = NotFound /\ Wallet!C!Error = Error
  /\ Wallet!W!Idle = Idle /\ Wallet!W!Ok = Ok /\ Wallet!W!NotFound = NotFound /\ Wallet!W!Error = Error
  /\ Wallet!C!Calls = Calls /\ Wallet!W!Calls = Calls
  /\ \A d : Wallet!C!Found(d) = Found(d) /\ Wallet!W!Found(d) = Found(d)
  /\ \A S : Wallet!C!Listing(S) = Listing(S) /\ Wallet!W!Listing(S) = Listing(S)
  /\ \A cl, k : Wallet!C!IsSetOf(cl, k) = IsSetOf(cl, k) /\ Wallet!W!IsSetOf(cl, k) = IsSetOf(cl, k)
  BY DEF Wallet!C!Idle, Wallet!C!Ok, Wallet!C!NotFound, Wallet!C!Error, Wallet!C!Calls, Wallet!C!Found,
         Wallet!C!Listing, Wallet!C!IsSetOf, Wallet!W!Idle, Wallet!W!Ok, Wallet!W!NotFound,
         Wallet!W!Error, Wallet!W!Calls, Wallet!W!Found, Wallet!W!Listing, Wallet!W!IsSetOf,
         Idle, Ok, NotFound, Error, Calls, Found, Listing, IsSetOf

\* What the contract allows, its weaker form allows.
LEMMA WalletWeaker == Wallet!C!CNext => Wallet!W!CNext
<1> SUFFICES ASSUME NEW c \in Client,
                    \/ Wallet!C!Begin(c) \/ Wallet!C!Look(c) \/ Wallet!C!Stat(c) \/ Wallet!C!List(c)
                    \/ Wallet!C!Spoil(c) \/ Wallet!C!Store(c) \/ Wallet!C!Erase(c) \/ Wallet!C!Miss(c)
                    \/ Wallet!C!Drop(c) \/ Wallet!C!Fail(c) \/ Wallet!C!Return(c)
             PROVE  Wallet!W!CNext
  BY DEF Wallet!C!CNext
<1> USE WalletContractWords
<1>1. Wallet!C!Begin(c) => Wallet!W!Begin(c)
  BY DEF Wallet!C!Begin, Wallet!W!Begin
<1>2. Wallet!C!Look(c) => Wallet!W!Look(c)
  <2>1. \A item : Wallet!C!Answer(item) = Wallet!W!Answer(item)
    BY DEF Wallet!C!Answer, Wallet!W!Answer
  <2> QED
    BY <2>1 DEF Wallet!C!Look, Wallet!W!Look, Wallet!C!Unseen, Wallet!W!Unseen
<1>3. Wallet!C!Stat(c) => Wallet!W!Stat(c)
  BY DEF Wallet!C!Stat, Wallet!W!Stat, Wallet!C!Unseen, Wallet!W!Unseen
<1>4. Wallet!C!List(c) => Wallet!W!List(c)
  BY DEF Wallet!C!List, Wallet!W!List
<1>5. Wallet!C!Spoil(c) => Wallet!W!Spoil(c)
  BY DEF Wallet!C!Spoil, Wallet!W!Spoil
<1>6. Wallet!C!Store(c) => Wallet!W!Store(c)
  BY DEF Wallet!C!Store, Wallet!W!Store
<1>7. Wallet!C!Erase(c) => Wallet!W!Erase(c)
  BY DEF Wallet!C!Erase, Wallet!W!Erase, Wallet!C!IsSetOf, Wallet!W!IsSetOf,
         Wallet!C!Ok, Wallet!W!Ok, Wallet!C!Error, Wallet!W!Error
<1>8. Wallet!C!Miss(c) => Wallet!W!Miss(c)
  BY DEF Wallet!C!Miss, Wallet!W!Miss
<1>9. Wallet!C!Drop(c) => Wallet!W!Drop(c)
  BY DEF Wallet!C!Drop, Wallet!W!Drop
<1>10. Wallet!C!Fail(c) => Wallet!W!Fail(c)
  BY DEF Wallet!C!Fail, Wallet!W!Fail
<1>11. Wallet!C!Return(c) => Wallet!W!Return(c)
  BY DEF Wallet!C!Return, Wallet!W!Return
<1> QED
  BY <1>1, <1>2, <1>3, <1>4, <1>5, <1>6, <1>7, <1>8, <1>9, <1>10, <1>11 DEF Wallet!W!CNext

WalletStays == UNCHANGED <<Wallet!Stored, call, Wallet!DueNow>>

\* What a process would answer now.
LEMMA WalletDue ==
  ASSUME WalletInv, NEW c \in Client
  PROVE  /\ \A r : Wallet!Reply(c, r) => Wallet!DueNow' = [Wallet!DueNow EXCEPT ![c] = r]
         /\ \A step : step # "return" /\ pc[c] # "return" /\ pc' = [pc EXCEPT ![c] = step]
                      /\ UNCHANGED result => UNCHANGED Wallet!DueNow
         /\ pc[c] # "return" => Wallet!DueNow[c] = Error
  BY WalletWords DEF WalletInv, Wallet!TypeOK, Wallet!Reply, Wallet!Go, Wallet!DueNow

\* The folder, as the contract sees it.
LEMMA WalletStored ==
  ASSUME WalletInv, DataApart
  PROVE  /\ UNCHANGED entries => UNCHANGED Wallet!Stored
         /\ \A k \in Key : /\ Wallet!Stored[k] # "damaged"
                           /\ Wallet!Stored[k] = "no item" <=> entries[k] = Nothing
                           /\ entries[k] # Nothing => Wallet!Stored[k] = entries[k]
         /\ \A k \in Key, v \in Data :
              entries' = [entries EXCEPT ![k] = v] => Wallet!Stored' = [Wallet!Stored EXCEPT ![k] = v]
         /\ \A k \in Key : entries' = [entries EXCEPT ![k] = Nothing]
              => Wallet!Stored' = [Wallet!Stored EXCEPT ![k] = "no item"]
<1>1. entries \in [Key -> Data \cup {Nothing}] /\ Nothing \notin Data
  BY StoresAssumption DEF WalletInv, Wallet!TypeOK, Wallet!KWalletAssumption
<1> QED
  BY <1>1 DEF Wallet!Stored, DataApart

\* The answers of the contract to a Get.
LEMMA WalletAnswer ==
  ASSUME WalletInv, DataApart, NEW k \in Key
  PROVE  Wallet!C!Answer(Wallet!Stored[k]) = IF entries[k] = Nothing THEN NotFound ELSE Found(entries[k])
  BY WalletStored, WalletContractWords DEF Wallet!C!Answer

LEMMA WalletFail ==
  ASSUME WalletInv, NEW c \in Client, call[c] # Idle, Wallet!Reply(c, Error),
         UNCHANGED <<entries, call>>, DataApart
  PROVE  Wallet!C!Fail(c)
  BY WalletDue, WalletStored, WalletContractWords DEF Wallet!C!Fail

LEMMA WalletStore ==
  ASSUME WalletInv, NEW c \in Client, pc[c] = "write", NEW r \in {Ok, Error}, Wallet!Reply(c, r),
         UNCHANGED call, DataApart, entries' = [entries EXCEPT ![call[c].key] = call[c].data]
  PROVE  Wallet!C!Store(c)
<1>1. call[c] # Idle /\ call[c].op = "Set" /\ call[c] \in Calls
  BY WalletWords DEF WalletInv, WalletStepOfCall, Wallet!TypeOK
<1>2. call[c].key \in Key /\ call[c].data \in Data
  BY <1>1, CallArguments
<1>3. Wallet!Stored' = [Wallet!Stored EXCEPT ![call[c].key] = call[c].data]
  BY <1>2, WalletStored
<1>4. Wallet!DueNow' = [Wallet!DueNow EXCEPT ![c] = r] /\ Wallet!DueNow[c] = Error
  BY WalletDue
<1> QED
  BY <1>1, <1>3, <1>4, WalletContractWords DEF Wallet!C!Store

LEMMA WalletErase ==
  ASSUME WalletInv, NEW c \in Client, pc[c] = "remove", NEW r \in {Ok, Error}, Wallet!Reply(c, r),
         UNCHANGED call, DataApart, entries' = [entries EXCEPT ![call[c].key] = Nothing]
  PROVE  Wallet!C!Erase(c) \/ Wallet!C!Miss(c) \/ Wallet!C!Fail(c)
<1>1. call[c] # Idle /\ call[c].op = "Remove" /\ call[c] \in Calls
  BY WalletWords DEF WalletInv, WalletStepOfCall, Wallet!TypeOK
<1>2. call[c].key \in Key
  BY <1>1, CallArguments
<1>3. Wallet!DueNow' = [Wallet!DueNow EXCEPT ![c] = r] /\ Wallet!DueNow[c] = Error
  BY WalletDue
<1>4. CASE entries[call[c].key] = Nothing
  <2>1. UNCHANGED entries
    BY <1>2, <1>4 DEF WalletInv, Wallet!TypeOK
  <2>2. UNCHANGED Wallet!Stored /\ Wallet!Stored[call[c].key] = "no item"
    BY <1>2, <1>4, <2>1, WalletStored
  <2> QED
    BY <1>1, <1>3, <2>2, WalletContractWords DEF Wallet!C!Miss, Wallet!C!Fail
<1>5. CASE entries[call[c].key] # Nothing
  <2>1. /\ Wallet!Stored[call[c].key] # "no item"
        /\ Wallet!Stored' = [Wallet!Stored EXCEPT ![call[c].key] = "no item"]
    BY <1>2, <1>5, WalletStored
  <2> DEFINE over == {}
             Sets == {d \in Client : Wallet!C!IsSetOf(call[d], call[c].key)}
  <2>2. Wallet!DueNow' = [d \in Client |-> IF d = c THEN r ELSE IF d \in over THEN Wallet!C!Ok
                                          ELSE Wallet!DueNow[d]]
    BY <1>3 DEF Wallet!DueNow
  <2>3. over \in SUBSET Sets
    OBVIOUS
  <2>4. r \in {Wallet!C!Ok, Wallet!C!Error}
    BY WalletContractWords
  <2>5. call[c].op = "Remove" /\ Wallet!DueNow[c] = Wallet!C!Error /\ UNCHANGED call
    BY <1>1, <1>3, WalletContractWords
  <2> HIDE DEF over
  <2>6. \E o \in SUBSET Sets, s \in {Wallet!C!Ok, Wallet!C!Error} :
          Wallet!DueNow' = [d \in Client |-> IF d = c THEN s ELSE IF d \in o THEN Wallet!C!Ok
                                            ELSE Wallet!DueNow[d]]
    BY <2>2, <2>3, <2>4
  <2> QED
    BY <2>1, <2>5, <2>6 DEF Wallet!C!Erase
<1> QED
  BY <1>4, <1>5

\* A step of a process that goes on in its call without a change of the folder.
LEMMA WalletQuiet ==
  ASSUME WalletInv, DataApart, NEW c \in Client, NEW step, step # "return", pc[c] # "return",
         pc' = [pc EXCEPT ![c] = step], UNCHANGED <<entries, call, result>>
  PROVE  WalletStays
  BY WalletDue, WalletStored DEF WalletStays

WalletUnheeded == \E c \in Client : Wallet!Unheeded(c)

\* Each step is one of the contract, a stutter, or an unheeded step of its weak form.
LEMMA WalletStep ==
  ASSUME WalletInv, DataApart, Wallet!Next
  PROVE  WalletStays \/ Wallet!C!CNext \/ (WalletUnheeded /\ Wallet!W!CNext)
<1> DEFINE Goal == WalletStays \/ Wallet!C!CNext \/ (WalletUnheeded /\ Wallet!W!CNext)
<1>0. ASSUME NEW c \in Client, call[c] # Idle PROVE call[c] \in Calls
  BY <1>0, WalletWords DEF WalletInv, Wallet!TypeOK
<1>1. ASSUME NEW c \in Client, Wallet!Opener(c) PROVE Goal
  BY <1>1, WalletQuiet DEF Wallet!Opener, Wallet!Go
<1>2. ASSUME NEW c \in Client, Wallet!Call(c) PROVE Goal
  <2>1. PICK cl \in Calls :
          /\ pc[c] = "idle" /\ call' = [call EXCEPT ![c] = cl]
          /\ pc' = [pc EXCEPT ![c] = IF cl.op = "GetMetadata" THEN "metadata" ELSE "check"]
          /\ UNCHANGED <<entries, valid, result>>
    BY <1>2, WalletWords DEF Wallet!Call, Wallet!Go
  <2>2. call[c] = Idle
    BY <2>1 DEF WalletInv, WalletStepOfCall
  <2>3. UNCHANGED Wallet!Stored
    BY <2>1, WalletStored
  <2>4. UNCHANGED Wallet!DueNow /\ Wallet!DueNow[c] = Error
    BY <2>1, WalletDue
  <2>5. Wallet!DueNow' = [Wallet!DueNow EXCEPT ![c] = Error]
    BY <2>4 DEF Wallet!DueNow
  <2>6. Wallet!C!Begin(c)
    BY <2>1, <2>2, <2>3, <2>5, WalletContractWords DEF Wallet!C!Begin
  <2> QED
    BY <2>6 DEF Wallet!C!CNext
<1>3. ASSUME NEW c \in Client, Wallet!GetMetadata(c) PROVE Goal
  <2>1. call[c] # Idle /\ Wallet!Reply(c, Error) /\ UNCHANGED <<entries, call>>
    BY <1>3, WalletWords DEF Wallet!GetMetadata, WalletInv, WalletStepOfCall
  <2> QED
    BY <2>1, WalletFail DEF Wallet!C!CNext
<1>4. ASSUME NEW c \in Client, Wallet!IsOpen(c) PROVE Goal
  <2>1. /\ pc[c] = "check" /\ UNCHANGED <<entries, call, result>>
        /\ pc' = [pc EXCEPT ![c] = IF c \in valid THEN Wallet!AfterOpen(c) ELSE "open"]
    BY <1>4 DEF Wallet!IsOpen, Wallet!Go
  <2> QED
    BY <2>1, WalletAfterOpen, WalletQuiet
<1>5. ASSUME NEW c \in Client, Wallet!Open(c) PROVE Goal
  <2>1. /\ pc[c] \in {"opening", "open"} /\ UNCHANGED <<entries, call, result>>
        /\ pc' = [pc EXCEPT ![c] = Wallet!AfterOpen(c)]
    BY <1>5 DEF Wallet!Open, Wallet!Go
  <2> QED
    BY <2>1, WalletAfterOpen, WalletQuiet
<1>6. ASSUME NEW c \in Client, Wallet!Read(c) PROVE Goal
  <2> DEFINE r == IF c \in valid /\ entries[call[c].key] # Nothing
                  THEN Found(entries[call[c].key]) ELSE NotFound
  <2>1. /\ pc[c] = "read" /\ call[c] # Idle /\ call[c].op = "Get"
        /\ Wallet!Reply(c, r) /\ UNCHANGED <<entries, call>>
    BY <1>6, WalletWords DEF Wallet!Read, WalletInv, WalletStepOfCall
  <2>2. call[c].key \in Key
    BY <1>0, <2>1, CallArguments
  <2>3. Wallet!DueNow' = [Wallet!DueNow EXCEPT ![c] = r] /\ UNCHANGED Wallet!Stored
    BY <2>1, WalletDue, WalletStored
  <2>4. CASE c \in valid
    <3>1. r = Wallet!C!Answer(Wallet!Stored[call[c].key])
      BY <2>2, <2>4, WalletAnswer
    <3>2. Wallet!C!Look(c)
      BY <2>1, <2>3, <3>1 DEF Wallet!C!Look
    <3> QED
      BY <3>2 DEF Wallet!C!CNext
  <2>5. CASE c \notin valid
    <3>1. r \in Wallet!W!Unseen
      BY <2>5, WalletContractWords DEF Wallet!W!Unseen
    <3>2. Wallet!W!Look(c)
      BY <2>1, <2>3, <3>1 DEF Wallet!W!Look
    <3>3. WalletUnheeded
      BY <1>6, <2>5 DEF WalletUnheeded, Wallet!Unheeded
    <3> QED
      BY <3>2, <3>3 DEF Wallet!W!CNext
  <2> QED
    BY <2>4, <2>5
<1>7. ASSUME NEW c \in Client, Wallet!Write(c) PROVE Goal
  <2>1. /\ pc[c] = "write" /\ Wallet!Reply(c, Ok) /\ UNCHANGED call
        /\ entries' = [entries EXCEPT ![call[c].key] = call[c].data]
    BY <1>7, WalletWords DEF Wallet!Write
  <2> QED
    BY <2>1, WalletStore DEF Wallet!C!CNext
<1>8. ASSUME NEW c \in Client, Wallet!Remove(c) PROVE Goal
  <2>1. /\ pc[c] = "remove" /\ Wallet!Reply(c, Ok) /\ UNCHANGED call
        /\ entries' = [entries EXCEPT ![call[c].key] = Nothing]
    BY <1>8, WalletWords DEF Wallet!Remove
  <2> QED
    BY <2>1, WalletErase DEF Wallet!C!CNext
<1>9. ASSUME NEW c \in Client, Wallet!CodeDropped(c) PROVE Goal
  <2>1. /\ pc[c] \in {"write", "remove"} /\ call[c].op \in {"Set", "Remove"}
        /\ Wallet!Reply(c, Ok) /\ UNCHANGED <<entries, call>>
    BY <1>9, WalletWords DEF Wallet!CodeDropped, WalletInv, WalletStepOfCall
  <2>2. Wallet!DueNow' = [Wallet!DueNow EXCEPT ![c] = Ok] /\ Wallet!DueNow[c] = Error
    BY <2>1, WalletDue
  <2>3. UNCHANGED Wallet!Stored
    BY <2>1, WalletStored
  <2>4. Wallet!W!Drop(c)
    BY <2>1, <2>2, <2>3, WalletContractWords DEF Wallet!W!Drop
  <2>5. WalletUnheeded
    BY <1>9 DEF WalletUnheeded, Wallet!Unheeded
  <2> QED
    BY <2>4, <2>5 DEF Wallet!W!CNext
<1>10. ASSUME NEW c \in Client, Wallet!Keys(c) PROVE Goal
  <2> DEFINE S == {k \in Key : c \in valid /\ entries[k] # Nothing}
             All == {k \in Key : Wallet!Stored[k] # "no item"}
  <2>1. /\ call[c].op = "Keys" /\ Wallet!Reply(c, Listing(S)) /\ UNCHANGED <<entries, call>>
    BY <1>10, WalletWords DEF Wallet!Keys, WalletInv, WalletStepOfCall
  <2>2. Wallet!DueNow' = [Wallet!DueNow EXCEPT ![c] = Listing(S)] /\ UNCHANGED Wallet!Stored
    BY <2>1, WalletDue, WalletStored
  <2>3. CASE c \in valid
    <3>1. S = All
      BY <2>3, WalletStored
    <3>2. Wallet!DueNow' = [Wallet!DueNow EXCEPT ![c] = Wallet!C!Listing(All)]
      BY <2>2, <3>1, WalletContractWords
    <3>3. Wallet!C!List(c)
      BY <2>1, <2>2, <3>2 DEF Wallet!C!List
    <3> QED
      BY <3>3 DEF Wallet!C!CNext
  <2>4. CASE c \notin valid
    <3>1. S = {}
      BY <2>4
    <3>2. Wallet!DueNow' = [Wallet!DueNow EXCEPT ![c] = Wallet!W!Listing({})]
      BY <2>2, <3>1, WalletContractWords
    <3>3. Wallet!W!List(c)
      BY <2>1, <2>2, <3>2 DEF Wallet!W!List
    <3>4. WalletUnheeded
      BY <1>10, <2>4 DEF WalletUnheeded, Wallet!Unheeded
    <3> QED
      BY <3>3, <3>4 DEF Wallet!W!CNext
  <2> QED
    BY <2>3, <2>4
<1>11. ASSUME NEW c \in Client, Wallet!DBusError(c) PROVE Goal
  <2>1. CASE pc[c] = "opening"
    <3>1. pc' = [pc EXCEPT ![c] = "closed"] /\ UNCHANGED <<entries, call, result>>
      BY <1>11, <2>1 DEF Wallet!DBusError, Wallet!Go
    <3> QED
      BY <2>1, <3>1, WalletQuiet
  <2>2. CASE pc[c] # "opening"
    <3>1. /\ call[c] # Idle /\ Wallet!Lost(c) /\ Wallet!Reply(c, Error) /\ UNCHANGED call
      BY <1>11, <2>2, WalletWords DEF Wallet!DBusError, WalletInv, WalletStepOfCall
    <3>2. \/ entries' = entries
          \/ pc[c] = "write" /\ entries' = [entries EXCEPT ![call[c].key] = call[c].data]
          \/ pc[c] = "remove" /\ entries' = [entries EXCEPT ![call[c].key] = Nothing]
      BY <3>1, WalletLost
    <3> QED
      BY <3>1, <3>2, WalletFail, WalletStore, WalletErase DEF Wallet!C!CNext
  <2> QED
    BY <2>1, <2>2
<1>12. ASSUME NEW c \in Client, Wallet!Return(c) PROVE Goal
  <2>1. /\ pc[c] = "return" /\ pc' = [pc EXCEPT ![c] = "idle"]
        /\ call' = [call EXCEPT ![c] = Idle] /\ result' = [result EXCEPT ![c] = Error]
        /\ UNCHANGED entries
    BY <1>12, WalletWords DEF Wallet!Return, Wallet!Go
  <2>2. call[c] # Idle
    BY <2>1 DEF WalletInv, WalletStepOfCall
  <2>3. Wallet!DueNow' = [Wallet!DueNow EXCEPT ![c] = Error]
    BY <2>1, WalletWords DEF WalletInv, Wallet!TypeOK, Wallet!DueNow
  <2>4. Wallet!C!Return(c)
    BY <2>1, <2>2, <2>3, WalletStored, WalletContractWords DEF Wallet!C!Return
  <2> QED
    BY <2>4 DEF Wallet!C!CNext
<1>13. CASE Wallet!CloseWallet
  BY <1>13, WalletStored DEF Wallet!CloseWallet, WalletStays, Wallet!DueNow
<1> QED
  BY <1>1, <1>2, <1>3, <1>4, <1>5, <1>6, <1>7, <1>8, <1>9, <1>10, <1>11, <1>12, <1>13
     DEF Wallet!Next

LEMMA WalletRefines ==
  ASSUME WalletInv, DataApart, [Wallet!Next]_(Wallet!vars)
  PROVE  [Wallet!ContractStep]_<<Wallet!Stored, call, Wallet!DueNow>>
<1>1. CASE Wallet!Next
  BY <1>1, WalletStep, WalletWeaker DEF WalletStays, WalletUnheeded, Wallet!ContractStep
<1>2. CASE UNCHANGED Wallet!vars
  BY <1>2, WalletStored DEF Wallet!vars, Wallet!DueNow
<1> QED
  BY <1>1, <1>2

LEMMA WalletInitRefines == Wallet!Init => Wallet!C!CInit
  BY WalletContractWords, WalletWords
     DEF Wallet!Init, Wallet!C!CInit, Wallet!Stored, Wallet!DueNow

-----------------------------------------------------------------------------
(* Names, as sequences of pieces                                            *)

LEMMA PrefixByElement ==
  ASSUME NEW S, NEW s \in Seq(S), NEW t \in Seq(S)
  PROVE  Cred!IsPrefix(s, t) <=> Len(s) <= Len(t) /\ \A i \in 1..Len(s) : s[i] = t[i]
<1>1. Len(s) \in Nat /\ Len(t) \in Nat
  BY LenProperties
<1>2. SubSeq(s, 1, Len(s)) = s
  BY SubSeqFull
<1>3. ASSUME Len(s) <= Len(t)
      PROVE  /\ SubSeq(t, 1, Len(s)) \in Seq(S)
             /\ Len(SubSeq(t, 1, Len(s))) = Len(s)
             /\ \A i \in 1..Len(s) : SubSeq(t, 1, Len(s))[i] = t[i]
  <2>1. \A i \in 1..Len(s) : t[i] \in S
    BY <1>1, <1>3, ElementOfSeq
  <2> DEFINE n == Len(s)
             q == SubSeq(t, 1, n)
  <2>2. n \in Nat /\ \A i \in 1..n : t[i] \in S
    BY <1>1, <2>1
  <2> HIDE DEF n
  <2>3. /\ q \in Seq(S) /\ Len(q) = (IF 1 <= n THEN n - 1 + 1 ELSE 0)
        /\ \A i \in 1..(n - 1 + 1) : q[i] = t[1 + i - 1]
    BY <2>2, SubSeqProperties
  <2>4. Len(q) = n /\ \A i \in 1..n : q[i] = t[i]
    BY <2>2, <2>3
  <2> QED
    BY <2>3, <2>4 DEF n
<1>4. ASSUME Len(s) <= Len(t), \A i \in 1..Len(s) : s[i] = t[i]
      PROVE  s = SubSeq(t, 1, Len(s))
  BY <1>3, <1>4, SeqEqual
<1> QED
  BY <1>2, <1>3, <1>4 DEF Cred!IsPrefix

\* What comes after a prefix can be told from the whole.
LEMMA AfterPrefix ==
  ASSUME NEW S, NEW s \in Seq(S), NEW k \in Seq(S), k # <<>>
  PROVE  /\ s \o k \in Seq(S)
         /\ Cred!IsStrictPrefix(s, s \o k)
         /\ SubSeq(s \o k, Len(s) + 1, Len(s \o k)) = k
<1>1. Len(s) \in Nat /\ Len(k) \in Nat \ {0}
  BY EmptySeq, LenProperties
<1>2. s \o k \in Seq(S) /\ Len(s \o k) = Len(s) + Len(k)
  BY ConcatProperties
<1>3. Cred!IsPrefix(s, s \o k)
  <2>1. \A i \in 1..Len(s) : (s \o k)[i] = s[i]
    BY <1>1, ConcatProperties
  <2> DEFINE t == s \o k
  <2>2. t \in Seq(S) /\ Len(s) <= Len(t) /\ \A i \in 1..Len(s) : s[i] = t[i]
    BY <1>1, <1>2, <2>1
  <2> HIDE DEF t
  <2>3. Cred!IsPrefix(s, t)
    BY <2>2, PrefixByElement
  <2> QED
    BY <2>3 DEF t
<1>4. s # s \o k
  BY <1>1, <1>2
<1>5. SubSeq(s \o k, Len(s) + 1, Len(s) + Len(k)) = SubSeq(k, 1, Len(k))
  <2> DEFINE m == Len(s) + 1
             n == Len(s) + Len(k)
  <2>1. m \in Len(s) + 1 .. Len(s) + Len(k) /\ n \in Len(s) + 1 .. Len(s) + Len(k)
    BY <1>1
  <2>2. SubSeq(s \o k, m, n) = SubSeq(k, m - Len(s), n - Len(s))
    BY <2>1, SubSeqOfConcat2
  <2>3. m - Len(s) = 1 /\ n - Len(s) = Len(k)
    BY <1>1
  <2> QED
    BY <2>2, <2>3
<1> QED
  BY <1>2, <1>3, <1>4, <1>5, SubSeqFull DEF Cred!IsStrictPrefix

\* Of two names that one longer name begins with, one begins with the other.
LEMMA PrefixesMeet ==
  ASSUME NEW S, NEW s \in Seq(S), NEW t \in Seq(S), NEW k \in Seq(S),
         Cred!IsPrefix(t, s \o k)
  PROVE  Cred!IsPrefix(s, t) \/ Cred!IsPrefix(t, s)
<1>1. Len(s) \in Nat /\ Len(t) \in Nat /\ Len(k) \in Nat
  BY LenProperties
<1>2. /\ s \o k \in Seq(S) /\ Len(s \o k) = Len(s) + Len(k)
      /\ \A i \in 1..Len(s) : (s \o k)[i] = s[i]
  BY <1>1, ConcatProperties
<1>3. \A i \in 1..Len(t) : t[i] = (s \o k)[i]
  <2> DEFINE n == s \o k
  <2>1. n \in Seq(S) /\ Cred!IsPrefix(t, n)
    BY <1>2
  <2> HIDE DEF n
  <2>2. \A i \in 1..Len(t) : t[i] = n[i]
    BY <2>1, PrefixByElement
  <2> QED
    BY <2>2 DEF n
<1>4. CASE Len(s) <= Len(t)
  BY <1>1, <1>2, <1>3, <1>4, PrefixByElement
<1>5. CASE Len(t) <= Len(s)
  BY <1>1, <1>2, <1>3, <1>5, PrefixByElement
<1> QED
  BY <1>1, <1>4, <1>5

-----------------------------------------------------------------------------
(* WinCred: names and types                                                 *)

Piece == UNION ({Cred!Range(k) : k \in Key} \cup {Cred!Range(s[c]) : s \in Services, c \in Client})

LEMMA CredPieces ==
  /\ \A k \in Key : k \in Seq(Piece) /\ k # <<>>
  /\ \A s \in Services, c \in Client : s[c] \in Seq(Piece)
<1>1. ASSUME NEW k \in Key PROVE k \in Seq(Piece) /\ k # <<>>
  <2>1. k \in Seq(Cred!Range(k)) /\ k # <<>>
    BY StoresAssumption DEF Cred!WinCredAssumption
  <2>2. Cred!Range(k) \subseteq Piece
    BY DEF Piece
  <2> QED
    BY <2>1, <2>2, SeqMonotonic
<1>2. ASSUME NEW s \in Services, NEW c \in Client PROVE s[c] \in Seq(Piece)
  <2>1. s[c] \in Seq(Cred!Range(s[c]))
    BY StoresAssumption DEF Cred!WinCredAssumption
  <2>2. Cred!Range(s[c]) \subseteq Piece
    BY DEF Piece
  <2> QED
    BY <2>1, <2>2, SeqMonotonic
<1> QED
  BY <1>1, <1>2

\* The name of a key begins with the service, and the key is what follows.
LEMMA CredParts ==
  ASSUME NEW s \in Services, NEW c \in Client, NEW k \in Key
  PROVE  /\ s[c] \o k \in Cred!Names
         /\ Cred!IsStrictPrefix(s[c], s[c] \o k)
         /\ SubSeq(s[c] \o k, Len(s[c]) + 1, Len(s[c] \o k)) = k
<1>1. s[c] \in Seq(Piece) /\ k \in Seq(Piece) /\ k # <<>>
  BY CredPieces
<1>2. s[c] \o k \in Cred!Names
  <2>1. Cred!CredentialName(s[c], k) \in Cred!Names
    BY DEF Cred!Names
  <2> QED
    BY <2>1 DEF Cred!CredentialName
<1> QED
  BY <1>1, <1>2, AfterPrefix

\* Two keys of a service have two names.
LEMMA CredDistinct ==
  ASSUME NEW s \in Services, NEW c \in Client, NEW k \in Key, NEW l \in Key,
         s[c] \o k = s[c] \o l
  PROVE  k = l
<1>1. SubSeq(s[c] \o k, Len(s[c]) + 1, Len(s[c] \o k)) = k
  BY CredParts
<1>2. SubSeq(s[c] \o l, Len(s[c]) + 1, Len(s[c] \o l)) = l
  BY CredParts
<1> QED
  BY <1>1, <1>2

LEMMA CredNameIsSeq == \A n \in Cred!Names : n \in Seq(Piece)
<1> SUFFICES ASSUME NEW n \in Cred!Names PROVE n \in Seq(Piece)
  OBVIOUS
<1>1. PICK s \in Services, c \in Client, k \in Key : n = Cred!CredentialName(s[c], k)
  BY DEF Cred!Names
<1>2. s[c] \in Seq(Piece) /\ k \in Seq(Piece)
  BY CredPieces
<1> QED
  BY <1>1, <1>2, ConcatProperties DEF Cred!CredentialName

\* What a listing answers for a name is the end of it.
LEMMA CredEnds ==
  ASSUME NEW s \in Services, NEW c \in Client, NEW cr
  PROVE  Cred!KeysOf(s[c], cr) \subseteq Cred!Ends
<1> SUFFICES ASSUME NEW n \in Cred!Names, Cred!IsStrictPrefix(s[c], n)
             PROVE  SubSeq(n, Len(s[c]) + 1, Len(n)) \in Cred!Ends
  BY DEF Cred!KeysOf
<1>1. s[c] \in Seq(Piece) /\ n \in Seq(Piece)
  BY CredPieces, CredNameIsSeq
<1>2. Len(s[c]) \in Nat /\ Len(n) \in Nat
  BY <1>1, LenProperties
<1> DEFINE t == s[c]
<1>3. Len(t) <= Len(n) /\ \A i \in 1..Len(t) : t[i] = n[i]
  <2>1. t \in Seq(Piece) /\ Cred!IsPrefix(t, n)
    BY <1>1 DEF Cred!IsStrictPrefix
  <2> HIDE DEF t
  <2> QED
    BY <1>1, <2>1, PrefixByElement
<1>4. Len(t) # Len(n)
  <2>1. t \in Seq(Piece) /\ t # n
    BY <1>1 DEF Cred!IsStrictPrefix
  <2> HIDE DEF t
  <2> QED
    BY <1>1, <1>3, <2>1, SeqEqual
<1>5. Len(s[c]) + 1 \in 1..Len(n)
  BY <1>2, <1>3, <1>4
<1> DEFINE i == Len(s[c]) + 1
           OfName == {SubSeq(n, j, Len(n)) : j \in 1..Len(n)}
<1>6. i \in 1..Len(n)
  BY <1>5
<1> HIDE DEF i
<1>7. SubSeq(n, i, Len(n)) \in OfName
  BY <1>6
<1>8. OfName \subseteq Cred!Ends
  BY DEF Cred!Ends
<1> HIDE DEF OfName
<1>9. SubSeq(n, i, Len(n)) \in Cred!Ends
  BY <1>7, <1>8
<1> QED
  BY <1>9 DEF i

CredStepOfCall ==
  \A c \in Client :
    /\ pc[c] = "idle" <=> call[c] = Idle
    /\ pc[c] = "get" => call[c].op = "Get"
    /\ pc[c] = "metadata" => call[c].op = "GetMetadata"
    /\ pc[c] = "write" => call[c].op = "Set"
    /\ pc[c] \in {"lookup", "delete"} => call[c].op = "Remove"
    /\ pc[c] = "list" => call[c].op = "Keys"

\* Each credential is that of a key, for the service of some process.
CredOfSomeone ==
  \A n \in Cred!Names : creds[n] # Nothing => \E c \in Client, k \in Key : n = service[c] \o k

CredInv == Cred!TypeOK /\ CredStepOfCall /\ CredOfSomeone

CredReplies == Replies \cup [kind : {"keys"}, keys : SUBSET Cred!Ends]

LEMMA CredWords ==
  /\ Cred!Idle = Idle /\ Cred!Ok = Ok /\ Cred!NotFound = NotFound /\ Cred!Error = Error
  /\ Cred!Calls = Calls /\ Cred!Replies = Replies
  /\ \A d : Cred!Found(d) = Found(d)
  /\ \A S : Cred!Listing(S) = Listing(S)
  BY DEF Cred!Idle, Cred!Ok, Cred!NotFound, Cred!Error, Cred!Calls, Cred!Replies,
         Cred!Found, Cred!Listing, Idle, Ok, NotFound, Error, Calls, Replies, Found, Listing

LEMMA CredReplyTypes ==
  /\ \A r \in Replies : r \in CredReplies
  /\ \A S \in SUBSET Cred!Ends : Listing(S) \in CredReplies
  BY DEF CredReplies, Listing

LEMMA CredInit == Cred!Init => CredInv
<1> SUFFICES ASSUME Cred!Init PROVE CredInv
  OBVIOUS
<1>1. Cred!TypeOK
  BY CredWords, ReplyTypes DEF Cred!Init, Cred!TypeOK
<1>2. CredStepOfCall /\ CredOfSomeone
  BY CredWords DEF Cred!Init, CredStepOfCall, CredOfSomeone
<1> QED
  BY <1>1, <1>2 DEF CredInv

\* The name a call is about.
LEMMA CredNameOf ==
  ASSUME CredInv, NEW c \in Client, pc[c] \in {"get", "write", "lookup", "delete"}
  PROVE  /\ call[c] \in Calls /\ call[c] # Idle /\ call[c].key \in Key /\ service \in Services
         /\ pc[c] = "write" => call[c].data \in Data
         /\ Cred!NameOf(c) = service[c] \o call[c].key /\ Cred!NameOf(c) \in Cred!Names
         /\ creds[Cred!NameOf(c)] \in Data \cup {Nothing}
<1>1. call[c] # Idle /\ call[c] \in Calls /\ service \in Services
  BY CredWords DEF CredInv, Cred!TypeOK, CredStepOfCall
<1>2. call[c].key \in Key /\ (pc[c] = "write" => call[c].data \in Data)
  BY <1>1, CallArguments DEF CredInv, CredStepOfCall
<1>3. Cred!NameOf(c) = service[c] \o call[c].key
  BY DEF Cred!NameOf, Cred!CredentialName
<1>4. Cred!NameOf(c) \in Cred!Names
  BY <1>1, <1>2, <1>3, CredParts
<1> QED
  BY <1>1, <1>2, <1>3, <1>4 DEF CredInv, Cred!TypeOK

\* A process answers, and the credential of its call is as it was, new or gone.
LEMMA CredAnswers ==
  ASSUME CredInv, NEW c \in Client, NEW r \in CredReplies, Cred!Reply(c, r),
         UNCHANGED <<service, call>>, call[c] # Idle,
         \/ UNCHANGED creds
         \/ pc[c] = "write" /\ creds' = [creds EXCEPT ![Cred!NameOf(c)] = call[c].data]
         \/ pc[c] = "delete" /\ creds' = [creds EXCEPT ![Cred!NameOf(c)] = Nothing]
  PROVE  CredInv'
<1> USE DEF CredInv
<1>1. creds' \in [Cred!Names -> Data \cup {Nothing}]
  BY CredNameOf DEF Cred!TypeOK
<1>2. pc' = [pc EXCEPT ![c] = "return"] /\ result' = [result EXCEPT ![c] = r]
  BY DEF Cred!Reply, Cred!Go
<1>3. Cred!TypeOK'
  BY <1>1, <1>2, CredWords DEF Cred!TypeOK, CredReplies
<1>4. CredStepOfCall'
  BY <1>2 DEF Cred!TypeOK, CredStepOfCall
<1>5. CredOfSomeone'
  <2> SUFFICES ASSUME NEW n \in Cred!Names, creds'[n] # Nothing
               PROVE  \E d \in Client, k \in Key : n = service[d] \o k
    BY DEF CredOfSomeone
  <2>1. CASE creds[n] # Nothing
    BY <2>1 DEF CredOfSomeone
  <2>2. CASE creds[n] = Nothing
    <3>1. n = Cred!NameOf(c) /\ pc[c] = "write"
      BY <2>2 DEF Cred!TypeOK
    <3> QED
      BY <3>1, CredNameOf
  <2> QED
    BY <2>1, <2>2
<1> QED
  BY <1>3, <1>4, <1>5

LEMMA CredNext == CredInv /\ [Cred!Next]_(Cred!vars) => CredInv'
<1> SUFFICES ASSUME CredInv, [Cred!Next]_(Cred!vars) PROVE CredInv'
  OBVIOUS
<1> USE DEF CredInv
<1>1. ASSUME NEW c \in Client, Cred!Call(c) PROVE CredInv'
  <2>1. PICK cl \in Calls : /\ pc[c] = "idle" /\ call' = [call EXCEPT ![c] = cl]
                            /\ pc' = [pc EXCEPT ![c] = Cred!FirstStep(cl.op)]
                            /\ UNCHANGED <<service, creds, result>>
    BY <1>1, CredWords DEF Cred!Call, Cred!Go
  <2>2. /\ cl # Idle /\ cl.op = "Get" => Cred!FirstStep(cl.op) = "get"
        /\ cl.op = "GetMetadata" => Cred!FirstStep(cl.op) = "metadata"
        /\ cl.op = "Set" => Cred!FirstStep(cl.op) = "write"
        /\ cl.op = "Remove" => Cred!FirstStep(cl.op) = "lookup"
        /\ cl.op = "Keys" => Cred!FirstStep(cl.op) = "list"
        /\ cl.op \in {"Get", "GetMetadata", "Remove", "Set", "Keys"} /\ cl # Idle
    BY CallArguments, IdleIsNoCall DEF Cred!FirstStep
  <2>3. Cred!TypeOK'
    BY <2>1, <2>2, CredWords DEF Cred!TypeOK
  <2>4. CredStepOfCall'
    BY <2>1, <2>2 DEF Cred!TypeOK, CredStepOfCall
  <2> QED
    BY <2>1, <2>3, <2>4 DEF CredOfSomeone
<1>2. ASSUME NEW c \in Client, Cred!Get(c) PROVE CredInv'
  <2> DEFINE r == IF creds[Cred!NameOf(c)] = Nothing THEN NotFound ELSE Found(creds[Cred!NameOf(c)])
  <2>1. pc[c] = "get" /\ Cred!Reply(c, r) /\ UNCHANGED <<service, creds, call>>
    BY <1>2, CredWords DEF Cred!Get
  <2>2. r \in CredReplies /\ call[c] # Idle
    BY <2>1, CredNameOf, ReplyTypes, CredReplyTypes
  <2> QED
    BY <2>1, <2>2, CredAnswers
<1>3. ASSUME NEW c \in Client, Cred!GetMetadata(c) PROVE CredInv'
  <2>1. call[c] # Idle /\ Cred!Reply(c, Error) /\ UNCHANGED <<service, creds, call>>
    BY <1>3, CredWords DEF Cred!GetMetadata, CredStepOfCall
  <2> QED
    BY <2>1, ReplyTypes, CredReplyTypes, CredAnswers
<1>4. ASSUME NEW c \in Client, Cred!Set(c) PROVE CredInv'
  <2>1. /\ pc[c] = "write" /\ Cred!Reply(c, Ok) /\ UNCHANGED <<service, call>> /\ call[c] # Idle
        /\ creds' = [creds EXCEPT ![Cred!NameOf(c)] = call[c].data]
    BY <1>4, CredWords DEF Cred!Set, CredStepOfCall
  <2> QED
    BY <2>1, ReplyTypes, CredReplyTypes, CredAnswers
<1>5. ASSUME NEW c \in Client, Cred!Lookup(c) PROVE CredInv'
  <2>1. CASE creds[Cred!NameOf(c)] = Nothing
    <3>1. call[c] # Idle /\ Cred!Reply(c, NotFound) /\ UNCHANGED <<service, creds, call>>
      BY <1>5, <2>1, CredWords DEF Cred!Lookup, CredStepOfCall
    <3> QED
      BY <3>1, ReplyTypes, CredReplyTypes, CredAnswers
  <2>2. CASE creds[Cred!NameOf(c)] # Nothing
    <3>1. /\ pc[c] = "lookup" /\ pc' = [pc EXCEPT ![c] = "delete"]
          /\ UNCHANGED <<service, creds, call, result>>
      BY <1>5, <2>2 DEF Cred!Lookup, Cred!Go
    <3> QED
      BY <3>1 DEF Cred!TypeOK, CredStepOfCall, CredOfSomeone
  <2> QED
    BY <2>1, <2>2
<1>6. ASSUME NEW c \in Client, Cred!Delete(c) PROVE CredInv'
  <2> DEFINE r == IF creds[Cred!NameOf(c)] = Nothing THEN Error ELSE Ok
  <2>1. /\ pc[c] = "delete" /\ Cred!Reply(c, r) /\ UNCHANGED <<service, call>> /\ call[c] # Idle
        /\ creds' = [creds EXCEPT ![Cred!NameOf(c)] = Nothing]
    BY <1>6, CredWords DEF Cred!Delete, CredStepOfCall
  <2>2. r \in CredReplies
    BY ReplyTypes, CredReplyTypes
  <2> QED
    BY <2>1, <2>2, CredAnswers
<1>7. ASSUME NEW c \in Client, Cred!Keys(c) PROVE CredInv'
  <2> DEFINE S == Cred!KeysOf(service[c], creds)
  <2>1. call[c] # Idle /\ Cred!Reply(c, Listing(S)) /\ UNCHANGED <<service, creds, call>>
    BY <1>7, CredWords DEF Cred!Keys, CredStepOfCall
  <2>2. S \in SUBSET Cred!Ends
    BY CredEnds DEF Cred!TypeOK
  <2> HIDE DEF S
  <2>3. Listing(S) \in CredReplies
    BY <2>2, CredReplyTypes
  <2> QED
    BY <2>1, <2>3, CredAnswers
<1>8. ASSUME NEW c \in Client, Cred!ListFails(c) PROVE CredInv'
  <2>1. call[c] # Idle /\ Cred!Reply(c, Listing({})) /\ UNCHANGED <<service, creds, call>>
    BY <1>8, CredWords DEF Cred!ListFails, CredStepOfCall
  <2> QED
    BY <2>1, CredReplyTypes, CredAnswers
<1>9. ASSUME NEW c \in Client, Cred!CredFails(c) PROVE CredInv'
  <2>1. call[c] # Idle /\ Cred!Reply(c, Error) /\ UNCHANGED <<service, creds, call>>
    BY <1>9, CredWords DEF Cred!CredFails, CredStepOfCall
  <2> QED
    BY <2>1, ReplyTypes, CredReplyTypes, CredAnswers
<1>10. ASSUME NEW c \in Client, Cred!Return(c) PROVE CredInv'
  <2>1. /\ pc[c] = "return" /\ pc' = [pc EXCEPT ![c] = "idle"]
        /\ call' = [call EXCEPT ![c] = Idle] /\ result' = [result EXCEPT ![c] = Error]
        /\ UNCHANGED <<service, creds>>
    BY <1>10, CredWords DEF Cred!Return, Cred!Go
  <2>2. Cred!TypeOK'
    BY <2>1, CredWords, ReplyTypes DEF Cred!TypeOK
  <2>3. CredStepOfCall'
    BY <2>1 DEF Cred!TypeOK, CredStepOfCall
  <2> QED
    BY <2>1, <2>2, <2>3 DEF CredOfSomeone
<1>11. CASE UNCHANGED Cred!vars
  BY <1>11 DEF Cred!vars, Cred!TypeOK, CredStepOfCall, CredOfSomeone
<1> QED
  BY <1>1, <1>2, <1>3, <1>4, <1>5, <1>6, <1>7, <1>8, <1>9, <1>10, <1>11
     DEF Cred!Next, Cred!Step

-----------------------------------------------------------------------------
(* WinCred: the contract                                                    *)

LEMMA CredContractWords ==
  /\ Cred!C!Idle = Idle /\ Cred!C!Ok = Ok /\ Cred!C!NotFound = NotFound /\ Cred!C!Error = Error
  /\ Cred!W!Idle = Idle /\ Cred!W!Ok = Ok /\ Cred!W!NotFound = NotFound /\ Cred!W!Error = Error
  /\ Cred!C!Calls = Calls /\ Cred!W!Calls = Calls
  /\ \A d : Cred!C!Found(d) = Found(d) /\ Cred!W!Found(d) = Found(d)
  /\ \A S : Cred!C!Listing(S) = Listing(S) /\ Cred!W!Listing(S) = Listing(S)
  BY DEF Cred!C!Idle, Cred!C!Ok, Cred!C!NotFound, Cred!C!Error, Cred!C!Calls, Cred!C!Found,
         Cred!C!Listing, Cred!W!Idle, Cred!W!Ok, Cred!W!NotFound, Cred!W!Error, Cred!W!Calls,
         Cred!W!Found, Cred!W!Listing, Idle, Ok, NotFound, Error, Calls, Found, Listing

\* A step of ContractStep is one of C, or a listing that finds nothing.
CredStays == UNCHANGED <<Cred!Stored, call, Cred!DueNow>>

LEMMA CredDue ==
  ASSUME CredInv, NEW c \in Client
  PROVE  /\ \A r : Cred!Reply(c, r) => Cred!DueNow' = [Cred!DueNow EXCEPT ![c] = r]
         /\ \A step : step # "return" /\ pc[c] # "return" /\ pc' = [pc EXCEPT ![c] = step]
                      /\ UNCHANGED result => UNCHANGED Cred!DueNow
         /\ pc[c] # "return" => Cred!DueNow[c] = Error
  BY CredWords DEF CredInv, Cred!TypeOK, Cred!Reply, Cred!Go, Cred!DueNow

\* The store of one service, as any of its processes sees it.
LEMMA CredSeen ==
  ASSUME NEW c \in Client, Cred!OneService
  PROVE  Cred!Stored = [k \in Key |-> IF creds[service[c] \o k] = Nothing THEN "no item"
                                      ELSE creds[service[c] \o k]]
<1> DEFINE a == CHOOSE d \in Client : TRUE
<1>1. a \in Client
  OBVIOUS
<1>2. service[a] = service[c]
  BY <1>1 DEF Cred!OneService
<1>3. Cred!Stored = [k \in Key |-> IF creds[service[a] \o k] = Nothing THEN "no item"
                                   ELSE creds[service[a] \o k]]
  BY DEF Cred!Stored, Cred!View, Cred!CredentialName
<1> HIDE DEF a
<1> QED
  BY <1>2, <1>3

LEMMA CredStored ==
  ASSUME CredInv, DataApart, Cred!OneService, UNCHANGED service, NEW c \in Client
  PROVE  /\ UNCHANGED creds => UNCHANGED Cred!Stored
         /\ \A k \in Key : /\ Cred!Stored[k] # "damaged"
                           /\ Cred!Stored[k] = "no item" <=> creds[service[c] \o k] = Nothing
                           /\ creds[service[c] \o k] # Nothing
                                => Cred!Stored[k] = creds[service[c] \o k]
         /\ \A k \in Key, v \in Data :
              creds' = [creds EXCEPT ![service[c] \o k] = v]
                => Cred!Stored' = [Cred!Stored EXCEPT ![k] = v]
         /\ \A k \in Key : creds' = [creds EXCEPT ![service[c] \o k] = Nothing]
              => Cred!Stored' = [Cred!Stored EXCEPT ![k] = "no item"]
<1>1. /\ creds \in [Cred!Names -> Data \cup {Nothing}] /\ Nothing \notin Data
      /\ service \in Services
  BY StoresAssumption DEF CredInv, Cred!TypeOK, Cred!WinCredAssumption
<1> DEFINE name(k) == service[c] \o k
           Seen(cr) == [k \in Key |-> IF cr[name(k)] = Nothing THEN "no item" ELSE cr[name(k)]]
<1>2. Cred!Stored = Seen(creds)
  BY CredSeen
<1>3. Cred!Stored' = Seen(creds')
  <2> DEFINE a == CHOOSE d \in Client : TRUE
  <2>1. service[a] = service[c]
    BY DEF Cred!OneService
  <2>2. Cred!Stored' = [k \in Key |-> IF creds'[service[a] \o k] = Nothing THEN "no item"
                                      ELSE creds'[service[a] \o k]]
    BY DEF Cred!Stored, Cred!View, Cred!CredentialName
  <2> HIDE DEF a
  <2> QED
    BY <2>1, <2>2
<1>4. \A k \in Key : name(k) \in Cred!Names
  BY <1>1, CredParts
<1>5. \A k, l \in Key : name(k) = name(l) => k = l
  BY <1>1, CredDistinct
<1> HIDE DEF name
<1>6. \A k \in Key : /\ creds[name(k)] \in Data \cup {Nothing}
                     /\ Cred!Stored[k] = IF creds[name(k)] = Nothing THEN "no item" ELSE creds[name(k)]
  BY <1>1, <1>2, <1>4
<1>7. ASSUME NEW k \in Key, NEW v \in Data \cup {Nothing}, creds' = [creds EXCEPT ![name(k)] = v]
      PROVE  Cred!Stored' = [Cred!Stored EXCEPT ![k] = IF v = Nothing THEN "no item" ELSE v]
  <2>1. \A l \in Key : creds'[name(l)] = IF l = k THEN v ELSE creds[name(l)]
    BY <1>1, <1>4, <1>5, <1>7
  <2> QED
    BY <1>2, <1>3, <2>1
<1> QED
  BY <1>1, <1>2, <1>3, <1>6, <1>7 DEF DataApart, name

\* Under one service, a listing answers the keys that are there.
LEMMA CredListing ==
  ASSUME CredInv, DataApart, Cred!OneService, UNCHANGED service, NEW c \in Client
  PROVE  Cred!KeysOf(service[c], creds) = {k \in Key : Cred!Stored[k] # "no item"}
<1> DEFINE s == service[c]
           There == {k \in Key : Cred!Stored[k] # "no item"}
<1>1. service \in Services
  BY DEF CredInv, Cred!TypeOK
<1>2. ASSUME NEW n \in Cred!Names, creds[n] # Nothing
      PROVE  SubSeq(n, Len(s) + 1, Len(n)) \in There
  <2>1. PICK d \in Client, k \in Key : n = service[d] \o k
    BY <1>2 DEF CredInv, CredOfSomeone
  <2>2. n = service[c] \o k
    BY <2>1 DEF Cred!OneService
  <2>3. SubSeq(n, Len(s) + 1, Len(n)) = k
    BY <1>1, <2>2, CredParts
  <2>4. Cred!Stored[k] # "no item"
    BY <1>2, <2>2, CredStored
  <2> QED
    BY <2>3, <2>4
<1>3. ASSUME NEW k \in There PROVE k \in Cred!KeysOf(s, creds)
  <2> DEFINE n == s \o k
  <2>1. /\ n \in Cred!Names /\ Cred!IsStrictPrefix(s, n)
        /\ SubSeq(n, Len(s) + 1, Len(n)) = k
    BY <1>1, CredParts
  <2>2. creds[n] # Nothing
    BY CredStored
  <2> HIDE DEF n, s
  <2>3. n \in {m \in Cred!Names : creds[m] # Nothing /\ Cred!IsStrictPrefix(s, m)}
    BY <2>1, <2>2
  <2> QED
    BY <2>1, <2>3 DEF Cred!KeysOf
<1>4. ASSUME NEW k \in Cred!KeysOf(s, creds) PROVE k \in There
  <2> HIDE DEF s
  <2>1. PICK n \in {m \in Cred!Names : creds[m] # Nothing /\ Cred!IsStrictPrefix(s, m)} :
          k = SubSeq(n, Len(s) + 1, Len(n))
    BY <1>4 DEF Cred!KeysOf
  <2> QED
    BY <1>2, <2>1
<1> QED
  BY <1>3, <1>4

LEMMA CredFail ==
  ASSUME CredInv, NEW c \in Client, call[c] # Idle, Cred!Reply(c, Error),
         UNCHANGED <<service, creds, call>>, DataApart, Cred!OneService
  PROVE  Cred!C!Fail(c)
  BY CredDue, CredStored, CredContractWords DEF Cred!C!Fail

CredListFails == \E c \in Client : Cred!ListFails(c)

\* Each step is one of the contract, a stutter, or a listing that is lost.
LEMMA CredStep ==
  ASSUME CredInv, DataApart, Cred!OneService, NEW c \in Client, Cred!Step(c)
  PROVE  CredStays \/ Cred!C!CNext \/ (CredListFails /\ Cred!W!CNext)
<1> DEFINE Goal == CredStays \/ Cred!C!CNext \/ (CredListFails /\ Cred!W!CNext)
<1>0. UNCHANGED service
  BY DEF Cred!Step, Cred!Call, Cred!Get, Cred!GetMetadata, Cred!Set, Cred!Lookup, Cred!Delete,
         Cred!Keys, Cred!ListFails, Cred!CredFails, Cred!Return
<1>1. CASE Cred!Call(c)
  <2>1. PICK cl \in Calls : /\ pc[c] = "idle" /\ call' = [call EXCEPT ![c] = cl]
                            /\ pc' = [pc EXCEPT ![c] = Cred!FirstStep(cl.op)]
                            /\ UNCHANGED <<service, creds, result>>
    BY <1>1, CredWords DEF Cred!Call, Cred!Go
  <2>2. Cred!FirstStep(cl.op) # "return"
    BY CallArguments DEF Cred!FirstStep
  <2>3. call[c] = Idle
    BY <2>1 DEF CredInv, CredStepOfCall
  <2>4. UNCHANGED Cred!DueNow /\ Cred!DueNow[c] = Error
    BY <2>1, <2>2, CredDue
  <2>5. Cred!DueNow' = [Cred!DueNow EXCEPT ![c] = Error]
    BY <2>4 DEF Cred!DueNow
  <2>6. Cred!C!Begin(c)
    BY <1>0, <2>1, <2>3, <2>5, CredStored, CredContractWords DEF Cred!C!Begin
  <2> QED
    BY <2>6 DEF Cred!C!CNext
<1>2. CASE Cred!Get(c)
  <2> DEFINE name == Cred!NameOf(c)
             r == IF creds[name] = Nothing THEN NotFound ELSE Found(creds[name])
             k == call[c].key
  <2>1. /\ pc[c] = "get" /\ call[c].op = "Get" /\ Cred!Reply(c, r)
        /\ UNCHANGED <<service, creds, call>>
    BY <1>2, CredWords DEF Cred!Get, CredInv, CredStepOfCall
  <2>2. k \in Key /\ name = service[c] \o k
    BY <2>1, CredNameOf
  <2>3. Cred!DueNow' = [Cred!DueNow EXCEPT ![c] = r] /\ UNCHANGED Cred!Stored
    BY <2>1, CredDue, CredStored
  <2>4. r = Cred!C!Answer(Cred!Stored[k])
    BY <1>0, <2>2, CredStored, CredContractWords DEF Cred!C!Answer
  <2>5. Cred!C!Look(c)
    BY <2>1, <2>3, <2>4 DEF Cred!C!Look
  <2> QED
    BY <2>5 DEF Cred!C!CNext
<1>3. CASE Cred!GetMetadata(c)
  <2>1. call[c] # Idle /\ Cred!Reply(c, Error) /\ UNCHANGED <<service, creds, call>>
    BY <1>3, CredWords DEF Cred!GetMetadata, CredInv, CredStepOfCall
  <2> QED
    BY <2>1, CredFail DEF Cred!C!CNext
<1>4. CASE Cred!Set(c)
  <2>1. /\ pc[c] = "write" /\ call[c].op = "Set" /\ Cred!Reply(c, Ok) /\ UNCHANGED <<service, call>>
        /\ creds' = [creds EXCEPT ![Cred!NameOf(c)] = call[c].data]
    BY <1>4, CredWords DEF Cred!Set, CredInv, CredStepOfCall
  <2>2. /\ call[c].key \in Key /\ call[c].data \in Data
        /\ Cred!NameOf(c) = service[c] \o call[c].key
    BY <2>1, CredNameOf
  <2>3. Cred!Stored' = [Cred!Stored EXCEPT ![call[c].key] = call[c].data]
    BY <1>0, <2>1, <2>2, CredStored
  <2>4. Cred!DueNow' = [Cred!DueNow EXCEPT ![c] = Ok] /\ Cred!DueNow[c] = Error
    BY <2>1, CredDue
  <2>5. Cred!C!Store(c)
    BY <2>1, <2>3, <2>4, CredContractWords DEF Cred!C!Store
  <2> QED
    BY <2>5 DEF Cred!C!CNext
<1>5. CASE Cred!Lookup(c)
  <2>1. /\ pc[c] = "lookup" /\ call[c].op = "Remove" /\ UNCHANGED <<service, creds, call>>
        /\ call[c].key \in Key /\ Cred!NameOf(c) = service[c] \o call[c].key
    BY <1>5, CredNameOf DEF Cred!Lookup, CredInv, CredStepOfCall
  <2>2. CASE creds[Cred!NameOf(c)] = Nothing
    <3>1. Cred!Reply(c, NotFound) /\ Cred!Stored[call[c].key] = "no item"
      BY <1>0, <1>5, <2>1, <2>2, CredWords, CredStored DEF Cred!Lookup
    <3>2. Cred!DueNow' = [Cred!DueNow EXCEPT ![c] = NotFound] /\ Cred!DueNow[c] = Error
      BY <2>1, <3>1, CredDue
    <3>3. Cred!C!Miss(c)
      BY <2>1, <3>1, <3>2, CredStored, CredContractWords DEF Cred!C!Miss
    <3> QED
      BY <3>3 DEF Cred!C!CNext
  <2>3. CASE creds[Cred!NameOf(c)] # Nothing
    <3>1. pc' = [pc EXCEPT ![c] = "delete"] /\ UNCHANGED result
      BY <1>5, <2>3 DEF Cred!Lookup, Cred!Go
    <3> QED
      BY <2>1, <3>1, CredDue, CredStored DEF CredStays
  <2> QED
    BY <2>2, <2>3
<1>6. CASE Cred!Delete(c)
  <2>1. /\ pc[c] = "delete" /\ call[c].op = "Remove" /\ UNCHANGED <<service, call>>
        /\ call[c].key \in Key /\ Cred!NameOf(c) = service[c] \o call[c].key
        /\ Cred!NameOf(c) \in Cred!Names /\ call[c] # Idle
        /\ creds' = [creds EXCEPT ![Cred!NameOf(c)] = Nothing]
    BY <1>6, CredNameOf DEF Cred!Delete, CredInv, CredStepOfCall
  <2>2. CASE creds[Cred!NameOf(c)] = Nothing
    <3>1. Cred!Reply(c, Error)
      BY <1>6, <2>2, CredWords DEF Cred!Delete
    <3>2. UNCHANGED creds
      BY <2>1, <2>2 DEF CredInv, Cred!TypeOK
    <3> QED
      BY <2>1, <3>1, <3>2, CredFail DEF Cred!C!CNext
  <2>3. CASE creds[Cred!NameOf(c)] # Nothing
    <3>1. Cred!Reply(c, Ok)
      BY <1>6, <2>3, CredWords DEF Cred!Delete
    <3>2. /\ Cred!Stored[call[c].key] # "no item"
          /\ Cred!Stored' = [Cred!Stored EXCEPT ![call[c].key] = "no item"]
      BY <2>1, <2>3, CredStored
    <3>3. Cred!DueNow' = [Cred!DueNow EXCEPT ![c] = Ok] /\ Cred!DueNow[c] = Error
      BY <2>1, <3>1, CredDue
    <3> DEFINE over == {}
               Sets == {d \in Client : Cred!C!IsSetOf(call[d], call[c].key)}
    <3>4. Cred!DueNow' = [d \in Client |-> IF d = c THEN Cred!C!Ok ELSE IF d \in over THEN Cred!C!Ok
                                           ELSE Cred!DueNow[d]]
      BY <3>3, CredContractWords DEF Cred!DueNow
    <3>5. over \in SUBSET Sets /\ call[c].op = "Remove" /\ Cred!DueNow[c] = Cred!C!Error
      BY <2>1, <3>3, CredContractWords
    <3> HIDE DEF over
    <3>6. \E o \in SUBSET Sets, r \in {Cred!C!Ok, Cred!C!Error} :
            Cred!DueNow' = [d \in Client |-> IF d = c THEN r ELSE IF d \in o THEN Cred!C!Ok
                                             ELSE Cred!DueNow[d]]
      BY <3>4, <3>5
    <3>7. Cred!C!Erase(c)
      BY <2>1, <3>2, <3>5, <3>6 DEF Cred!C!Erase
    <3> QED
      BY <3>7 DEF Cred!C!CNext
  <2> QED
    BY <2>2, <2>3
<1>7. CASE Cred!Keys(c)
  <2> DEFINE S == Cred!KeysOf(service[c], creds)
  <2>1. call[c].op = "Keys" /\ Cred!Reply(c, Listing(S)) /\ UNCHANGED <<service, creds, call>>
    BY <1>7, CredWords DEF Cred!Keys, CredInv, CredStepOfCall
  <2>2. S = {k \in Key : Cred!Stored[k] # "no item"}
    BY <1>0, CredListing
  <2> HIDE DEF S
  <2>3. Cred!DueNow' = [Cred!DueNow EXCEPT ![c] = Cred!C!Listing(S)] /\ UNCHANGED Cred!Stored
    BY <2>1, CredDue, CredStored, CredContractWords
  <2>4. Cred!C!List(c)
    BY <2>1, <2>2, <2>3 DEF Cred!C!List
  <2> QED
    BY <2>4 DEF Cred!C!CNext
<1>8. CASE Cred!ListFails(c)
  <2>1. call[c].op = "Keys" /\ Cred!Reply(c, Listing({})) /\ UNCHANGED <<service, creds, call>>
    BY <1>8, CredWords DEF Cred!ListFails, CredInv, CredStepOfCall
  <2>2. Cred!DueNow' = [Cred!DueNow EXCEPT ![c] = Cred!W!Listing({})] /\ UNCHANGED Cred!Stored
    BY <2>1, CredDue, CredStored, CredContractWords
  <2>3. Cred!W!List(c)
    BY <2>1, <2>2 DEF Cred!W!List
  <2>4. CredListFails
    BY <1>8 DEF CredListFails
  <2> QED
    BY <2>3, <2>4 DEF Cred!W!CNext
<1>9. CASE Cred!CredFails(c)
  <2>1. call[c] # Idle /\ Cred!Reply(c, Error) /\ UNCHANGED <<service, creds, call>>
    BY <1>9, CredWords DEF Cred!CredFails, CredInv, CredStepOfCall
  <2> QED
    BY <2>1, CredFail DEF Cred!C!CNext
<1>10. CASE Cred!Return(c)
  <2>1. /\ pc[c] = "return" /\ pc' = [pc EXCEPT ![c] = "idle"]
        /\ call' = [call EXCEPT ![c] = Idle] /\ result' = [result EXCEPT ![c] = Error]
        /\ UNCHANGED <<service, creds>>
    BY <1>10, CredWords DEF Cred!Return, Cred!Go
  <2>2. call[c] # Idle
    BY <2>1 DEF CredInv, CredStepOfCall
  <2>3. Cred!DueNow' = [Cred!DueNow EXCEPT ![c] = Error]
    BY <2>1, CredWords DEF CredInv, Cred!TypeOK, Cred!DueNow
  <2>4. Cred!C!Return(c)
    BY <2>1, <2>2, <2>3, CredStored, CredContractWords DEF Cred!C!Return
  <2> QED
    BY <2>4 DEF Cred!C!CNext
<1> QED
  BY <1>1, <1>2, <1>3, <1>4, <1>5, <1>6, <1>7, <1>8, <1>9, <1>10 DEF Cred!Step

\* What the contract allows, its weaker form allows.
LEMMA CredWeaker == Cred!C!CNext => Cred!W!CNext
<1> SUFFICES ASSUME NEW c \in Client,
                    \/ Cred!C!Begin(c) \/ Cred!C!Look(c) \/ Cred!C!Stat(c) \/ Cred!C!List(c)
                    \/ Cred!C!Spoil(c) \/ Cred!C!Store(c) \/ Cred!C!Erase(c) \/ Cred!C!Miss(c)
                    \/ Cred!C!Drop(c) \/ Cred!C!Fail(c) \/ Cred!C!Return(c)
             PROVE  Cred!W!CNext
  BY DEF Cred!C!CNext
<1> USE CredContractWords
<1>1. Cred!C!Begin(c) => Cred!W!Begin(c)
  BY DEF Cred!C!Begin, Cred!W!Begin
<1>2. Cred!C!Look(c) => Cred!W!Look(c)
  <2>1. \A item : Cred!C!Answer(item) = Cred!W!Answer(item)
    BY DEF Cred!C!Answer, Cred!W!Answer
  <2> QED
    BY <2>1 DEF Cred!C!Look, Cred!W!Look, Cred!C!Unseen, Cred!W!Unseen
<1>3. Cred!C!Stat(c) => Cred!W!Stat(c)
  BY DEF Cred!C!Stat, Cred!W!Stat, Cred!C!Unseen, Cred!W!Unseen
<1>4. Cred!C!List(c) => Cred!W!List(c)
  BY DEF Cred!C!List, Cred!W!List
<1>5. Cred!C!Spoil(c) => Cred!W!Spoil(c)
  BY DEF Cred!C!Spoil, Cred!W!Spoil
<1>6. Cred!C!Store(c) => Cred!W!Store(c)
  BY DEF Cred!C!Store, Cred!W!Store
<1>7. Cred!C!Erase(c) => Cred!W!Erase(c)
  BY DEF Cred!C!Erase, Cred!W!Erase, Cred!C!IsSetOf, Cred!W!IsSetOf,
         Cred!C!Ok, Cred!W!Ok, Cred!C!Error, Cred!W!Error
<1>8. Cred!C!Miss(c) => Cred!W!Miss(c)
  BY DEF Cred!C!Miss, Cred!W!Miss
<1>9. Cred!C!Drop(c) => Cred!W!Drop(c)
  BY DEF Cred!C!Drop, Cred!W!Drop
<1>10. Cred!C!Fail(c) => Cred!W!Fail(c)
  BY DEF Cred!C!Fail, Cred!W!Fail
<1>11. Cred!C!Return(c) => Cred!W!Return(c)
  BY DEF Cred!C!Return, Cred!W!Return
<1> QED
  BY <1>1, <1>2, <1>3, <1>4, <1>5, <1>6, <1>7, <1>8, <1>9, <1>10, <1>11 DEF Cred!W!CNext

LEMMA CredRefines ==
  ASSUME CredInv, DataApart, [Cred!Next]_(Cred!vars)
  PROVE  [Cred!ContractStep]_<<Cred!Stored, call, Cred!DueNow>>
<1>1. CASE Cred!Next
  BY <1>1, CredStep, CredWeaker DEF Cred!Next, CredStays, CredListFails, Cred!ContractStep
<1>2. CASE UNCHANGED Cred!vars
  BY <1>2 DEF Cred!vars, Cred!Stored, Cred!View, Cred!DueNow
<1> QED
  BY <1>1, <1>2

LEMMA CredInitRefines == Cred!Init => Cred!C!CInit
<1> SUFFICES ASSUME Cred!Init PROVE Cred!C!CInit
  OBVIOUS
<1> DEFINE a == CHOOSE d \in Client : TRUE
<1>1. a \in Client
  BY StoresAssumption DEF Cred!WinCredAssumption
<1>2. service \in Services /\ creds = [n \in Cred!Names |-> Nothing]
  BY DEF Cred!Init
<1>3. Cred!Stored = [k \in Key |-> IF creds[service[a] \o k] = Nothing THEN "no item"
                                   ELSE creds[service[a] \o k]]
  BY DEF Cred!Stored, Cred!View, Cred!CredentialName
<1> HIDE DEF a
<1>4. \A k \in Key : creds[service[a] \o k] = Nothing
  BY <1>1, <1>2, CredParts
<1>5. Cred!Stored = [k \in Key |-> "no item"]
  BY <1>3, <1>4
<1> QED
  BY <1>5, CredContractWords, CredWords DEF Cred!Init, Cred!C!CInit, Cred!DueNow

\* A step changes at most the credential of its call.
LEMMA CredTouches ==
  ASSUME CredInv, NEW c \in Client, Cred!Step(c)
  PROVE  \/ UNCHANGED creds
         \/ \E k \in Key : \E v : creds' = [creds EXCEPT ![service[c] \o k] = v]
<1>1. CASE Cred!Set(c) \/ Cred!Delete(c)
  <2>1. pc[c] \in {"write", "delete"} /\ \E v : creds' = [creds EXCEPT ![Cred!NameOf(c)] = v]
    BY <1>1 DEF Cred!Set, Cred!Delete
  <2> QED
    BY <2>1, CredNameOf
<1>2. CASE ~(Cred!Set(c) \/ Cred!Delete(c))
  BY <1>2 DEF Cred!Step, Cred!Call, Cred!Get, Cred!GetMetadata, Cred!Lookup, Cred!Keys,
              Cred!ListFails, Cred!CredFails, Cred!Return
<1> QED
  BY <1>1, <1>2

LEMMA CredApart == CredInv => Cred!ApartStep
<1> SUFFICES ASSUME CredInv, NEW c \in Client, NEW d \in Client, Cred!Step(c),
                    Cred!Apart(service[c], service[d])
             PROVE  /\ Cred!View(d, creds') = Cred!View(d, creds)
                    /\ Cred!KeysOf(service[d], creds') = Cred!KeysOf(service[d], creds)
  BY DEF Cred!ApartStep
<1>1. service \in Services /\ creds \in [Cred!Names -> Data \cup {Nothing}]
  BY DEF CredInv, Cred!TypeOK
<1>2. CASE UNCHANGED creds
  BY <1>2
<1>3. ASSUME NEW k \in Key, NEW v, creds' = [creds EXCEPT ![service[c] \o k] = v]
      PROVE  /\ Cred!View(d, creds') = Cred!View(d, creds)
             /\ Cred!KeysOf(service[d], creds') = Cred!KeysOf(service[d], creds)
  <2> DEFINE s == service[c]
             t == service[d]
             n == s \o k
  <2>1. s \in Seq(Piece) /\ t \in Seq(Piece) /\ k \in Seq(Piece)
    BY <1>1, CredPieces
  <2>2. ~Cred!IsPrefix(t, n)
    <3>1. ~Cred!IsPrefix(s, t) /\ ~Cred!IsPrefix(t, s)
      BY DEF Cred!Apart
    <3> HIDE DEF s, t
    <3> QED
      BY <2>1, <3>1, PrefixesMeet
  <2>3. \A m \in Cred!Names : m # n => creds'[m] = creds[m]
    BY <1>1, <1>3
  <2>4. \A l \in Key : t \o l \in Cred!Names /\ t \o l # n
    BY <1>1, <2>2, CredParts DEF Cred!IsStrictPrefix
  <2>5. \A m \in Cred!Names : Cred!IsStrictPrefix(t, m) => m # n
    BY <2>2 DEF Cred!IsStrictPrefix
  <2> HIDE DEF n, t
  <2>6. Cred!View(d, creds') = Cred!View(d, creds)
    BY <2>3, <2>4 DEF Cred!View, Cred!CredentialName, t
  <2>7. {m \in Cred!Names : creds'[m] # Nothing /\ Cred!IsStrictPrefix(t, m)}
          = {m \in Cred!Names : creds[m] # Nothing /\ Cred!IsStrictPrefix(t, m)}
    BY <2>3, <2>5
  <2>8. Cred!KeysOf(t, creds') = Cred!KeysOf(t, creds)
    BY <2>7 DEF Cred!KeysOf
  <2> QED
    BY <2>6, <2>8 DEF t
<1> QED
  BY <1>2, <1>3, CredTouches

-----------------------------------------------------------------------------
(* PassKeyring: its types                                                   *)

PassStepOfCall ==
  \A c \in Client :
    /\ pc[c] = "idle" <=> call[c] = Idle
    /\ pc[c] = "metadata" => call[c].op = "GetMetadata"
    /\ pc[c] = "stat" => call[c].op \in {"Get", "Remove"}
    /\ pc[c] = "show" => call[c].op = "Get"
    /\ pc[c] = "rm" => call[c].op = "Remove"
    /\ pc[c] = "insert" => call[c].op = "Set"
    /\ pc[c] \in {"root", "walk"} => call[c].op = "Keys"

\* The files that a walk has still to visit are those of keys, and it begins with none.
PassWalks ==
  \A c \in Client :
    /\ \A e \in visit[c] : e.type = "file" => e.path \in Key
    /\ pc[c] \notin {"walk", "return"} => found[c] = {}

PassInv == Pass!TypeOK /\ PassStepOfCall /\ PassWalks

LEMMA PassWords ==
  /\ Pass!Idle = Idle /\ Pass!Ok = Ok /\ Pass!NotFound = NotFound /\ Pass!Error = Error
  /\ Pass!Calls = Calls /\ Pass!Replies = Replies
  /\ \A d : Pass!Found(d) = Found(d)
  /\ \A S : Pass!Listing(S) = Listing(S)
  BY DEF Pass!Idle, Pass!Ok, Pass!NotFound, Pass!Error, Pass!Calls, Pass!Replies,
         Pass!Found, Pass!Listing, Idle, Ok, NotFound, Error, Calls, Replies, Found, Listing

LEMMA PassKeyIsSeq ==
  ASSUME NEW k \in Key
  PROVE  /\ k \in Seq(Pass!Range(k)) /\ Len(k) \in Nat \ {0}
         /\ \A n \in 1..Len(k) : SubSeq(k, 1, n) \in Pass!Paths
         /\ k \in Pass!Paths
<1>1. k \in Seq(Pass!Range(k)) /\ k # <<>>
  BY StoresAssumption DEF Pass!PassAssumption
<1>2. Len(k) \in Nat \ {0}
  BY <1>1, EmptySeq
<1>3. ASSUME NEW n \in 1..Len(k) PROVE SubSeq(k, 1, n) \in Pass!Paths
  <2> DEFINE OfKey == {SubSeq(k, 1, m) : m \in 1..Len(k)}
  <2>1. SubSeq(k, 1, n) \in OfKey
    OBVIOUS
  <2>2. OfKey \subseteq Pass!Paths
    BY DEF Pass!Paths
  <2> HIDE DEF OfKey
  <2> QED
    BY <2>1, <2>2
<1>4. SubSeq(k, 1, Len(k)) = k
  BY <1>1, SubSeqFull
<1>5. k \in Pass!Paths
  <2> DEFINE n == Len(k)
  <2>1. n \in 1..Len(k)
    BY <1>2
  <2> HIDE DEF n
  <2>2. SubSeq(k, 1, n) \in Pass!Paths
    BY <1>3, <2>1
  <2> QED
    BY <1>4, <2>2 DEF n
<1> QED
  BY <1>1, <1>2, <1>3, <1>5

LEMMA PassPathLength == \A p \in Pass!Paths : Len(p) \in Nat
<1> SUFFICES ASSUME NEW p \in Pass!Paths PROVE Len(p) \in Nat
  OBVIOUS
<1>1. PICK k \in Key : \E n \in 1..Len(k) : p = SubSeq(k, 1, n)
  BY DEF Pass!Paths
<1>2. PICK n \in 1..Len(k) : p = SubSeq(k, 1, n)
  BY <1>1
<1>3. k \in Seq(Pass!Range(k)) /\ Len(k) \in Nat
  BY PassKeyIsSeq
<1>4. n \in Int /\ \A i \in 1..n : k[i] \in Pass!Range(k)
  BY <1>3, ElementOfSeq
<1>5. SubSeq(k, 1, n) \in Seq(Pass!Range(k))
  BY <1>4, SubSeqProperties
<1> QED
  BY <1>2, <1>5, LenProperties

\* What a directory holds are entries, and its files are those of keys.
LEMMA PassListing ==
  ASSUME NEW dir, dir = <<>> \/ dir \in Pass!Paths
  PROVE  /\ Pass!Listing1(dir) \subseteq Pass!Entry
         /\ \A e \in Pass!Listing1(dir) : e.type = "file" => e.path \in Key
<1>1. Len(dir) \in Nat
  BY PassPathLength, EmptySeq
<1> SUFFICES ASSUME NEW e \in Pass!Listing1(dir)
             PROVE  e \in Pass!Entry /\ (e.type = "file" => e.path \in Key)
  OBVIOUS
<1>2. ASSUME NEW k \in Key, e = [type |-> "file", path |-> k]
      PROVE  e \in Pass!Entry /\ (e.type = "file" => e.path \in Key)
  BY <1>2, PassKeyIsSeq DEF Pass!Entry
<1>3. ASSUME NEW k \in Key, Len(k) > Len(dir) + 1,
             e = [type |-> "dir", path |-> SubSeq(k, 1, Len(dir) + 1)]
      PROVE  e \in Pass!Entry /\ (e.type = "file" => e.path \in Key)
  <2> DEFINE n == Len(dir) + 1
             p == SubSeq(k, 1, n)
  <2>1. Len(k) \in Nat
    BY PassKeyIsSeq
  <2>2. n \in 1..Len(k)
    BY <1>1, <1>3, <2>1
  <2> HIDE DEF n
  <2>3. p \in Pass!Paths
    BY <2>2, PassKeyIsSeq
  <2>4. e = [type |-> "dir", path |-> p]
    BY <1>3 DEF n
  <2> HIDE DEF p
  <2> QED
    BY <2>3, <2>4 DEF Pass!Entry
<1>4. \/ \E k \in Key : e = [type |-> "file", path |-> k]
      \/ \E k \in Key : Len(k) > Len(dir) + 1 /\ e = [type |-> "dir", path |-> SubSeq(k, 1, Len(dir) + 1)]
  BY DEF Pass!Listing1, Pass!Below
<1> QED
  BY <1>2, <1>3, <1>4

LEMMA PassInit == Pass!Init => PassInv
<1> SUFFICES ASSUME Pass!Init PROVE PassInv
  OBVIOUS
<1>1. Pass!TypeOK
  BY PassWords, ReplyTypes DEF Pass!Init, Pass!TypeOK, Pass!PCs
<1>2. PassStepOfCall /\ PassWalks
  BY PassWords DEF Pass!Init, PassStepOfCall, PassWalks
<1> QED
  BY <1>1, <1>2 DEF PassInv

\* A process answers, and the file of its call is as it was or another.
LEMMA PassAnswers ==
  ASSUME PassInv, NEW c \in Client, NEW r \in Replies, Pass!Reply(c, r),
         UNCHANGED <<visit, found, call>>, call[c] # Idle,
         files' \in [Key -> Data \cup {Nothing, Broken}]
  PROVE  PassInv'
<1>1. pc' = [pc EXCEPT ![c] = "return"] /\ result' = [result EXCEPT ![c] = r]
  BY DEF Pass!Reply, Pass!Go
<1>2. Pass!TypeOK'
  BY <1>1, PassWords DEF PassInv, Pass!TypeOK, Pass!PCs
<1>3. PassStepOfCall' /\ PassWalks'
  BY <1>1 DEF PassInv, Pass!TypeOK, PassStepOfCall, PassWalks
<1> QED
  BY <1>2, <1>3 DEF PassInv

\* The files a program that fails may leave.
LEMMA PassLeaves ==
  ASSUME PassInv, NEW c \in Client, Pass!RunFails(c)
  PROVE  \/ UNCHANGED files
         \/ /\ pc[c] = "insert"
            /\ \E v \in {call[c].data, Broken} : files' = [files EXCEPT ![call[c].key] = v]
         \/ pc[c] = "rm" /\ files' = [files EXCEPT ![call[c].key] = Nothing]
<1>1. CASE pc[c] = "insert"
  BY <1>1 DEF Pass!RunFails
<1>2. CASE pc[c] = "rm"
  BY <1>2 DEF Pass!RunFails
<1>3. CASE pc[c] \notin {"insert", "rm"}
  BY <1>3 DEF Pass!RunFails
<1> QED
  BY <1>1, <1>2, <1>3

\* The item that a call is about.
LEMMA PassCallOf ==
  ASSUME PassInv, NEW c \in Client, pc[c] \in {"stat", "show", "rm", "insert"}
  PROVE  /\ call[c] \in Calls /\ call[c] # Idle /\ call[c].key \in Key
         /\ pc[c] = "insert" => call[c].data \in Data
         /\ files[call[c].key] \in Data \cup {Nothing, Broken}
<1>1. call[c] # Idle /\ call[c] \in Calls
  BY PassWords DEF PassInv, Pass!TypeOK, PassStepOfCall
<1>2. call[c].key \in Key /\ (pc[c] = "insert" => call[c].data \in Data)
  BY <1>1, CallArguments DEF PassInv, PassStepOfCall
<1> QED
  BY <1>1, <1>2 DEF PassInv, Pass!TypeOK

LEMMA PassNext == PassInv /\ [Pass!Next]_(Pass!vars) => PassInv'
<1> SUFFICES ASSUME PassInv, [Pass!Next]_(Pass!vars) PROVE PassInv'
  OBVIOUS
<1> USE DEF PassInv
<1>0. files \in [Key -> Data \cup {Nothing, Broken}]
  BY DEF Pass!TypeOK
<1>1. ASSUME NEW c \in Client, Pass!Call(c) PROVE PassInv'
  <2>1. PICK cl \in Calls : /\ pc[c] = "idle" /\ call' = [call EXCEPT ![c] = cl]
                            /\ pc' = [pc EXCEPT ![c] = Pass!FirstStep(cl.op)]
                            /\ UNCHANGED <<files, visit, found, result>>
    BY <1>1, PassWords DEF Pass!Call, Pass!Go
  <2>2. /\ cl # Idle /\ cl.op \in {"Get", "Remove"} => Pass!FirstStep(cl.op) = "stat"
        /\ cl.op = "GetMetadata" => Pass!FirstStep(cl.op) = "metadata"
        /\ cl.op = "Set" => Pass!FirstStep(cl.op) = "insert"
        /\ cl.op = "Keys" => Pass!FirstStep(cl.op) = "root"
        /\ cl.op \in {"Get", "GetMetadata", "Remove", "Set", "Keys"} /\ cl # Idle
    BY CallArguments, IdleIsNoCall DEF Pass!FirstStep
  <2>3. Pass!TypeOK'
    BY <2>1, <2>2, PassWords DEF Pass!TypeOK, Pass!PCs
  <2>4. PassStepOfCall' /\ PassWalks'
    BY <2>1, <2>2 DEF Pass!TypeOK, PassStepOfCall, PassWalks
  <2> QED
    BY <2>3, <2>4
<1>2. ASSUME NEW c \in Client, Pass!GetMetadata(c) PROVE PassInv'
  <2>1. call[c] # Idle /\ Pass!Reply(c, Ok) /\ UNCHANGED <<files, visit, found, call>>
    BY <1>2, PassWords DEF Pass!GetMetadata, PassStepOfCall
  <2> QED
    BY <1>0, <2>1, ReplyTypes, PassAnswers
<1>3. ASSUME NEW c \in Client, Pass!ItemExists(c) PROVE PassInv'
  <2>1. pc[c] = "stat" /\ call[c] # Idle /\ UNCHANGED <<files, visit, found, call>>
    BY <1>3 DEF Pass!ItemExists, PassStepOfCall
  <2>2. CASE Pass!Exists(call[c].key)
    <3>1. /\ pc' = [pc EXCEPT ![c] = IF call[c].op = "Get" THEN "show" ELSE "rm"]
          /\ UNCHANGED result
      BY <1>3, <2>2 DEF Pass!ItemExists, Pass!Go
    <3> QED
      BY <2>1, <3>1 DEF Pass!TypeOK, Pass!PCs, PassStepOfCall, PassWalks
  <2>3. CASE ~Pass!Exists(call[c].key)
    <3>1. Pass!Reply(c, NotFound)
      BY <1>3, <2>3, PassWords DEF Pass!ItemExists
    <3> QED
      BY <1>0, <2>1, <3>1, ReplyTypes, PassAnswers
  <2> QED
    BY <2>2, <2>3
<1>4. ASSUME NEW c \in Client, Pass!StatFails(c) PROVE PassInv'
  <2>1. call[c] # Idle /\ Pass!Reply(c, NotFound) /\ UNCHANGED <<files, visit, found, call>>
    BY <1>4, PassWords DEF Pass!StatFails, PassStepOfCall
  <2> QED
    BY <1>0, <2>1, ReplyTypes, PassAnswers
<1>5. ASSUME NEW c \in Client, Pass!Show(c) PROVE PassInv'
  <2> DEFINE r == IF files[call[c].key] \in Data THEN Found(files[call[c].key]) ELSE Error
  <2>1. call[c] # Idle /\ Pass!Reply(c, r) /\ UNCHANGED <<files, visit, found, call>>
    BY <1>5, PassWords DEF Pass!Show, PassStepOfCall
  <2>2. r \in Replies
    BY ReplyTypes
  <2> QED
    BY <1>0, <2>1, <2>2, PassAnswers
<1>6. ASSUME NEW c \in Client, Pass!Insert(c) PROVE PassInv'
  <2>1. /\ pc[c] = "insert" /\ Pass!Reply(c, Ok) /\ UNCHANGED <<visit, found, call>>
        /\ files' = [files EXCEPT ![call[c].key] = call[c].data]
    BY <1>6, PassWords DEF Pass!Insert
  <2>2. call[c] # Idle /\ call[c].data \in Data
    BY <2>1, PassCallOf
  <2> QED
    BY <1>0, <2>1, <2>2, ReplyTypes, PassAnswers
<1>7. ASSUME NEW c \in Client, Pass!Rm(c) PROVE PassInv'
  <2> DEFINE r == IF Pass!Exists(call[c].key) THEN Ok ELSE Error
  <2>1. /\ pc[c] = "rm" /\ Pass!Reply(c, r) /\ UNCHANGED <<visit, found, call>>
        /\ files' = [files EXCEPT ![call[c].key] = Nothing]
    BY <1>7, PassWords DEF Pass!Rm
  <2>2. call[c] # Idle /\ r \in Replies
    BY <2>1, PassCallOf, ReplyTypes
  <2> QED
    BY <1>0, <2>1, <2>2, PassAnswers
<1>8. ASSUME NEW c \in Client, Pass!Keys(c) PROVE PassInv'
  <2> DEFINE L == Pass!Listing1(<<>>)
  <2>1. /\ pc[c] = "root" /\ visit' = [visit EXCEPT ![c] = L]
        /\ pc' = [pc EXCEPT ![c] = "walk"] /\ UNCHANGED <<files, found, call, result>>
    BY <1>8 DEF Pass!Keys, Pass!Go
  <2>2. L \subseteq Pass!Entry /\ \A e \in L : e.type = "file" => e.path \in Key
    BY PassListing
  <2> HIDE DEF L
  <2>3. Pass!TypeOK'
    BY <2>1, <2>2 DEF Pass!TypeOK, Pass!PCs
  <2>4. PassStepOfCall' /\ PassWalks'
    BY <2>1, <2>2 DEF Pass!TypeOK, PassStepOfCall, PassWalks
  <2> QED
    BY <2>3, <2>4
<1>9. ASSUME NEW c \in Client, Pass!Visit(c) PROVE PassInv'
  <2>1. PICK e \in visit[c] :
          /\ pc[c] = "walk" /\ UNCHANGED <<files, call>>
          /\ \/ /\ e.type = "file"
                /\ visit' = [visit EXCEPT ![c] = @ \ {e}]
                /\ found' = [found EXCEPT ![c] = @ \cup {e.path}]
                /\ UNCHANGED <<pc, result>>
             \/ /\ e.type = "dir"
                /\ visit' = [visit EXCEPT ![c] = (@ \ {e}) \cup Pass!Listing1(e.path)]
                /\ UNCHANGED <<found, pc, result>>
             \/ Pass!Reply(c, Error) /\ UNCHANGED <<visit, found>>
    BY <1>9, PassWords DEF Pass!Visit
  <2>2. e \in Pass!Entry /\ (e.type = "file" => e.path \in Key)
    BY DEF Pass!TypeOK, PassWalks
  <2>3. e.path \in Pass!Paths
    BY <2>2 DEF Pass!Entry
  <2> DEFINE L == Pass!Listing1(e.path)
  <2>4. L \subseteq Pass!Entry /\ \A f \in L : f.type = "file" => f.path \in Key
    BY <2>3, PassListing
  <2> HIDE DEF L
  <2>5. CASE /\ e.type = "file"
             /\ visit' = [visit EXCEPT ![c] = @ \ {e}]
             /\ found' = [found EXCEPT ![c] = @ \cup {e.path}]
             /\ UNCHANGED <<pc, result>>
    <3>1. Pass!TypeOK'
      BY <2>1, <2>2, <2>5 DEF Pass!TypeOK
    <3>2. PassStepOfCall' /\ PassWalks'
      BY <2>1, <2>5 DEF Pass!TypeOK, PassStepOfCall, PassWalks
    <3> QED
      BY <3>1, <3>2
  <2>6. CASE /\ visit' = [visit EXCEPT ![c] = (@ \ {e}) \cup L]
             /\ UNCHANGED <<found, pc, result>>
    <3>1. Pass!TypeOK'
      BY <2>1, <2>4, <2>6 DEF Pass!TypeOK
    <3>2. PassStepOfCall' /\ PassWalks'
      BY <2>1, <2>4, <2>6 DEF Pass!TypeOK, PassStepOfCall, PassWalks
    <3> QED
      BY <3>1, <3>2
  <2>7. CASE Pass!Reply(c, Error) /\ UNCHANGED <<visit, found>>
    <3>1. call[c] # Idle
      BY <2>1 DEF PassStepOfCall
    <3> QED
      BY <1>0, <2>1, <2>7, <3>1, ReplyTypes, PassAnswers
  <2> QED
    BY <2>1, <2>5, <2>6, <2>7 DEF L
<1>10. ASSUME NEW c \in Client, Pass!WalkEnds(c) PROVE PassInv'
  <2>1. call[c] # Idle /\ Pass!Reply(c, Listing(found[c])) /\ UNCHANGED <<files, visit, found, call>>
    BY <1>10, PassWords DEF Pass!WalkEnds, PassStepOfCall
  <2>2. Listing(found[c]) \in Replies
    BY ReplyTypes DEF Pass!TypeOK
  <2> QED
    BY <1>0, <2>1, <2>2, PassAnswers
<1>11. ASSUME NEW c \in Client, Pass!RunFails(c) PROVE PassInv'
  <2>1. call[c] # Idle /\ Pass!Reply(c, Error) /\ UNCHANGED <<visit, found, call>>
    BY <1>11, PassWords DEF Pass!RunFails, PassStepOfCall
  <2>2. files' \in [Key -> Data \cup {Nothing, Broken}]
    BY <1>0, <1>11, PassLeaves, PassCallOf
  <2> QED
    BY <2>1, <2>2, ReplyTypes, PassAnswers
<1>12. ASSUME NEW c \in Client, Pass!Return(c) PROVE PassInv'
  <2>1. /\ pc[c] = "return" /\ pc' = [pc EXCEPT ![c] = "idle"]
        /\ call' = [call EXCEPT ![c] = Idle] /\ result' = [result EXCEPT ![c] = Error]
        /\ visit' = [visit EXCEPT ![c] = {}] /\ found' = [found EXCEPT ![c] = {}]
        /\ UNCHANGED files
    BY <1>12, PassWords DEF Pass!Return, Pass!Go
  <2>2. Pass!TypeOK'
    BY <2>1, PassWords, ReplyTypes DEF Pass!TypeOK, Pass!PCs
  <2>3. PassStepOfCall' /\ PassWalks'
    BY <2>1 DEF Pass!TypeOK, PassStepOfCall, PassWalks
  <2> QED
    BY <2>2, <2>3
<1>13. CASE UNCHANGED Pass!vars
  BY <1>13 DEF Pass!vars, Pass!TypeOK, PassStepOfCall, PassWalks
<1> QED
  BY <1>1, <1>2, <1>3, <1>4, <1>5, <1>6, <1>7, <1>8, <1>9, <1>10, <1>11, <1>12, <1>13
     DEF Pass!Next

-----------------------------------------------------------------------------
(* PassKeyring: the contract                                                *)

LEMMA PassContractWords ==
  /\ Pass!C!Idle = Idle /\ Pass!C!Ok = Ok /\ Pass!C!NotFound = NotFound /\ Pass!C!Error = Error
  /\ Pass!W!Idle = Idle /\ Pass!W!Ok = Ok /\ Pass!W!NotFound = NotFound /\ Pass!W!Error = Error
  /\ Pass!C!Calls = Calls /\ Pass!W!Calls = Calls
  /\ \A d : Pass!C!Found(d) = Found(d) /\ Pass!W!Found(d) = Found(d)
  /\ \A S : Pass!C!Listing(S) = Listing(S) /\ Pass!W!Listing(S) = Listing(S)
  BY DEF Pass!C!Idle, Pass!C!Ok, Pass!C!NotFound, Pass!C!Error, Pass!C!Calls, Pass!C!Found,
         Pass!C!Listing, Pass!W!Idle, Pass!W!Ok, Pass!W!NotFound, Pass!W!Error, Pass!W!Calls,
         Pass!W!Found, Pass!W!Listing, Idle, Ok, NotFound, Error, Calls, Found, Listing

\* What the contract allows, its weaker form allows.
LEMMA PassWeaker == Pass!C!CNext => Pass!W!CNext
<1> SUFFICES ASSUME NEW c \in Client,
                    \/ Pass!C!Begin(c) \/ Pass!C!Look(c) \/ Pass!C!Stat(c) \/ Pass!C!List(c)
                    \/ Pass!C!Spoil(c) \/ Pass!C!Store(c) \/ Pass!C!Erase(c) \/ Pass!C!Miss(c)
                    \/ Pass!C!Drop(c) \/ Pass!C!Fail(c) \/ Pass!C!Return(c)
             PROVE  Pass!W!CNext
  BY DEF Pass!C!CNext
<1> USE PassContractWords
<1>1. Pass!C!Begin(c) => Pass!W!Begin(c)
  BY DEF Pass!C!Begin, Pass!W!Begin
<1>2. Pass!C!Look(c) => Pass!W!Look(c)
  <2>1. \A item : Pass!C!Answer(item) = Pass!W!Answer(item)
    BY DEF Pass!C!Answer, Pass!W!Answer
  <2> QED
    BY <2>1 DEF Pass!C!Look, Pass!W!Look, Pass!C!Unseen, Pass!W!Unseen
<1>3. Pass!C!Stat(c) => Pass!W!Stat(c)
  BY DEF Pass!C!Stat, Pass!W!Stat, Pass!C!Unseen, Pass!W!Unseen
<1>4. Pass!C!List(c) => Pass!W!List(c)
  BY DEF Pass!C!List, Pass!W!List, Pass!C!Gathered, Pass!W!Gathered
<1>5. Pass!C!Spoil(c) => Pass!W!Spoil(c)
  BY DEF Pass!C!Spoil, Pass!W!Spoil
<1>6. Pass!C!Store(c) => Pass!W!Store(c)
  BY DEF Pass!C!Store, Pass!W!Store
<1>7. Pass!C!Erase(c) => Pass!W!Erase(c)
  BY DEF Pass!C!Erase, Pass!W!Erase, Pass!C!IsSetOf, Pass!W!IsSetOf,
         Pass!C!Ok, Pass!W!Ok, Pass!C!Error, Pass!W!Error
<1>8. Pass!C!Miss(c) => Pass!W!Miss(c)
  BY DEF Pass!C!Miss, Pass!W!Miss
<1>9. Pass!C!Drop(c) => Pass!W!Drop(c)
  BY DEF Pass!C!Drop, Pass!W!Drop
<1>10. Pass!C!Fail(c) => Pass!W!Fail(c)
  BY DEF Pass!C!Fail, Pass!W!Fail
<1>11. Pass!C!Return(c) => Pass!W!Return(c)
  BY DEF Pass!C!Return, Pass!W!Return
<1> QED
  BY <1>1, <1>2, <1>3, <1>4, <1>5, <1>6, <1>7, <1>8, <1>9, <1>10, <1>11 DEF Pass!W!CNext

PassStays == UNCHANGED <<Pass!Stored, call, Pass!DueNow>>

\* What a process would answer now; a walk, what it has found so far.
LEMMA PassDue ==
  ASSUME PassInv, NEW c \in Client
  PROVE  /\ \A r : Pass!Reply(c, r) /\ UNCHANGED found
                     => Pass!DueNow' = [Pass!DueNow EXCEPT ![c] = r]
         /\ \A step : step \notin {"walk", "return"} /\ pc[c] \notin {"walk", "return"}
                      /\ pc' = [pc EXCEPT ![c] = step] /\ UNCHANGED <<result, found>>
                        => UNCHANGED Pass!DueNow
         /\ pc[c] \notin {"walk", "return"} => Pass!DueNow[c] = Error
         /\ pc[c] = "walk" => Pass!DueNow[c] = Listing(found[c])
<1> USE PassWords DEF PassInv, Pass!TypeOK
<1>1. ASSUME NEW r, Pass!Reply(c, r), UNCHANGED found
      PROVE  Pass!DueNow' = [Pass!DueNow EXCEPT ![c] = r]
  BY <1>1 DEF Pass!Reply, Pass!Go, Pass!DueNow
<1>2. ASSUME NEW step, step \notin {"walk", "return"}, pc[c] \notin {"walk", "return"},
             pc' = [pc EXCEPT ![c] = step], UNCHANGED <<result, found>>
      PROVE  UNCHANGED Pass!DueNow
  BY <1>2 DEF Pass!DueNow
<1>3. /\ pc[c] \notin {"walk", "return"} => Pass!DueNow[c] = Error
      /\ pc[c] = "walk" => Pass!DueNow[c] = Listing(found[c])
  BY DEF Pass!DueNow
<1> QED
  BY <1>1, <1>2, <1>3

\* The directory, as the contract sees it.
LEMMA PassStored ==
  ASSUME PassInv, DataApart
  PROVE  /\ UNCHANGED files => UNCHANGED Pass!Stored
         /\ \A k \in Key : /\ Pass!Stored[k] = "no item" <=> files[k] = Nothing
                           /\ Pass!Stored[k] = "damaged" <=> files[k] = Broken
                           /\ files[k] \in Data => Pass!Stored[k] = files[k]
         /\ \A k \in Key, v \in Data :
              files' = [files EXCEPT ![k] = v] => Pass!Stored' = [Pass!Stored EXCEPT ![k] = v]
         /\ \A k \in Key : files' = [files EXCEPT ![k] = Nothing]
              => Pass!Stored' = [Pass!Stored EXCEPT ![k] = "no item"]
         /\ \A k \in Key : files' = [files EXCEPT ![k] = Broken]
              => Pass!Stored' = [Pass!Stored EXCEPT ![k] = "damaged"]
<1>1. /\ files \in [Key -> Data \cup {Nothing, Broken}]
      /\ Nothing \notin Data /\ Broken \notin Data /\ Nothing # Broken
  BY StoresAssumption DEF PassInv, Pass!TypeOK, Pass!PassAssumption
<1> DEFINE seen(v) == CASE v = Nothing -> "no item" [] v = Broken -> "damaged" [] OTHER -> v
<1>2. Pass!Stored = [k \in Key |-> seen(files[k])] /\ Pass!Stored' = [k \in Key |-> seen(files'[k])]
  BY DEF Pass!Stored
<1>3. /\ \A v \in Data \cup {Nothing, Broken} : /\ seen(v) = "no item" <=> v = Nothing
                                                /\ seen(v) = "damaged" <=> v = Broken
      /\ \A v \in Data : seen(v) = v
      /\ seen(Nothing) = "no item" /\ seen(Broken) = "damaged"
  <2>1. seen(Nothing) = "no item" /\ seen(Broken) = "damaged"
    BY <1>1
  <2>2. \A v \in Data : seen(v) = v /\ v # "no item" /\ v # "damaged" /\ v # Nothing /\ v # Broken
    BY <1>1 DEF DataApart
  <2> HIDE DEF seen
  <2> QED
    BY <1>1, <2>1, <2>2
<1> HIDE DEF seen
<1>4. ASSUME NEW k \in Key, NEW v, files' = [files EXCEPT ![k] = v]
      PROVE  Pass!Stored' = [Pass!Stored EXCEPT ![k] = seen(v)]
  BY <1>1, <1>2, <1>4
<1> QED
  BY <1>1, <1>2, <1>3, <1>4

LEMMA PassFail ==
  ASSUME PassInv, NEW c \in Client, call[c] # Idle, Pass!Reply(c, Error),
         UNCHANGED <<files, found, call>>, DataApart
  PROVE  Pass!C!Fail(c)
  BY PassDue, PassStored, PassContractWords DEF Pass!C!Fail

LEMMA PassStore ==
  ASSUME PassInv, NEW c \in Client, pc[c] = "insert", NEW r \in {Ok, Error}, Pass!Reply(c, r),
         UNCHANGED <<found, call>>, DataApart, files' = [files EXCEPT ![call[c].key] = call[c].data]
  PROVE  Pass!C!Store(c)
<1>1. call[c].op = "Set" /\ call[c].key \in Key /\ call[c].data \in Data
  BY PassCallOf DEF PassInv, PassStepOfCall
<1>2. Pass!Stored' = [Pass!Stored EXCEPT ![call[c].key] = call[c].data]
  BY <1>1, PassStored
<1>3. Pass!DueNow' = [Pass!DueNow EXCEPT ![c] = r] /\ Pass!DueNow[c] = Error
  BY PassDue
<1> QED
  BY <1>1, <1>2, <1>3, PassContractWords DEF Pass!C!Store

LEMMA PassErase ==
  ASSUME PassInv, NEW c \in Client, pc[c] = "rm", NEW r \in {Ok, Error}, Pass!Reply(c, r),
         UNCHANGED <<found, call>>, DataApart, files' = [files EXCEPT ![call[c].key] = Nothing],
         files[call[c].key] = Nothing => r = Error
  PROVE  Pass!C!Erase(c) \/ Pass!C!Fail(c)
<1>1. call[c].op = "Remove" /\ call[c].key \in Key /\ call[c] # Idle
  BY PassCallOf DEF PassInv, PassStepOfCall
<1>2. Pass!DueNow' = [Pass!DueNow EXCEPT ![c] = r] /\ Pass!DueNow[c] = Error
  BY PassDue
<1>3. CASE files[call[c].key] = Nothing
  <2>1. UNCHANGED files
    BY <1>1, <1>3 DEF PassInv, Pass!TypeOK
  <2> QED
    BY <1>1, <1>3, <2>1, PassFail
<1>4. CASE files[call[c].key] # Nothing
  <2>1. /\ Pass!Stored[call[c].key] # "no item"
        /\ Pass!Stored' = [Pass!Stored EXCEPT ![call[c].key] = "no item"]
    BY <1>1, <1>4, PassStored
  <2> DEFINE over == {}
             Sets == {d \in Client : Pass!C!IsSetOf(call[d], call[c].key)}
  <2>2. Pass!DueNow' = [d \in Client |-> IF d = c THEN r ELSE IF d \in over THEN Pass!C!Ok
                                         ELSE Pass!DueNow[d]]
    BY <1>2 DEF Pass!DueNow
  <2>3. /\ over \in SUBSET Sets /\ r \in {Pass!C!Ok, Pass!C!Error}
        /\ call[c].op = "Remove" /\ Pass!DueNow[c] = Pass!C!Error
    BY <1>1, <1>2, PassContractWords
  <2> HIDE DEF over
  <2>4. \E o \in SUBSET Sets, s \in {Pass!C!Ok, Pass!C!Error} :
          Pass!DueNow' = [d \in Client |-> IF d = c THEN s ELSE IF d \in o THEN Pass!C!Ok
                                           ELSE Pass!DueNow[d]]
    BY <2>2, <2>3
  <2> QED
    BY <2>1, <2>3, <2>4 DEF Pass!C!Erase
<1> QED
  BY <1>3, <1>4

PassStatFails == \E c \in Client : Pass!StatFails(c)

\* Each step is one of the contract, a stutter, or a stat that fails.
LEMMA PassStep ==
  ASSUME PassInv, DataApart, Pass!Next
  PROVE  PassStays \/ Pass!C!CNext \/ (PassStatFails /\ Pass!W!CNext)
<1> DEFINE Goal == PassStays \/ Pass!C!CNext \/ (PassStatFails /\ Pass!W!CNext)
<1>1. ASSUME NEW c \in Client, Pass!Call(c) PROVE Goal
  <2>1. PICK cl \in Calls : /\ pc[c] = "idle" /\ call' = [call EXCEPT ![c] = cl]
                            /\ pc' = [pc EXCEPT ![c] = Pass!FirstStep(cl.op)]
                            /\ UNCHANGED <<files, visit, found, result>>
    BY <1>1, PassWords DEF Pass!Call, Pass!Go
  <2>2. Pass!FirstStep(cl.op) \notin {"walk", "return"}
    BY CallArguments DEF Pass!FirstStep
  <2>3. call[c] = Idle
    BY <2>1 DEF PassInv, PassStepOfCall
  <2>4. UNCHANGED Pass!DueNow /\ Pass!DueNow[c] = Error
    BY <2>1, <2>2, PassDue
  <2>5. Pass!DueNow' = [Pass!DueNow EXCEPT ![c] = Error]
    BY <2>4 DEF Pass!DueNow
  <2>6. Pass!C!Begin(c)
    BY <2>1, <2>3, <2>5, PassStored, PassContractWords DEF Pass!C!Begin
  <2> QED
    BY <2>6 DEF Pass!C!CNext
<1>2. ASSUME NEW c \in Client, Pass!GetMetadata(c) PROVE Goal
  <2>1. /\ call[c].op = "GetMetadata" /\ Pass!Reply(c, Ok)
        /\ UNCHANGED <<files, found, call>>
    BY <1>2, PassWords DEF Pass!GetMetadata, PassInv, PassStepOfCall
  <2>2. Pass!DueNow' = [Pass!DueNow EXCEPT ![c] = Ok] /\ UNCHANGED Pass!Stored
    BY <2>1, PassDue, PassStored
  <2>3. Pass!C!Stat(c)
    BY <2>1, <2>2, PassContractWords DEF Pass!C!Stat
  <2> QED
    BY <2>3 DEF Pass!C!CNext
<1>3. ASSUME NEW c \in Client, Pass!ItemExists(c) PROVE Goal
  <2>1. /\ pc[c] = "stat" /\ call[c].op \in {"Get", "Remove"} /\ call[c].key \in Key
        /\ UNCHANGED <<files, found, call>>
    BY <1>3, PassCallOf DEF Pass!ItemExists, PassInv, PassStepOfCall
  <2>2. UNCHANGED Pass!Stored
    BY <2>1, PassStored
  <2>3. CASE Pass!Exists(call[c].key)
    <3>1. /\ pc' = [pc EXCEPT ![c] = IF call[c].op = "Get" THEN "show" ELSE "rm"]
          /\ UNCHANGED result
      BY <1>3, <2>3 DEF Pass!ItemExists, Pass!Go
    <3> QED
      BY <2>1, <2>2, <3>1, PassDue DEF PassStays
  <2>4. CASE ~Pass!Exists(call[c].key)
    <3>1. Pass!Reply(c, NotFound) /\ Pass!Stored[call[c].key] = "no item"
      BY <1>3, <2>1, <2>4, PassWords, PassStored DEF Pass!ItemExists, Pass!Exists
    <3>2. Pass!DueNow' = [Pass!DueNow EXCEPT ![c] = NotFound] /\ Pass!DueNow[c] = Error
      BY <2>1, <3>1, PassDue
    <3>3. CASE call[c].op = "Get"
      <4>1. Pass!C!Answer(Pass!Stored[call[c].key]) = NotFound
        BY <3>1, PassContractWords DEF Pass!C!Answer
      <4>2. Pass!C!Look(c)
        BY <2>1, <2>2, <3>2, <3>3, <4>1 DEF Pass!C!Look
      <4> QED
        BY <4>2 DEF Pass!C!CNext
    <3>4. CASE call[c].op = "Remove"
      <4>1. Pass!C!Miss(c)
        BY <2>1, <2>2, <3>1, <3>2, <3>4, PassContractWords DEF Pass!C!Miss
      <4> QED
        BY <4>1 DEF Pass!C!CNext
    <3> QED
      BY <2>1, <3>3, <3>4
  <2> QED
    BY <2>3, <2>4
<1>4. ASSUME NEW c \in Client, Pass!StatFails(c) PROVE Goal
  <2>1. /\ pc[c] = "stat" /\ call[c].op \in {"Get", "Remove"}
        /\ Pass!Reply(c, NotFound) /\ UNCHANGED <<files, found, call>>
    BY <1>4, PassWords DEF Pass!StatFails, PassInv, PassStepOfCall
  <2>2. /\ UNCHANGED Pass!Stored /\ Pass!DueNow[c] = Error
        /\ Pass!DueNow' = [Pass!DueNow EXCEPT ![c] = NotFound]
    BY <2>1, PassDue, PassStored
  <2>3. ASSUME call[c].op = "Get" PROVE Pass!W!CNext
    <3>1. NotFound \in Pass!W!Unseen
      BY PassContractWords DEF Pass!W!Unseen
    <3>2. Pass!W!Look(c)
      BY <2>1, <2>2, <2>3, <3>1 DEF Pass!W!Look
    <3> QED
      BY <3>2 DEF Pass!W!CNext
  <2>4. ASSUME call[c].op = "Remove" PROVE Pass!W!CNext
    <3>1. Pass!W!Miss(c)
      BY <2>1, <2>2, <2>4, PassContractWords DEF Pass!W!Miss
    <3> QED
      BY <3>1 DEF Pass!W!CNext
  <2>5. Pass!W!CNext
    BY <2>1, <2>3, <2>4
  <2> QED
    BY <1>4, <2>5 DEF PassStatFails
<1>5. ASSUME NEW c \in Client, Pass!Show(c) PROVE Goal
  <2> DEFINE k == call[c].key
  <2>1. /\ pc[c] = "show" /\ call[c].op = "Get" /\ call[c] # Idle /\ k \in Key
        /\ UNCHANGED <<files, found, call>>
    BY <1>5, PassCallOf DEF Pass!Show, PassInv, PassStepOfCall
  <2>2. CASE files[k] \in Data
    <3>1. Pass!Reply(c, Found(files[k]))
      BY <1>5, <2>2, PassWords DEF Pass!Show
    <3>2. Pass!DueNow' = [Pass!DueNow EXCEPT ![c] = Found(files[k])] /\ UNCHANGED Pass!Stored
      BY <2>1, <3>1, PassDue, PassStored
    <3>3. Pass!C!Answer(Pass!Stored[k]) = Found(files[k])
      BY <2>1, <2>2, PassStored, PassContractWords DEF Pass!C!Answer, DataApart
    <3>4. Pass!C!Look(c)
      BY <2>1, <3>2, <3>3 DEF Pass!C!Look
    <3> QED
      BY <3>4 DEF Pass!C!CNext
  <2>3. CASE files[k] \notin Data
    <3>1. Pass!Reply(c, Error)
      BY <1>5, <2>3, PassWords DEF Pass!Show
    <3> QED
      BY <2>1, <3>1, PassFail DEF Pass!C!CNext
  <2> QED
    BY <2>2, <2>3
<1>6. ASSUME NEW c \in Client, Pass!Insert(c) PROVE Goal
  <2>1. /\ pc[c] = "insert" /\ Pass!Reply(c, Ok) /\ UNCHANGED <<found, call>>
        /\ files' = [files EXCEPT ![call[c].key] = call[c].data]
    BY <1>6, PassWords DEF Pass!Insert
  <2> QED
    BY <2>1, PassStore DEF Pass!C!CNext
<1>7. ASSUME NEW c \in Client, Pass!Rm(c) PROVE Goal
  <2> DEFINE r == IF Pass!Exists(call[c].key) THEN Ok ELSE Error
  <2>1. /\ pc[c] = "rm" /\ Pass!Reply(c, r) /\ UNCHANGED <<found, call>>
        /\ files' = [files EXCEPT ![call[c].key] = Nothing]
    BY <1>7, PassWords DEF Pass!Rm
  <2>2. r \in {Ok, Error} /\ (files[call[c].key] = Nothing => r = Error)
    BY DEF Pass!Exists
  <2> HIDE DEF r
  <2> QED
    BY <2>1, <2>2, PassErase DEF Pass!C!CNext
<1>8. ASSUME NEW c \in Client, Pass!Keys(c) PROVE Goal
  <2>1. /\ pc[c] = "root" /\ call[c].op = "Keys" /\ found[c] = {}
        /\ pc' = [pc EXCEPT ![c] = "walk"] /\ UNCHANGED <<files, found, call, result>>
    BY <1>8 DEF Pass!Keys, Pass!Go, PassInv, PassStepOfCall, PassWalks
  <2>2. Pass!DueNow' = [Pass!DueNow EXCEPT ![c] = Listing({})]
    BY <2>1, PassWords DEF PassInv, Pass!TypeOK, Pass!DueNow
  <2>3. Pass!DueNow' = [Pass!DueNow EXCEPT ![c] = Pass!C!Listing({})] /\ UNCHANGED Pass!Stored
    BY <2>1, <2>2, PassStored, PassContractWords
  <2>4. Pass!C!List(c)
    BY <2>1, <2>3 DEF Pass!C!List
  <2> QED
    BY <2>4 DEF Pass!C!CNext
<1>9. ASSUME NEW c \in Client, Pass!Visit(c) PROVE Goal
  <2>1. PICK e \in visit[c] :
          /\ pc[c] = "walk" /\ UNCHANGED <<files, call>>
          /\ \/ /\ e.type = "file" /\ files[e.path] # Nothing
                /\ found' = [found EXCEPT ![c] = @ \cup {e.path}]
                /\ UNCHANGED <<pc, result>>
             \/ UNCHANGED <<found, pc, result>>
             \/ Pass!Reply(c, Error) /\ UNCHANGED <<visit, found>>
    BY <1>9, PassWords DEF Pass!Visit, Pass!Exists
  <2>2. call[c] # Idle /\ call[c].op = "Keys" /\ UNCHANGED Pass!Stored /\ found[c] \in SUBSET Key
    BY <2>1, PassStored DEF PassInv, PassStepOfCall, Pass!TypeOK
  <2>3. CASE /\ e.type = "file" /\ files[e.path] # Nothing
             /\ found' = [found EXCEPT ![c] = @ \cup {e.path}]
             /\ UNCHANGED <<pc, result>>
    <3> DEFINE all == {k \in Key : Pass!Stored[k] # "no item"}
               S == found[c] \cup {e.path}
    <3>1. e.path \in all
      BY <2>1, <2>3, PassStored DEF PassInv, PassWalks
    <3>2. Pass!C!Gathered(c) = found[c]
      <4>1. Pass!DueNow[c] = [kind |-> "keys", keys |-> found[c]]
        BY <2>1, PassDue DEF Listing
      <4>2. Pass!DueNow[c] \in [kind : {"keys"}, keys : SUBSET Key] /\ Pass!DueNow[c].keys = found[c]
        BY <2>2, <4>1
      <4> QED
        BY <4>2 DEF Pass!C!Gathered
    <3>3. S \in SUBSET (all \cup Pass!C!Gathered(c))
      BY <3>1, <3>2
    <3>4. Pass!DueNow' = [Pass!DueNow EXCEPT ![c] = Pass!C!Listing(S)]
      <4>1. Pass!DueNow' = [Pass!DueNow EXCEPT ![c] = Listing(S)]
        BY <2>1, <2>3, PassWords DEF PassInv, Pass!TypeOK, Pass!DueNow
      <4> HIDE DEF S
      <4> QED
        BY <4>1, PassContractWords
    <3> HIDE DEF S
    <3>5. Pass!C!List(c)
      BY <2>1, <2>2, <3>3, <3>4 DEF Pass!C!List
    <3> QED
      BY <3>5 DEF Pass!C!CNext
  <2>4. CASE UNCHANGED <<found, pc, result>>
    BY <2>1, <2>2, <2>4 DEF PassStays, Pass!DueNow
  <2>5. CASE Pass!Reply(c, Error) /\ UNCHANGED <<visit, found>>
    BY <2>1, <2>2, <2>5, PassFail DEF Pass!C!CNext
  <2> QED
    BY <2>1, <2>3, <2>4, <2>5
<1>10. ASSUME NEW c \in Client, Pass!WalkEnds(c) PROVE Goal
  <2>1. /\ pc[c] = "walk" /\ Pass!Reply(c, Listing(found[c]))
        /\ UNCHANGED <<files, found, call>>
    BY <1>10, PassWords DEF Pass!WalkEnds
  <2>2. /\ Pass!DueNow' = [Pass!DueNow EXCEPT ![c] = Listing(found[c])]
        /\ Pass!DueNow[c] = Listing(found[c])
    BY <2>1, PassDue
  <2>3. UNCHANGED Pass!DueNow
    BY <2>2 DEF Pass!DueNow
  <2> QED
    BY <2>1, <2>3, PassStored DEF PassStays
<1>11. ASSUME NEW c \in Client, Pass!RunFails(c) PROVE Goal
  <2>1. call[c] # Idle /\ Pass!Reply(c, Error) /\ UNCHANGED <<found, call>>
    BY <1>11, PassWords DEF Pass!RunFails, PassInv, PassStepOfCall
  <2>2. CASE UNCHANGED files
    BY <2>1, <2>2, PassFail DEF Pass!C!CNext
  <2>3. CASE pc[c] = "insert" /\ files' = [files EXCEPT ![call[c].key] = call[c].data]
    BY <2>1, <2>3, PassStore DEF Pass!C!CNext
  <2>4. CASE pc[c] = "insert" /\ files' = [files EXCEPT ![call[c].key] = Broken]
    <3>1. call[c].op = "Set" /\ call[c].key \in Key
      BY <2>4, PassCallOf DEF PassInv, PassStepOfCall
    <3>2. /\ Pass!Stored' = [Pass!Stored EXCEPT ![call[c].key] = "damaged"]
          /\ Pass!DueNow' = [Pass!DueNow EXCEPT ![c] = Error] /\ Pass!DueNow[c] = Error
      BY <2>1, <2>4, <3>1, PassStored, PassDue
    <3>3. UNCHANGED Pass!DueNow
      BY <3>2 DEF Pass!DueNow
    <3>4. Pass!C!Spoil(c)
      BY <2>1, <3>1, <3>2, <3>3, PassContractWords DEF Pass!C!Spoil
    <3> QED
      BY <3>4 DEF Pass!C!CNext
  <2>5. CASE pc[c] = "rm" /\ files' = [files EXCEPT ![call[c].key] = Nothing]
    BY <2>1, <2>5, PassErase DEF Pass!C!CNext
  <2> QED
    BY <1>11, <2>2, <2>3, <2>4, <2>5, PassLeaves
<1>12. ASSUME NEW c \in Client, Pass!Return(c) PROVE Goal
  <2>1. /\ pc[c] = "return" /\ pc' = [pc EXCEPT ![c] = "idle"]
        /\ call' = [call EXCEPT ![c] = Idle] /\ result' = [result EXCEPT ![c] = Error]
        /\ found' = [found EXCEPT ![c] = {}] /\ UNCHANGED files
    BY <1>12, PassWords DEF Pass!Return, Pass!Go
  <2>2. call[c] # Idle
    BY <2>1 DEF PassInv, PassStepOfCall
  <2>3. Pass!DueNow' = [Pass!DueNow EXCEPT ![c] = Error]
    BY <2>1, PassWords DEF PassInv, Pass!TypeOK, Pass!DueNow
  <2>4. Pass!C!Return(c)
    BY <2>1, <2>2, <2>3, PassStored, PassContractWords DEF Pass!C!Return
  <2> QED
    BY <2>4 DEF Pass!C!CNext
<1> QED
  BY <1>1, <1>2, <1>3, <1>4, <1>5, <1>6, <1>7, <1>8, <1>9, <1>10, <1>11, <1>12
     DEF Pass!Next

LEMMA PassRefines ==
  ASSUME PassInv, DataApart, [Pass!Next]_(Pass!vars)
  PROVE  [Pass!ContractStep]_<<Pass!Stored, call, Pass!DueNow>>
<1>1. CASE Pass!Next
  BY <1>1, PassStep, PassWeaker DEF PassStays, PassStatFails, Pass!ContractStep
<1>2. CASE UNCHANGED Pass!vars
  BY <1>2 DEF Pass!vars, Pass!Stored, Pass!DueNow
<1> QED
  BY <1>1, <1>2

LEMMA PassInitRefines == Pass!Init => Pass!C!CInit
<1> SUFFICES ASSUME Pass!Init PROVE Pass!C!CInit
  OBVIOUS
<1>1. Pass!Stored = [k \in Key |-> "no item"]
  <2>1. \A k \in Key : files[k] = Nothing
    BY DEF Pass!Init
  <2>2. \A k \in Key : Pass!Stored[k] = "no item"
    BY <2>1, StoresAssumption DEF Pass!PassAssumption, Pass!Stored
  <2> QED
    BY <2>2 DEF Pass!Stored
<1>2. Pass!DueNow = [c \in Client |-> Error]
  <2>1. \A c \in Client : pc[c] = "idle"
    BY DEF Pass!Init
  <2>2. \A c \in Client : Pass!DueNow[c] = Error
    BY <2>1, PassWords DEF Pass!DueNow
  <2> QED
    BY <2>2 DEF Pass!DueNow
<1> QED
  BY <1>1, <1>2, PassContractWords, PassWords DEF Pass!Init, Pass!C!CInit

-----------------------------------------------------------------------------
(* The theorems                                                             *)

StoresInv ==
  /\ backend \in {"pass", "wincred", "kwallet"}
  /\ backend = "pass" => PassInv
  /\ backend = "wincred" => CredInv
  /\ backend = "kwallet" => WalletInv

LEMMA StoresInit == Init => StoresInv
  BY PassInit, CredInit, WalletInit DEF Init, StoresInv

\* The step of a behaviour is one of its backend.
LEMMA StepOfBackend ==
  ASSUME [Next]_vars
  PROVE  /\ backend = "pass" => [Pass!Next]_(Pass!vars)
         /\ backend = "wincred" => [Cred!Next]_(Cred!vars)
         /\ backend = "kwallet" => [Wallet!Next]_(Wallet!vars)
         /\ UNCHANGED backend
  BY DEF Next, vars, passVars, credVars, walletVars, Pass!vars, Cred!vars, Wallet!vars

LEMMA StoresNext == StoresInv /\ [Next]_vars => StoresInv'
<1> SUFFICES ASSUME StoresInv, [Next]_vars PROVE StoresInv'
  OBVIOUS
<1>1. UNCHANGED backend
  BY StepOfBackend
<1>2. CASE backend = "pass"
  BY <1>1, <1>2, StepOfBackend, PassNext DEF StoresInv
<1>3. CASE backend = "wincred"
  BY <1>1, <1>3, StepOfBackend, CredNext DEF StoresInv
<1>4. CASE backend = "kwallet"
  BY <1>1, <1>4, StepOfBackend, WalletNext DEF StoresInv
<1> QED
  BY <1>2, <1>3, <1>4 DEF StoresInv

\* The three backends keep their variables in their types, for any processes, keys,
\* items, services and faults: a walk visits only directories and files of keys
\* (pass.go:143), a listing of credentials answers only ends of names (wincred.go:88).
THEOREM Typing == Spec => []TypeOK
<1>1. StoresInv => TypeOK
  BY DEF StoresInv, TypeOK, PassInv, CredInv, WalletInv
<1> QED
  BY <1>1, StoresInit, StoresNext, PTL DEF Spec

\* The directory of pass keeps the promises of the Keyring interface
\* (keyring.go:114-125), for any number of processes, although it is looked at and
\* used in separate steps (pass.go:74, 114): Keys may miss keys, GetMetadata finds
\* every key, and only a stat that fails hides an item that is there (pass.go:132).
THEOREM PassContractHolds == DataApart => (Spec => PassContract)
<1> SUFFICES ASSUME DataApart PROVE Spec => PassContract
  OBVIOUS
<1>1. Init => (backend = "pass" => Pass!C!CInit)
  BY PassInitRefines DEF Init
<1>2. StoresInv /\ [Next]_vars
        => [backend = "pass" => [Pass!ContractStep]_<<Pass!Stored, call, Pass!DueNow>>]_vars
  BY StepOfBackend, PassRefines DEF StoresInv
<1> QED
  BY <1>1, <1>2, StoresInit, StoresNext, PTL DEF Spec, PassContract

\* The Credential Manager keeps the promises of the Keyring interface
\* (keyring.go:114-125) to the processes of one service, whatever colons its name
\* and its keys have: a credential that goes between the two calls of Remove makes
\* it fail (wincred.go:71-78), and only a listing that fails leaves keys out
\* (wincred.go:84).
THEOREM WinCredContractHolds == DataApart => (Spec => WinCredContract)
<1> SUFFICES ASSUME DataApart PROVE Spec => WinCredContract
  OBVIOUS
<1>1. Init => (backend = "wincred" => Cred!C!CInit)
  BY CredInitRefines DEF Init
<1>2. StoresInv /\ [Next]_vars
        => [backend = "wincred" => [Cred!ContractStep]_<<Cred!Stored, call, Cred!DueNow>>]_vars
  BY StepOfBackend, CredRefines DEF StoresInv
<1> QED
  BY <1>1, <1>2, StoresInit, StoresNext, PTL DEF Spec, WinCredContract

\* Whatever names and keys have colons in them, no call of one service reads, lists
\* or changes the credentials of another, unless the name of one service begins
\* with that of the other (wincred.go:96-98).
THEOREM ServicesApartHold == Spec => ServicesApart
<1>1. StoresInv => (backend = "wincred" => Cred!ApartStep)
  BY CredApart DEF StoresInv
<1>2. StoresInv /\ [Next]_vars => [backend = "wincred" => Cred!ApartStep]_vars
  BY <1>1
<1> QED
  BY <1>2, StoresInit, StoresNext, PTL DEF Spec, ServicesApart

\* A wallet that is open keeps the promises of the Keyring interface
\* (keyring.go:114-125), for any number of processes; only calls on a wallet that
\* closed after the check (kwallet.go:67) or was never opened, or a change that is
\* refused, are answered as if they had been done (kwallet.go:127, 141).
THEOREM KWalletContractHolds == DataApart => (Spec => KWalletContract)
<1> SUFFICES ASSUME DataApart PROVE Spec => KWalletContract
  OBVIOUS
<1>1. Init => (backend = "kwallet" => Wallet!C!CInit)
  BY WalletInitRefines DEF Init
<1>2. StoresInv /\ [Next]_vars
        => [backend = "kwallet" => [Wallet!ContractStep]_<<Wallet!Stored, call, Wallet!DueNow>>]_vars
  BY StepOfBackend, WalletRefines DEF StoresInv
<1> QED
  BY <1>1, <1>2, StoresInit, StoresNext, PTL DEF Spec, KWalletContract
=============================================================================
