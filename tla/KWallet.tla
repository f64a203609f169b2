-------------------------------- MODULE KWallet --------------------------------
(***************************************************************************)
(* The KWallet backend (kwallet.go): processes keep items in a folder of a *)
(* wallet, over D-Bus.  The wallet opens when the person allows it, and a  *)
(* process keeps the handle it was given between calls; it asks whether    *)
(* the wallet is open at the start of each.  A step is one D-Bus call.     *)
(*                                                                         *)
(* The daemon is external: a refusal to open is the handle -1 and no       *)
(* error; with a handle that is not open, reads and lists are empty and    *)
(* writes and removals answer a code, which the code does not look at.     *)
(***************************************************************************)
EXTENDS KeyringCalls

CONSTANTS Client, NoEntry,
          Faults    \* which of "dbus", "refuse", "close", "write" may happen

KWalletAssumption ==
  NoEntry \notin Data /\ Faults \subseteq {"dbus", "refuse", "close", "write"}

VARIABLES entries,   \* the folder
          valid,     \* processes whose handle is open
          call, pc, result

vars == <<entries, valid, call, pc, result>>

PCs == {"closed", "opening", "idle", "metadata", "check", "open",
        "read", "write", "remove", "list", "return"}

TypeOK ==
  /\ entries \in [Key -> Data \cup {NoEntry}]
  /\ valid \subseteq Client
  /\ call \in [Client -> Calls \cup {Idle}] /\ pc \in [Client -> PCs]
  /\ result \in [Client -> Replies]

Init ==
  /\ entries = [k \in Key |-> NoEntry]
  /\ valid = {}
  /\ call = [c \in Client |-> Idle] /\ pc = [c \in Client |-> "closed"]
  /\ result = [c \in Client |-> Error]

-----------------------------------------------------------------------------
Go(c, step) == pc' = [pc EXCEPT ![c] = step]

Reply(c, r) == Go(c, "return") /\ result' = [result EXCEPT ![c] = r]

\* The opener, too, asks and opens: handle 0 is that of no wallet.
Opener(c) ==
  /\ pc[c] = "closed"
  /\ Go(c, "opening")
  /\ UNCHANGED <<entries, valid, call, result>>

Call(c) ==
  /\ pc[c] = "idle"
  /\ \E cl \in Calls : /\ call' = [call EXCEPT ![c] = cl]
                       /\ Go(c, IF cl.op = "GetMetadata" THEN "metadata" ELSE "check")
  /\ UNCHANGED <<entries, valid, result>>

GetMetadata(c) ==
  /\ pc[c] = "metadata"
  /\ Reply(c, Error)   \* ErrMetadataNeedsCredentials
  /\ UNCHANGED <<entries, valid, call>>

AfterOpen(c) == CASE pc[c] = "opening" -> "idle"
                  [] call[c].op = "Get" -> "read"
                  [] call[c].op = "Set" -> "write"
                  [] call[c].op = "Remove" -> "remove"
                  [] call[c].op = "Keys" -> "list"

IsOpen(c) ==
  /\ pc[c] = "check"
  /\ Go(c, IF c \in valid THEN AfterOpen(c) ELSE "open")
  /\ UNCHANGED <<entries, valid, call, result>>

\* The person allows it, or does not: there is a handle either way.
Open(c) ==
  /\ pc[c] \in {"opening", "open"}
  /\ \/ valid' = valid \cup {c}
     \/ "refuse" \in Faults /\ UNCHANGED valid
  /\ Go(c, AfterOpen(c))
  /\ UNCHANGED <<entries, call, result>>

\* Empty data is taken for a missing key.
Read(c) ==
  /\ pc[c] = "read"
  /\ Reply(c, IF c \in valid /\ entries[call[c].key] # NoEntry
              THEN Found(entries[call[c].key]) ELSE NotFound)
  /\ UNCHANGED <<entries, valid, call>>

Write(c) ==
  /\ pc[c] = "write" /\ c \in valid
  /\ entries' = [entries EXCEPT ![call[c].key] = call[c].data]
  /\ Reply(c, Ok)
  /\ UNCHANGED <<valid, call>>

\* A missing key is another code that is dropped.
Remove(c) ==
  /\ pc[c] = "remove" /\ c \in valid
  /\ entries' = [entries EXCEPT ![call[c].key] = NoEntry]
  /\ Reply(c, Ok)
  /\ UNCHANGED <<valid, call>>

\* The wallet was closed after the check or never opened, or it refuses the
\* change: the code in the answer is dropped.
CodeDropped(c) ==
  /\ pc[c] \in {"write", "remove"} /\ (c \notin valid \/ "write" \in Faults)
  /\ Reply(c, Ok)
  /\ UNCHANGED <<entries, valid, call>>

Keys(c) ==
  /\ pc[c] = "list"
  /\ Reply(c, Listing({k \in Key : c \in valid /\ entries[k] # NoEntry}))
  /\ UNCHANGED <<entries, valid, call>>

\* The call did not get through, or its answer did not come back.
Lost(c) == entries' \in {entries} \cup
             CASE pc[c] = "write"  -> {[entries EXCEPT ![call[c].key] = call[c].data]}
               [] pc[c] = "remove" -> {[entries EXCEPT ![call[c].key] = NoEntry]}
               [] OTHER            -> {}

\* Mutant: the error of readEntry is dropped, and there are no data.
DBusErrorDropped(c) ==
  /\ "dbus" \in Faults
  /\ \/ /\ pc[c] \in {"check", "open", "read", "write", "remove", "list"}
        /\ Lost(c)
        /\ Reply(c, IF pc[c] = "read" THEN NotFound ELSE Error)
     \/ pc[c] = "opening" /\ Go(c, "closed") /\ UNCHANGED <<entries, result>>
  /\ UNCHANGED <<valid, call>>

DBusError(c) ==
  /\ "dbus" \in Faults
  /\ \/ /\ pc[c] \in {"check", "open", "read", "write", "remove", "list"}
        /\ Lost(c)
        /\ Reply(c, Error)
     \/ pc[c] = "opening" /\ Go(c, "closed") /\ UNCHANGED <<entries, result>>
  /\ UNCHANGED <<valid, call>>

Return(c) ==
  /\ pc[c] = "return"
  /\ Go(c, "idle")
  /\ call' = [call EXCEPT ![c] = Idle] /\ result' = [result EXCEPT ![c] = Error]
  /\ UNCHANGED <<entries, valid>>

\* The person, or an idle timer, closes the wallet for everybody.
CloseWallet ==
  /\ "close" \in Faults /\ valid # {}
  /\ valid' = {}
  /\ UNCHANGED <<entries, call, pc, result>>

Next ==
  \/ \E c \in Client :
       \/ Opener(c) \/ Call(c) \/ GetMetadata(c) \/ IsOpen(c) \/ Open(c) \/ Read(c) \/ Write(c)
       \/ Remove(c) \/ CodeDropped(c) \/ Keys(c) \/ DBusError(c) \/ Return(c)
  \/ CloseWallet

Spec == Init /\ [][Next]_vars

-----------------------------------------------------------------------------
Stored == [k \in Key |-> IF entries[k] = NoEntry THEN "no item" ELSE entries[k]]
DueNow == [c \in Client |-> IF pc[c] = "return" THEN result[c] ELSE Error]

C == INSTANCE KeyringContract
       WITH items <- Stored, due <- DueNow,
            NoItem <- "no item", Damaged <- "damaged", Weak <- {"again"}
W == INSTANCE KeyringContract
       WITH items <- Stored, due <- DueNow,
            NoItem <- "no item", Damaged <- "damaged", Weak <- {"again", "unseen", "list", "dropped"}

\* A call works on a wallet that is not open, or its change is refused.
Unheeded(c) == CodeDropped(c) \/ (c \notin valid /\ (Read(c) \/ Keys(c)))

\* While its handle is open, a process has the store of the Keyring interface
\* (keyring.go:114-125), but for a Remove of a missing key, which succeeds.  Only
\* after a refusal, or when the wallet closes between the check (kwallet.go:67) and
\* the use, does a key seem missing, and a Set or Remove do nothing and succeed
\* (lines 127, 141); even then no call answers an item that is not there.
ContractStep == IF \E c \in Client : Unheeded(c) THEN W!CNext ELSE C!CNext
Contract == C!CInit /\ [][ContractStep]_<<Stored, call, DueNow>>
=============================================================================
