----------------------------- MODULE FileKeyring -----------------------------
(***************************************************************************)
(* The file backend (file.go): one encrypted file per key in a directory   *)
(* that several processes share, each through a fileKeyring value of its   *)
(* own.  Nothing coordinates them: no lock file, no temporary file and     *)
(* rename, and the passphrase a user types is checked against nothing.     *)
(*                                                                         *)
(* A step is one system call or one prompt.  File names are left out: the  *)
(* escaping of '/' and '%' (file.go:27-30) is injective, so a key stands   *)
(* for its file.  One directory read is one step: it holds the directory's *)
(* lock for the 8 KiB of entries that one getdents call returns.           *)
(***************************************************************************)
EXTENDS KeyringCalls

CONSTANTS Client,         \* processes, each with its own fileKeyring
          Passphrase,     \* what users type, mistyped ones included
          NoPassphrase,   \* "", the value of an unset password field
          Cancel,         \* passwordFunc returns an error
          Answers,        \* what a prompt may return
          Absent,         \* no file
          Empty, Torn,    \* a file without bytes; one that no passphrase decodes
          ExclusiveSets,  \* callers never overlap two Sets of one key
          Faults          \* which of "io", "readdir", "crash" may happen

Password == Passphrase \cup {NoPassphrase}
Token    == [data : Data, pass : Password]   \* a jose token and its passphrase
Broken   == {Empty, Torn}
Contents == Token \cup Broken \cup {Absent}

ASSUME FileAssumption ==
  /\ NoPassphrase \notin Passphrase
  /\ Cancel \notin Password
  /\ Answers \subseteq Password \cup {Cancel}
  /\ Empty # Torn /\ Absent \notin Broken
  /\ (Broken \cup {Absent}) \cap Token = {}
  /\ ExclusiveSets \in BOOLEAN
  /\ Faults \subseteq {"io", "readdir", "crash"}

VARIABLES made,      \* the directory exists
          file,      \* its files, by key
          password,  \* fileKeyring.password, by client
          call,      \* the call a client is in, or Idle
          pc,        \* the next step of that call
          buf,       \* what a Get has read
          linked,    \* the file a Set has opened is still the key's file
          result,    \* what the call is about to return
          acked      \* history: <<c, k>> if k holds what c was told it stored

vars == <<made, file, password, call, pc, buf, linked, result, acked>>

PCs == {"idle", "read", "decode", "stat", "unlock", "open", "write",
        "remove", "list", "return"}

TypeOK ==
  /\ made \in BOOLEAN
  /\ file \in [Key -> Contents]
  /\ password \in [Client -> Password]
  /\ call \in [Client -> Calls \cup {Idle}]
  /\ pc \in [Client -> PCs]
  /\ buf \in [Client -> Contents]
  /\ linked \in [Client -> BOOLEAN]
  /\ result \in [Client -> Replies]
  /\ acked \subseteq Client \X Key

Init ==
  /\ made = FALSE
  /\ file = [k \in Key |-> Absent]
  /\ password = [c \in Client |-> NoPassphrase]
  /\ call = [c \in Client |-> Idle]
  /\ pc = [c \in Client |-> "idle"]
  /\ buf = [c \in Client |-> Absent]
  /\ linked = [c \in Client |-> FALSE]
  /\ result = [c \in Client |-> Error]
  /\ acked = {}

-----------------------------------------------------------------------------
FirstStep(op) == CASE op = "Get" -> "read"
                   [] op = "GetMetadata" -> "stat"
                   [] op = "Set" -> "unlock"
                   [] op = "Remove" -> "remove"
                   [] op = "Keys" -> "list"

SetPending(k) == \E d \in Client : IsSetOf(call[d], k)

Call(c) ==
  /\ pc[c] = "idle"
  /\ \E cl \in Calls :
       /\ ExclusiveSets => \A k \in Key : IsSetOf(cl, k) => ~SetPending(k)
       /\ call' = [call EXCEPT ![c] = cl]
       /\ pc' = [pc EXCEPT ![c] = FirstStep(cl.op)]
  /\ UNCHANGED <<made, file, password, buf, linked, result, acked>>

Reply(c, r) == /\ pc' = [pc EXCEPT ![c] = "return"]
               /\ result' = [result EXCEPT ![c] = r]

\* resolveDir creates the directory that every method starts from.
ResolveDir == made' = TRUE

\* Mutant: a truncated file is taken for an absent one.
GetAbsentOrEmpty(c) ==
  /\ pc[c] = "read" /\ file[call[c].key] \in {Absent, Empty}
  /\ ResolveDir
  /\ Reply(c, NotFound)
  /\ UNCHANGED <<file, password, call, buf, linked, acked>>

\* Get reads the file before it asks for a passphrase.
GetAbsent(c) ==
  /\ pc[c] = "read" /\ file[call[c].key] = Absent
  /\ ResolveDir
  /\ Reply(c, NotFound)
  /\ UNCHANGED <<file, password, call, buf, linked, acked>>

GetRead(c) ==
  /\ pc[c] = "read" /\ file[call[c].key] # Absent
  /\ ResolveDir
  /\ buf' = [buf EXCEPT ![c] = file[call[c].key]]
  /\ pc' = [pc EXCEPT ![c] = "unlock"]
  /\ UNCHANGED <<file, password, call, linked, result, acked>>

AfterUnlock(c) == pc' = [pc EXCEPT ![c] = IF call[c].op = "Get" THEN "decode" ELSE "open"]

\* Mutant: the error of passwordFunc is dropped.
PromptIgnoringError(c) ==
  /\ pc[c] = "unlock" /\ password[c] = NoPassphrase
  /\ ResolveDir
  /\ \E a \in Answers : password' = [password EXCEPT ![c] = a]
  /\ AfterUnlock(c)
  /\ UNCHANGED <<file, call, buf, linked, result, acked>>

\* unlock prompts only while the field is "", and keeps any answer unchecked.
Prompt(c) ==
  /\ pc[c] = "unlock" /\ password[c] = NoPassphrase
  /\ ResolveDir
  /\ \E a \in Answers \ {Cancel} : password' = [password EXCEPT ![c] = a]
  /\ AfterUnlock(c)
  /\ UNCHANGED <<file, call, buf, linked, result, acked>>

PromptCancelled(c) ==
  /\ pc[c] = "unlock" /\ password[c] = NoPassphrase /\ Cancel \in Answers
  /\ ResolveDir
  /\ Reply(c, Error)
  /\ UNCHANGED <<file, password, call, buf, linked, acked>>

\* Mutant: every call prompts, and the last answer is kept.
UnlockedAskingAgain(c) ==
  /\ pc[c] = "unlock" /\ password[c] # NoPassphrase
  /\ ResolveDir
  /\ \E a \in Answers \ {Cancel} : password' = [password EXCEPT ![c] = a]
  /\ AfterUnlock(c)
  /\ UNCHANGED <<file, call, buf, linked, result, acked>>

Unlocked(c) ==
  /\ pc[c] = "unlock" /\ password[c] # NoPassphrase
  /\ ResolveDir
  /\ AfterUnlock(c)
  /\ UNCHANGED <<file, password, call, buf, linked, result, acked>>

\* Mutant: an item that does not decode is reported as not found.
DecodeOrNotFound(token, pass) ==
  IF token \notin Broken /\ token.pass = pass THEN Found(token.data) ELSE NotFound

Decode(token, pass) == IF token \notin Broken /\ token.pass = pass THEN Found(token.data) ELSE Error

GetDecode(c) ==
  /\ pc[c] = "decode"
  /\ Reply(c, Decode(buf[c], password[c]))
  /\ UNCHANGED <<made, file, password, call, buf, linked, acked>>

GetMetadata(c) ==
  /\ pc[c] = "stat"
  /\ ResolveDir
  /\ Reply(c, IF file[call[c].key] = Absent THEN NotFound ELSE Ok)
  /\ UNCHANGED <<file, password, call, buf, linked, acked>>

\* What was stored under k no longer counts; c's open file is the key's file.
Supersede(c, k) ==
  /\ acked' = {p \in acked : p[2] # k}
  /\ linked' = [d \in Client |-> IF d = c THEN TRUE
                  ELSE linked[d] /\ ~(pc[d] = "return" /\ IsSetOf(call[d], k))]

\* Mutant: Sets take turns under a lock that nobody queues for.
SetOpenLocked(c) ==
  /\ pc[c] = "open" /\ \A d \in Client : pc[d] # "write"
  /\ ResolveDir
  /\ file' = [file EXCEPT ![call[c].key] = Empty]
  /\ Supersede(c, call[c].key)
  /\ pc' = [pc EXCEPT ![c] = "write"]
  /\ UNCHANGED <<password, call, buf, result>>

\* os.WriteFile opens with O_CREATE|O_TRUNC, so the old item is gone here ...
SetOpen(c) ==
  /\ pc[c] = "open"
  /\ ResolveDir
  /\ file' = [file EXCEPT ![call[c].key] = Empty]
  /\ Supersede(c, call[c].key)
  /\ pc' = [pc EXCEPT ![c] = "write"]
  /\ UNCHANGED <<password, call, buf, result>>

Encrypt(c) == [data |-> call[c].data, pass |-> password[c]]

\* The file is still as this Set truncated it: nobody has written to it.
Fresh(c) == file[call[c].key] = Empty

\* ... and the new one comes here.  Over the bytes of an overlapping Set, whole
\* or not, a shorter token leaves the tail of the longer one.
SetWrite(c) ==
  /\ pc[c] = "write" /\ linked[c]
  /\ \E t \in {Encrypt(c)} \cup (IF Fresh(c) THEN {} ELSE {Torn}) :
       file' = [file EXCEPT ![call[c].key] = t]
  /\ Supersede(c, call[c].key)
  /\ Reply(c, Ok)
  /\ UNCHANGED <<made, password, call, buf>>

\* The open file has been removed from the directory: the bytes go nowhere.
SetWriteUnlinked(c) ==
  /\ pc[c] = "write" /\ ~linked[c]
  /\ Reply(c, Ok)
  /\ UNCHANGED <<made, file, password, call, buf, linked, acked>>

RemoveAbsent(c) ==
  /\ pc[c] = "remove" /\ file[call[c].key] = Absent
  /\ ResolveDir
  /\ Reply(c, Error)   \* the raw error of os.Remove, not ErrKeyNotFound
  /\ UNCHANGED <<file, password, call, buf, linked, acked>>

Remove(c) ==
  /\ pc[c] = "remove" /\ file[call[c].key] # Absent
  /\ ResolveDir
  /\ file' = [file EXCEPT ![call[c].key] = Absent]
  /\ linked' = [d \in Client |-> linked[d] /\ ~IsSetOf(call[d], call[c].key)]
  /\ acked' = {p \in acked : p[2] # call[c].key}
  /\ Reply(c, Ok)
  /\ UNCHANGED <<password, call, buf>>

Listed == {k \in Key : file[k] # Absent}

Keys(c) ==
  /\ pc[c] = "list"
  /\ ResolveDir
  /\ Reply(c, Listing(Listed))
  /\ UNCHANGED <<file, password, call, buf, linked, acked>>

\* The error of os.ReadDir is dropped (file.go:176): what it read is the answer.
KeysPartial(c) ==
  /\ "readdir" \in Faults /\ pc[c] = "list"
  /\ ResolveDir
  /\ \E S \in SUBSET Listed : Reply(c, Listing(S))
  /\ UNCHANGED <<file, password, call, buf, linked, acked>>

Return(c) ==
  /\ pc[c] = "return"
  /\ call' = [call EXCEPT ![c] = Idle]
  /\ pc' = [pc EXCEPT ![c] = "idle"]
  /\ buf' = [buf EXCEPT ![c] = Absent]
  /\ result' = [result EXCEPT ![c] = Error]
  /\ linked' = [linked EXCEPT ![c] = FALSE]
  /\ acked' = acked \cup {<<c, k>> : k \in {k \in Key :
                 /\ IsSetOf(call[c], k) /\ result[c] = Ok /\ linked[c]
                 /\ password[c] # NoPassphrase}}
  /\ UNCHANGED <<made, file, password>>

-----------------------------------------------------------------------------
\* A system call fails.  A failed write may have written nothing, a part, or
\* everything (the error of close).
IOError(c) ==
  /\ "io" \in Faults /\ pc[c] \in PCs \ {"idle", "write", "decode", "return"}
  /\ Reply(c, Error)
  /\ made' \in {made, TRUE}
  /\ UNCHANGED <<file, password, call, buf, linked, acked>>

WriteError(c) ==
  /\ "io" \in Faults /\ pc[c] = "write"
  /\ \E t \in {file[call[c].key], Torn, Encrypt(c)} :
       file' = IF linked[c] THEN [file EXCEPT ![call[c].key] = t] ELSE file
  /\ IF linked[c] THEN Supersede(c, call[c].key) ELSE UNCHANGED <<linked, acked>>
  /\ Reply(c, Error)
  /\ UNCHANGED <<made, password, call, buf>>

\* The process ends, in a call or between two; a new one opens the keyring.
Restart(c) ==
  /\ "crash" \in Faults
  /\ call' = [call EXCEPT ![c] = Idle]
  /\ pc' = [pc EXCEPT ![c] = "idle"]
  /\ password' = [password EXCEPT ![c] = NoPassphrase]
  /\ buf' = [buf EXCEPT ![c] = Absent]
  /\ result' = [result EXCEPT ![c] = Error]
  /\ linked' = [linked EXCEPT ![c] = FALSE]
  /\ acked' = {p \in acked : p[1] # c}
  /\ UNCHANGED <<made, file>>

-----------------------------------------------------------------------------
Step(c) == \/ GetAbsent(c) \/ GetRead(c) \/ GetDecode(c) \/ GetMetadata(c)
           \/ Prompt(c) \/ PromptCancelled(c) \/ Unlocked(c)
           \/ SetOpen(c) \/ SetWrite(c) \/ SetWriteUnlinked(c)
           \/ RemoveAbsent(c) \/ Remove(c) \/ Keys(c) \/ KeysPartial(c)
           \/ Return(c)

Next == \E c \in Client :
          \/ Call(c) \/ Step(c) \/ IOError(c) \/ WriteError(c) \/ Restart(c)

Spec == Init /\ [][Next]_vars

\* A process that runs gets to its next system call, and a user who is asked
\* answers.  Nothing obliges a program to call, a fault to happen or not to.
FairSpec == Spec /\ \A c \in Client : WF_vars(Step(c))

-----------------------------------------------------------------------------
\* How a key's file and a client's step show in the contract.  A Get is due
\* the item it has read; a Set whose file was removed is already answered.
Item(content) == CASE content = Absent -> "no item"
                   [] content \in Broken -> "damaged"
                   [] OTHER -> content.data

Due(c) == CASE pc[c] \in {"unlock", "decode"} /\ call[c].op = "Get" ->
                 (IF buf[c] \in Broken THEN Error ELSE Found(buf[c].data))
            [] pc[c] = "write" /\ ~linked[c] -> Ok
            [] pc[c] = "return" -> result[c]
            [] OTHER -> Error

Stored == [k \in Key |-> Item(file[k])]
DueNow == [c \in Client |-> Due(c)]

C == INSTANCE KeyringContract
       WITH items <- Stored, due <- DueNow,
            NoItem <- "no item", Damaged <- "damaged", Weak <- {}
W == INSTANCE KeyringContract
       WITH items <- Stored, due <- DueNow,
            NoItem <- "no item", Damaged <- "damaged", Weak <- {"torn", "list"}

\* Seen through Item and Due, the shared directory is a store with the promises
\* of the Keyring interface (keyring.go:114-125): each call takes effect at one
\* instant, a Get answers what was stored and never reports a present key as
\* absent, an acknowledged Set has replaced the item, Keys lists what is there.
\* It needs ExclusiveSets, and a directory that can be read.
Contract == C!CSpec

\* What is left of it with any callers and any fault: the bytes of overlapping
\* Sets (file.go:148) may not decode and Keys (file.go:176) may leave keys out,
\* but no Get answers another item or reports a present key as absent, no other
\* key is touched, and Keys lists no key that is not there.
WeakContract == W!CSpec

\* The last acknowledged Set of a key stays readable by the client that made
\* it: until another Set or a Remove of the key, the file decodes under the
\* passphrase that this client's unlock (file.go:56-71) has kept.  A client that
\* was answered "" is left out: unlock asks it again and may hear otherwise.
ReadYourWrites ==
  \A p \in acked : LET t == file[p[2]] IN
    t \in Token /\ t.pass = password[p[1]] /\ t.pass # NoPassphrase

\* Every call returns: none of the steps of file.go waits for another client.
EveryCallReturns == \A c \in Client : call[c] # Idle ~> call[c] = Idle
=============================================================================
