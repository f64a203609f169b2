------------------------------ MODULE PassKeyring ------------------------------
(***************************************************************************)
(* The pass and passage backends (pass.go, passage.go): an encrypted file  *)
(* for each key below a directory that processes share.  The code looks at *)
(* the files itself, to find out whether an item exists and to list them,  *)
(* and leaves the rest to the program pass or passage, which is external:  *)
(* a run of it does its work in one step, or fails and may have left the   *)
(* file undone, done or damaged.  A key is its path, a sequence of names.  *)
(***************************************************************************)
EXTENDS KeyringCalls, SequencesExt

CONSTANTS Client, Absent, Damaged,
          Faults    \* which of "stat", "run" may happen

PassAssumption ==
  /\ \A k \in Key : k \in Seq(Range(k)) /\ k # <<>>
  /\ Absent \notin Data /\ Damaged \notin Data /\ Absent # Damaged
  /\ Faults \subseteq {"stat", "run"}

VARIABLES files,          \* by key
          visit,          \* Keys: entries that the walk has still to visit
          found,          \* Keys: what it has visited
          call, pc, result

vars == <<files, visit, found, call, pc, result>>

PCs == {"idle", "metadata", "stat", "show", "rm", "insert", "root", "walk", "return"}

Paths == UNION {{SubSeq(k, 1, n) : n \in 1..Len(k)} : k \in Key}
Entry == [type : {"file", "dir"}, path : Paths]

TypeOK ==
  /\ files \in [Key -> Data \cup {Absent, Damaged}]
  /\ visit \in [Client -> SUBSET Entry] /\ found \in [Client -> SUBSET Key]
  /\ call \in [Client -> Calls \cup {Idle}] /\ pc \in [Client -> PCs]
  /\ result \in [Client -> Replies]

Init ==
  /\ files = [k \in Key |-> Absent]
  /\ visit = [c \in Client |-> {}] /\ found = [c \in Client |-> {}]
  /\ call = [c \in Client |-> Idle] /\ pc = [c \in Client |-> "idle"]
  /\ result = [c \in Client |-> Error]

-----------------------------------------------------------------------------
Go(c, step) == pc' = [pc EXCEPT ![c] = step]

Reply(c, r) == Go(c, "return") /\ result' = [result EXCEPT ![c] = r]

FirstStep(op) == CASE op \in {"Get", "Remove"} -> "stat"
                   [] op = "Set" -> "insert"
                   [] op = "Keys" -> "root"
                   [] op = "GetMetadata" -> "metadata"

Call(c) ==
  /\ pc[c] = "idle"
  /\ \E cl \in Calls : call' = [call EXCEPT ![c] = cl] /\ Go(c, FirstStep(cl.op))
  /\ UNCHANGED <<files, visit, found, result>>

\* An empty Metadata and a nil error, whether the key exists or not.
GetMetadata(c) ==
  /\ pc[c] = "metadata"
  /\ Reply(c, Ok)
  /\ UNCHANGED <<files, visit, found, call>>

Exists(k) == files[k] # Absent

ItemExists(c) ==
  /\ pc[c] = "stat"
  /\ IF Exists(call[c].key)
     THEN Go(c, IF call[c].op = "Get" THEN "show" ELSE "rm") /\ UNCHANGED result
     ELSE Reply(c, NotFound)
  /\ UNCHANGED <<files, visit, found, call>>

\* Whatever error the stat has, the item does not exist.
StatFails(c) ==
  /\ "stat" \in Faults /\ pc[c] = "stat"
  /\ Reply(c, NotFound)
  /\ UNCHANGED <<files, visit, found, call>>

\* Mutant: the error of json.Unmarshal is dropped.
ShowUndecoded(c) ==
  /\ pc[c] = "show"
  /\ Reply(c, IF Exists(call[c].key) THEN Found(files[call[c].key]) ELSE Error)
  /\ UNCHANGED <<files, visit, found, call>>

Show(c) ==
  /\ pc[c] = "show"
  /\ Reply(c, IF files[call[c].key] \in Data THEN Found(files[call[c].key]) ELSE Error)
  /\ UNCHANGED <<files, visit, found, call>>

Insert(c) ==
  /\ pc[c] = "insert"
  /\ files' = [files EXCEPT ![call[c].key] = call[c].data]
  /\ Reply(c, Ok)
  /\ UNCHANGED <<visit, found, call>>

\* pass rm fails if the file has gone.
Rm(c) ==
  /\ pc[c] = "rm"
  /\ Reply(c, IF Exists(call[c].key) THEN Ok ELSE Error)
  /\ files' = [files EXCEPT ![call[c].key] = Absent]
  /\ UNCHANGED <<visit, found, call>>

-----------------------------------------------------------------------------
\* What a directory holds: pass removes directories that have become empty.
Below(dir) == {k \in Key : Exists(k) /\ IsStrictPrefix(dir, k)}
Listing1(dir) ==
  {[type |-> "file", path |-> k] : k \in {k \in Below(dir) : Len(k) = Len(dir) + 1}}
    \cup {[type |-> "dir", path |-> SubSeq(k, 1, Len(dir) + 1)] :
            k \in {k \in Below(dir) : Len(k) > Len(dir) + 1}}

\* No directory, no keys.
Keys(c) ==
  /\ pc[c] = "root"
  /\ visit' = [visit EXCEPT ![c] = Listing1(<<>>)]
  /\ Go(c, "walk")
  /\ UNCHANGED <<files, found, call, result>>

\* Mutant: an entry that has gone since its directory was read is listed.
VisitUnlooked(c) ==
  /\ pc[c] = "walk"
  /\ \E e \in visit[c] :
       /\ visit' = [visit EXCEPT ![c] = (@ \ {e}) \cup
                      (IF e.type = "dir" THEN Listing1(e.path) ELSE {})]
       /\ found' = [found EXCEPT ![c] = IF e.type = "file" THEN @ \cup {e.path} ELSE @]
  /\ UNCHANGED <<files, call, pc, result>>

\* filepath.Walk looks at each entry again and reads a directory when it gets
\* there; one that has gone ends the walk.
Visit(c) ==
  /\ pc[c] = "walk"
  /\ \E e \in visit[c] :
       \/ /\ e.type = "file" /\ Exists(e.path)
          /\ visit' = [visit EXCEPT ![c] = @ \ {e}]
          /\ found' = [found EXCEPT ![c] = @ \cup {e.path}]
          /\ UNCHANGED <<pc, result>>
       \/ /\ e.type = "dir" /\ Below(e.path) # {}
          /\ visit' = [visit EXCEPT ![c] = (@ \ {e}) \cup Listing1(e.path)]
          /\ UNCHANGED <<found, pc, result>>
       \/ /\ IF e.type = "file" THEN ~Exists(e.path) ELSE Below(e.path) = {}
          /\ Reply(c, Error)
          /\ UNCHANGED <<visit, found>>
  /\ UNCHANGED <<files, call>>

WalkEnds(c) ==
  /\ pc[c] = "walk" /\ visit[c] = {}
  /\ Reply(c, Listing(found[c]))
  /\ UNCHANGED <<files, visit, found, call>>

\* The program fails, as far as it has got; so may a stat or a read of the walk.
RunFails(c) ==
  /\ "run" \in Faults /\ pc[c] \in {"show", "insert", "rm", "root", "walk"}
  /\ files' \in CASE pc[c] = "insert" ->
                       {files} \cup {[files EXCEPT ![call[c].key] = v] : v \in {call[c].data, Damaged}}
                  [] pc[c] = "rm" -> {files, [files EXCEPT ![call[c].key] = Absent]}
                  [] OTHER -> {files}
  /\ Reply(c, Error)
  /\ UNCHANGED <<visit, found, call>>

Return(c) ==
  /\ pc[c] = "return"
  /\ Go(c, "idle")
  /\ call' = [call EXCEPT ![c] = Idle] /\ result' = [result EXCEPT ![c] = Error]
  /\ visit' = [visit EXCEPT ![c] = {}] /\ found' = [found EXCEPT ![c] = {}]
  /\ UNCHANGED files

Next == \E c \in Client :
          \/ Call(c) \/ GetMetadata(c) \/ ItemExists(c) \/ StatFails(c) \/ Show(c)
          \/ Insert(c) \/ Rm(c) \/ Keys(c) \/ Visit(c) \/ WalkEnds(c)
          \/ RunFails(c) \/ Return(c)

Spec == Init /\ [][Next]_vars

-----------------------------------------------------------------------------
Stored == [k \in Key |-> CASE files[k] = Absent -> "no item"
                           [] files[k] = Damaged -> "damaged"
                           [] OTHER -> files[k]]

DueNow == [c \in Client |-> CASE pc[c] = "return" -> result[c]
                              [] pc[c] = "walk" -> Listing(found[c])
                              [] OTHER -> Error]

C == INSTANCE KeyringContract
       WITH items <- Stored, due <- DueNow,
            NoItem <- "no item", Damaged <- "damaged", Weak <- {"stat", "list"}
W == INSTANCE KeyringContract
       WITH items <- Stored, due <- DueNow,
            NoItem <- "no item", Damaged <- "damaged", Weak <- {"stat", "list", "unseen", "absent"}

\* The directory is a store with the promises of the Keyring interface
\* (keyring.go:114-125) although an item is looked for and then used in two steps
\* (pass.go:74, 114): one that goes or comes in between makes the call fail or
\* answer what is there.  Keys walks the directories one after the other,
\* GetMetadata finds every key (line 91), and only a stat that fails makes an item
\* missing that is there (line 132).
ContractStep == IF \E c \in Client : StatFails(c) THEN W!CNext ELSE C!CNext
Contract == C!CInit /\ [][ContractStep]_<<Stored, call, DueNow>>
=============================================================================
