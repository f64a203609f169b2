-------------------------------- MODULE WinCred --------------------------------
(***************************************************************************)
(* The Windows Credential Manager backend (wincred.go): credentials of the *)
(* person, by name.  A name is prefix, service and key, joined by colons   *)
(* that none of the three escapes; here it is the sequence of the pieces   *)
(* between colons, so that a service or key with a colon in it has several.*)
(* Programs of different services are processes too.  A step is one call   *)
(* of the Credential Manager, which is external.                           *)
(***************************************************************************)
EXTENDS KeyringCalls, SequencesExt

CONSTANTS Client,
          Services,   \* what the services of the processes may be
          NoCred,
          Faults      \* {"cred"}: a call of the Credential Manager may fail

WinCredAssumption ==
  /\ Client # {}
  /\ \A s \in Services : DOMAIN s = Client /\ \A c \in Client : s[c] \in Seq(Range(s[c]))
  /\ \A k \in Key : k \in Seq(Range(k)) /\ k # <<>>
  /\ NoCred \notin Data /\ Faults \subseteq {"cred"}

VARIABLES service,   \* by process
          creds,     \* by name
          call, pc, result

vars == <<service, creds, call, pc, result>>

\* Mutant: the name of a credential leaves the service out.
CredentialNameOfKey(s, k) == k

CredentialName(s, k) == s \o k

Names == {CredentialName(s[c], k) : s \in Services, c \in Client, k \in Key}
Ends  == UNION {{SubSeq(n, i, Len(n)) : i \in 1..Len(n)} : n \in Names}

TypeOK ==
  /\ service \in Services
  /\ creds \in [Names -> Data \cup {NoCred}]
  /\ call \in [Client -> Calls \cup {Idle}]
  /\ pc \in [Client -> {"idle", "get", "metadata", "write", "lookup", "delete", "list", "return"}]
  /\ result \in [Client -> Replies \cup [kind : {"keys"}, keys : SUBSET Ends]]

Init ==
  /\ service \in Services
  /\ creds = [n \in Names |-> NoCred]
  /\ call = [c \in Client |-> Idle] /\ pc = [c \in Client |-> "idle"]
  /\ result = [c \in Client |-> Error]

-----------------------------------------------------------------------------
Go(c, step) == pc' = [pc EXCEPT ![c] = step]

Reply(c, r) == Go(c, "return") /\ result' = [result EXCEPT ![c] = r]

FirstStep(op) == CASE op = "Get" -> "get"
                   [] op = "GetMetadata" -> "metadata"
                   [] op = "Set" -> "write"
                   [] op = "Remove" -> "lookup"
                   [] op = "Keys" -> "list"

Call(c) ==
  /\ pc[c] = "idle"
  /\ \E cl \in Calls : call' = [call EXCEPT ![c] = cl] /\ Go(c, FirstStep(cl.op))
  /\ UNCHANGED <<service, creds, result>>

NameOf(c) == CredentialName(service[c], call[c].key)

Get(c) ==
  /\ pc[c] = "get"
  /\ Reply(c, IF creds[NameOf(c)] = NoCred THEN NotFound ELSE Found(creds[NameOf(c)]))
  /\ UNCHANGED <<service, creds, call>>

GetMetadata(c) ==
  /\ pc[c] = "metadata"
  /\ Reply(c, Error)   \* ErrMetadataNotSupported
  /\ UNCHANGED <<service, creds, call>>

Set(c) ==
  /\ pc[c] = "write"
  /\ creds' = [creds EXCEPT ![NameOf(c)] = call[c].data]
  /\ Reply(c, Ok)
  /\ UNCHANGED <<service, call>>

Lookup(c) ==
  /\ pc[c] = "lookup"
  /\ IF creds[NameOf(c)] = NoCred THEN Reply(c, NotFound) ELSE Go(c, "delete") /\ UNCHANGED result
  /\ UNCHANGED <<service, creds, call>>

\* Mutant: a credential that has gone has been removed all the same.
DeleteAnyway(c) ==
  /\ pc[c] = "delete"
  /\ Reply(c, Ok)
  /\ creds' = [creds EXCEPT ![NameOf(c)] = NoCred]
  /\ UNCHANGED <<service, call>>

\* A credential that has gone since is a raw error, not ErrKeyNotFound.
Delete(c) ==
  /\ pc[c] = "delete"
  /\ Reply(c, IF creds[NameOf(c)] = NoCred THEN Error ELSE Ok)
  /\ creds' = [creds EXCEPT ![NameOf(c)] = NoCred]
  /\ UNCHANGED <<service, call>>

\* The keys that a listing for service s answers: what follows its prefix.
KeysOf(s, cr) ==
  {SubSeq(n, Len(s) + 1, Len(n)) : n \in {m \in Names : cr[m] # NoCred /\ IsStrictPrefix(s, m)}}

Keys(c) ==
  /\ pc[c] = "list"
  /\ Reply(c, Listing(KeysOf(service[c], creds)))
  /\ UNCHANGED <<service, creds, call>>

\* The error of List is dropped.
ListFails(c) ==
  /\ "cred" \in Faults /\ pc[c] = "list"
  /\ Reply(c, Listing({}))
  /\ UNCHANGED <<service, creds, call>>

CredFails(c) ==
  /\ "cred" \in Faults /\ pc[c] \in {"get", "write", "lookup", "delete"}
  /\ Reply(c, Error)
  /\ UNCHANGED <<service, creds, call>>

Return(c) ==
  /\ pc[c] = "return"
  /\ Go(c, "idle")
  /\ call' = [call EXCEPT ![c] = Idle] /\ result' = [result EXCEPT ![c] = Error]
  /\ UNCHANGED <<service, creds>>

Step(c) == \/ Call(c) \/ Get(c) \/ GetMetadata(c) \/ Set(c) \/ Lookup(c) \/ Delete(c)
           \/ Keys(c) \/ ListFails(c) \/ CredFails(c) \/ Return(c)

Next == \E c \in Client : Step(c)

Spec == Init /\ [][Next]_vars

-----------------------------------------------------------------------------
OneService == \A c, d \in Client : service[c] = service[d]

\* What a process can see of the store, and what it would list.
View(c, cr) == [k \in Key |-> cr[CredentialName(service[c], k)]]

Stored == LET v == View(CHOOSE c \in Client : TRUE, creds)
          IN  [k \in Key |-> IF v[k] = NoCred THEN "no item" ELSE v[k]]
DueNow == [c \in Client |-> IF pc[c] = "return" THEN result[c] ELSE Error]

C == INSTANCE KeyringContract
       WITH items <- Stored, due <- DueNow,
            NoItem <- "no item", Damaged <- "damaged", Weak <- {}
W == INSTANCE KeyringContract
       WITH items <- Stored, due <- DueNow,
            NoItem <- "no item", Damaged <- "damaged", Weak <- {"list"}

\* Processes of one service have the store of the Keyring interface
\* (keyring.go:114-125): a Remove that finds its credential gone between its two
\* calls fails (wincred.go:71-78), and only a listing that fails leaves keys out
\* (line 84).
ContractStep ==
  OneService => IF \E c \in Client : ListFails(c) THEN W!CNext ELSE C!CNext
Contract == C!CInit /\ [][ContractStep]_<<Stored, call, DueNow>>

Apart(s, t) == ~IsPrefix(s, t) /\ ~IsPrefix(t, s)

\* No call of one service reads, lists or changes what another service has stored,
\* unless the name of one begins with the name of the other and a colon: then
\* their keys run into one another (wincred.go:96-98).
ApartStep ==
  \A c, d \in Client : Step(c) /\ Apart(service[c], service[d])
    => /\ View(d, creds') = View(d, creds)
       /\ KeysOf(service[d], creds') = KeysOf(service[d], creds)
ServicesApart == [][ApartStep]_vars
=============================================================================
