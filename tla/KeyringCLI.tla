------------------------------ MODULE KeyringCLI ------------------------------
(***************************************************************************)
(* The command keyring (cmd/keyring/main.go), run again and again on one   *)
(* machine, for one service and one key: each run is a process that        *)
(* registers its backends, checks its flags, opens a keyring and makes one *)
(* call.  What runs leave to one another is what the backends store, and   *)
(* nothing says which backend a run without -backend has chosen.           *)
(***************************************************************************)
EXTENDS KeyringOpen

CONSTANTS Value,      \* values to set
          Named,      \* the backends that -backend names
          Volatile,   \* the daemons and programs that come and go
          FirstWorlds,   \* the world before the first run
          NoValue     \* "": the default of -set; also what an empty backend holds

ASSUME CLIAssumption ==
  /\ NoValue \notin Value /\ NoRing \notin Backend
  /\ Named \subseteq Backend /\ Volatile \subseteq NeedsWorld /\ FirstWorlds \subseteq Worlds

VARIABLES pc,
          flags,      \* of the run: [backend, act, value]
          exit,       \* how the run has ended: its status and what it printed
          store,      \* the value each backend holds for the key
          lastSet,    \* history: the flags.backend and value of the last good -set ...
          changed     \* ... and whether the world has changed since that run began

cliVars == <<pc, flags, exit, store, lastSet, changed>>
vars == <<openVars, cliVars>>

AnyBackend == ""   \* the default of -backend

Flags == [backend : {AnyBackend} \cup Named, act : {"list-backends", "list-keys"}, value : {NoValue}]
           \cup [backend : {AnyBackend} \cup Named, act : {"one"}, value : Value \cup {NoValue}]

Running  == [status |-> "running"]
Unopened == [status |-> "1", error |-> "no keyring"]   \* log.Fatal: of -backend or of Open,
Missing  == [status |-> "1", error |-> "not found"]    \* of Get, with ErrKeyNotFound,
Failed   == [status |-> "1", error |-> "failed"]       \* of a call, with another error
Done     == [status |-> "0"]
Printed(x) == [status |-> "0", output |-> x]

NoSet == [backend |-> AnyBackend, value |-> NoValue]

TypeOK ==
  /\ platform \in Platforms /\ world \in Worlds
  /\ registered \subseteq Backend
  /\ allowed \in Seq(Backend)
  /\ at \in 1..(Len(allowed) + 1)
  /\ ring \in Backend \cup {NoRing}
  /\ pc \in {"start", "open", "act", "exit"}
  /\ flags \in Flags
  /\ exit \in {Running, Unopened, Missing, Failed, Done} \cup {Printed(x) : x \in Value \cup {"backends", "keys"}}
  /\ store \in [Backend -> Value \cup {NoValue}]
  /\ lastSet \in [backend : {AnyBackend} \cup Named, value : Value \cup {NoValue}]
  /\ changed \in BOOLEAN

Init ==
  /\ platform \in Platforms /\ world \in FirstWorlds
  /\ registered = {} /\ allowed = <<>> /\ at = 1 /\ ring = NoRing
  /\ pc = "exit" /\ flags \in {f \in Flags : f.act = "list-backends" /\ f.backend = AnyBackend}
  /\ exit = Done
  /\ store = [b \in Backend |-> NoValue]
  /\ lastSet = NoSet /\ changed = FALSE

-----------------------------------------------------------------------------
Setting == flags.act = "one" /\ flags.value # NoValue
Getting == flags.act = "one" /\ flags.value = NoValue   \* -set "" gets, too

\* A process is started with any flags.
Start ==
  /\ pc = "exit"
  /\ Register
  /\ flags' \in Flags
  /\ pc' = "start" /\ exit' = Running
  /\ IF flags'.value # NoValue
     THEN lastSet' = NoSet /\ changed' = FALSE
     ELSE UNCHANGED <<lastSet, changed>>
  /\ UNCHANGED store

Exit(how) == pc' = "exit" /\ exit' = how

ListBackends ==
  /\ pc = "start" /\ flags.act = "list-backends"
  /\ Exit(Printed("backends"))
  /\ UNCHANGED <<openVars, flags, store, lastSet, changed>>

HasBackend(b) == b \in Range(AvailableBackends)

BackendUnavailable ==
  /\ pc = "start" /\ flags.act # "list-backends"
  /\ flags.backend # AnyBackend /\ ~HasBackend(flags.backend)
  /\ Exit(Unopened)
  /\ UNCHANGED <<openVars, flags, store, lastSet, changed>>

\* Mutant: -backend only moves a backend to the front.
AllowedFirst == IF flags.backend = AnyBackend THEN AvailableBackends
                ELSE <<flags.backend>> \o AvailableBackends

Allowed == IF flags.backend = AnyBackend THEN AvailableBackends ELSE <<flags.backend>>

StartOpen ==
  /\ pc = "start" /\ flags.act # "list-backends"
  /\ flags.backend = AnyBackend \/ HasBackend(flags.backend)
  /\ allowed' = Allowed /\ at' = 1
  /\ pc' = "open"
  /\ UNCHANGED <<platform, world, registered, ring, flags, exit, store, lastSet, changed>>

Open ==
  /\ pc = "open" /\ OpenTries
  /\ pc' = IF ring' = NoRing THEN "open" ELSE "act"
  /\ UNCHANGED <<flags, exit, store, lastSet, changed>>

NoAvail ==
  /\ pc = "open" /\ ErrNoAvailImpl
  /\ Exit(Unopened)
  /\ UNCHANGED <<openVars, flags, store, lastSet, changed>>

\* main.go gives no FileDir, without which every call of the file backend fails.
Serves(b) == b # "file"

ListKeys ==
  /\ pc = "act" /\ flags.act = "list-keys" /\ Serves(ring)
  /\ Exit(Printed("keys"))
  /\ UNCHANGED <<openVars, flags, store, lastSet, changed>>

Set ==
  /\ pc = "act" /\ Setting /\ Serves(ring)
  /\ store' = [store EXCEPT ![ring] = flags.value]
  /\ lastSet' = [backend |-> flags.backend, value |-> flags.value]
  /\ Exit(Done)
  /\ UNCHANGED <<openVars, flags, changed>>

Get ==
  /\ pc = "act" /\ Getting /\ Serves(ring) /\ store[ring] # NoValue
  /\ Exit(Printed(store[ring]))
  /\ UNCHANGED <<openVars, flags, store, lastSet, changed>>

\* Mutant: a key that is not there is printed as an empty value.
NotFoundPrinted ==
  /\ pc = "act" /\ Getting /\ Serves(ring) /\ store[ring] = NoValue
  /\ Exit(Printed(NoValue))
  /\ UNCHANGED <<openVars, flags, store, lastSet, changed>>

NotFound ==
  /\ pc = "act" /\ Getting /\ Serves(ring) /\ store[ring] = NoValue
  /\ Exit(Missing)
  /\ UNCHANGED <<openVars, flags, store, lastSet, changed>>

\* Backends whose Get takes some failures for a key that is not there: a stat that
\* fails, an answer without data, a query without results.
Blind == {"pass", "passage", "kwallet", "keychain"}

\* A call of any backend fails, and the error ends the run. A set that fails may have
\* stored its value all the same, or lost the one that was there.
CallFails ==
  /\ pc = "act"
  /\ \/ Exit(Failed)
     \/ Getting /\ ring \in Blind /\ Exit(Missing)
  /\ store' \in IF Setting /\ Serves(ring)
               THEN {[store EXCEPT ![ring] = x] : x \in {store[ring], flags.value, NoValue}}
               ELSE {store}
  /\ UNCHANGED <<openVars, flags, lastSet, changed>>

\* A daemon comes or goes, a program is installed or removed, the session has a
\* bus or not.
WorldChanges ==
  /\ \/ \E b \in Volatile :
          world' = [world EXCEPT !.up = IF b \in @ THEN @ \ {b} ELSE @ \cup {b}]
     \/ world' = [world EXCEPT !.dbus = ~@]
     \/ world' = [world EXCEPT !.kwalletOff = ~@]
  /\ changed' = TRUE
  /\ UNCHANGED <<platform, registered, allowed, at, ring, pc, flags, exit, store, lastSet>>

Next == \/ Start \/ ListBackends \/ BackendUnavailable \/ StartOpen \/ Open \/ NoAvail
        \/ ListKeys \/ Set \/ Get \/ NotFound \/ CallFails \/ WorldChanges

Spec == Init /\ [][Next]_vars

-----------------------------------------------------------------------------
NoMiss == exit = Missing => ring \in Blind

\* What a run has set, a later one with the same -backend and no other -set between
\* finds: its get prints that value unless its call fails, if the world is still the
\* same, for all that Open falls through (keyring.go:79-86). In another world it may
\* open another backend or none, but if it names its backend, it never prints
\* another value nor says that the key is not there (main.go:41-58, 94-100).
ReadBack ==
  pc = "exit" /\ Getting /\ lastSet.value # NoValue /\ flags.backend = lastSet.backend =>
    /\ ~changed => NoMiss /\ exit \in {Printed(lastSet.value), Failed, Missing}
    /\ flags.backend # AnyBackend
         => NoMiss /\ exit \in {Printed(lastSet.value), Failed, Missing, Unopened}

\* Open never gets past a registered backend whose opener cannot fail: of the
\* "backends preceding" it (keyring.go:33-35) only those that failed were passed.
\* So winhello is never picked on its own, nor a 1Password backend where the file
\* backend is compiled in.
NothingPickedBehindSure ==
  /\ \A i \in 1..(at - 1) : allowed[i] \notin Sure \cap registered
  /\ ring \in {"winhello"} \cup OP /\ flags.backend = AnyBackend
       => platform.os # "windows" /\ "file" \in platform.tags
=============================================================================
