------------------------------ MODULE KeyringOpen ------------------------------
(***************************************************************************)
(* Which backend a process gets (keyring.go:18-89): what its build and its *)
(* environment have registered when the package is initialised, in the     *)
(* order of backendOrder, and which of them Open can then open.  Openers   *)
(* are tried one after the other, in a world that changes meanwhile:       *)
(* daemons come and go, programs are installed and removed.                *)
(***************************************************************************)
EXTENDS Naturals, Sequences, Functions

CONSTANTS Platforms,  \* the builds: [os, cgo, tags], tags being what is left out
          NoRing,     \* Open has not returned a keyring (yet)
          Config      \* what of the Config makes openers work

OP == {"op-connect", "op", "op-desktop"}

BackendOrder == <<"wincred", "winhello", "keychain", "secret-service", "kwallet",
                  "keyctl", "pass", "passage", "file", "op-connect", "op", "op-desktop">>

Backend == Range(BackendOrder)

\* The build constraint at the top of the backend's file.
Compiled(platform, b) ==
  LET os == platform.os IN
  CASE b \in {"wincred", "winhello"} -> os = "windows"
    [] b = "keychain" -> os \in {"darwin", "ios"} /\ platform.cgo
    [] b \in {"secret-service", "kwallet", "keyctl"} -> os = "linux"
    [] b \in {"pass", "passage"} -> os # "windows" /\ b \notin platform.tags
    [] b = "file" -> b \notin platform.tags
    [] b \in OP -> os # "freebsd" /\ "1password" \notin platform.tags

\* The backends that talk to a daemon on the session bus, from init on.
OnBus == {"secret-service", "kwallet"}

\* The conditions in its init function.
Registers(platform, world, b) ==
  /\ Compiled(platform, b)
  /\ b \in OnBus => world.dbus
  /\ b = "kwallet" => ~world.kwalletOff

\* Openers that never fail, those that fail for want of configuration, and
\* those that need a daemon or a program besides.
Sure == {"wincred", "file"}
NeedsConfig == {"keychain", "keyctl"} \cup OP
NeedsWorld  == {"winhello", "secret-service", "kwallet", "keyctl", "pass", "passage"}

Opens(world, b) == /\ b \in NeedsConfig => b \in Config
                   /\ b \in NeedsWorld => b \in world.up
                   /\ b \in OnBus => world.dbus

Worlds == [dbus : BOOLEAN, kwalletOff : BOOLEAN, up : SUBSET NeedsWorld]

VARIABLES platform, world,
          registered,   \* the keys of supportedBackends
          allowed,      \* Config.AllowedBackends, after Open has defaulted it
          at,           \* the backend that Open tries next
          ring          \* what Open has returned

openVars == <<platform, world, registered, allowed, at, ring>>

\* Mutant: the backends come in another order than backendOrder.
AvailableInReverse ==
  LET n == Len(BackendOrder) IN
  SelectSeq([i \in 1..n |-> BackendOrder[n + 1 - i]], LAMBDA b : b \in registered)

\* The loop of AvailableBackends: its n-th turn looks at the n-th of backendOrder.
Available(backends) ==
  LET upTo[n \in 0..Len(BackendOrder)] ==
        IF n = 0 THEN <<>>
        ELSE IF BackendOrder[n] \in backends THEN Append(upTo[n - 1], BackendOrder[n])
        ELSE upTo[n - 1]
  IN  upTo[Len(BackendOrder)]

AvailableBackends == Available(registered)

\* Package initialisation, in a process that starts now.
Register ==
  /\ registered' = {b \in Backend : Registers(platform, world, b)}
  /\ allowed' = <<>> /\ at' = 1 /\ ring' = NoRing
  /\ UNCHANGED <<platform, world>>

Trying == ring = NoRing /\ at <= Len(allowed)

Usable(b) == b \in registered /\ Opens(world, b)

\* One turn of the loop of Open; the error of a failed opener is only logged.
OpenTries ==
  /\ Trying
  /\ IF Usable(allowed[at])
     THEN ring' = allowed[at] /\ UNCHANGED at
     ELSE at' = at + 1 /\ UNCHANGED ring
  /\ UNCHANGED <<platform, world, registered, allowed>>

ErrNoAvailImpl == ring = NoRing /\ at > Len(allowed)
=============================================================================
