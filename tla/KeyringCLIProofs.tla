--------------------------- MODULE KeyringCLIProofs ---------------------------
(***************************************************************************)
(* Proofs about the command and about Open, for any builds, worlds,        *)
(* configurations, values and backends that are named or come and go.      *)
(*                                                                         *)
(* What a run gets is decided by the list it goes through, so everything   *)
(* rests on what AvailableBackends answers (AvailableIs): a registered     *)
(* backend comes after all that backendOrder puts before it.               *)
(***************************************************************************)
EXTENDS KeyringCLI, WellFoundedInduction, TLAPS

NowRegistered == {b \in Backend : Registers(platform, world, b)}

\* A run that works has opened a backend; one that tries has not. While a run is to
\* set a value, there is no good -set behind it.
StepOfRun ==
  /\ pc = "start" => allowed = <<>>
  /\ pc \in {"start", "open"} => ring = NoRing
  /\ pc = "act" => ring # NoRing
  /\ pc \in {"open", "act"} => flags.act # "list-backends"
  /\ lastSet.value = NoValue => lastSet = NoSet
  /\ pc # "exit" /\ Setting => lastSet = NoSet

TypeInv == TypeOK /\ StepOfRun

\* Open goes through the list of the run, one by one.
InList ==
  /\ ring # NoRing => at \in DOMAIN allowed /\ ring = allowed[at]
  /\ pc = "open" \/ allowed # <<>> => allowed = Allowed

PassedOver == \A i \in 1..(at - 1) : allowed[i] \notin Sure \cap registered

\* A process has registered what its build has compiled in, and all of that which
\* asks nothing of the machine.
OfBuild ==
  pc = "start" \/ allowed # <<>> =>
    /\ \A b \in registered : Compiled(platform, b)
    /\ \A b \in Sure : Compiled(platform, b) => b \in registered

PickInv == InList /\ PassedOver /\ OfBuild

\* The runs that ReadBack relates: the last good -set or one that is under way,
\* and what has been started since.
Tracked == lastSet.value # NoValue \/ (pc # "exit" /\ Setting)

\* While the world has not changed, those runs have registered the same backends,
\* and none that Open has passed over would open now.
SameWorld ==
  ~changed /\ Tracked =>
    /\ registered = NowRegistered
    /\ \A i \in 1..(at - 1) : ~Usable(allowed[i])
    /\ ring # NoRing => Usable(ring)

\* The list of a run with that -backend.
ListOf(b) == IF b = AnyBackend THEN AvailableBackends ELSE <<b>>

FirstUsable(list, i) ==
  /\ i \in DOMAIN list /\ Usable(list[i])
  /\ \A j \in 1..(i - 1) : ~Usable(list[j])

\* The last good -set is where a run with the same -backend would look.
SetLeft ==
  lastSet.value # NoValue =>
    /\ lastSet.backend # AnyBackend => store[lastSet.backend] = lastSet.value
    /\ ~changed => \E i \in DOMAIN ListOf(lastSet.backend) :
                     /\ FirstUsable(ListOf(lastSet.backend), i)
                     /\ Serves(ListOf(lastSet.backend)[i])
                     /\ store[ListOf(lastSet.backend)[i]] = lastSet.value

SetInv == SameWorld /\ SetLeft /\ ReadBack

-----------------------------------------------------------------------------
(* What AvailableBackends answers.                                          *)

\* Its loop, as a function of the number of turns.
Turn(upTo, backends, n) ==
  IF n = 0 THEN <<>>
  ELSE IF BackendOrder[n] \in backends THEN Append(upTo[n - 1], BackendOrder[n])
  ELSE upTo[n - 1]

Turns == 0..Len(BackendOrder)

LEMMA OrderIs ==
  /\ Len(BackendOrder) = 12 /\ DOMAIN BackendOrder = 1..12
  /\ \A n \in 1..12 : BackendOrder[n] \in Backend
  /\ \A b \in Backend : \E n \in 1..12 : BackendOrder[n] = b
<1>1. Len(BackendOrder) = 12 /\ DOMAIN BackendOrder = 1..12
  BY DEF BackendOrder
<1> QED
  BY <1>1 DEF Backend, Range

\* A set of numbers has a smallest one.
LEMMA Smallest ==
  ASSUME NEW T \in SUBSET Nat, T # {}
  PROVE  \E n \in T : \A m \in T : n <= m
<1>1. \E n \in T : \A m \in T : ~ (<<m, n>> \in OpToRel(<, Nat))
  BY NatLessThanWellFounded, WFMin
<1>2. PICK n \in T : \A m \in T : ~ (<<m, n>> \in OpToRel(<, Nat))
  BY <1>1
<1>3. ASSUME NEW m \in T PROVE n <= m
  <2>1. <<m, n>> \in Nat \X Nat /\ <<m, n>>[1] = m /\ <<m, n>>[2] = n
    OBVIOUS
  <2>2. ~ (m < n)
    BY <2>1, <1>2 DEF OpToRel
  <2> QED
    BY <2>2
<1> QED
  BY <1>3

\* There is a function that the loop computes.
LEMMA LoopExists ==
  ASSUME NEW backends
  PROVE  \A N \in Turns : \E f : f = [n \in 0..N |-> Turn(f, backends, n)]
<1> DEFINE Without == {N \in Turns : ~ \E f : f = [n \in 0..N |-> Turn(f, backends, n)]}
<1> SUFFICES ASSUME Without # {} PROVE FALSE
  OBVIOUS
<1>1. Turns \subseteq Nat
  BY OrderIs DEF Turns
<1>2. PICK N \in Without : \A M \in Without : N <= M
  BY <1>1, Smallest
<1>3. N \in Nat /\ N <= 12 /\ ~ \E f : f = [n \in 0..N |-> Turn(f, backends, n)]
  BY <1>2, OrderIs DEF Turns
<1>4. N # 0
  <2> DEFINE f == [n \in 0..0 |-> <<>>]
  <2>1. f = [n \in 0..0 |-> Turn(f, backends, n)]
    BY DEF Turn
  <2> QED
    BY <2>1, <1>3
<1>5. PICK g : g = [n \in 0..(N - 1) |-> Turn(g, backends, n)]
  <2>1. N - 1 \in Turns /\ N - 1 \notin Without
    BY <1>2, <1>3, <1>4, OrderIs DEF Turns
  <2> QED
    BY <2>1
<1> DEFINE h == [n \in 0..N |-> IF n = N THEN Turn(g, backends, n) ELSE g[n]]
<1>6. h = [n \in 0..N |-> Turn(h, backends, n)]
  <2>1. ASSUME NEW n \in 0..N PROVE h[n] = Turn(h, backends, n)
    <3>1. h[n] = Turn(g, backends, n)
      BY <1>3, <1>4, <1>5
    <3>2. n # 0 => h[n - 1] = g[n - 1]
      BY <1>3
    <3> QED
      BY <3>1, <3>2 DEF Turn
  <2> QED
    BY <2>1
<1> QED
  BY <1>3, <1>6

Loop(backends) == CHOOSE f : f = [n \in Turns |-> Turn(f, backends, n)]

LEMMA LoopIs ==
  ASSUME NEW backends
  PROVE  /\ Available(backends) = Loop(backends)[12]
         /\ \A n \in 0..12 : Loop(backends)[n] = Turn(Loop(backends), backends, n)
<1>1. Available(backends) = Loop(backends)[12]
  BY OrderIs DEF Available, Loop, Turn, Turns
<1>2. 12 \in Turns /\ Turns = 0..12
  BY OrderIs DEF Turns
<1>3. \E f : f = [n \in Turns |-> Turn(f, backends, n)]
  BY <1>2, LoopExists
<1>4. Loop(backends) = [n \in Turns |-> Turn(Loop(backends), backends, n)]
  BY <1>3 DEF Loop
<1> QED
  BY <1>1, <1>2, <1>4

\* After n turns the list has those of the first n of backendOrder that are
\* registered, each behind all that come before it in backendOrder.
Listed(list, backends, n) ==
  /\ list \in Seq(Backend \cap backends)
  /\ \A i \in 1..n : BackendOrder[i] \in backends => \E j \in 1..Len(list) : list[j] = BackendOrder[i]
  /\ \A j \in 1..Len(list) : \E i \in 1..n :
       /\ list[j] = BackendOrder[i]
       /\ \A h \in 1..(i - 1) : BackendOrder[h] \in backends
            => \E k \in 1..(j - 1) : list[k] = BackendOrder[h]

LEMMA TurnListed ==
  ASSUME NEW backends, NEW list, NEW n \in 1..12, Listed(list, backends, n - 1)
  PROVE  Listed(IF BackendOrder[n] \in backends THEN Append(list, BackendOrder[n]) ELSE list,
                backends, n)
<1>1. CASE BackendOrder[n] \notin backends
  <2>1. \A j \in 1..Len(list) : \E i \in 1..(n - 1) :
          /\ list[j] = BackendOrder[i]
          /\ \A h \in 1..(i - 1) : BackendOrder[h] \in backends
               => \E k \in 1..(j - 1) : list[k] = BackendOrder[h]
    BY DEF Listed
  <2>2. \A i \in 1..n : BackendOrder[i] \in backends => i \in 1..(n - 1)
    BY <1>1
  <2>3. \A i \in 1..n : BackendOrder[i] \in backends => \E j \in 1..Len(list) : list[j] = BackendOrder[i]
    BY <2>2 DEF Listed
  <2>4. list \in Seq(Backend \cap backends) /\ \A i \in 1..(n - 1) : i \in 1..n
    BY DEF Listed
  <2>5. Listed(list, backends, n)
    BY <2>1, <2>3, <2>4 DEF Listed
  <2> QED
    BY <1>1, <2>5
<1>2. CASE BackendOrder[n] \in backends
  <2> DEFINE new == Append(list, BackendOrder[n])
  <2>1. list \in Seq(Backend \cap backends) /\ Len(list) \in Nat
    BY DEF Listed
  <2>2. new \in Seq(Backend \cap backends) /\ Len(new) = Len(list) + 1
        /\ new[Len(list) + 1] = BackendOrder[n]
        /\ \A j \in 1..Len(list) : new[j] = list[j]
    BY <1>2, <2>1, OrderIs
  <2>3. ASSUME NEW i \in 1..n, BackendOrder[i] \in backends
        PROVE  \E j \in 1..Len(new) : new[j] = BackendOrder[i]
    <3>1. CASE i = n
      BY <3>1, <2>1, <2>2
    <3>2. CASE i # n
      <4>1. i \in 1..(n - 1)
        BY <3>2
      <4>2. PICK j \in 1..Len(list) : list[j] = BackendOrder[i]
        BY <4>1, <2>3 DEF Listed
      <4> QED
        BY <4>2, <2>1, <2>2
    <3> QED
      BY <3>1, <3>2
  <2>4. ASSUME NEW j \in 1..Len(new)
        PROVE  \E i \in 1..n :
                 /\ new[j] = BackendOrder[i]
                 /\ \A h \in 1..(i - 1) : BackendOrder[h] \in backends
                      => \E k \in 1..(j - 1) : new[k] = BackendOrder[h]
    <3>1. CASE j = Len(list) + 1
      <4>1. ASSUME NEW h \in 1..(n - 1), BackendOrder[h] \in backends
            PROVE  \E k \in 1..(j - 1) : new[k] = BackendOrder[h]
        <5>1. PICK k \in 1..Len(list) : list[k] = BackendOrder[h]
          BY <4>1 DEF Listed
        <5> QED
          BY <5>1, <3>1, <2>1, <2>2
      <4> QED
        BY <4>1, <3>1, <2>2
    <3>2. CASE j # Len(list) + 1
      <4>1. j \in 1..Len(list)
        BY <3>2, <2>1, <2>2
      <4>2. PICK i \in 1..(n - 1) :
              /\ list[j] = BackendOrder[i]
              /\ \A h \in 1..(i - 1) : BackendOrder[h] \in backends
                   => \E k \in 1..(j - 1) : list[k] = BackendOrder[h]
        BY <4>1 DEF Listed
      <4>3. ASSUME NEW h \in 1..(i - 1), BackendOrder[h] \in backends
            PROVE  \E k \in 1..(j - 1) : new[k] = BackendOrder[h]
        <5>1. PICK k \in 1..(j - 1) : list[k] = BackendOrder[h]
          BY <4>2, <4>3
        <5> QED
          BY <5>1, <4>1, <2>1, <2>2
      <4> QED
        BY <4>1, <4>2, <4>3, <2>2
    <3> QED
      BY <3>1, <3>2
  <2> QED
    BY <1>2, <2>2, <2>3, <2>4 DEF Listed
<1> QED
  BY <1>1, <1>2

LEMMA AvailableIs == \A backends : Listed(Available(backends), backends, 12)
<1> SUFFICES ASSUME NEW backends PROVE Listed(Available(backends), backends, 12)
  OBVIOUS
<1> DEFINE Unlisted == {n \in 0..12 : ~ Listed(Loop(backends)[n], backends, n)}
<1> SUFFICES ASSUME Unlisted # {} PROVE FALSE
  BY LoopIs
<1>1. PICK n \in Unlisted : \A m \in Unlisted : n <= m
  BY Smallest
<1>2. n # 0
  <2>1. Loop(backends)[0] = <<>>
    BY LoopIs DEF Turn
  <2>2. Listed(<<>>, backends, 0)
    BY DEF Listed
  <2> QED
    BY <1>1, <2>1, <2>2
<1>3. n \in 1..12 /\ n - 1 \in 0..12 /\ n - 1 \notin Unlisted
  BY <1>1, <1>2
<1>4. Loop(backends)[n] = IF BackendOrder[n] \in backends
                          THEN Append(Loop(backends)[n - 1], BackendOrder[n])
                          ELSE Loop(backends)[n - 1]
  BY <1>3, LoopIs DEF Turn
<1> HIDE DEF Unlisted
<1>5. Listed(Loop(backends)[n - 1], backends, n - 1)
  BY <1>3 DEF Unlisted
<1>6. Listed(Loop(backends)[n], backends, n)
  BY <1>3, <1>4, <1>5, TurnListed
<1> QED
  BY <1>1, <1>6 DEF Unlisted

\* The backends that a run without -backend may get are the registered ones.
LEMMA AvailableType ==
  /\ AvailableBackends \in Seq(Backend \cap registered)
  /\ AvailableBackends \in Seq(Backend)
  /\ \A b : HasBackend(b) <=> b \in Backend \cap registered
<1>1. Listed(AvailableBackends, registered, 12)
  BY AvailableIs DEF AvailableBackends
<1>2. AvailableBackends \in Seq(Backend \cap registered)
  BY <1>1 DEF Listed
<1>3. ASSUME NEW b \in Backend \cap registered PROVE b \in Range(AvailableBackends)
  <2>1. PICK i \in 1..12 : BackendOrder[i] = b
    BY OrderIs
  <2>2. PICK j \in 1..Len(AvailableBackends) : AvailableBackends[j] = b
    BY <1>1, <1>3, <2>1 DEF Listed
  <2> QED
    BY <2>2, <1>2 DEF Range
<1>4. \A b \in Range(AvailableBackends) : b \in Backend \cap registered
  BY <1>2 DEF Range
<1>5. AvailableBackends \in Seq(Backend)
  BY <1>2
<1> QED
  BY <1>2, <1>3, <1>4, <1>5 DEF HasBackend

\* wincred comes before winhello and before the 1Password backends, file before
\* the latter.
LEMMA SureComesFirst ==
  ASSUME NEW j \in DOMAIN AvailableBackends, AvailableBackends[j] \in {"winhello"} \cup OP
  PROVE  /\ "wincred" \in registered => \E k \in 1..(j - 1) : AvailableBackends[k] = "wincred"
         /\ "file" \in registered /\ AvailableBackends[j] \in OP
              => \E k \in 1..(j - 1) : AvailableBackends[k] = "file"
<1>1. Listed(AvailableBackends, registered, 12) /\ j \in 1..Len(AvailableBackends)
  BY AvailableIs, AvailableType DEF AvailableBackends
<1>2. PICK i \in 1..12 :
        /\ AvailableBackends[j] = BackendOrder[i]
        /\ \A h \in 1..(i - 1) : BackendOrder[h] \in registered
             => \E k \in 1..(j - 1) : AvailableBackends[k] = BackendOrder[h]
  BY <1>1 DEF Listed
<1>3. BackendOrder[1] = "wincred" /\ BackendOrder[9] = "file"
  BY DEF BackendOrder
<1>4. i # 1 /\ (BackendOrder[i] \in OP => i \in 10..12)
  BY <1>2 DEF BackendOrder, OP
<1>5. 1 \in 1..(i - 1) /\ (AvailableBackends[j] \in OP => 9 \in 1..(i - 1))
  BY <1>2, <1>4
<1> QED
  BY <1>2, <1>3, <1>5

\* The backends of wincred.go and file.go open whenever they are registered.
LEMMA SureOpens == \A b \in Sure \cap registered : Usable(b)
  BY DEF Sure, Usable, Opens, OnBus, NeedsConfig, NeedsWorld, OP

\* Where winhello is compiled in, wincred is, and file unless a tag leaves it out.
LEMMA CompiledWhere ==
  ASSUME NEW build
  PROVE  /\ Compiled(build, "wincred") = (build.os = "windows")
         /\ Compiled(build, "winhello") = (build.os = "windows")
         /\ Compiled(build, "file") = ("file" \notin build.tags)
  BY DEF Compiled, OP

-----------------------------------------------------------------------------
\* A run's flags, by what it does.
LEMMA FlagTypes ==
  ASSUME NEW f \in Flags
  PROVE  /\ f.backend \in {AnyBackend} \cup Named /\ f.value \in Value \cup {NoValue}
         /\ f.act \in {"list-backends", "list-keys", "one"}
         /\ f.act # "one" => f.value = NoValue
  BY DEF Flags

LEMMA AllowedType ==
  ASSUME TypeOK
  PROVE  /\ Allowed \in Seq(Backend)
         /\ Allowed = IF flags.backend = AnyBackend THEN AvailableBackends ELSE <<flags.backend>>
  BY AvailableType, FlagTypes, CLIAssumption DEF Allowed, TypeOK

\* A turn of Open's loop is on a backend of the list.
LEMMA TryingType ==
  ASSUME TypeOK, Trying
  PROVE  at \in DOMAIN allowed /\ allowed[at] \in Backend /\ at + 1 \in 1..(Len(allowed) + 1)
  BY DEF TypeOK, Trying

LEMMA InitTypeInv == Init => TypeInv
<1> SUFFICES ASSUME Init PROVE TypeInv
  OBVIOUS
<1>1. TypeOK
  <2>1. Len(<<>>) = 0 /\ <<>> \in Seq(Backend) /\ 1 \in 1..(0 + 1)
    OBVIOUS
  <2>2. NoSet \in [backend : {AnyBackend} \cup Named, value : Value \cup {NoValue}]
    BY DEF NoSet
  <2> QED
    BY <2>1, <2>2, CLIAssumption DEF Init, TypeOK
<1>2. StepOfRun
  BY DEF Init, StepOfRun
<1> QED
  BY <1>1, <1>2 DEF TypeInv

LEMMA NextTypeInv == TypeInv /\ [Next]_vars => TypeInv'
<1> SUFFICES ASSUME TypeInv, [Next]_vars PROVE TypeInv'
  OBVIOUS
<1> USE DEF TypeInv, StepOfRun
<1>1. CASE Start
  <2>1. /\ registered' \subseteq Backend /\ allowed' = <<>> /\ at' = 1 /\ ring' = NoRing
        /\ UNCHANGED <<platform, world, store>> /\ flags' \in Flags
        /\ pc' = "start" /\ exit' = Running
        /\ lastSet' \in {NoSet, lastSet} /\ changed' \in BOOLEAN
    BY <1>1 DEF Start, Register, TypeOK
  <2>2. Len(<<>>) = 0 /\ <<>> \in Seq(Backend) /\ 1 \in 1..(0 + 1) /\ NoSet \in [backend : {AnyBackend} \cup Named, value : Value \cup {NoValue}]
    BY DEF NoSet
  <2>3. TypeOK'
    BY <2>1, <2>2 DEF TypeOK
  <2>4. (lastSet'.value = NoValue => lastSet' = NoSet)
    BY <2>1
  <2>5. Setting' => lastSet' = NoSet
    BY <1>1 DEF Start, Setting
  <2> QED
    BY <2>1, <2>3, <2>4, <2>5
<1>2. CASE ListBackends
  BY <1>2 DEF ListBackends, Exit, openVars, TypeOK, Printed
<1>3. CASE BackendUnavailable
  BY <1>3 DEF BackendUnavailable, Exit, openVars, TypeOK
<1>4. CASE StartOpen
  <2>1. 1 \in 1..(Len(Allowed) + 1) /\ Allowed \in Seq(Backend)
    BY AllowedType
  <2>2. /\ allowed' = Allowed /\ at' = 1 /\ pc' = "open"
        /\ UNCHANGED <<platform, world, registered, ring, flags, exit, store, lastSet, changed>>
    BY <1>4 DEF StartOpen
  <2>3. TypeOK'
    BY <2>1, <2>2 DEF TypeOK
  <2> QED
    BY <1>4, <2>2, <2>3 DEF StartOpen, Setting
<1>5. CASE Open
  <2>1. at \in DOMAIN allowed /\ allowed[at] \in Backend /\ at + 1 \in 1..(Len(allowed) + 1)
    BY <1>5, TryingType DEF Open, OpenTries
  <2>2. /\ \/ ring' = allowed[at] /\ UNCHANGED at
           \/ at' = at + 1 /\ UNCHANGED ring
        /\ pc' = IF ring' = NoRing THEN "open" ELSE "act"
        /\ UNCHANGED <<platform, world, registered, allowed, flags, exit, store, lastSet, changed>>
    BY <1>5 DEF Open, OpenTries
  <2>3. TypeOK'
    BY <2>1, <2>2 DEF TypeOK
  <2> QED
    BY <1>5, <2>2, <2>3 DEF Open, Setting
<1>6. CASE NoAvail
  BY <1>6 DEF NoAvail, Exit, openVars, TypeOK
<1>7. CASE ListKeys
  BY <1>7 DEF ListKeys, Exit, openVars, TypeOK, Printed
<1>8. CASE Set
  <2>1. ring \in Backend /\ flags.value \in Value /\ flags.backend \in {AnyBackend} \cup Named
    BY <1>8, FlagTypes, CLIAssumption DEF Set, Setting, TypeOK
  <2>2. /\ store' = [store EXCEPT ![ring] = flags.value]
        /\ lastSet' = [backend |-> flags.backend, value |-> flags.value]
        /\ pc' = "exit" /\ exit' = Done
        /\ UNCHANGED <<openVars, flags, changed>>
    BY <1>8 DEF Set, Exit
  <2>3. TypeOK'
    BY <2>1, <2>2 DEF TypeOK, openVars
  <2> QED
    BY <2>1, <2>2, <2>3, CLIAssumption
<1>9. CASE Get
  <2>1. store[ring] \in Value
    BY <1>9 DEF Get, TypeOK
  <2> QED
    BY <1>9, <2>1 DEF Get, Exit, openVars, TypeOK
<1>10. CASE NotFound
  BY <1>10 DEF NotFound, Exit, openVars, TypeOK
<1>11. CASE CallFails
  <2>1. /\ pc' = "exit" /\ exit' \in {Failed, Missing}
        /\ UNCHANGED <<openVars, flags, lastSet, changed>>
    BY <1>11 DEF CallFails, Exit
  <2>2. store' \in [Backend -> Value \cup {NoValue}]
    <3>1. CASE Setting /\ Serves(ring)
      <4>1. ring \in Backend /\ flags.value \in Value
        BY <1>11, <3>1, FlagTypes, CLIAssumption DEF CallFails, Setting, TypeOK
      <4>2. PICK x \in {store[ring], flags.value, NoValue} : store' = [store EXCEPT ![ring] = x]
        BY <1>11, <3>1 DEF CallFails
      <4> QED
        BY <4>1, <4>2 DEF TypeOK
    <3>2. CASE ~(Setting /\ Serves(ring))
      BY <1>11, <3>2 DEF CallFails, TypeOK
    <3> QED
      BY <3>1, <3>2
  <2>3. TypeOK'
    BY <2>1, <2>2 DEF TypeOK, openVars
  <2> QED
    BY <2>1, <2>3
<1>12. CASE WorldChanges
  <2>1. /\ \/ \E b \in Volatile :
                world' = [world EXCEPT !.up = IF b \in @ THEN @ \ {b} ELSE @ \cup {b}]
           \/ world' = [world EXCEPT !.dbus = ~@]
           \/ world' = [world EXCEPT !.kwalletOff = ~@]
        /\ changed' = TRUE
        /\ UNCHANGED <<platform, registered, allowed, at, ring, pc, flags, exit, store, lastSet>>
    BY <1>12 DEF WorldChanges
  <2>2. world \in Worlds /\ Volatile \subseteq NeedsWorld
    BY CLIAssumption DEF TypeOK
  <2>3. world' \in Worlds
    <3>1. CASE \E b \in Volatile :
                 world' = [world EXCEPT !.up = IF b \in @ THEN @ \ {b} ELSE @ \cup {b}]
      BY <3>1, <2>2 DEF Worlds
    <3>2. CASE world' = [world EXCEPT !.dbus = ~@]
      BY <3>2, <2>2 DEF Worlds
    <3>3. CASE world' = [world EXCEPT !.kwalletOff = ~@]
      BY <3>3, <2>2 DEF Worlds
    <3> QED
      BY <2>1, <3>1, <3>2, <3>3
  <2> QED
    BY <2>1, <2>3 DEF TypeOK, Setting
<1>13. CASE UNCHANGED vars
  BY <1>13 DEF vars, openVars, cliVars, TypeOK, Setting
<1> QED
  BY <1>1, <1>2, <1>3, <1>4, <1>5, <1>6, <1>7, <1>8, <1>9, <1>10, <1>11, <1>12, <1>13 DEF Next

\* Every variable keeps its type, for any builds, worlds and values (keyring.go:72-89,
\* cmd/keyring/main.go:13-100).
THEOREM Typing == Spec => []TypeOK
<1>1. TypeInv => TypeOK
  BY DEF TypeInv
<1> QED
  BY <1>1, InitTypeInv, NextTypeInv, PTL DEF Spec

-----------------------------------------------------------------------------
\* The list of a run depends on its flags and on what it has registered.
LEMMA SameList ==
  ASSUME UNCHANGED <<registered, flags>>
  PROVE  /\ AvailableBackends' = AvailableBackends /\ Allowed' = Allowed
         /\ \A b : ListOf(b)' = ListOf(b)
  BY DEF Allowed, AvailableBackends, ListOf

LEMMA QuietPickInv ==
  ASSUME PickInv, UNCHANGED <<platform, registered, allowed, at, ring, flags>>,
         pc' \in {"start", "open"} => pc' = pc
  PROVE  PickInv'
  BY SameList DEF PickInv, InList, PassedOver, OfBuild

LEMMA NextPickInv == TypeInv /\ PickInv /\ [Next]_vars => PickInv'
<1> SUFFICES ASSUME TypeInv, PickInv, [Next]_vars PROVE PickInv'
  OBVIOUS
<1>1. CASE Start
  <2>1. /\ registered' = NowRegistered /\ allowed' = <<>> /\ at' = 1 /\ ring' = NoRing
        /\ UNCHANGED platform /\ pc' = "start"
    BY <1>1 DEF Start, Register, NowRegistered
  <2>2. \A b \in NowRegistered : Compiled(platform, b)
    BY DEF NowRegistered, Registers
  <2>3. \A b \in Sure : Compiled(platform, b) => b \in NowRegistered
    BY DEF NowRegistered, Registers, OnBus, Sure, Backend, Range, BackendOrder
  <2> QED
    BY <2>1, <2>2, <2>3 DEF PickInv, InList, PassedOver, OfBuild
<1>2. CASE StartOpen
  <2>1. /\ pc = "start" /\ allowed' = Allowed /\ at' = 1
        /\ UNCHANGED <<platform, registered, ring, flags>>
    BY <1>2 DEF StartOpen
  <2>2. ring' = NoRing /\ Allowed' = Allowed
    BY <1>2, <2>1, SameList DEF TypeInv, StepOfRun
  <2> QED
    BY <2>1, <2>2 DEF PickInv, InList, PassedOver, OfBuild
<1>3. CASE Open
  <2>1. Trying /\ pc = "open" /\ UNCHANGED <<platform, registered, allowed, flags>>
    BY <1>3 DEF Open, OpenTries
  <2>2. at \in DOMAIN allowed /\ Allowed' = Allowed /\ at \in Nat /\ pc' # "start"
    BY <1>3, <2>1, TryingType, SameList DEF TypeInv, TypeOK, Open
  <2>3. CASE Usable(allowed[at])
    <3>1. ring' = allowed[at] /\ UNCHANGED at
      BY <2>3, <1>3 DEF Open, OpenTries
    <3> QED
      BY <3>1, <2>1, <2>2 DEF PickInv, InList, PassedOver, OfBuild
  <2>4. CASE ~Usable(allowed[at])
    <3>1. at' = at + 1 /\ ring' = NoRing
      BY <2>4, <1>3 DEF Open, OpenTries, Trying
    <3>2. allowed[at] \notin Sure \cap registered
      BY <2>4, SureOpens
    <3>3. \A i \in 1..at : i = at \/ i \in 1..(at - 1)
      BY <2>2
    <3> QED
      BY <3>1, <3>2, <3>3, <2>1, <2>2 DEF PickInv, InList, PassedOver, OfBuild
  <2> QED
    BY <2>3, <2>4
<1>4. CASE ListBackends \/ BackendUnavailable \/ NoAvail \/ ListKeys \/ Set \/ Get
           \/ NotFound \/ CallFails
  <2>1. pc' = "exit" /\ UNCHANGED <<openVars, flags>>
    BY <1>4 DEF ListBackends, BackendUnavailable, NoAvail, ListKeys, Set, Get, NotFound,
                CallFails, Exit
  <2> QED
    BY <2>1, QuietPickInv DEF openVars
<1>5. CASE WorldChanges
  BY <1>5, QuietPickInv DEF WorldChanges
<1>6. CASE UNCHANGED vars
  BY <1>6, QuietPickInv DEF vars, openVars, cliVars
<1> QED
  BY <1>1, <1>2, <1>3, <1>4, <1>5, <1>6 DEF Next

\* Open never passes over wincred.go's or file.go's backend, so that it picks neither
\* winhello nor, unless file.go is left out, a 1Password backend by itself.
THEOREM NothingPickedHolds == Spec => []NothingPickedBehindSure
<1>1. Init => PickInv
  <2> SUFFICES ASSUME Init PROVE PickInv
    OBVIOUS
  <2> QED
    BY DEF Init, PickInv, InList, PassedOver, OfBuild
<1>2. TypeInv /\ PickInv => NothingPickedBehindSure
  <2> SUFFICES ASSUME TypeInv, PickInv PROVE NothingPickedBehindSure
    OBVIOUS
  <2>1. ASSUME ring \in {"winhello"} \cup OP, flags.backend = AnyBackend
        PROVE  platform.os # "windows" /\ "file" \in platform.tags
    <3>1. ring \in Backend /\ "wincred" \in Sure /\ "file" \in Sure
      BY <2>1 DEF Backend, Range, BackendOrder, OP, Sure
    <3>2. /\ at \in DOMAIN allowed /\ ring = allowed[at]
          /\ allowed = AvailableBackends /\ allowed # <<>>
      BY <2>1, <3>1, AllowedType, CLIAssumption DEF PickInv, InList, TypeInv, TypeOK
    <3>3. ring \in registered
      BY <3>2, AvailableType
    <3>4. "wincred" \notin registered /\ (ring \in OP => "file" \notin registered)
      BY <2>1, <3>1, <3>2, SureComesFirst DEF PickInv, PassedOver
    <3>5. Compiled(platform, ring) /\ ~Compiled(platform, "wincred")
          /\ (ring \in OP => ~Compiled(platform, "file"))
      BY <3>1, <3>2, <3>3, <3>4 DEF PickInv, OfBuild
    <3>6. platform.os # "windows" /\ ring # "winhello"
      BY <3>5, CompiledWhere
    <3> QED
      BY <2>1, <3>5, <3>6, CompiledWhere
  <2> QED
    BY <2>1 DEF NothingPickedBehindSure, PickInv, PassedOver
<1> QED
  BY <1>1, <1>2, InitTypeInv, NextTypeInv, NextPickInv, PTL DEF Spec

-----------------------------------------------------------------------------
\* A step that ends a run without a -set, or leaves runs alone.
LEMMA SameMachine ==
  ASSUME UNCHANGED <<platform, world, registered>>
  PROVE  /\ NowRegistered' = NowRegistered /\ \A b : Usable(b)' = Usable(b)
         /\ \A list, i : FirstUsable(list, i)' = FirstUsable(list, i)
  BY DEF NowRegistered, Usable, FirstUsable

LEMMA QuietSameWorld ==
  ASSUME SameWorld, UNCHANGED <<openVars, changed>>, Tracked' => Tracked
  PROVE  SameWorld'
  BY SameMachine DEF SameWorld, openVars

LEMMA QuietSetLeft ==
  ASSUME SetLeft, UNCHANGED <<platform, world, registered, store, lastSet, changed, flags>>
  PROVE  SetLeft'
<1>1. \A b : ListOf(b)' = ListOf(b) /\ lastSet' = lastSet /\ store' = store /\ changed' = changed
  BY SameList
<1>2. ListOf(lastSet.backend)' = ListOf(lastSet.backend)
  BY <1>1
<1> QED
  BY <1>1, <1>2, SameMachine DEF SetLeft

\* A run without -set that has opened a backend reads where the last good -set with
\* its -backend has written.
LEMMA GetFinds ==
  ASSUME TypeInv, PickInv, SameWorld, SetLeft, lastSet.value # NoValue,
         pc = "act", flags.backend = lastSet.backend
  PROVE  /\ flags.backend # AnyBackend => store[ring] = lastSet.value
         /\ ~changed => store[ring] = lastSet.value /\ Serves(ring)
<1>1. at \in DOMAIN allowed /\ ring = allowed[at] /\ allowed = ListOf(flags.backend)
  BY DEF TypeInv, StepOfRun, PickInv, InList, Allowed, ListOf
<1>2. flags.backend # AnyBackend => ring = flags.backend
  BY <1>1 DEF ListOf
<1>3. ASSUME ~changed PROVE store[ring] = lastSet.value /\ Serves(ring)
  <2>1. PICK i \in DOMAIN allowed : /\ FirstUsable(allowed, i) /\ Serves(allowed[i])
                                    /\ store[allowed[i]] = lastSet.value
    BY <1>1, <1>3 DEF SetLeft
  <2>2. Usable(allowed[at]) /\ \A j \in 1..(at - 1) : ~Usable(allowed[j])
    BY <1>1, <1>3 DEF SameWorld, Tracked, TypeInv, StepOfRun
  <2>3. at \in Nat \ {0} /\ i \in Nat \ {0}
    BY <1>1, <2>1 DEF TypeInv, TypeOK
  <2>4. i = at
    BY <2>1, <2>2, <2>3 DEF FirstUsable
  <2> QED
    BY <1>1, <2>1, <2>4
<1> QED
  BY <1>2, <1>3 DEF SetLeft

\* In the same world it does open one.
LEMMA GetOpens ==
  ASSUME TypeInv, PickInv, SameWorld, SetLeft, lastSet.value # NoValue, ~changed,
         flags.backend = lastSet.backend
  PROVE  /\ pc = "start" => flags.backend = AnyBackend \/ HasBackend(flags.backend)
         /\ pc = "open" => ~ErrNoAvailImpl
<1>1. PICK i \in DOMAIN ListOf(flags.backend) : FirstUsable(ListOf(flags.backend), i)
  BY DEF SetLeft
<1>2. ASSUME pc = "start", flags.backend # AnyBackend PROVE HasBackend(flags.backend)
  <2>1. flags.backend \in registered /\ flags.backend \in Backend
    BY <1>1, <1>2, CLIAssumption, FlagTypes DEF FirstUsable, Usable, ListOf, TypeInv, TypeOK
  <2> QED
    BY <2>1, AvailableType
<1>3. ASSUME pc = "open", ErrNoAvailImpl PROVE FALSE
  <2>1. allowed = ListOf(flags.backend) /\ allowed \in Seq(Backend) /\ at > Len(allowed)
    BY <1>3 DEF PickInv, InList, Allowed, ListOf, ErrNoAvailImpl, TypeInv, TypeOK
  <2>2. i \in 1..(at - 1)
    BY <1>1, <2>1 DEF TypeInv, TypeOK
  <2>3. ~Usable(allowed[i])
    BY <2>2 DEF SameWorld, Tracked
  <2> QED
    BY <1>1, <2>1, <2>3 DEF FirstUsable
<1> QED
  BY <1>2, <1>3

LEMMA NextSameWorld == TypeInv /\ SameWorld /\ [Next]_vars => SameWorld'
<1> SUFFICES ASSUME TypeInv, SameWorld, [Next]_vars PROVE SameWorld'
  OBVIOUS
<1>1. CASE Start
  BY <1>1 DEF Start, Register, SameWorld, NowRegistered
<1>2. CASE StartOpen
  <2>1. at' = 1 /\ ring' = NoRing /\ changed' = changed
        /\ UNCHANGED <<platform, world, registered>>
    BY <1>2 DEF StartOpen, TypeInv, StepOfRun
  <2>2. Tracked' => Tracked
    BY <1>2 DEF StartOpen, Tracked, Setting
  <2> QED
    BY <2>1, <2>2, SameMachine DEF SameWorld
<1>3. CASE Open
  <2>1. /\ Trying /\ UNCHANGED <<platform, world, registered, allowed, changed>>
        /\ at \in Nat
    BY <1>3 DEF Open, OpenTries, TypeInv, TypeOK
  <2>2. Tracked' => Tracked
    BY <1>3 DEF Open, Tracked, Setting
  <2>3. CASE Usable(allowed[at])
    <3>1. ring' = allowed[at] /\ UNCHANGED at
      BY <2>3, <1>3 DEF Open, OpenTries
    <3> QED
      BY <3>1, <2>1, <2>2, <2>3, SameMachine DEF SameWorld
  <2>4. CASE ~Usable(allowed[at])
    <3>1. at' = at + 1 /\ ring' = NoRing
      BY <2>4, <1>3 DEF Open, OpenTries, Trying
    <3>2. \A i \in 1..at : i = at \/ i \in 1..(at - 1)
      BY <2>1
    <3> QED
      BY <3>1, <3>2, <2>1, <2>2, <2>4, SameMachine DEF SameWorld
  <2> QED
    BY <2>3, <2>4
<1>4. CASE ListBackends \/ BackendUnavailable \/ NoAvail \/ ListKeys \/ Get \/ NotFound \/ CallFails
  <2>1. pc' = "exit" /\ UNCHANGED <<openVars, flags, lastSet, changed>>
    BY <1>4 DEF ListBackends, BackendUnavailable, NoAvail, ListKeys, Get, NotFound, CallFails, Exit
  <2> QED
    BY <2>1, QuietSameWorld DEF Tracked
<1>5. CASE Set
  <2>1. pc = "act" /\ Setting /\ UNCHANGED <<openVars, changed>>
    BY <1>5 DEF Set
  <2> QED
    BY <2>1, QuietSameWorld DEF Tracked
<1>6. CASE WorldChanges
  BY <1>6 DEF WorldChanges, SameWorld
<1>7. CASE UNCHANGED vars
  BY <1>7, QuietSameWorld DEF vars, openVars, cliVars, Tracked, Setting
<1> QED
  BY <1>1, <1>2, <1>3, <1>4, <1>5, <1>6, <1>7 DEF Next

LEMMA NextSetLeft == TypeInv /\ PickInv /\ SameWorld /\ SetLeft /\ [Next]_vars => SetLeft'
<1> SUFFICES ASSUME TypeInv, PickInv, SameWorld, SetLeft, [Next]_vars PROVE SetLeft'
  OBVIOUS
<1>1. CASE Start
  <2>1. CASE lastSet' = NoSet
    BY <2>1 DEF SetLeft, NoSet
  <2>2. CASE lastSet' # NoSet
    <3>1. /\ UNCHANGED <<lastSet, changed, store, platform, world>>
          /\ registered' = NowRegistered
      BY <1>1, <2>2 DEF Start, Register, NowRegistered
    <3>2. CASE changed \/ lastSet.value = NoValue
      BY <3>1, <3>2 DEF SetLeft
    <3>3. CASE ~changed /\ lastSet.value # NoValue
      <4>1. registered' = registered
        BY <3>1, <3>3 DEF SameWorld, Tracked
      <4>2. ListOf(lastSet.backend)' = ListOf(lastSet.backend)
        BY <3>1, <4>1 DEF ListOf, AvailableBackends
      <4> QED
        BY <3>1, <4>1, <4>2, SameMachine DEF SetLeft
    <3> QED
      BY <3>2, <3>3
  <2> QED
    BY <2>1, <2>2
<1>2. CASE Set
  <2>1. /\ pc = "act" /\ Setting /\ Serves(ring) /\ UNCHANGED <<openVars, flags, changed>>
        /\ store' = [store EXCEPT ![ring] = flags.value]
        /\ lastSet' = [backend |-> flags.backend, value |-> flags.value]
    BY <1>2 DEF Set
  <2>2. /\ at \in DOMAIN allowed /\ ring = allowed[at] /\ allowed = ListOf(flags.backend)
        /\ ring \in Backend
    BY <2>1 DEF TypeInv, StepOfRun, TypeOK, PickInv, InList, Allowed, ListOf
  <2>3. store'[ring] = flags.value /\ lastSet'.backend = flags.backend /\ lastSet'.value = flags.value
    BY <2>1, <2>2 DEF TypeInv, TypeOK
  <2>4. lastSet'.backend # AnyBackend => ring = lastSet'.backend
    BY <2>2, <2>3 DEF ListOf
  <2>5. ListOf(lastSet.backend)' = allowed
    BY <2>1, <2>2, <2>3 DEF ListOf, AvailableBackends, openVars
  <2>6. ~changed => FirstUsable(allowed, at)
    BY <2>1, <2>2 DEF SameWorld, Tracked, FirstUsable, TypeInv, StepOfRun
  <2>7. FirstUsable(allowed, at)' = FirstUsable(allowed, at)
    BY <2>1 DEF openVars, FirstUsable, Usable
  <2>8. ~changed' => /\ at \in DOMAIN allowed /\ FirstUsable(allowed, at)' /\ Serves(allowed[at])
                     /\ store'[allowed[at]] = lastSet'.value
    BY <2>1, <2>2, <2>3, <2>6, <2>7
  <2>9. ~changed' => \E i \in DOMAIN ListOf(lastSet.backend)' :
                       /\ FirstUsable(ListOf(lastSet.backend), i)'
                       /\ Serves(ListOf(lastSet.backend)'[i])
                       /\ store'[ListOf(lastSet.backend)'[i]] = lastSet'.value
    <3>1. FirstUsable(ListOf(lastSet.backend), at)' = FirstUsable(allowed, at)'
      BY <2>1, <2>5 DEF FirstUsable, Usable, openVars
    <3> QED
      BY <2>1, <2>5, <2>8, <3>1 DEF openVars
  <2>10. lastSet'.backend # AnyBackend => store'[lastSet'.backend] = lastSet'.value
    BY <2>3, <2>4
  <2> QED
    BY <2>9, <2>10 DEF SetLeft
<1>3. CASE ListBackends \/ BackendUnavailable \/ StartOpen \/ Open \/ NoAvail \/ ListKeys
           \/ Get \/ NotFound
  <2>1. UNCHANGED <<platform, world, registered, store, lastSet, changed, flags>>
    BY <1>3 DEF ListBackends, BackendUnavailable, StartOpen, Open, OpenTries, NoAvail, ListKeys,
                Get, NotFound, openVars
  <2> QED
    BY <2>1, QuietSetLeft
<1>4. CASE WorldChanges
  BY <1>4 DEF WorldChanges, SetLeft
<1>5. CASE UNCHANGED vars
  BY <1>5, QuietSetLeft DEF vars, openVars, cliVars
<1>6. CASE CallFails
  <2>1. pc = "act" /\ UNCHANGED <<openVars, flags, lastSet, changed>>
    BY <1>6 DEF CallFails
  <2>2. CASE Setting
    BY <2>1, <2>2 DEF TypeInv, StepOfRun, SetLeft, NoSet
  <2>3. CASE ~Setting
    <3>1. store' = store
      BY <1>6, <2>3 DEF CallFails
    <3> QED
      BY <2>1, <3>1, QuietSetLeft DEF openVars
  <2> QED
    BY <2>2, <2>3
<1> QED
  BY <1>1, <1>2, <1>3, <1>4, <1>5, <1>6 DEF Next

\* A get that opens where the last good -set was, and does not fail, finds its value.
LEMMA NextReadBack ==
  TypeInv /\ PickInv /\ SetInv /\ [Next]_vars => ReadBack'
<1> SUFFICES ASSUME TypeInv, PickInv, SameWorld, SetLeft, ReadBack, [Next]_vars PROVE ReadBack'
  BY DEF SetInv
<1> DEFINE Related == Getting /\ lastSet.value # NoValue /\ flags.backend = lastSet.backend
<1>1. CASE Start \/ StartOpen \/ Open
  <2>1. pc' # "exit"
    BY <1>1 DEF Start, StartOpen, Open
  <2> QED
    BY <2>1 DEF ReadBack
<1>2. CASE ListBackends \/ ListKeys \/ Set
  <2>1. UNCHANGED flags /\ ~Getting
    BY <1>2 DEF ListBackends, ListKeys, Set, Setting, Getting
  <2> QED
    BY <2>1 DEF ReadBack, Getting
<1>3. CASE BackendUnavailable
  <2>1. Related => changed
    BY <1>3, GetOpens DEF BackendUnavailable
  <2> QED
    BY <1>3, <2>1 DEF BackendUnavailable, Exit, ReadBack, NoMiss, Getting, Unopened, Missing
<1>4. CASE NoAvail
  <2>1. Related => changed
    BY <1>4, GetOpens DEF NoAvail
  <2> QED
    BY <1>4, <2>1 DEF NoAvail, Exit, ReadBack, NoMiss, Getting, Unopened, Missing
<1>5. CASE Get
  <2>1. Related => store[ring] = lastSet.value \/ (changed /\ flags.backend = AnyBackend)
    BY <1>5, GetFinds DEF Get
  <2> QED
    BY <1>5, <2>1 DEF Get, Exit, ReadBack, NoMiss, Getting, Printed, Missing
<1>6. CASE NotFound
  <2>1. Related => changed /\ flags.backend = AnyBackend
    BY <1>6, GetFinds DEF NotFound
  <2> QED
    BY <1>6, <2>1 DEF NotFound, Exit, ReadBack, Getting
<1>7. CASE CallFails
  <2>1. exit' = Failed \/ (exit' = Missing /\ ring' \in Blind)
    BY <1>7 DEF CallFails, Exit, openVars
  <2>2. Failed # Missing
    <3>1. Failed.error # Missing.error
      BY DEF Failed, Missing
    <3> QED
      BY <3>1
  <2> QED
    BY <2>1, <2>2 DEF ReadBack, NoMiss
<1>8. CASE WorldChanges
  BY <1>8 DEF WorldChanges, ReadBack, NoMiss, Getting
<1>9. CASE UNCHANGED vars
  BY <1>9 DEF vars, openVars, cliVars, ReadBack, NoMiss, Getting
<1> QED
  BY <1>1, <1>2, <1>3, <1>4, <1>5, <1>6, <1>7, <1>8, <1>9 DEF Next

\* A get with the -backend of the last good -set prints its value or fails, as long as
\* the machine stays as it is; one that names its backend never prints another value
\* in any world, nor misses the key in a backend that tells failures from it
\* (cmd/keyring/main.go:41-100).
THEOREM ReadBackHolds == Spec => []ReadBack
<1>1. Init => PickInv /\ SetInv
  <2> SUFFICES ASSUME Init PROVE PickInv /\ SetInv
    OBVIOUS
  <2>1. PickInv
    BY DEF Init, PickInv, InList, PassedOver, OfBuild
  <2>2. lastSet.value = NoValue /\ pc = "exit"
    BY DEF Init, NoSet
  <2> QED
    BY <2>1, <2>2 DEF SetInv, SameWorld, Tracked, SetLeft, ReadBack
<1>2. TypeInv /\ PickInv /\ SetInv /\ [Next]_vars => SetInv'
  BY NextSameWorld, NextSetLeft, NextReadBack DEF SetInv
<1>3. SetInv => ReadBack
  BY DEF SetInv
<1> QED
  BY <1>1, <1>2, <1>3, InitTypeInv, NextTypeInv, NextPickInv, PTL DEF Spec
=============================================================================
