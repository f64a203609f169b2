# A TLA+ development of keyring

`keyring` is a Go library and a small command that store secrets behind one
interface (`keyring.go`: `Get`, `GetMetadata`, `Set`, `Remove`, `Keys`) in
whatever the machine offers: an encrypted directory, the Linux kernel keyring,
desktop daemons, 1Password vaults, the keychains of Apple and Microsoft, or the
programs `pass` and `passage`. The library keeps no lock and runs no thread of
its own. What makes it hard is that every store is shared, with other processes,
other machines, daemons, and the person who owns the secrets, and that every
method is a sequence of system calls or requests with nothing to hold them
together.

These modules describe that: what the interface promises, how the backends get
there step by step, and where they do not. All line numbers refer to files of
the repository, all paths start at its root (`src/` in `PROJECT.json`).

## 1. The system

| Part | State | Operations | Shared with, called by | What is hard | What makes it correct |
|---|---|---|---|---|---|
| Interface and errors, `keyring.go` 91-138 | none | the five methods, `ErrKeyNotFound` | every backend implements it | says nothing about concurrency or failure | a call acts at one instant or fails |
| `Open`, registration, `keyring.go` 14-89 and every `init` | `supportedBackends`, a package variable | `init`, `AvailableBackends`, `Open` | build tags, environment, D-Bus | the choice depends on the moment; failing openers are skipped silently | order of `backendOrder`; the same world gives the same backend |
| Command, `cmd/keyring/main.go` | none | `-list-backends`, `-list-keys`, `-set`, get | `Open`, one backend call | runs communicate only through the backend that each happens to open | one run finds what another has set |
| File, `file.go` | a directory, the cached passphrase | the five methods, `resolveDir`, `unlock` | other processes, the person typing | truncate-and-write, crashes, mistyped passphrases | acknowledged items can be read back |
| keyctl, `keyctl.go` | kernel keys and keyrings, the serial number of the keyring | `Open`, the five methods, `createNamedKeyring`, the read loop | processes, sessions, other programs' keys | four system calls per `Set`; ids that die between two calls | permissions before exposure; nothing left in the session; no lost update |
| Secret Service, `secretservice.go` | the collection, the D-Bus session | the opener, the five methods | the desktop daemon, a person who locks or deletes | stale collection, locks between calls, double creation | one collection, which all processes use |
| 1Password, `opcommon.go`, `opstandard.go`, `opsrvaccount.go`, `opdesktop.go`, `opconnect.go` | a vault, the client | the five methods, making a client | other machines, a person's own items | titles are not unique, no transaction, timeouts | at most one item per key; strangers' items untouched |
| KWallet, `kwallet.go` | wallet handle | the opener, `openWallet`, the five methods | KWallet daemon, the person | cached handle; dropped return codes | nothing is answered that is not there; what is acknowledged is done while the wallet is open |
| pass, passage, `pass.go`, `passage.go` | a directory of files | the five methods | external programs | stat, then act | an absent key is `ErrKeyNotFound` |
| Windows Credential Manager, `wincred.go` | credentials by name | the five methods | other programs | names joined by colons; dropped listing error | keys of services stay apart |
| Windows Hello, `winhello.go`, `winhello/` | credentials, a persisted Passport key, a cached wrapper | the five methods, ensure and open the key, wrap and unwrap | other processes, the NCrypt provider, a person | creating a key is eight calls; cached wrapper | what is stored can be unwrapped; handles are freed |
| macOS and iOS keychain, `keychain_macos.go`, `keychain_ios.go` | keychain file, Touch ID flag | the five methods, `createOrOpen`, Touch ID | the person, other programs | add-or-update; a passphrase that is tried and then stored; the flag set before the unlock | the stored passphrase opens the keychain; the keychain is unlocked when the flag says so |
| In-memory, `array.go` | a map | the five methods | one program | nothing | none beyond the map |
| Prompts, tilde | none | read a passphrase, expand `~` | terminal, environment | an answer that is empty, wrong or missing | part of the file module |

Calls go one way: command or program to `Open`, `Open` to an opener, the program
to the methods of what it got. State is shared between processes only through
the stores. The only callback is `passwordFunc`, the prompt.

`PROJECT.json` lists under `hazards` what can go wrong in each place, and which
property would notice.

## 2. The modules

### KeyringCalls, KeyringContract: what a keyring promises

`KeyringCalls` has the calls a client can make and the replies it can get.
`KeyringContract` is an abstract store, `items`, used by several clients, each
with the call it is in and the reply it is `due`. A call begins, takes effect in
one step (`Look`, `Stat`, `List`, `Store`, `Erase`, `Miss`) and returns; or it
fails, at any time. This is linearizability, with room for what the interface
leaves open: a failed `Set` may have stored its item or damaged it, for good or
while it lasts; a `Remove` may swallow pending `Set`s of its key. Damaged items
are errors, never "not found" and never another item. The constant `Weak` names
what a backend gives up beyond this (`KeyringContract`'s header lists the seven
possibilities), and each use of it below is a fact about that backend.

Each backend is shown to implement it by `INSTANCE KeyringContract WITH`, the
abstract store and replies being functions of the backend's state (`Stored`,
`DueNow`), and with `Contract` or `WeakContract` as a PROPERTY.

### FileKeyring: `file.go`

State: whether the directory exists, each key's file (absent, empty, a token with its
data and the passphrase it is sealed with, or torn), each process's cached
passphrase, and where each call stands. Actions are system calls or prompts:
`GetAbsent`, `GetRead` (79-84), `Prompt`, `PromptCancelled`, `Unlocked` (56-71),
`GetDecode` (90-99), `GetMetadata`, `SetOpen` and `SetWrite` (the two halves of
`os.WriteFile`, 148), `Remove`, `RemoveAbsent`, `Keys`, `KeysPartial`. Every one
that goes through `resolveDir` makes the directory. `IOError`, `WriteError` and
`Restart` are the faults. File names are left out because their escaping (27-30)
is injective; encryption is whether the passphrase is the one the token was
sealed with. `acked` is a history variable: who was told that what is stored.

### KernelKeyrings, KeyctlKeyring: `keyctl.go`

`KernelKeyrings` is the kernel as the calls in 236-313 see it: keys with type,
description, payload and permissions; keyrings that link them; displacement of
an old key of the same name; recursive search; destruction of what is no longer
linked. It is external code. `KeyctlKeyring` has one action per system call:
`Open`, `FindRing`, `Add`, `SetPermission`, `LinkKey`, `UnlinkKey` (shared by
`Set` and `createNamedKeyring`, which do the same things to an item and to a
keyring), `SearchMisses`, `SearchFinds`, `RemoveUnlinks`, the read loop
(`ReadGone`, `ReadGrows`, `ReadItem`, `ReadRing`), `Describe`, `Described`.
`SetFails` is a step whose key or keyring has gone; `SyscallError`, `Crash`,
`StrangerAdds` and `StrangerRemoves` come from outside; `StrangerAdds` is the same
`add_key` as a `Set`'s, so that it updates a key of that name in place, one on its way
through the session included. A permission mask is reduced to whether the configured one
has been applied.

### OPVault: the five 1Password files

A vault of items with ids; titles may repeat. A client lists (`List`), fetches
item by item (`Fetch`, `FetchGone`), and then answers or makes one change
(`Create`, `Put`, `Delete`, `ChangeGone`). `Kind` tells the SDK clients, which
list the vault and keep their session, from Connect, which asks for a title and
makes a new client in every call (its methods have value receivers, so
`InitializeOPConnectClient` fills a copy). Prefix, tag and field title
are the same for all clients, so a title stands for its key, and an item is
`tagged` and `shaped` or not. A timed-out request has had its effect or not by
the time its call fails; one that takes effect later still is not modelled.

### SecretService: `secretservice.go`

Collections by D-Bus path, each present or deleted, locked or not, with items;
the path that has the configured name; for each process the collection it holds.
Steps are D-Bus calls: `OpenSecrets` (76-116), `CreateCollection`, `Unlock`,
`SearchItems`, `GetSecret`, `CreateItem`, `Delete`, `Items`, and one `Label` per
item. `Lock` and `DeleteCollection` are the desktop's and the person's. Items
are replaced by key because `CreateItem` is called with replace (196-206). A D-Bus call
can fail, or take effect and lose its answer (`AnswerLost`). A collection that is created
gets a path that is new or, under a free name, that of one which has gone, at which a
process may still look.

### WinHello: `winhello.go`, `winhello/`

Each key's credential is missing, foreign, or an envelope: data sealed with a
content key that one Passport key wraps, bound to the name it was stored under
(`crypto.go:60-179`). All processes share the Passport key, which is probed
(`KeyFound`, `KeyMissing`), created, initialised property by property (`Initialize`;
the cache policy under one of two names, 137-179), finalized, and freed
(`passport.go:37-179`). `wrapper` is `Backend.wrapper`, set once per process;
every use opens the key anew (`Open`, `OpenMissing`, `wrap.go:84-113`). `held`
are the NCrypt handles of a call, which every path has to give back. Faults: any
NCrypt or credential call, the end of a process, a person who deletes the
Passport key, and another program that puts credentials under other names.
The provider is external; as Microsoft documents it, a call with the flags the
code gives (0) never replaces a key that has been finalized, so the second of
two creators fails (`KeyTaken`).

### Keychain: `keychain_macos.go`, `keychain_ios.go`

One module: the iOS file is the configuration "plain" of it. Set goes through
`Status` (does the keychain file exist, 303-313), `Ask` and `Create`, or `Touch`, `Lookup`,
`Lock`, `Unlock`, `Keep` (Touch ID, 336-431), and then `Add`, or `Find` and `Update` for
a duplicate (146-174, 224-238). Query, GetMetadata, Delete and Keys are one
call each. A person locks, opens, deletes or re-keys the keychain at any time. Any
passphrase unlocks a keychain that is already open; `changed` says when a
passphrase under trial was passed for that reason, or fits no longer.

### PassKeyring, WinCred, KWallet, Stores

`PassKeyring` is `pass.go` and `passage.go`, which differ only in names and
extensions: a stat, a run of the program, a step of the directory walk. The
program is external: a run does its work in one step, or fails, and a failed
`insert` may leave the file as it was, new, or damaged. `WinCred` has the names of
`wincred.go:96-98` as sequences of the pieces between colons, for processes of
the same or of different services. `KWallet` has the handle, the check of it at
the start of a call (66-71) and the return codes that `Set` and `Remove` drop.
Their state is small, so `Stores` joins the three, and `MCStores` checks them in
one run: the initial state picks the backend of a behaviour, and each property is
about one.

### KeyringOpen, KeyringCLI: `keyring.go`, `cmd/keyring/main.go`

`KeyringOpen` has the build constraints and registration conditions of all
twelve backends, `backendOrder`, `AvailableBackends` and the loop of `Open`, one
opener per step, in a world whose daemons and programs come and go.
`KeyringCLI` runs the command again and again on one machine: any flags, the
check of `-backend`, `Open`, one call, an exit status. The call may fail on any backend
(`CallFails`, `main.go` 68-70, 84-86, 94-97); a `-set` that fails has stored its value,
lost the old one, or done nothing. Four backends (`Blind`) may answer a failure as a
missing key: `pass` and `passage`, because any error of a stat counts, KWallet, and the
keychain, because no results count before the error does. The
file backend fails every call (`Serves`), since `main.go` sets no `FileDir` (`file.go:38-41`).

## 3. What is checked

| Run | Instance | Properties | What it shows |
|---|---|---|---|
| `file_contract` | 2 processes, 1 key, 2 items, 2 passphrases, empty and cancelled prompts, I/O errors, restarts; no overlapping `Set`s of a key | `TypeOK`, `ReadYourWrites`, `Contract` | The directory is a keyring, and a client reads back what it was told it stored |
| `file_weak` | 2 processes, 2 keys, 1 passphrase, overlapping `Set`s, all faults, fairness | `WeakContract`, `EveryCallReturns` | What is left without that discipline: torn items and incomplete lists. With one item, that no `Get` answers another one is left to the theorem |
| `keyctl_contract` | 2 processes, own sessions, one service, one of them with permissions, 2 items of different length, fairness | `TypeOK`, `PermissionFirst`, `SessionClean`, `HandleIsRing`, `Contract`, `EveryCallReturns` | The system calls give a keyring, overlapping `Set`s included, and the read loop ends |
| `keyctl_faults` | 1 process, every system call may fail, crashes, another program in the session that adds, updates and removes | `SetLeavesItem`, `WeakContract`, `SessionKeysKept` | What a failed `Set` leaves is not read later, unless the other program updates it; a `Set` leaves its item, or what that program has put in its place (`Exchanges`); nothing but a `Set` of the same name touches what others keep in the session |
| `keyctl_session_scope` | violation | `SetLeavesItem` | With scope `session` and permissions, `Set` undoes itself |
| `op_vault` | a service account, a Connect client, 1 key, 2 items, any tokens, failing and timed-out requests, 2 items of the person that look alike | `TypeOK`, `OneItemUnlessOverlap`, `Contract`, `PersonalUntouched` | The vault is a keyring until two `Set`s of a key overlap; strangers' items are safe even then |
| `secret_service` | 2 processes, 2 keys, 2 items, 3 collections, all faults | `TypeOK`, `OneCollection`, `Contract` | The collection is a keyring that a person may empty by deleting it; locks, refused prompts, D-Bus errors, lost answers and a stale handle only make calls fail; what is stored in a second collection that was created at once is lost, and nothing else |
| `open_cli` | 5 builds, a world that changes at any step, any call may fail | `TypeOK`, `ReadBack`, `NothingPickedBehindSure` | Which backend a run gets; what a run finds of a good `-set` before it, if its call does not fail |
| `win_hello` | 2 processes, 1 key, 2 items, 4 Passport keys, all faults | `TypeOK`, `OneKeyServes`, `KeyWhole`, `HandlesFreed`, `Contract` | Processes that make the Passport key together end with one, whole key; its envelopes make a keyring; no handle is left |
| `keychain` | 2 processes, both plain, both with Touch ID, or one of each on one file; 1 key, 2 items, 2 passphrases, all faults | `TypeOK`, `StoredPassphraseOpens`, `Contract` | The keychain is a keyring but for failing queries; the passphrase in the login keychain is right |
| `keychain_touch` | violation | `AlreadyUnlocked` | A wrong passphrase at set-up leaves the flag set and the keychain locked |
| `stores` | `pass`, Windows credentials (same, unrelated and nested service names), KWallet; 2 processes, 2 keys, 2 items, all faults | `TypeOK`, `PassContract`, `WinCredContract`, `ServicesApart`, `KWalletContract` | Each is a keyring but for weaknesses that are tied to one step each |

The two violation runs are the findings in `PROJECT.json`; each quotes the sentence
of the repository that the code does not keep. Four more disagreements are in the
models, and limit what the properties claim: a `Get` that reads a file between the
truncation and the write of a `Set` (`file.go:148`) answers an error, where
`keyring.go:115` knows an item or `ErrKeyNotFound`; two services, or a service and
another program, in one session exchange the items of one name that pass through it
(`keyctl.go:131-144`), and the `Set` that stores the other's returns nil; two
overlapping `Set`s of a new key leave two 1Password items that no call can use
(`opstandard.go:136`); and a process that has found a Secret Service collection
goes on with it after its deletion (`secretservice.go:91`).

The conditions under which properties are claimed are real limits of the code
and not conveniences. `ExclusiveSets` (file): with overlapping `Set`s tokens tear,
which `file_weak` covers. `OpenAlone` (keyctl): two processes that create the
named keyring at once displace one another. `overlapped` (1Password), `raced`
and `deleted` (Secret Service, `OneCollection`), `lost` (Windows Hello), `changed`
(keychain, command): history variables that say when a claim ends. Where `Contract`
excepts a step it says which, and all others are held to the full contract: a
`Get` or `Set` that the deletion of the Passport key has met (`Overtaken`), a call on a
second collection (`Strayed`), another program's `add_key` (`Exchanges`), and in
`KWallet` the steps of a wallet that has closed.

### Bounds, and why they are enough

- Two clients. Every interference above needs one actor between two steps of
  another; a third would add a second copy of one of them. The proofs below are
  for any number.
- One key where keys cannot affect one another (`op_vault`, `keyctl_*`,
  `win_hello`, `keychain`), two where a step looks at several (`Keys`, the second
  key of `file_weak`, `secret_service` and `stores`). Two items tell an old value from a new one.
- Ids: 9 kernel serial numbers, 7 vault ids and 4 Passport keys are more than can be
  in use or remembered at once, so that in every reachable state a new one is left
  to take (`Free`, `FirstFree`), and ids are unbounded in effect.
  Without a free serial number `AddKey` would be an error of the run, not a
  disabled step; two `Set`s of one key make at most two items. The 3 collections of
  `secret_service` are a real bound: one of the name, one beside it, and one to come.
  When races and lost answers have used them up (`NewCollections`), no further one is
  created; the theorems are for any number.
- Data lengths 1 and 2 make the read loop of `keyctlRead` go round and see a key
  that grows between two reads.
- `open_cli` lets two backends come and go and names two on the command line. The
  builds are the three systems plus two with opt-out tags. An opener that fails once
  with its daemon up counts as a change of the world.

- `stores`: keys `k` and `b:k`, services `a`, `a:b` and `c` are all the ways in
  which joined names can be apart or run into one another.

No state is cut by a constraint. `win_hello` uses symmetry of its two processes,
`secret_service` of processes, keys and items, which neither the specification nor a
property (all safety) tells apart.

### Fairness

`FairSpec` of `FileKeyring` and `KeyctlKeyring` is weak fairness of each process's
`Step`: a process that is running gets to its next system call, and a person who
is asked answers (possibly by cancelling). It holds because neither backend waits
for another process. It contains no fairness of calls, faults, crashes or the
choices of others. Where `EveryCallReturns` is checked, what could prevent
it is the read loop and a step that no action continues. The other backends wait
for daemons, servers, sensors and people, for which the code sets no limit, so
nothing is claimed about their progress.

## 4. What is proved

All backends and the command, each for any sets of processes, keys, items and
faults, under the assumption named in its module (the special values are different
from the ordinary ones; in `WinCred` and `PassKeyring` also that names and keys are
sequences, and no key the empty one: the key "" is one empty piece or path). Each
module of proofs begins with what it needs to know of calls and replies.

**Types.** `Typing` in each of the modules of proofs: `Spec => []TypeOK`. The type
invariant is nowhere inductive by itself: that a step has a key, an item or a handle to work
on depends on its being a step of the right call. `TypeInv` adds `StepOfCall`, and
every action preserves it. For keyctl it takes more, because a key can die, and its
serial number be given again, between any two steps of a call: `ShapeOf` says that
links are to keys there are and that keyrings nest one deep, so that what `Settle`
leaves is linked by something that is left; `KeysEvolve`, that a number which some
process holds names for ever the key it named, or none.

**Invariants.**

- `ReadYourWritesHolds` (file): with `ExclusiveSets`, `Spec => []ReadYourWrites`. The
  strengthening is `WriteInv`: no two `Set`s of a key are under way (`OneSetter`);
  a `Set` about to write finds the file as it truncated it (`WriterFresh`); and a
  `Set` about to return has its own token in the file (`Settled`). `Prompt` is where
  it matters that an empty answer is not counted as a passphrase: it is the only
  step that changes one, and it does so only from "".
- `OneItemHolds` (1Password): a title has one keyring item until two `Set`s of the
  key overlap. Inductive with `TitleInv`: of a key that is not in `overlapped` one
  `Set` at most is under way, and past its listing every keyring item of the key
  is one that it has still to fetch or has got (`SetKnows`), so that it creates
  only when there is none. `PersonalUntouchedHolds` is the action property that no
  call touches a person's item, from `PersonalInv`: no such item is ever among
  those that a call has got.
- `OneCollectionHolds` (Secret Service): until two processes are creating at once
  there is one collection, and each process works on it or on none. Inductive
  with `OneCreator`: one process at most is about to create, and while it is there
  is no collection.
- `HandlesFreedHolds`, `KeyWholeHolds`, `OneKeyServesHolds` (Windows Hello). The
  step a call is at says which handles it may hold (`HeldByStep`). `SealedInv` joins
  the other two: a draft about to be finalized has all its properties, a handle
  that a call wraps with is one to the Passport key there is, and all that is sealed
  or about to be written is sealed with it, until that key is deleted.
- `StoredPassphraseHolds` (keychain). `TriedInv`: a passphrase is tried on a
  locked keychain, and one that a call is about to store fits, unless `changed` says
  that the keychain may have been open or re-keyed.

- `ServicesApartHold` (Windows credentials), an action property: whatever pieces the
  names have, a name that begins with two services makes one of them begin with
  the other (`PrefixesMeet`).
- The command. `NothingPickedHolds`, from `PickInv`: the list of a run is all that its
  process has registered, in the order of `backendOrder` (`AvailableIs`), and of what
  Open has passed over nothing was sure to open. `ReadBackHolds`, from `SetInv`: while
  the world stays, the runs since the last good `-set` have registered the same
  backends, and the first of their list that opens is the one that holds its value
  (`SetLeft`); what a run names, it gets or nothing. Any call may fail, and then the run
  says so; only the four backends of `Blind` may call it a missing key. What the loop of
  `AvailableBackends` has gathered after each turn would be an induction; there are
  twelve turns, and the smallest one at which the claim failed could not be the
  first nor follow another (`Smallest`, from the well-foundedness of `<`).

- keyctl, of processes none of which keeps its items in the session of a process
  (`SessionsApart`; with it the session is the keyring, see 3):
  `PermissionFirstHolds`, from `PermInv`: a key that is in a session, or that a
  call is taking through one, has its permissions in every other keyring that links
  it. `SessionKeysKeptHolds`, an action property, if all processes set
  permissions (`AllByWay`) and but for what other programs do to it: a key is in one
  session at most, and a call that takes one through a session finds it in no other (`SessionInv`). `HandleIsRingHolds`, if
  no two processes are in `Open` together: who opens has found no keyring of its
  service, and there is none until it has linked its own (`HandleInv`).
  `SessionCleanHolds`, if besides nothing fails and nobody else uses the sessions.
  `SetLeavesItemHolds`: a `Set` that returns nil has left its item in its keyring,
  whatever fails, if each process that sets
  permissions has a session of its own (`OwnSessions`) and no two have scope and
  service in common (`OwnKeyrings`). Another program that adds a key of the same name to
  the session may have put its data in the place of the item, and no other (`Given`); what
  `OwnSessions` excludes is two services that exchange items in one session.
  `keyctl_faults` has one process; that the `Set`s of other services do no harm is
  this theorem's. `HoldApart` is what it rests on: no key is that of two processes,
  be it in the keyring one has open, in its session or in the hand of its call, so that a key which a `Set` is about to link is changed by
  no other (`SetInv`). It takes that a keyring of items is linked from one scope only
  (`HomeInv`), and that a number in use is not one the kernel gives again
  (`AliveInv`).

**Refinement.** Each of them implements `KeyringContract`: `Init` maps to `CInit`,
and every step to a step of the contract or a stutter, one lemma per kind of step.

- File: `WeakContractHolds` is for any callers and faults;
  `ContractHolds` for callers that keep `ExclusiveSets` and a directory whose reads do
  not break off, with `WriteInv`, since a `Set` that finds its file as it left it is
  the only one to write.
- 1Password: `ContractHolds`, from `TitleInv`, `PersonalInv` and `FoundInv`. A call makes
  many requests, and the contract allows it one effect; `FoundInv` says that its
  listing, or the fetch of its item, has settled what it will answer: a `Keys` has
  the titles it listed or will get them (`Tallied`), a `Get` or `Remove` has the item
  or will (`Searched`), unless an item has gone and the call fails. What it knows of
  an id stays true because no new item is given an id that a call knows of
  (`KnownIds`). The exception is that of `Contract`, two overlapping `Set`s.
- Secret Service: `ContractHolds`. A process that can use its collection, and has not
  strayed to a second one, has that of the configured name (`HandleIsNamed`); what is
  created beside it changes nothing that anybody finds (`CreatedUnseen`), for which
  `NamedExists` is enough.
- Windows Hello: `ContractHolds`, from `CalledInv`, which the unwrapping and the writing
  need: of a call that has not met the
  deletion of the Passport key, what it has opened is the key there is and what it
  is about to write is its own item, sealed with that key. `OneKeyServes` would not do:
  it says nothing once a key has been deleted and made again.
- Keychain: `ContractHolds`, with the exceptions of `Contract` itself.
- pass: `PassContractHolds`. A walk is a call that answers in pieces: what it has
  found so far is what it would list now, and each file it visits is there. What
  is left to visit are directories and files of keys (`PassWalks`).
- Windows credentials: `WinCredContractHolds`, of processes of one service. A listing
  cuts the service off the names that begin with it; that what is left are the
  keys, and all of them, takes that every credential is that of some key
  (`CredOfSomeone`) and that a key can be told from its name (`CredParts`).
- KWallet: `KWalletContractHolds`.
- keyctl, of processes that share a keyring (`SharedKeyring`, `SessionsApart`):
  `WeakContractHolds` is for one process, with any faults, crashes and other programs in its
  session, but for the steps by which these put their own item in the place of one that is
  on its way or was left there (`Exchanges`): that may be the item a `Set` acknowledges, or,
  when a dead call has left its key in both places, one the keyring has already. In the steps
  of the proof such an `add_key` is `DataGiven`, and `ReadAtHome` says that a key which is
  changed in place while a `Get` reads it is in the keyring still. `ContractHolds` for any number, when all set permissions, each by way of its
  own session, or none does (`Together`: besides `SameWay` and `OwnSessions`, no failures and
  no two in `Open` at once). `StoreInv` is what every step needs. No keyring links two
  keys of one type and name (`NamesUnique`), so that there is one keyring to search
  (`RingsOne`) and one item of a key in it (`ItemFound`). And of what a call holds
  (`CallInv`): a number that is still alive names the key it was searched for, a key
  on its way through a session has the data of its `Set` (`WorkInv`), and a `Keys` whose
  ids are all alive will answer what it has read (`ListInv`). A `Get` reads after it has
  searched. With permissions nothing changes a key in between, since a `Set` links a
  new one, and the `Get` took effect at its search; without them a `Set` updates the key in
  place, and the `Get` takes effect at its read, where the key, if alive, is still in the
  keyring, there being no other place for it (`ItemsAtHome`).

All have the hypothesis `DataApart`: the markers "no item" and "damaged" of the
refinement mapping are not items themselves.

Only model-checked: liveness, which under fairness is out of the proof system's reach,
as ENABLED is; and the contract of keyctl for processes of which some set permissions
and some do not, which `keyctl_contract` checks for one of each. With three, a key still
in the session of its creator may be updated in place and then displaced from the
keyring, between the search and the read of a `Get`: the instant of that `Get` is
the update, which the refinement mapping (`Due`, the search or the read) does not show.
No module declares a RECURSIVE operator.

## 5. What is not modelled

The in-memory keyring (`array.go`), a map behind one-line methods without I/O or
failure. NCrypt's system calls and error texts (`winhello/ncrypt.go`,
`ncrypt_error.go`, `hwnd.go`), terminal input, `~` expansion, D-Bus and JSON
encodings, debug output, Docker and CI files. Cryptography is reduced to which key
opens what.

Also left out, within what is modelled: a keyctl keyring opened on the scope
itself while other programs nest keyrings in it (searches go into them, links do
not); the contents of 1Password items beyond one field; requests to 1Password that
take effect after their call has timed out; D-Bus sessions, which are opened by
every call and never closed; the handles of the Windows Hello probe
(`winhello/passport.go:42-57`), which is one step that opens and frees them; whether a
1Password item is archived, which `opstandard.go:80` tests and Connect does not
(`opconnect.go:164-168`): every item here is active; access lists, labels and synchronisation flags of
keychain items; what `pass` does inside one run of it.

## 6. Plan

Done: `KeyringCalls`, `KeyringContract`; `FileKeyring`, `OPVault`, `SecretService`,
`WinHello` and `Keychain`, each with its proofs and its refinement; `KernelKeyrings`,
`KeyctlKeyring`; `KeyringOpen`, `KeyringCLI`; `PassKeyring`, `WinCred`, `KWallet`, joined in
`Stores`; and their proofs.

What would come next, in this order:

1. The contract of keyctl for processes that set permissions and others that do not, with
   a mapping that shows a `Get` the updates of its key.
2. Requests of `OPVault` that arrive after their answer has been given up.
