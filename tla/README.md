# Specifications of shortrack

shortrack exports disk image files of a NAS as iSCSI volumes: a gRPC server,
*sigma*, drives the kernel's LIO target through configfs, and a Kubernetes
provisioner asks sigma for volumes. This directory models the server, its
reconciler, what it relies on of the kernel, crashes, the provisioner, and the two
commands that set up a target without a server; states in one abstract module what
the server promises and shows that the detailed one implements it; checks the
models with TLC on small instances; and proves the safety properties that matter
most, and the refinement, with TLAPS for all sizes.

## The system: inventory

| component | source | state | operations | status |
|---|---|---|---|---|
| sigma gRPC server | `sigma/sigma.go` | `State` (pools, volumes, `MaxLUNID`), `StateMutex`, the state file | `CreatePool`, `DeletePool`, `CreateVolume`, `DeleteVolume`, `Get*`, `List*`, `LoadState`, `SaveState` | modelled, `Sigma` |
| reconciler | `sigma.go` `ReconcileAll`, the ticker of `command.go` | none of its own | make targets, portals, LUNs, images and backstores follow `State` | modelled, `Sigma` |
| sigma process | `sigma/command.go` | the flags | load, reconcile, save, serve; die at any time | modelled, `Sigma` |
| LIO configfs, image files | `List*`, `Upsert*`, `Delete*`, `TouchDiskFile`, `DeleteDiskFile` of `sigma.go` | configfs, the volume directory | one operator per function | modelled, `Lio` |
| Kubernetes provisioner | `k8sprovisioner/` | annotations of storage classes and volumes | `Provision`, `Delete` with its fallbacks, both retried | modelled, `Registry`, `Provisioner` |
| standalone experiment | `play.go` | none of its own: one hard-coded target and image | `PlayUp`, `PlayDown` | modelled, `Play` |
| command line client | `main.go` | none | one call, printed | not modelled: pure I/O |
| gRPC bindings | `pb/` | none | generated | not modelled |
| helpers | `pkg/` | none | environment, pointers, logging | not modelled |

How they interact. Every gRPC call runs in a goroutine. All goroutines share
`State` under `StateMutex` (calls that change something take `Lock`,
`ReconcileAll` and the getters `RLock`), and they share the kernel's
configuration, which `CreatePool`, `DeletePool` and `DeleteVolume` also read
*before* they lock. The state file is rewritten, truncate then write, at the end
of every changing call. At boot the process loads it, reconciles once, saves and
only then serves; after that `ReconcileAll` runs once a second. `play-up` and
`play-down` are processes of their own, which share configfs and the volume directory
with each other and with a server of the same machine, and no lock.

What is hard, and what makes each component correct:

* **server**: decisions taken on a snapshot of the kernel that is stale when the
  lock is taken; calls that fail half-way, with the kernel changed and the state
  not, or both changed and the file not; ids cut from 32 to 16 bits. Correct
  when what a client was told stays true across failures and crashes, when a
  generated id belongs to nobody, and when no call touches another's volume.
* **reconciler**: it runs on whatever calls and crashes left. Correct when the
  kernel then follows the state, when it never takes away what somebody has, and
  when it ends, because a `ReconcileAll` that fails every time keeps the server
  from booting.
* **images**: growing one empties it. Correct when a client's bytes stay.
* **provisioner**: it repeats calls whose answer was an error or lost, several
  workers share the storage class object, and it dies between a volume and the
  PersistentVolume for it. Correct when a bound PersistentVolume has a volume
  behind it, when nothing is left behind, and when every claim is served.
* **experiment**: `play-up` exits at the first error, with the kernel half set up;
  `play-down` has to undo whatever that left, and logs its own errors and goes on.
  Correct when a `play-down` that meets no failure leaves nothing, and when a
  `play-up` works over what a failed one has left.

`PROJECT.json` lists these hazards one by one, each at its line.

## Modules

* `Lio` - configfs and image files. A configuration `c` has the IQN directories,
  the portal groups (`tpgs`), portals, LUNs, links and backstores. Functions that
  change it are operators that return the set of outcomes `[ok, fault, c]`;
  `fault` marks an I/O error, which can come after any prefix of the function's
  system calls. The kernel is external code; what is stated of it is that an IQN
  with a portal group and a linked backstore cannot be removed, that a LUN takes
  one link, that only an enabled backstore can be linked, and that a backstore
  opens its image when it is first enabled. A backstore keeps the *file* it opened:
  `DeleteDiskFile` takes the path from it (`Unlink`) and leaves it a file that no path
  leads to, and a file made at that path later is another one. Names are numbers, whose
  order is the order of `os.ReadDir`: it decides which of several backstores of an HBA a
  loop takes. Directories named after an id come in any order ("lun_10" before "lun_2").
* `Sigma` - server, reconciler and process, EXTENDS `Lio`. One action per stretch
  of code between two points where another goroutine can look or the process can
  die: a call's part before the lock (`CreatePool`, `DeletePool`, `DeleteVolume`),
  each kernel function under the lock, `SaveOpen` (truncate) and `SaveWrite`
  (write and reply). A handler's local variables are the record `call[h]`,
  `ReconcileAll`'s are `rec`. `acked` is a ghost: what clients were told last of
  a pool or volume. `budget` counts requests, faults, crashes and client writes.
* `MCSigma` - instance for TLC: name, id and path tables, handler symmetry.
* `Catalog` - the abstract specification: what the server promises, without kernel,
  goroutines and steps. A memory of things under keys, saved before a client is told,
  and back after a restart as it was saved last.
* `SigmaCatalog` - EXTENDS `Sigma`; the refinement mapping (`INSTANCE Catalog WITH`)
  and the property `ImplementsCatalog`.
* `SigmaImages` - EXTENDS `SigmaCatalog` by two history variables. `adopted`: the volume
  ids that took over a backstore or link of another image, clash with another volume, or
  lost their file to the deletion of another volume of their name. `written`: the volumes
  whose settled image has what an initiator wrote. `MCSigmaImages` is its instance.
* `Registry` - the server as its clients see it: a call is one step, answered OK
  after it saved, or with an error after any prefix of its work (kernel, memory,
  the file torn or written, the answer itself lost). The server may stop; a boot loads
  the file, reconciles, saves and listens, or fails before it comes up, and never comes
  up from a torn file or over a leftover backstore that the kernel will not give up
  (`Wedged`). Nothing in the repository starts it again, so nothing here does so for
  sure. Pools are told apart by whether they carry the class's name, volumes by the claim
  whose name they carry. It has its own mapping to `Catalog`.
* `Provisioner` - `Provision` and `Delete`, EXTENDS `Registry`; see below.
* `MCProvisioner` - its instances for TLC: which claim has a pool of its own.
* `Play` - `PlayUp` and `PlayDown`, EXTENDS `Lio`; `MCPlay` is its instance. See below.
* `Extrema` - lemmas about `Min` and `Max` of the community modules, for the proofs.
* `LioProofs` - each outcome of a `Lio` operation is a configuration.
* `CatalogProofs` - the catalog keeps its promise.
* `SigmaProofs` - the inductive invariant of `Sigma` and its theorems.
* `SigmaRefinement` - every step of `Sigma` is a step of `Catalog` or a stutter.
* `SigmaLinks` - theorems on the links and backstores of the kernel: that links are
  backed, who removes the link of an exported volume, what `ReconcileAll` has
  established when it comes to the leftover backstores, which image a LUN serves, and
  that the bytes in an image stay.
* `ProvisionerProofs` - theorems on bound PersistentVolumes, the class's pool, volumes
  left behind, and that the server the provisioner talks to is a `Catalog`.
* `PlayProofs` - the inductive invariant of `Play` and its theorems.

Definitions whose name has a suffix after an underscore (`StaleLUNs_swapped`, ...)
are mutants: plausible bugs that the properties are tested against. No
specification uses them.

State and code correspond as follows.

| model | code |
|---|---|
| `st`, `file` | `Server.State`; the JSON state file: none, torn (truncated, not yet written) or a state |
| `st.pools[p]`, `st.vols[<<p, v>>]` | `State.Pools[p].Name`, `State.Pools[p].Volumes[v]` |
| `writer`, `rec.pc # "idle"` | holder of `StateMutex.Lock`; `ReconcileAll` holds `RLock` |
| `call[h].target` | `target` in `DeletePool` and `DeleteVolume`, listed before the lock |
| `rec.pools`, `rec.vols` | what is left of the range loops of `ReconcileAll` |
| `server` | down, booting (up to the first `SaveState`), up |
| `portal` | `Config.Portal`, chosen anew at each boot |
| `reg`, `saved`, `stores` (`Registry`) | `Server.State`, the state file, the ids of the kernel's backstores |
| `class`, `cached`, `obj` (`Provisioner`) | the StorageClass in the API, the version in the library's cache, the pool-id annotation in the memory of each version's object (`options.StorageClass`) |
| `work[c]` | `poolID`, `volumeInfo` and the object of a running `Provision` or `Delete` |
| `pv[c]` | the PersistentVolume, the ids `Provision` annotated it with, and which of the annotations (`noted`) are still there |
| `hbas` (`Play`) | the directories `core/fileio_<id>`, with or without backstores in them |
| `run[x]` | where a command is, and what is left of the listings its loops range over |

Abstractions. A call that is rejected before it changed anything is a call that
did not happen (statuses are left out). Map iteration is a choice of any element.
Attributes of portal groups, serial numbers and modes are left out. Names are
never empty: `CreatePool` and `CreateVolume` compare with the empty string, so an
empty name behaves differently, and nothing is claimed of it. `Reboot` is an
orderly restart: the model has no loss of unsynced file contents.

## What is checked

| run | instance | properties |
|---|---|---|
| `calls` | 2 handlers, 1 pool id under 2 names, 6 requests | `ReconcileEstablishes`, `WedgedByNamesOnly`, `OwnImageServed`, `OnlyOwnerUnexports`, `DeletedMeansGone` |
| `crash` | 1 handler, pool args 1 and 5 (equal modulo 4), 2 portals, 3 requests, 1 fault, 1 crash or reboot, 1 write | `TypeOK`, `AckedOutcomesHold`, `ReconcileEstablishes`, `ImplementsCatalog` |
| `images` | ids 1 and 2, 2 sizes, 4 requests, 1 fault, 1 crash, 1 client write | `SettledDataKept`, `OwnImageServed` |
| `pools` | 2 pools, volume args 1, 2, 4 (4 is cut to 0), 4 requests, 1 fault, 1 crash | `NextVolumeIdIsFresh`, `IdsBounded`, `OwnImageServed`, `OnlyOwnerUnexports` |
| `live` | 2 handlers, 3 requests, 1 fault, fairness | `CallsReturn`, `VolumesGetExported`, `LeftoversCollected` |

* `AckedOutcomesHold`: after an OK a created pool or volume is in the state of
  every later serving server, a deleted one is not. Faults and crashes included.
* `IdsBounded`: each volume, in memory and in a loadable file, has a pool and an id
  from 1 to `MaxLUNID`.
* `NextVolumeIdIsFresh`: a generated id is used by no volume, backstore or link,
  provided the kernel has any backstore. Without one the code starts at 1 again;
  that case is excluded from the property and listed as a hazard.
* `OnlyOwnerUnexports`: a volume's link goes only by a call on that volume or pool.
* `DeletedMeansGone`: at the OK of `DeleteVolume` the kernel has no backstore of
  that id and no link to one, also when the target it had listed was stale.
* `ReconcileEstablishes`: when `ReconcileAll` comes to the leftover backstores the
  kernel follows the state (targets, the one portal, LUNs, links).
* `WedgedByNamesOnly`: the only two cases in which a leftover backstore cannot be
  removed, and `ReconcileAll` hence fails each time. Both come from names: an HBA
  that holds two backstores, and a target under a name its pool no longer has. The
  latter is reachable: `DeletePool` lists a target, another client deletes and
  recreates the pool under another name, and `DeletePool` removes what is gone.
* `SettledDataKept`: what an initiator wrote to the LUN of a volume whose image has its
  final size is in the file at the volume's path, and still is after whatever is created,
  deleted, reconciled, crashed or rebooted, as long as the volume is in the state (or,
  with the server down, in the state file), no system call fails, and the volume's path
  and id are and were its own. The initiator writes to the *open* file (`ClientWrite`);
  that this is the one a restart opens again is what has to hold, and does not for a
  volume whose file another one of the same name took with it, hence `adopted`. An image
  smaller than a GiB is emptied by the first `ReconcileAll`: that is what the code does,
  and why the size is in the property.
* `OwnImageServed`: the LUN of a volume links the backstore of the volume's id and
  name, and that has the file open that is at the path of the pool's and the volume's
  present names. A
  backstore keeps what it opened, and a LUN its link, when the pool goes; a
  `CreateVolume` under the same ids that comes before `ReconcileAll` takes them over
  as they are (`UpsertBackstore` returns early for an enabled backstore, `UpsertLUN`
  for a link that is there), and then serves the image of the old name. It does so
  later, too, when its id clashes with another volume's: two pools may have a volume of
  one id and name, and so one backstore for two images, and a state file that could not
  be rewritten may still have a deleted volume of the id under another name, whose
  backstore the next boot makes again. And two volumes of one pool may have one name,
  so one file: `DeleteVolume` of the one removes it, the backstore of the other goes on
  with a file that has no path, and `ReconcileAll` makes a new one. `adopted` marks the
  ids this was brought about for (`Adopting`, `Bereaved`), and they are excepted; the
  exceptions are real, `calls` and `images` find violations of the property without them.
* `ImplementsCatalog`: every behaviour is one of `Catalog`, see below.
* `CallsReturn`, `VolumesGetExported`, `LeftoversCollected`: calls end; a volume
  whose LUN a failed delete removed is exported again; backstores without a volume
  are removed (with the exceptions of `WedgedByNamesOnly`).

Bounds. `MaxU16` is 3, so ids run from 1 to 3, arguments 4 and 5 are cut to 0 and
1, and the generated id wraps within 4 requests. One pool id under two names and
two concurrent handlers are what a stale snapshot needs: list, delete, create,
act; six requests leave room for volumes on top. One fault and one crash: a second
fault finds a state a first one has made, which the other runs start from as well.
`GiB` is 2 and sizes are 1 and 2, below it and at it (`images` has 1, which
`ReconcileAll` grows, and ids up to 2 to stay small). In `crash`, `images`,
`pools` and `live` the deadlock check is off: a file torn by a crash or by a write
that fails during boot keeps the server from booting (`LoadState` returns the parse
error, `command.go` exits), so the system really may stop. In `calls`, without
faults and crashes, it may not, and the check is on.

Fairness (`live`). A goroutine that can run runs: weak fairness of a handler's
steps past its lock and of `ReconcileAll`'s. `sync.RWMutex` starves nobody: a
blocked `Lock` keeps new readers out, and waiting readers precede the next writer,
hence strong fairness of taking the lock, for each handler and for the ticker's
`ReconcileStart`. Arrivals, faults, crashes, `Boot` and client writes have none.

### What the server promises

`Catalog` has six kinds of steps: `Create` and `Delete` of one pool or volume, `Count`
(an id is given out), `Save`, `Lose` (a save that is not finished leaves nothing to
load), `Stop` and `Start`. Clients are told `present` or `absent` only by `Save`. That
is what the whole of `Sigma` comes to when kernel, images, locks and `ReconcileAll`
are hidden. The mapping of `SigmaCatalog`:

| `Catalog` | `Sigma` |
|---|---|
| `serving` | `server = "up"` |
| `mem` | `MemoryOf(st)` while it is up, else empty: volume `<<p, v>>` under its key, pool `p` under `<<p, 0>>` |
| `kept` | nothing while the file is torn, else what is in it; a booting process counts as what it has read |
| `told` | `acked` |

A boot that reads the file, reconciles and truncates the file is a stutter until it
dies with the file torn (`Lose`) or comes up (`Start`). Two facts carry the mapping: a
booting process has what is in the file (`BootsFromFile`), and `CreateVolume`, which
checks that the volume is not there several kernel calls before it puts it into the
state, still finds it not there (`CreatesNew`, for which `StateMutex` is the reason).
`crash` checks `ImplementsCatalog` on its instance; `SigmaRefinement` proves it.

`Registry` maps to the same `Catalog` (`TalksToCatalog` in `claims`). This says what the
provisioner's calls come to at the server, torn files included; it does not say that
`Registry` and `Sigma` are one server. What the two have in common is stated by `Catalog`
and no more; `Registry`'s own outcomes (a failed save, a failed boot, a `ReconcileAll` that
fails) are translated from the code, as those of `Sigma` are.

### The provisioner

One action per call `Provision` or `Delete` makes (`ListPools`, `CreatePool`,
`UpdateClass`, `CreateVolume`, `GetVolume`, `DeleteVolume`), so that the workers of
two claims, the server and the API interleave between them. `Annotate` is a step of
its own: the annotation is written into the object the library's cache and other
workers share, and sent afterwards. Claims or classes that are refused for their
form (a selector, an unparsable annotation, no `serverAddr` or `poolName`) change
nothing and are left out. The controller library, the API server's version check
and the cache are external, modelled from how `k8sprovisioner.go` uses them: it
is retried until it succeeds, what it returned is stored as a PersistentVolume, and
a process that dies forgets its workers. PersistentVolumes are made by `Provision`, with
both id annotations; `Edit` takes annotations away, and `Delete` then falls back on the
class's pool, on any pool the server lists under the class's name, or, without one,
succeeds and leaves the volume; without a volume id it asks by name and fails each time.

| run | instance | checks |
|---|---|---|
| `claims` | 2 claims, one that asks for pool 1, made by hand or not; 1 fault, 1 end of the server or the provisioner, 1 edit | `TypeOK`, `BoundBacked`, `OrphansBounded`, `ClassPoolKept`, `TalksToCatalog` |
| `served` | 2 claims, 1 fault, 1 end of the server or the provisioner, fairness | `ClaimsServed`, `VolumesReclaimed` |

* `BoundBacked`: a bound PersistentVolume has its claim's volume behind it: in the
  memory of a server that is up, and in the state file unless a save that failed left
  that torn. The exception (`TakenBy`) is a `DeleteVolume` for another claim whose id was
  given out again since. That can happen: the answer is lost, the kernel has no
  backstore, the next volume gets id 1 again, the delete is repeated and takes the new
  volume. The id is given out again in the same pool, or in another one, if `Delete` had
  lost the pool's annotation and guessed it: the guess may change between two calls.
* `OrphansBounded`: a volume that nobody has is left behind only for a fault, an edit,
  or a worker that was cut off between `CreateVolume` and its PersistentVolume by the
  end of the process, a restart or a panic, one for each (`budget.cut` counts these).
* `ClassPoolKept`: the class's annotation stays, once it is stored, but for claims
  with a pool of their own: their pool is written over it, because `Provision`
  reads the class's annotation only when the claim has none.
* `TalksToCatalog`: whatever workers, retries, faults and restarts do to the server, it
  is what a `Catalog` does: one thing made or deleted at a time, a volume only in a pool
  that is there, under a new id of it, and after a restart what was saved last, or
  nothing that could be loaded.
* `ClaimsServed`, `VolumesReclaimed`: retries end, with five exceptions (`Stuck`), all
  reachable: a server that is down (and stays down if its file is torn, or
  `ReconcileAll` fails at each boot); the repeated `DeleteVolume` (it takes
  the backstore of id 1, the other claim's `CreateVolume` then generates the
  id 1 of a volume that is there, `GetVolume` finds nothing, the process panics on
  the nil answer, and starts with the same delete again); a class annotated with
  a pool that a server listed, had not saved, and lost in its restart; ids used
  up by retries of a `CreateVolume` in such a pool; and a `DeleteVolume` that the
  kernel refuses each time, because a volume of another pool was given the same id and
  its LUN links the backstore (`LinkedElsewhere`). A PersistentVolume that lost its
  volume-id annotation is never reclaimed either (`GetVolume` by name finds nothing);
  `served` has no edits, `claims` has.

Bounds: two claims are the least that race, and one fault is the lost answer that makes
a call be repeated; what more of either could do is proved (`ProvisionerProofs`); ids up
to 3 let an id be given out again, and run out. `served` starts without pools and has
one fault only: the liveness check takes minutes with more. A `ReconcileAll` that fails
each time (`Wedged`) takes two faults, so neither run gets there; with ids up to 2 and
two faults all properties of both runs were found to hold too.
Deadlock is off: when every claim is gone, or the server's file torn, the system stops.
Fairness: the library works on every claim again and again, its cache follows the API,
a server that is up runs `ReconcileAll` every second. A boot has none: who starts the
server is not in the repository.

### The experiment

`Play` has one action per system call of `PlayUp` and `PlayDown` that changes something,
and one per directory listing; two processes run commands alone or at the same time,
each can be killed between any two steps and each call can fail. `PlayUp` ends at the
first error (`os.Exit`). `WriteConfig` to a directory that another process has removed
ends it too: it takes the mode from a `FileInfo` that is nil then, and panics. What
`PlayDown` has listed and not yet visited is in `run[x]`; a removal that the kernel
refuses is logged, and the loop goes on.

| run | instance | checks |
|---|---|---|
| `play` | 2 processes, 3 commands, 1 failed call or kill; an empty system, or one on which a sigma server has set up two targets and a volume | `TypeOK`, `DownLeavesNothing`, `UpExports`, `UpFailsOnlyIfUp`, `CommandsEnd` |

* `DownLeavesNothing`: a `play-down` that ran alone and met no failure leaves no IQN,
  portal group, backstore, HBA or image, whatever failed, killed or concurrent commands
  had left. It removes the targets and images of a sigma server as well: it lists what
  is there and does not ask whose it is.
* `UpExports`: a `play-up` that ran alone and ended well exports the image, under its
  portal, with the backstore's size the file's.
* `UpFailsOnlyIfUp`: a `play-up` that runs alone and meets no broken call fails only if
  its backstore was enabled, or its LUN linked, when it *began* (`clear` is the ghost that
  remembers it; by then `os.Create` has emptied the live image). So what a `play-up` that
  failed or was killed before the enable left, or a server's targets and backstores in
  the same HBA, does not stop it at any of its steps.
* `CommandsEnd`: commands end, also `play-down` next to a `play-up` that makes again what
  it has removed. Fairness: a process that runs goes on running.

Three commands are up, down and up again, or two at once and one that cleans up; one
failure gives every half-way set-up. Deadlock is off: the commands run out.

### Where code and its messages disagree

Four runs end in a violation; each checks what a message of the code says.

* `volume_names`: a pool gets two volumes of one name, so of one image file
  (`sigma.go:630` compares with a name that is set only at line 645).
* `pool_names`: two pools get one name, so one IQN (`sigma.go:348`, set at 362).
* `get_by_name`: `GetVolume` compares the name with the pool's (`sigma.go:529`).
* `size_sign`: a size above the largest int64 becomes negative (`sigma.go:567`).

Each property is also tested against a mutant of the model, listed in
`PROJECT.json`: the change is a plausible bug, and TLC finds the property violated.

## What is proved

`SigmaProofs` proves, for any number of handlers, ids, names, portals, requests,
faults and crashes:

* `Invariance`: `Spec => []IInv`
* `TypeCorrect`: `Spec => []TypeOK`
* `Durability`: `Spec => []AckedOutcomesHold`
* `IdsAreBounded`: `Spec => []IdsBounded`

`CatalogProofs` proves of the abstract specification, for any ids and things, that it
keeps its types and its promise (`CatalogTypes`, `CatalogPromise`): what clients were
told holds in the server that is up and in everything the next one could load.

`SigmaRefinement` proves `Refinement`: `Spec => ImplementsCatalog`.

`SigmaLinks` proves

* `LinkInvariance`: `Spec => []LInv`
* `FreshIds`: `Spec => []NextVolumeIdIsFresh`
* `DeletedIsGone`: `Spec => DeletedMeansGone`
* `OwnersUnexport`: `Spec => OnlyOwnerUnexports`
* `ProgressInvariance`: `Spec => []PInv`
* `ReconcileFollows`: `Spec => []ReconcileEstablishes`
* `WedgedByNames`: `Spec => []WedgedByNamesOnly`
* `ImageInvariance`: `HSpec => []GInv`
* `OwnImages`: `HSpec => []OwnImageServed`
* `SettledData`: `HSpec => []SettledDataKept`

`ProvisionerProofs` proves, for any number of claims, ids, faults, restarts and edits:

* `TypeCorrect`: `Spec => []TypeOK`
* `VolumesBacked`: `Spec => []BoundBacked`
* `ClassKeepsPool`: `Spec => ClassPoolKept`
* `TalksToACatalog`: `Spec => TalksToCatalog`
* `FewOrphans`: `Spec => []OrphansBounded`

`PlayProofs` proves, for any number of processes, commands, failures and kills, and
whatever was there before:

* `InvHolds`: `Spec => []PlayInv`
* `TypeCorrect`: `Spec => []TypeOK`
* `AllIsRemoved`: `Spec => []DownLeavesNothing`
* `ImageIsExported`: `Spec => []UpExports`
* `LeftoversDoNotStop`: `Spec => []UpFailsOnlyIfUp`

The assumptions are those the modules declare, and TLC evaluates them in each run:
`LioAssumption` and `SigmaAssumption` (numeric bounds, finite names, the types of the
constant tables); `RegistryAssumption` and `ProvisionerAssumption` (finitely many claims,
none of them the value that stands for no claim or for a pool's kind); `PlayAssumption`
(the own target, image and portal are of their types, and what was there before is a
configuration in which every directory is in one that is there, as the kernel's are).

`AckedOutcomesHold` is not inductive. It speaks of a serving server; what the next
boot loads must agree with the replies too, which holds only because a reply
comes after the write, and because between truncate and write the file is torn
and cannot be loaded. `IInv` adds

* `LocksOK`: one handler is past its lock, or `ReconcileAll` runs, or neither, and
  nobody runs in a server that is not up. So the state does not change between a
  call's effect and its reply, nor under `ReconcileAll`'s loops.
* `CallsOK`: the writer's locals are about things in the state, and what it is
  about to save is what it was asked for.
* `RecOK`: what `ReconcileAll` has left to visit is in the state.
* `DurableOK`: memory and any loadable file are well numbered and agree with `acked`.

The proof has one lemma per action. Most actions are one of six shapes (return,
continue under the lock, enter, take effect, `ReconcileAll` goes on, `ReconcileAll`
stops), each a lemma on its own; an action's lemma then has only to give the
types of what it hands over. `LioProofs` supplies those of the kernel, `Extrema`
those of ids chosen as minimum or maximum of a set.

`Refinement` rests on `RInv`, that is `IInv`, `BootsFromFile` and `CreatesNew`. Both are
needed: a booting process that has not saved yet could otherwise come up with something
else than the catalog has kept, and a `CreateVolume` put its volume over another one,
which no step of the catalog does. The proof has one lemma per action and kind of
catalog step; kernel steps change nothing of the mapping and are done together.

`NextVolumeIdIsFresh` needs that every link goes to a backstore that is there and
enabled (`Backed`), which no single action shows: `CreateVolume` links after it has made
the backstore, and `DeleteBackstore` leaves one that is linked, in whatever order calls,
`ReconcileAll` and failures come. With it a generated id, above `MaxLUNID` and every
backstore, is above every link. `DeletedMeansGone` needs that what `DeleteVolume` has
removed is not there again two steps later, when it answers (`Removed`): the other
goroutines that could make it are kept away by `StateMutex`, which is what `LocksOK`
says. `LInv` is `IInv` and these two, with one lemma per kernel operation (`Lio`) and
one per action.

`OnlyOwnerUnexports` is an action property, but the action alone does not keep it:
`DeletePool` and `DeleteVolume` remove the links of a target they listed before they
locked, and the pool may have been replaced meanwhile. What stays true is that the
target they hold has the number of the pool they are about (`Aimed`; `OInv` is `IInv`
and this for every handler), so what they unlink belongs to it. Of `ReconcileAll` the
proof needs only where it stands: it deletes targets of unknown pools and LUNs of unknown
volumes, and `RecOK` says that the pool it is in is in the state.

`ReconcileEstablishes` speaks of one point of a loop that takes a step per target, LUN
and volume, with calls arriving and listing in between, initiators writing, and I/O
errors. `PInv` carries what each visited pool and volume has (`Progress`): a pool that
was visited has its target, this portal only, and no LUN but its volumes'; a volume that
was visited has its LUN, a link in it and an enabled backstore of its name. Each of the
eight steps of `ReconcileAll` has a lemma: it adds the pool or volume it was at and keeps
the others. The last step is the one where this could go wrong, since it removes
backstores: a backstore of an HBA that no LUN links is no visited volume's, for a volume's
LUN has the number of the HBA it links (`Placed`). Steps of handlers that change the state
or the kernel cannot come in between (`LocksOK`).

`WedgedByNamesOnly` follows: a leftover backstore that is linked is linked in a LUN of a
target of some pool (`Placed`). If the target has the pool's name, the LUN is a volume's,
whose backstore is in the same HBA under another name than the one `ReconcileAll` read.

`OwnImageServed` speaks of a link that is there now; which one that is was decided when a
backstore was enabled or a LUN linked, by a call, by `ReconcileAll` or by a boot, each from
a state that may be gone by then. What the three have in common is a *want*: the LUN of
number `v` on target `t` for the backstore of number `v` and name `n` (`Wanted`). The
volumes of the state want, those of the state file would after a restart, and so does the
`CreateVolume` that holds the lock. `GInv` adds to `IInv`, `Backed` and `Placed` that for
each id that is not in `adopted` all wants can be had at the same time (one image per
name, one name per LUN), and that no other image is open and no other link made under
their names (`IdServed`, `ImagesOK`). It is kept because a step enables and links only
what is wanted (`KernelGets`, with the lemmas `UpsertBackstoreOpens` and
`UpsertLUNLinks`), and because only the arrival of a `CreateVolume` adds a want
(`NoNewWants`: saving, booting and putting the volume into the state only move one from
the one place to the other). That arrival is the step that `adopted` looks at. An id that
leaves `adopted` is in no state, file or backstore, so only one call can want it
(`UnusedServed`). The attempt to prove it found the clashes: the property had held in
all runs, and was false for five requests on two pools, or a fault and a crash.

In all this a path stands for the file that was last made there: `KernelGets` has a third
case, the backstore whose file a `DeleteVolume` removes, and `FileGets` shows that no
volume that is left alone wants the image of such a one.

`SettledDataKept` needs all of this, because the initiator writes to the file that is
open. `WrittenOK` says of each volume that was written to that it is settled, has its
path for itself, is not in `adopted` and has the bytes at its path. A write goes there
(`ReachedKept`: the LUN serves the volume's own file, by `GInv`), and a step takes them
away only if it disturbs the volume (`UndisturbedKept`): what `ReconcileAll` visits is in
the state (`RecOK`), so it is the volume itself, whose image is large enough and is left
alone (`TouchSpares`), or has another path; `DeleteVolume` removes the image with the
volume or has another path; and a boot or a reboot starts from a state file that has the
volume as it was.

`BoundBacked` speaks of a PersistentVolume; a worker that is about to make one must have
its volume already, and no retried `DeleteVolume` may hit it unseen. `BackedInv` is the
types, `WorkersOK` (what a worker's locals say of its claim's PersistentVolume, and that
only a released one has been deleted for) and `Backed` (the property for workers at
"store" too). A save leaves the file as it was, torn, or with what is in memory
(`Saving`), and no boot comes back from a torn file: so memory and file can be followed
together.

`ClassPoolKept` depends on how old a worker's reading of the class is: `ClassInv` adds
that a worker about to write a pool it found for lack of one has read an older version
than the class has since it has a pool (`ClassReadOK`), so its update is refused, and
that the object of the newest version holds the class's pool or one of a claim
(`NewestObject`), although workers write into that object without a lock.

`OrphansBounded` counts. An induction over steps needs what is owed, not only what is
visible: `DebtInv` says that the volumes that are left behind, or would be after a
restart with the present state file (`Loose`), together with the PersistentVolumes that
lost an annotation (`Edited`, whose delete may miss), are at most the faults, cut-off
workers and edits. Each step adds at most as much to the one side as to the other. Two bounds
that had been checked with TLC turned out false here for larger instances and were
corrected: a panic of one worker cuts off all the others, and a `Delete` that guesses
may hit an id in two pools one after the other.

`TalksToACatalog` maps each step of `Registry`, whoever takes it, to a step of `Catalog`;
it needs of the invariant that a volume's pool is there and its id new (`BackedInv`). A
save that goes wrong and a boot that dies at its save leave nothing to load (`Lose`).

`DownLeavesNothing` speaks of the end of a command that removed things in one listing
after the other. `PlayInv` says at each point what the lists still to visit cover
(`DownOK`: the IQNs, groups, portals, LUNs, HBAs, images that are left) and, for
`PlayUp`, what has been made so far (`UpOK`). Removals succeed only on directories that
are empty, hence `Nested`: portals, LUNs and links are in groups that are there, groups
in IQNs, backstores in HBAs. And none of it is undone in between because a process that
`calm` contains is the only one that runs (`Alone`). `UpFailsOnlyIfUp` needs that what was
out of the way at the start still is when `PlayUp` comes to it (`ClearOK`), though by then
it has enabled its own backstore. There is one lemma per system call.

Every safety property of the runs that pass is proved. Only model-checked are the
liveness properties (`CallsReturn`, `VolumesGetExported`, `LeftoversCollected`,
`ClaimsServed`, `VolumesReclaimed`, `CommandsEnd`): liveness under fairness is beyond the
prover.

## Not modelled

* `main.go`: flags, one gRPC call per command, printing; `pb/`: generated; `pkg/`:
  environment variables, pointers and logging. None keeps state of the system. The types
  the bindings give the requests (32-bit ids, 64-bit sizes, optional fields) are in the
  argument sets of `Sigma`.
* `ListPools` and `ListVolumes` copy the state out under `RLock`; as calls of the
  provisioner they are in `Registry`.
* What the two volumes of one claim do to the image file they share, when a retried
  `Provision` makes a second volume of the same name: `volume_names` shows that the
  server allows it, `Registry` does not have images.
* Attributes of portal groups and backstores, ACLs, initiators, and the contents of an
  image beyond whether it has a client's bytes.

## Plan

Done: `Lio`, `Sigma` and their runs; `IInv` and its proof; `Registry`, `Provisioner`;
`Catalog`, the refinement and its proof; `SigmaImages`; `Play`; the proofs of
`SigmaLinks`, `ProvisionerProofs` and `PlayProofs`. Left:

1. `TouchDiskFile` against a reference that grows a file and keeps what is in it, for
   all sizes and not only those on both sides of a GiB.
