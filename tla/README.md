# TLA+ specifications of libvirt-operator

libvirt-operator is a Kubernetes operator. Users describe libvirt hosts,
volumes, domains and so on as objects of the API server; for each kind a
controller reconciles what libvirt has with what the objects say. This
directory holds models of the operator, the TLC configurations that check them
on small instances, and proofs of the properties that matter most for instances
of every size.

## The system

| Part | State | Operations | What makes it correct |
| --- | --- | --- | --- |
| **HostStore** (`internal/store/host.go`) | a map from the UID of a Host to a `HostEntry`: libvirt client, open sessions, a monitor goroutine | `Register`, `Deregister`, `Lookup`, `Session`/`end`, `monitor`, `gracefulDisconnect` | no deadlock; each host that can be looked up is kept connected; a replaced client is closed, but not under an open session |
| **AuthStore** (`internal/store/auth.go`) | a directory of credentials for each Auth, behind a symbolic link | `Register`, `Deregister`, `Lookup` | the link always leads to one set of credentials, complete unless a `Close` failed; a failure leaves a state the next call can recover from |
| **Auth controller** (`controller/auth.go`) | Auth objects, combined generation | reconcile, watch on Secrets | the AuthStore holds the newest credentials; an Auth in use is not deleted |
| **Host controller** (`controller/host.go`) | Host objects, combined generation | reconcile (register, probe), watch on Auths | the client of a host uses its current Auth; a Host in use is not deleted |
| **Pool, Network, PCIDevice controllers** | objects that mirror libvirt resources | probe every minute, deletion check | Ready tells what the last probe saw; the host of a live resource is kept |
| **Volume controller** (`controller/volume.go`, `action/volume.go`) | Volume objects, volumes of libvirt | create (download, overlay), resize, delete | below |
| **CloudInit controller** (`controller/cloudinit.go`) | CloudInit objects, ISO volumes | create, delete | as for volumes |
| **Domain controller** (`controller/domain.go`, `action/domain.go`) | Domain objects, domains of libvirt | define, start, shutdown, undefine | a domain is defined only from resources that exist and stay as long as it does |
| **Admission webhooks** (`internal/webhook`) | none | name generation, uniqueness; updates and deletions are always admitted | no two objects that name the same Pool or Host object stand for one libvirt resource, if they are created one after the other |
| **Command and manager** (`internal/cmd`) | the stores, the cache, the queues, one worker for each controller | start, shutdown | a restart loses nothing that the API server and libvirt do not hold |

The parts interact in four ways.

- *Through the API server.* Controllers read objects from an informer cache,
  which lags behind the API server, and write them with `Update` and
  `Status().Update`, which the API server refuses when they are based on an old
  version. A finalizer keeps an object until its controller has cleaned up.
  References are protected by labels: an object that uses another carries a
  label with its name, and the deletion of the other lists the objects with
  that label.
- *Through the stores*, which are shared by the workers of all controllers. A
  reconcile opens a session on the client of its host for the time it runs.
- *Through libvirt.* A volume is created by one controller and used by another.
- *Through the work queues.* A change of generation, an error or `Requeue`
  enqueues an object. Status and labels of other objects do not, except that a
  new generation of an Auth enqueues the Hosts that bear its label, and one of a
  Secret would its Auths.

What is hard: the interleavings of workers and monitor goroutines on the store;
copies of objects that are stale when they are used; calls that fail after they
took effect; crashes between two calls; lists that are checked before an effect
that follows later; labels written before or after what they protect; retries
that are the only way on. `PROJECT.json` lists these hazards at their lines
with the properties that cover them, or with the reason why none does.

## Modules

| Module | Models |
| --- | --- |
| `HostStore` | the store of connections, its monitors and sessions, and the callers' use of it |
| `Credentials` | what the store of credentials promises: an abstract specification |
| `AuthStore` | the store of credentials, one file-system call at a time, and the dialers that read its files; implements `Credentials` |
| `Ownership` | what the controllers promise about what they make for an object: an abstract specification, implemented by `HostController`, `VolumeController` and `DomainController` |
| `Reconcilers` | what the controllers run on: API server, cache, queues, workers, restarts |
| `HostController` | `AuthReconciler` and `HostReconciler`, over `Reconcilers`, with both stores reduced to maps |
| `ProbedResource` | `PoolReconciler`, `NetworkReconciler` and `PCIDeviceReconciler`, over `Reconcilers`, with the hosts they ask |
| `CloudInitController` | `CloudInitReconciler`, over `Reconcilers`, with the admission of its objects, the Pools they refer to and the deletion of these |
| `VolumeController` | `VolumeReconciler` and `VolumeAction`, with API server, cache, libvirt, users and crashes |
| `DomainController` | `DomainReconciler` and `DomainAction`, with API server, cache, libvirt, guests, users, crashes, and the deletions of resources and of the host |
| `MC...` | instances of the controllers for TLC |
| `...Proofs` | the inductive invariant and the theorems of the module of that name; `ReconcilersProofs` holds the lemmas that the controllers over `Reconcilers` share |

`VolumeController` and `DomainController` have their own variables for API
server, cache and queue; the later modules take them from `Reconcilers`, which
has several workers and keeps an object as one record. The rules are the same
in both.

### HostStore

State: `entries` is the map and `mu` its mutex; of each `HostEntry` there is the
connection of its client (`client`, what `IsConnected` says), its open
`sessions`, and where its monitor is (`mon`). Workers have a program counter
`pc`, the host they reconcile (`arg`) and the entry they hold (`ref`).

One action stands for what the code does between two points at which another
goroutine can be seen. `Lookup` is one step because it holds the mutex for one
map access. `Register` is three: `RegisterLock`, `RegisterInstall` (connect,
start the monitor, publish the entry) and `Signal`, the rendezvous with the old
monitor on the unbuffered channel `mon`. `Session` is two, since `IsConnected`
is tested before the mutex of the entry is taken. `gracefulDisconnect` is a
round of its loop (`MonitorDrain`), the sleep (`MonitorWake`) and `Disconnect`
(`MonitorClose`): the number of sessions is read without a lock, and time
passes before the call. A connection may be lost at any time and the manager
may stop at any time.

The generation of an entry is not modelled here: whether HostReconciler keeps
or replaces the entry it found is left open (`Reregister`). `HostController`
has the generations and leaves out the monitors.

### AuthStore and Credentials

State: `entries` is the map (of an entry its generation); `link` is what the
path of an Auth points at, `tmpLink` what `path.tmp` does; `dirs` are the
directories there are, `whole` those whose files are written and closed, `unclosed`
those where `Close` has failed for a file, `made` the generation a directory was
made for. `Register` and `Deregister` hold the
mutex all along, so one program counter `pc` is enough; each call to the file
system is a step with an outcome where it fails, which returns at once, as the
code does, and leaves behind what the code leaves behind. Two errors are only
logged: the one of the clean-up (`CleanFails`) and the one of `Close`
(`CloseFails`), after which `Register` goes on with files that may be incomplete.
A dialer (`dial`)
resolves the path and opens a file of the directory in two steps, for two files
in turn: the kernel does not lock, and a monitor may reconnect at any time.

`Credentials` has what `HostReconciler` and the dialers may rely on: of each
Auth the generation whose files are under its path and the generation that
`Lookup` returns; the latter is set to the former, the former changes in one
step from the files of one generation to those of another, and nothing is served again
after it was withdrawn. The refinement mapping is `Served` (what the link leads
to), `entries`, and `Withdrawn`.

### Reconcilers

`obj` is what the API server holds, `cache` what the operator sees of it,
`behind` the objects for which these differ in version, `queued` the queues. A
worker is a program counter `pc`, the object `cur`, its copy `loc`, and whether
that copy is still the newest (`fresh`). Versions need no numbers: a write with
an old copy is refused, a write with the newest one succeeds. A write ends in
`WriteOk` (the reconcile goes on), `WriteEnds` (it is over) or `WriteFails`
(refused or lost, or only the reply is). `Restart` empties the workers and fills
cache and queues by a list. `Lagging` bounds the objects the cache may be behind
of while anything else happens (`Prompt`).

### Ownership

For each object: whether it is there (`life`), holds the finalizer (`held`), something
was made for it outside of the API server (`has`), and its controller works on
its deletion (`retired`). Something is made only for an object that holds the
finalizer and is not retired, given up only for one that is, and the object goes
only when nothing is left of it. Being retired is for good, so that what was
given up is never made again.

The mappings are `InStore` (entries of either store; `Volatile`, because a restart
empties them), `HasMade` (what libvirt has, but for what it had before), and
`Retired`: the cache has the deletion and no worker is at the object with a copy
from before it. The point of the refinement is this last set: a reconcile that
began before the deletion, a retry, or one after a crash could make again what
the one of the deletion has just removed. `CloudInitController` does not
implement `Ownership`: two objects can stand for one volume, and the deletion of
one removes it for both.

### HostController

Both reconciles share finalizer, deletion check and deregistration (the
parameter `w` is the worker), then go their ways: `SecretOk`, `RegisterOk` for an
Auth; `GetAuthOk`, `LookupOk`, `EntryOk`, `DialOk`, `AuthLabelOk`, `Probe` for a
Host. `creds` and `conns` are the two maps. A connection records, besides the
sum it is registered at, what its dialer was made of, which the code does not
keep. `Enqueued` has the predicates of the watches. `unlabelled` is a history
variable: the Hosts whose `AuthLabel` could not be written.

### ProbedResource

The three controllers run the same reconcile, and the map names the lines of
one of them for each definition. `real` is what libvirt has on each host, `up`
the hosts that can be asked, `recent` the objects probed less than a minute ago.
The report is written by two calls, `ReadyOk` and `RecordOk`; `answer` is what
is being written, `asked` a history variable for the host that gave it.

### CloudInitController

Like a volume with local content, but with the label after the creation.
`UserCreates` takes a set of objects, whose requests are all validated by `InUse`
before any is stored. `InUse` compares, as the webhook does, the names of the
objects (`Name`) and the Pool objects they refer to (`poolRef`, immutable). The
volume of libvirt is another matter: `Target` is in the pool that the Spec of the
Pool names at the moment (`naming`), which may be the one of another Pool and
which users may change (`UserMovesPool`). A reconcile finds it out once, in
`RefsOk`, and works on that `volume` until it ends. `pool` is the part of the
reconcile of each Pool that deletes it.

History variables: `maker`, the object a volume was made for; `doubled`, the
volumes for which two objects were admitted without the webhook seeing the other
(the cache did not show it, or it refers to another Pool); `moved`, the volumes
that objects stood for when their Pool changed, before it and after; `unlabelled`,
the objects of which a reconcile ended between the creation and the label.

### VolumeController

State: `obj`, `cache`, `behind`, `queued` as above; `storage` and `capacity` are
libvirt's. The reconcile is `pc`, `cur`, `loc`, `locFresh`, and `found`, whether
libvirt had the volume at the beginning.

Each call of the reconcile to the API server or to libvirt is a step with an
`...Ok` and a `...Fails` action. A failing write may have been stored, a failing
libvirt call may have taken effect. What the other controllers decide (is the
pool Ready, does the host have a session, is a domain using the volume) is left
open at every step, so the safety properties hold whatever they do. The
informer is `CacheSync`; it enqueues a volume only when its generation has
changed. `Crash` loses the reconcile and refills cache and queue.

Sizes are multiples of a unit of `UnitBytes` bytes. `ConvertToBytes` multiplies
modulo `Width`, as `uint64` does modulo 2^64; the comparisons and the resize use
it, whereas the creation hands value and unit to libvirt, which refuses what
does not fit (`NewCapacity` is then empty and `MakeOk` cannot happen).

`Preexisting` holds volumes that libvirt may have before the operator starts;
the operator adopts them, and the properties about owned and labelled storage
leave them out, because the code never labels what it adopts.

### DomainController

State: as in `VolumeController`; `power` is what libvirt has of each domain. A
domain that was asked to shut down stays in `"asked"` until the guest obeys
(`GuestObeys`), which may be never or long after the reconcile has given up; a
guest may also stop by itself (`GuestStops`). `found` and `off` are what
`DomainAction.State` returned at the beginning: the reconcile decides by them to
the end.

The four loops of create over disks, interfaces, PCI devices and cloud-init do
the same thing to their elements: read the resource, test that it is Ready,
describe it, write its label. They are one loop over `Needs[d]`, a sequence of
`Resources`, with `NeedOk` and `LabelOk` for one round; for `Images` (volumes
and cloud-init images) libvirt is asked as well, which finds a dropped one.

A resource goes through the part of its own controller that matters here:
Ready, found unused by a list of the cached domains (`ResChecked`), dropped
(`ResDropped`), and gone from the cache of the operator (`ResForgotten`). The
host is deleted by the list of `HostReconciler` (`HostDeleted`), when all that
depends on it is gone.

## Runs

| Run | Bounds | Shows |
| --- | --- | --- |
| `host_store` | 1 host, 2 workers, 2 registrations | the safety properties of the store in every interleaving; reconciles end, replaced clients are closed |
| `auth_store` | 1 Auth, 1 dialer, 3 generations, 5 directories, 2 failing calls | paths lead to complete files but for a failed `Close`, dialers never go back, nothing is left behind, the newest generation is registered in the end; `AuthStore` implements `Credentials` |
| `host` | 1 Host that moves between 2 Auths, 2 generations of the Host, deletions, the cache lags behind the Host | the deletion check of an Auth sees the Host connected with it; the controllers implement `Ownership`: what is in the stores has an owner |
| `host_live` | 1 Host that moves between 2 Auths, 2 generations of the Host and of one Auth, no deletions | the sum tells every new Spec of the Host, but for a Host that goes over from an Auth of a larger generation; neither store goes back to an older Spec; credentials and numbers catch up with the newest Specs, and so does what a connection was made of, but in the two cases that the number hides |
| `volume` | image and overlay, sizes 1 to 3 of two bytes in integers below 5, that users change | nothing is unlabelled, dropped unasked, Ready but absent, made smaller, or based on a volume that is given up by a controller that sees it; `VolumeController` implements `Ownership`: nothing is orphaned |
| `volume_live` | image that is downloaded and overlay | creations and deletions end |
| `volume_upload` | the same | *violation*: a volume without its content becomes Ready |
| `domain` | one domain with a disk and an interface, `Spec.Shutoff` changes, the guest stops | nothing is undefined unasked; a resource in use is given up only by a controller whose cache lags; `DomainController` implements `Ownership`: nothing is orphaned |
| `domain_live` | one domain with a disk, new or adopted, `Spec.Shutoff` changes | creations, shutdowns and deletions end |
| `domain_host` | one domain without resources, current cache | *violation*: the host is deleted under the domain |
| `probed` | one object that users move between 2 hosts | its report is of one probe of its own host; in the end it is true and its label is right |
| `cloudinit` | 2 objects of one name, 2 Pools, of which one is deleted and made to name the pool of libvirt of the other, once | Ready means that the volume is there, but for twins that the webhook did not see and Pools that changed; a Pool with a labelled image is kept; no object that is not Ready is forgotten |

Bounds and why they are enough. `MaxRegisters` bounds `Register` calls: two are
one replacement, while the first monitor still drains. Two workers are the one
that writes the store and one that only reads it; more readers do not interact,
except through sessions, which are counted only as "none" or "some". Hosts share
only the mutex of the store.

In `auth_store` the first of three generations makes the link, the second
replaces it, and the third replaces what a replacement, or a failed one, has
left; two failures are one that leaves something behind and one in the retry.
Two generations of a Host or an Auth are a Spec and its successor. The two Auths
of `host` have one generation each, because which one a Host refers to is what
matters for a deletion; only the Host may lag in the cache, as the checks of an
Auth read Hosts. In `host_live` one of them changes as well, so that
it can be registered anew between two steps of the Host worker, and a Host can
go over to an Auth with a smaller, the same or a larger generation;
the exception of `CurrentConnectionIsNew` and those of `StoresCatchUp` occur. Deletions
are left out there: they take objects away, and it is those that stay whose connections
must be new. So is the lag of the cache, for the size of the graph; the theorems about
`CurrentConnectionIsNew` and `StoresGoForward` are for any lag.

Two volumes are one reference. With `UnitBytes = 2` and `Width = 5` the sizes 1,
2 and 3 are 2, 4 and, wrapped around, 1 byte: one fits below the other and one
is a large size that converts to the smallest capacity. The bytes 0 and 3, which
no size gives, come from a download whose server does not tell its length and
from one of odd length. `volume_live` needs no sizes: all are nil. `Resized`
names the volumes whose size users change; `Toggled` and `Stopping` do the same
for changes of `Spec.Shutoff` and for guests that stop by themselves, `Changing`
and `Deletable` for Hosts and Auths. One domain is enough because there is one
worker and domains do not look at each other; what two reconciles of different
domains share is the queue, whose fairness is stated for each domain. Two
resources give a creation that is interrupted between two labels, and one image
and one other resource are the two kinds that `Usable` distinguishes. Two hosts
for a probed resource are the old and the new one, and `Others` has one of the
ways not to be active, since none is treated differently. Two CloudInits
share a volume; a third adds nothing that one of them does not do. TLC chooses the
Pools that they refer to: the same one, where `InUse` is to keep them apart, or
two. `AtFirst` and `Moves` make these two name different pools of libvirt until one
joins the other, so that twins are made through one Pool, through two, and by the
change of one; moving it back is a change of the same kind. `Deletable` names the
Pools users delete. The two objects are alike in all constants, hence the symmetry.
A name is used once, which bounds the life of an object. Nothing else is bounded: crashes, failures,
lost connections and retries may happen any number of times.

`CHECK_DEADLOCK FALSE` is set everywhere: the operator may have stopped, and
when every object is gone nothing is left to do.

### Fairness

*HostStore.* Goroutines are scheduled and calls to libvirt return: weak fairness
of workers and monitors. `Signal` has strong fairness because the `select` of a
monitor whose connection is lost again and again chooses at random among the
cases that are ready; the steps that take the mutex have strong fairness because
`sync.Mutex` does not starve a waiter. Both liveness properties allow for
shutdown, when `MonitorCtxDone` may leave a sender behind.

*AuthStore.* Calls to the file system return (weak fairness of `Store` or
`Failing`) and the controller retries an Auth whose registration failed (strong
fairness of `Register`, which other Auths disable for a time). That calls stop
failing is the bound `MaxFailures`.

*The controllers.* The worker and the watch of the cache run (weak fairness), and
the queue serves every object (strong fairness of `Begin`: it is a FIFO queue, and
an object that fails is put back with a back-off). `Faultless` says which steps
are still taken from some time on: the operator does not crash, users leave the
Specs alone (they may still create and delete), and a step fails only where it
must, because the copy is an old one or what the step needs is not there.
Without this no retry could be promised to succeed. In `HostController` the
workers have strong fairness, for a reason of the model only: `Prompt` makes a
worker that is ready wait for the cache, again and again if the other worker
writes.

*DomainController* adds: a guest that was asked to shut down does so in the end,
a resource that is there becomes Ready, and one that was found unused is dropped.
A guest that never obeys keeps its domain for ever; the code only retries.
`CreationEnds` is about domains that are never asked to shut down, because after
a shutdown that timed out and was revoked the guest may still power off, and
nothing starts it again: guests are not watched. For the same reason no guest
stops by itself in `domain_live`.

*CloudInitController* states no fairness. What its liveness would rest on is the
invariant `NotForgotten`: an object that is alive and not Ready is in the queue, with
the worker, or not yet in the cache. Unlike a creation that ends, this is checked
with two objects and Pools that change, and proved.

*ProbedResource* adds that the minute passes, and that connections and what the
hosts have stay as they are from some time on.

## Findings

1. A failed or interrupted upload ends as a volume that is Ready
   (`volume_upload`): existence in libvirt is the only thing the next reconcile
   asks for.
2. A host can be deleted under a domain (`domain_host`): the definition succeeds,
   the update with `HostLabel` does not, and no later reconcile writes it.

Seen on the way. The properties that hold name these as their exceptions, so the
model shows that there are no others of the kind:

- `gracefulDisconnect` counts sessions without the mutex and disconnects later;
  a session opened in between is cut. `EarlySessionIsKept` is about the sessions
  opened before.
- A backing store can be deleted under a new overlay whose label the cache does
  not have yet (`volume.go:224`), and a disk under a domain when the check was
  made before the label was written (`domain.go:148`). `BackingIsKept` and
  `NeedsAreKept` are about the check.
- `AuthLabel` (`host.go:165`), `SecretLabel` (`auth.go:132`) and the `PoolLabel` of a
  CloudInit (`cloudinit.go:180`) are written after what they protect and never again
  when that fails: the next reconcile takes another branch. `FreeAuthIsUnused` and
  `PoolIsKept` except these cases. `HostLabel` of a pool, network or device is
  written again, after the minute (`ReportCatchesUp`).
- `HostReconciler` reads the Auth from the cache and its generation from the
  AuthStore a moment later (`host.go:106`, `host.go:110`). A registration in between
  gives a dialer made of the old Spec the number of the new one, for good
  (`Overtaken`, an exception of `StoresCatchUp`).
- The sum of two generations (`host.go:116`) tells a change of the Host or of its
  Auth, but not a Host that goes over to an Auth with a smaller generation, if the
  difference is the step of its own generation: it stays connected with the first
  Auth (the exception of `CurrentConnectionIsNew` and the other one of `StoresCatchUp`).
- An error of `Close` (`store/auth.go:79`) is only logged, and what has been written
  is served. `PathIsWhole` excepts the files of such a `Register`, and no others.
- When `Rename` fails after `Symlink` (`store/auth.go:103`), `path.tmp` stays in the way
  of every later `Register` of that Auth until the operator restarts.
- Two CloudInits, or two Volumes, created at the same time pass the webhook and share
  one volume of libvirt; deleting one drops the other's. So do two that are created
  one after the other through two Pools that name the same pool of libvirt, as the
  webhook (`webhook/cloudinit.go:74`) compares the names of Pool objects (`doubled`, an
  exception of `ReadyExists`).
- `Spec.Name` and `Spec.HostRef` of a Pool may change (`pool_types.go:24`). The next
  reconcile of its CloudInits looks for their volumes elsewhere (`cloudinit.go:97`):
  what was made stays behind, for good when the object is deleted afterwards, the
  condition Ready is about a volume that is not there, and a volume of another
  object may be taken for its own (`moved`, an exception of `ReadyExists`, `PoolIsKept`
  and `ImageIsOwned`).
- A CloudInit whose condition Ready goes from True to False (its volume has gone, and
  making it again fails) and whose retry reads an older version, with True, is
  left with False when the volume is there by then (`cloudinit.go:138`): nothing
  enqueues it any more. `NotForgotten` excepts the objects of `Lagging`.
- `Ready` of a PCIDevice is written before `Status.Address`, which the Domain
  controller dereferences (`domain.go:208`).
- `volume_types.go:31` misspells its marker, so that the rule "volume can only be
  expanded" is not in the CRD. `UserResizes` therefore takes any size; the
  comparison in `ResizeRequired` still refuses to shrink (`NeverShrinks`). With a size
  past 2^64 bytes it compares the remainder: the volume does not shrink, but
  "grows" to less than was asked for, without an error.
- `string(*port)` (`host.go:143`) is the character with that code, not the number.

## Proofs

All theorems hold for every value of the constants, from the named assumptions
of the modules: null values are no elements, references refer to elements, the
workers are those named and serve their own objects, a backing store is a volume
and a volume with a source has none, images are resources, bounds are natural
numbers, `UnitBytes` and `Width` are positive.

Nearly every invariant here has the same difficulty: the reconcile acts on a
copy that may be arbitrarily old. The strengthening says what an old copy still
tells of the object, and of what is behind it in libvirt or in a store.

`VolumeControllerProofs`: deletion is final; labels are never taken back while
the object exists; a finalizer once seen is still there unless the copy is of a
deletion whose storage is gone (`Tells`). `CacheInv` states this of the cache,
`LocInv` of the copy of the reconcile, `PcInv` adds what has been established at
each place of it. `Grows` and `Keeps` describe the writes of users and of the
reconcile; two lemmas show once that such writes keep the invariant, and each
action is reduced to them. For `BackingIsKept`, what the check reads of a volume
that is not `behind` is what the API server has, and the labels do the rest. For
`NeverShrinks`, `GrowInv` says that between the comparison and the resize neither
the copy nor the capacity changes, so that the new capacity is the larger one,
whatever the conversion made of the size.

`DomainControllerProofs` follows the same plan. `PcInv` says that in round `pos` of
the loop the labels of all rounds before are in the copy, hence in the API
server when `DomainDefineXML` is called; that `"undefine"` is reached only with
a copy of a deletion, for a domain that is off; and that a domain that is off
stays off outside `"start"`, which is why the old `off` may be relied on.

`ReconcilersProofs` has the steps of API server, cache and workers once for all
controllers: `SeenInv`, that copies and cache are earlier versions (deletion is
final, a finalizer that was seen stays until the controller removes it), is kept
by every step, from what a controller says of its writes.
`HostControllerProofs` adds `PlaceInv` (what is known at the places of the two
workers), `RefInv` (a Host refers to an Auth) and `LabelInv` (the label names the Auth
of the connection, but for the exceptions of `ConnectionIsLabelled`);
`CloudInitControllerProofs` the same for an image and its Pool, with several objects
for one volume and Pools that change, for which `TargetInv` says that the worker
works on the volume its object stands for, or on one that is in `moved`. `ProbedResourceProofs` adds `CopyInv`: from `"connect"` on, the copy that
may still be written says that it is not probed, so that the first half of a report is never read
as a whole one, and the host that was asked is the one of the copy, which is
the one of the object if the write is accepted.

Four invariants are about versions. In `HostControllerProofs`, `VersionInv` says that a
copy is of no later generation than the cache, and the cache of none later than
the object; `ReachedInv` that what is registered is a generation its object has
reached. A connection is registered at the generation of its Host plus one of
its Auth; at the current sum neither can be an old one, since none of the two
terms can be larger than the current one, as long as the Auth is the same. With
another Auth the term of the Host must have grown, since a Spec refers to one Auth
(`SpecInv`: what is of the generation of an object is of its reference), hence the
term of the Auth must have been larger: this is the exception of
`CurrentConnectionIsNew`, and the proof that there is no other.
`KnownInv` says that every generation a connection was made of, or is about to be
made of, is one that the object and the cache have reached; later reconciles
read from that cache and find no older one (`StoresGoForward`).
In `CloudInitControllerProofs`, `ReadyInv` says that an object that was admitted with
its twins in the cache stays the only one of them (`Single`), as long as no Pool has changed, but that the
worker may still be at one that has gone, in which case it is not Ready. `TriedInv` says that a copy with Ready, by which a reconcile may
end, is right about the object, where the cache does not lag; every other end of
a reconcile of a live object puts it back (`NotForgotten`).

`OwnershipImplemented` is the refinement of `Ownership`, one step at a time.
`ReconcilersProofs` has what the controllers over `Reconcilers` share: what each of their
steps is to an object (created, held, deleted, released, or the same), and that
whoever is retired stays so. `HostControllerProofs` adds what the steps do to the stores
(`StoreMoves`) and that each is made at a place where `PlaceInv` knows enough
(`WorkerOwns`). `VolumeControllerProofs` and `DomainControllerProofs` need only that an object whose
deletion the cache shows is being deleted or gone (`OverInv`), besides their
inductive invariants.

These results are what two other modules take for granted of their callers. In
`HostStore`, `HostReconciler` registers no host that it has deregistered
(`deleting`), and in `AuthStore` no Auth that was withdrawn is registered again: this is
`ImplementsOwnership` of `HostController`. In `AuthStore`, the generations that are registered of
an Auth go forward: this is `StoresGoForward`.

`AuthStoreProofs`: `DirInv` and `LinkInv` say which directories exist and that no two
links lead to the same one, `CallInv` what `Register` holds at each of its steps,
`ServedInv` that what is announced is served. From these follow `PathIsWhole` and
`GenerationIsServed`; `DialInv` adds that a directory a dialer has resolved is
never older than what it has seen (`NoOldFiles`), `LeftInv` that without failures
every directory is the one of a link or of the call in progress (`NothingIsLeft`).
`Implements` shows that each step is one of `Credentials` or leaves its variables
alone.

`HostStoreProofs` proves the six invariants of `host_store` from `IInv`. It adds
to them: whoever is inside `Register` or `Deregister` holds the mutex
(`LockInv`); only the Host worker gets there, and its entry is still in the map
when it looks it up again (`WriterInv`), which is why the result of that second
lookup needs no test; entries of the map exist and belong to their host
(`MapInv`, `MonInv`); the entry being signalled has left the map (`SignalInv`),
which is why no monitor is signalled twice; a session belongs to a worker that
has it open (`SessionInv`).

Only model-checked, because liveness under fairness and `ENABLED` are out of the
reach of the prover: `ReconcileEnds`, `RetiredIsClosed`, `EntryCatchesUp`, `StoresCatchUp`,
`CreationEnds`, `DeletionEnds`, `ShutoffEnds` and `ReportCatchesUp`. Every other property
of a passing run is a theorem. So are some invariants that no run lists, because
they follow from a property that one does: `StoresAreOwned`, `StorageIsOwned` and
`DomainIsOwned` from `ImplementsOwnership`; and `NeedsAreLabelled`, on which `NeedsAreKept`
rests. The properties of the two violation runs are false.

## What is not modelled

Of the modelled parts: the time that calls take (`Connect` dials under the mutex
of the store), the wording of conditions, formats, the XML, the download and
its checksum, the content of cloud-init files, temporary files (an ISO image that is left when a
creation fails, `cloudinit.go:193`). A Volume whose `source` or `backingStoreRef` is
removed or added after its creation, and the optional fields of a Domain, which
can be added and removed, too: the rules that make them immutable compare values
that are both there. The XML of a domain: names of devices, CPU,
memory, NUMA and firmware options, the description of a chain of backing
stores, and with it that `Disk` leaves out a volume that is neither a file nor a
block device. Adopted domains get no labels at all; the properties of labels are
about domains the operator defined. Secrets: the code cannot tell one version
from another. More than one unit of sizes. The deletion of a pool before its
volumes (`volume.go:60`): the pool of `VolumeController` is always there. Pools that users rename or
move to another host while volumes exist are in `CloudInitController` and `ProbedResource`
only: `VolumeController` and `DomainController` have the pools they begin with, and
what they promise is for Pools that stay as they are. A Volume and a
CloudInit of the same name, and the checks of names of Volumes and Domains,
which are the one of `CloudInitController`. More than one namespace: the webhooks
and the labels compare names alone. A Pool that is created again. Several workers for one controller,
which the operator does not configure. Names that are used again after a
deletion.

Parts left out for good: deep copies and other generated code, the command line
and its flags, declarations without behaviour, the fake client of the tests, the
version.

## Plan

Done: the stores, every controller, the refinements of `Credentials` and
`Ownership`, proofs of all the safety properties. To add:

1. A Pool that is deleted before its volumes, or changes, in `VolumeController`, and the
   liveness of deletions across Domain, Volume, Pool and Host.
2. An abstract registry (a map from hosts to connections with sessions) that
   `HostStore` implements.
3. `HostStore` and `HostController` in one module: the generation in an entry, the
   monitor and the session under the two reconciles.
4. `VolumeController` and `DomainController` over `Reconcilers`, then several volumes
   and domains in one instance.
5. Reference definitions of the pure conversions (units, ports, device names).
