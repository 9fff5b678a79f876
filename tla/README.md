# Sandbox manager: specification, model checking and proofs

This directory holds the TLA+ development for the OpenHarmony sandbox manager
(`accesscontrol_sandbox_manager`). It states what makes the file access policies
and the command sandbox correct, checks it with TLC on small instances and proves
the most important parts with TLAPS for every size.

`PROJECT.json` maps every definition to the source lines it models and lists
runs, mutants, hazards and theorems.

## 1. The system

The repository has two independent halves.

**The sandbox manager service** (`services/sandbox_manager`) is a system ability.
Applications receive file access policies (path and mode) that are enforced by
the kernel driver behind `/dev/dec`; the service can make them outlive the
process, the reboot, the removal of a volume and the reinstallation of the
application. Its durable state is one database, its volatile counterpart are the
kernel's rules, and the code's job is to keep the two in step.

**The claw sandbox** (`modules/claw_sandbox`) runs one command in namespaces of
its own. The launching process builds a new root and forks; the child becomes the
command and the parent becomes a monitor, which forwards the kernel's ASK events to
the controlling application over a Unix socket, writes its answers back, and
delivers rules the application adds while the command runs.

### Components

| component | state | operations | interacts with |
|---|---|---|---|
| Policy engine (`policy_info_manager.cpp`) | none of its own between steps; local copies of rows and results within a handler | persist, unpersist, set, unset, start and stop accessing, start by token, check, clean by user, grants by user | database, MAC adapter, trie, share map, media; called by the service on IPC threads |
| Policy trie (`policy_trie.cpp`) | nodes built per call from rows | insert, check with case folding, inheritance stops, collecting matches | policy engine |
| MAC adapter (`mac_adapter.cpp`) | device descriptor, `isMacSupport_` | batches of set, query and unset ioctls, destroy by token or user, deny configuration | kernel driver |
| Database (`sandbox_manager_rdb.cpp`, open callback) | the file with its tables and version; connection, event handler, cleanup task, lock | one statement or transaction per call, open with rebuild and restore, create, upgrade | all of the service |
| Service (`sandbox_manager_service.cpp`, memory manager) | running state, unload task, call counter, delayed mark | IPC entry points, start on demand and for an event, idle request, stop | engine, preservation, system ability manager |
| Bundle preservation (`persistent_preserve.cpp`, event subscriber) | record per application with the token of the removed installation | save on removal, restore on installation, deduplicate, delete | database; package events by two channels |
| Volume preservation (`volume_preserve_manager.cpp`) | `volumeUnmountTs` of a row | deactivate on removal, activate on mount, aging | database, MAC adapter |
| Shared directories (`share_files.cpp`) | the share map, `shared_file_info` | load, look up and refresh a profile; set, update, unset, grant and revoke a shared directory | bundle manager, engine, database |
| Media paths | none; the media library keeps the grants | grant, check, cancel | engine, media library |
| Client library (`frameworks/inner_api`) | proxy, death recipient | load the service on demand, forward | service |
| Claw launch (`sandbox_exec.cpp`, `sandbox_manager.cpp`, `sandbox_credential.cpp`) | configuration, descriptors, start gate | some forty steps before and after the fork, cleanup | mounts, operation control, monitor |
| Claw mounts (`sandbox_mount.cpp`) | mount namespace, new root, `put_old` on disk | enter the caller's namespace, mount, apply policy mounts, pivot, remove | launch, other launches of the name |
| Claw monitor (`sandbox_monitor.cpp`) | state, socket, send queue with byte count, outstanding answers, retry budget | the event loop and its handlers | socket, kernel device, child |
| Claw socket (`sandbox_socket.cpp`) | partial header and body, Tx buffer | read, send, flush | monitor |
| Claw operation control (`sandbox_op_control_*.cpp`, `sandbox_policy.cpp`) | descriptors of `/dev/dec` and of the rules' files | parse, convert, open, check and send, per group and module | launch, monitor, kernel device |
| Claw parsers and helpers | none | command line, JSON, TLV, glob patterns, system call filter | launch, monitor |

### What is hard

* *No lock spans a handler.* A handler of the engine is a sequence of table
  accesses and ioctls, handlers run on several IPC threads, and each one works
  with copies that the others may have outdated. The share map's mutex, too, is
  taken for one access at a time.
* *Two stores.* Table and kernel are changed one after the other. An ioctl
  error, a table error or a killed service in between leaves them apart, and
  which way they may be apart is the design decision to check.
* *Errors nobody hears of.* The kernel may refuse an entry of an ioctl that
  succeeds, a cursor may fail in the middle of a query, a token may not be found, a
  profile not be read: on several paths the code goes on and answers success.
* *Mixed grants.* A temporary and a persistable grant end up in the same kernel
  table, and rights of several rows are merged on one trie node.
* *Events in duplicate.* A package event can arrive by the subscriber and by the
  on-demand start, concurrently, before or after the new installation is used.
* *Wall clock.* Aging compares stamps that were taken with a clock anybody sets.
* *A service that goes away.* The connection is closed and the process is ended by
  tasks that were posted before the calls that need them arrived; an upgrade of the
  file may be cut anywhere and is run again.
* *A launch is a chain.* Each of its steps needs what an earlier step set up and a
  later one takes away, two processes wait for each other at the start gate, several
  launches compete for a directory, and anything can fail or be killed in between.
* *Names and objects.* Operation control rules are written with paths and bound to
  inodes; paths move between the two.
* *The monitor's snapshot.* One `epoll_wait` returns several ready descriptors;
  handling one may close the descriptor another is about. The queue, the Tx
  buffer and the outstanding answers have to survive partial sends, closed
  peers, reconnects, evictions and failing devices.

### What makes each component correct

* Engine: nothing temporary becomes persistent; no right appears that was never
  granted; an answer is true of the table and the kernel; unpersisting deletes a
  row only after the kernel took the request to remove its rule; every handler
  returns.
* Grants and shared directories: OK means done; a rule the user granted is
  recorded; other users lose no rule, and no row of a token that can be looked up; a
  profile is in the share map as a whole unless its bundle was deleted in the middle
  of a load.
* Database and service: an operation happens as a whole or not at all and says
  which; the schema is complete whenever it can be reached; connection and service
  come to rest.
* Bundle preservation: no application gets another's policies; preserved rows
  are never lost and follow the application; other rows are erased.
* Volume preservation: aging only deletes what is expired when it is deleted;
  mounting leaves no stamp, removing leaves no rule but those the kernel refused
  to remove.
* Launch and mounts: a command runs only behind every measure its configuration
  calls for and only watched; a launch is refused only for a cause; every launch
  settles and its caller is told how; the lock of a name is returned.
* Operation control: a command starts under its whole profile; what is asked is
  enforced on the object it names; what is reported is live; the monitor's socket
  stays protected.
* Monitor: an ordered stream without duplicates within its budget; one verdict
  per event; no lost wakeup; nothing kept for a peer that cannot return; the
  child is reaped and reconnecting ends.
* Parsers and helpers: they compute what their references say.

## 2. Modules

| module | models | used by |
|---|---|---|
| `PolicyManager` | policy engine, trie results, MAC adapter, table accesses | `MCPolicyManager`, `PolicyManagerProofs` |
| `UserGrants` | grants by the user, erasing a token, cleaning by user | `SharedDirectories` |
| `SharedDirectories` | share map, shared directories, package events, composed with `UserGrants` | `MCSharedDirectories`, `SharedDirectoriesProofs` |
| `ShareProfile` | the pure part of `SandboxManagerShare` | `UserGrants`, `Algorithms` |
| `PolicyDatabase` | `SandboxManagerRdb` and its open callback | `ServiceLife` |
| `ServiceLife` | the life of the service, composed with `PolicyDatabase` | `MCServiceLife`, `ServiceLifeProofs` |
| `AtomicTable` | what callers rely on of a table (abstract) | refined by `ServiceLife` |
| `BundlePreserve` | package events and `PersistentPreserve` | `MCBundlePreserve`, `BundlePreserveProofs` |
| `VolumePreserve` | `VolumePreserveManager` | `MCVolumePreserve`, `VolumePreserveProofs` |
| `SandboxLaunch` | claw launch, mounts, credentials | `MCSandboxLaunch`, `SandboxLaunchProofs` |
| `LaunchContract` | what the caller of a launch is promised (abstract) | refined by `SandboxLaunch` |
| `OperationControl` | parsing, conversion and delivery of operation control rules | `MCOperationControl`, `OperationControlProofs` |
| `SandboxMonitor` | claw monitor with its socket's sending side, and the end of the parent | `MCSandboxMonitor`, `SandboxMonitorProofs` |
| `GlobPattern`, `SeccompFilter`, `PolicyTlv`, `JsonDepth` | pure algorithms with their references | `Algorithms` |
| `Algorithms` | picks an input, compares algorithm and reference | `MCAlgorithms` |

The `MC` modules give the constants values too large for a `.cfg`.

### PolicyManager

`rows[k]` are the rows of token `k` in `persisted_policy`, `autoLoad[k]` those
with flag 1, `rules[k]` the kernel's rules and `persistable[k]` those set with
the persist flag. `call[t]` is the handler of IPC thread `t`: operation, request,
program counter and its local copies `todo`, `sel`, `ok` and `ret`. A handler
starts (`PersistPolicy`, `UnPersistPolicy`, `SetPolicy`, `UnSetPolicy`,
`StartAccessingPolicy`, `StopAccessingPolicy`, `StartAccessingByTokenId`,
`UnSetAllPolicyByToken`, `UnPersistAll`, `PackageRemoved`) and then takes steps:
`read` the table (`MatchPolicy`, `ReadForRemove`, `ReadAutoLoad`), one ioctl per
batch (`QueryBatch`, `SetBatch`, `UnSetBatch`, `DestroySandboxPolicy`), `write`
the table (`AddToDatabase`, `RemoveFromDatabase`, `RemoveBundlePolicy`).
`DbError` and `MacIoctlError` replace any such step; `Restart` kills the service
between two steps, which loses `call` but neither table nor kernel rules. `Find` is a
query: all rows, or those before an error of the cursor, which the loop in
`sandbox_manager_rdb.cpp` takes for the end.

Paths are abstract: `AtOrAbove` orders them and relates case variants in both
directions, `NoInherit` are paths whose deny entry stops inheritance. The trie's
results are defined over that order (`CheckPathNew`, `FindMatchingPaths`). A
request is the set of its entries that passed validation; a refused entry gets a
code of its own and changes nothing. `granted`, `earned` and `touched` are
history variables. `touched[t]` is what other threads wrote to the token since
the handler of `t` began; the properties about answers except exactly that. The
fields `missed` and `kept` of a call are history, too: the rows a failing cursor hid
from its query, and the rules the kernel kept in a call whose result nobody reads
(`UnSetPolicyToMac`). Answers are false of these at most, and the properties say so.

The kernel is external and modelled from the ioctls: setting adds a rule, with
flag 1 also its persist mark; a query tells apart persistable, temporary and no
coverage; a failing entry of a batch is reported by itself. An ioctl that removes
rules may succeed and refuse any of its entries, whether they have a rule or not; the
form for many policies reports that (`Reported`), the form for one does not.

### UserGrants, SharedDirectories, ShareProfile

`rows`, `ugc` and `shared` are the tables, `rules` the kernel's rules, `opened` the
files a process still has open through a rule (killing the process takes them
away), `photo` the tokens with rights in the media library, `profile` what the
bundle manager would answer, and `shareMap` the map of `SandboxManagerShare`.
`call[t]` is again the handler of a thread: each access to a table, the kernel, the
ability manager, the media library or the map is one step and may fail; refused
entries and `Restart` are faults too. `UserGrants` has `GrantPermissionByUser`,
`RevokePermissionByUser`, `UnPersistPolicy(tokenId)` with its five effects and
`CleanPolicyByUserId`: it reads the rows below the paths (`CleanFind`, which a failing
cursor may cut short), cleans the kernel, drops from the list the rows of other users
(`CleanFilter`) and deletes the rest. A row whose token cannot be looked up is not
dropped; these tokens are in `unsure`.
`SharedDirectories` adds loading a profile: a profile is a set of items with their
places, `LoadProfile` starts the next of the profiles that were
read and `LoadScope` adds the item of least place (the item one above
`MaxShareConfigCount` is added, and then the limit takes the bundle out, as in
`TransAndSetToMapInner`). It also has the check of `SetPolicy` against the map, the
rows of shared directories with their grants, and what the three package events do to
rules, rows and map: a module update cleans the rules and refreshes the bundle
(`PackageChanged`), a removal deletes it (`OnReceiveEventRemove`), an installation
loads it (`OnReceiveEventAdd`). The map is by bundle and user: `BundleOf` may give one
bundle to tokens of several users, deleting takes it from all of them, and loading
gives it to one. Reading a profile may fail, and both callers drop that result.
`BundleChanges` is the bundle manager; the event comes when it comes. What the events
do with the records of preserved applications is in `BundlePreserve`; clones are left
out, so that a bundle and user have one token. `bounds.torn` has the bundles that were
deleted while another handler was halfway through loading them. `bounds.overlaps` and `call[t].clean` are history: they tell which handlers met another one.
`SharedIsWithinScope` compares what was recorded and set for a shared directory with
what a profile of the owner declares, so it spans the composition of the path, the
check of its scope, the row, and the rules of every later grant. `ProfileAssumption`
says that the paths of a profile are sequences of pieces.
`ShareProfile` has the checks and the composition of paths as operators on
sequences of path pieces, used by the state machine and compared with a reference
by `Algorithms`.

### PolicyDatabase, ServiceLife, AtomicTable

`disk` is the file: version, tables, the stamp column, rows, and whether the main
copy is damaged. `txn` is the open transaction. `db`, `handler` and `cleanup` are
`db_`, `eventHandler_` and the posted cleanup. `work[t]` is the operation of a
thread: it gets the store (`GetRdb`, opening it if need be), takes the lock, begins
a transaction, executes statement after statement, commits, and schedules the
cleanup; `FailWrite` is `DbOperateFailure`, which rolls back and restores.
`OpenDatabaseInternal` is the set of outcomes of an open: created, upgraded,
upgraded in part and failed, rebuilt and restored, restored in vain. The library
keeps one store per file, so a damaged file is opened anew only when no operation
holds the store (`Held`); until then whoever asks gets the same store.
`ServiceLife` adds `OnStart`, `CallbackEnter` and `CallbackExit`, the unload task,
`OnIdle`, `Exit` and `Crash`; at `Exit` threads are wherever they happen to be.

`AtomicTable` is what all other modules assume of a table: an operation is applied
at once or refused, and a query sees rows of one moment: all, unless the cursor failed
(`CutShort`), which no answer tells; then some may be missing, and none is wrong.
`PolicyManager`, `VolumePreserve`, `UserGrants` and `SharedDirectories` work with such
queries; in `BundlePreserve` a query is complete or fails. `KeepsTable` is the refinement
`Table!Spec`: `disk.rows` is the abstract table, an operation is `applied` once it
is past its commit and `refused` when it failed. Transactions, lock, restore and
the end of the process are stuttering or the abstract `End` and `Lose`.

### BundlePreserve

`installed`, `used`, `queue`, `clock` are the system around: every installation
has a fresh token and every package event goes to one channel or, with
`DoubleDelivery`, to both. `job[c]` is the event that channel `c` works on.
Removal and data clearing go through `FirstStep` (by the application's
`preserve` configuration) into `RemoveBundlePolicy` or into
`DeleteBundlePersistentPolicies` and `SaveBundlePersistentPolicies`; installation
goes through `FindBundleRecord`, `HandleDuplicateBundleRecords`,
`GetPersistedPoliciesByTokenId` and `RestoreBundlePersistentPolicies`. `DbError`
takes the code's reaction to each failing access, `Crash` loses queues and jobs.
Application clones (index other than 0) behave like the configuration `"false"`;
an empty application identifier is refused at the entry and is not modelled.

### VolumePreserve

A row carries `stamp[r]` (0: mounted). `DeactiveQuery`, `DeactiveStamp`,
`DeactiveUnset` and `CleanMacPolicyByPath` are the steps of the removal;
`DeactiveUnset` has three outcomes, as the kernel may refuse the one entry of an ioctl
that succeeds, and `CleanMacPolicyByPath` may remove any part of what it should;
`FindExpiredVolumeRecords`, `DeleteExpiredRecords`, `ActiveQuery`, `ActivateSet`
and `ActivateClear` those of mounting. `Persist`, `RemoveRow` and `ChangeRule`
are single steps of the other handlers, `SetClock` sets the clock to any value. The
fields `missed` and `kept` of a job are history as in `PolicyManager`.

### SandboxLaunch, LaunchContract

`pc[l]` names the next step of the process that is to run the command; the steps
are the calls of `SandboxExec::Run`, `Execute` and the functions below them, in
their order (`EarlySteps`, `MountSteps`, `LateSteps`). Every step may fail, and then
the destructor's `Cleanup` runs. `marks[l]` are the confinement measures in force,
`mnts[l]` the mounts below the new root, `fds[l]` who holds which end of the start
gate, the device and the socket, `disk` what several launches share. `par[l]` is the
parent after the fork: it starts the monitor, sends the byte of the start gate, runs
and reaps. `KillStepper`, `KillParent`, `PidReused` and `DeleteSandboxDir` are the
environment. The templates are constants (`Targets`, `SystemMounts`, `AppMounts`,
`Conditional`); `SystemMounts` are those besides `/proc`, and `LaunchAssumption` says
that nothing else in a template names `/proc` and that its mounts are not within each
other nor within a conditional rule, as in
`modules/claw_sandbox/etc/claw_sandbox_template_*.json`. What a policy names is a text:
`Location[t]` is the place it leads to, as `/proc/self/mountinfo` spells it (a slash
more or less is another text of one place), and `Within` says which texts continue
others as directories, which is how `MatchConditionalSource` compares. A policy mount
of a place that mountinfo lists is a remount, which must not widen; of any other place
it is a bind mount by a conditional rule (`BindOver`), which is not asked that and
hides what was mounted there and below (`"covered"`; a remount of it fails). A
bound directory holds no links and no mounts of its own, and a source that does not
exist counts as a fault. A credential that `setenv` refuses gives the mark `"lostcred"`
instead of `"credenv"`, and the launch goes on. A policy mount may make the host's
`/proc` read-only, so without a pid namespace the command finds it `"rw"` or `"ro"`,
and with one its own. `LaunchContract` has three variables per launch: its phase, how it
ended, and what the caller was told. `KeepsContract` is the refinement, with its
fairness: every end is reported.

### OperationControl

`fs` maps path spellings to inodes and changes at any time (`ProgramChanges`,
restricted by what the device denies, and `AppChanges`); `dec` is the device; `run`
is the delivery under way, at start-up from the profile or later from an add policy
request; `fds` are the opened rule descriptors. One module of a group is converted
(`ConvertModuleTlv`, which compares objects by `lstat`), opened (`OpenFileFds`) and
sent (`CheckAndSendModule`, which refuses the guarded inode). A document is the
parser's input with every way it can be refused. `past` is history: the device
before the request, whether a name moved, and the socket's inode.

### SandboxMonitor

`pc` says where the loop is, `batch` is what `epoll_wait` returned and is still
to be handled, `cur` the event in hand. `queue`, `bytes`, `pending`, `attempts`,
`wr` and `state` are the members of the class, `tx` is what has bytes left in the
socket's Tx buffer. The four stages of `HandleSocketEvent` are the values `read`,
`write`, `fail` and `resume` of `pc`; `device` is `HandleDeviceEvent`, `reconnect`
and `replay` are `TryReconnect`. A handler is split at its system calls, since
the app, the kernel and the child move between them, and every system call may
fail. `sent` and `answered` are history variables.

Three branches of the code cannot be reached and have no action: an event report
that is too large for the socket (a `static_assert` bounds it), a full Tx buffer
while nothing is in it, and `DropSocketChannel` without a path (a socket exists
only with a path).

### Algorithms

`GlobPattern` has the checks of `sandbox_glob_pattern.cpp` and a grammar;
`SeccompFilter` the program of `BuildSeccompFilter`, the states the kernel's filter
machine goes through, and the verdict the comments announce for a call; `PolicyTlv` the serialiser
and a reader that trusts the counts and sizes in the stream; `JsonDepth` the scan of a
text and values that come with their text and height; `ShareProfile` the composition
of shared paths. A behaviour of `Algorithms` picks one input (`NoInput`, `TakeInput`,
`AnyInput`), and an invariant compares the two sides. `InputAssumption` and the
assumptions of the modules say what inputs are: lists, texts of strings, calls whose
fields are numbers, and allow lists whose programs the 16 bit length of a
`sock_fprog` can count (`ProgramLimit`; `BuildSeccompFilter` casts the length without
a check). `FilterAssumption` says that the names of system calls resolve to different
numbers, below the limit of user ids. `AreJson` says of every value that it is a string
or an array of values, and how its text and height follow from its parts.

## 3. Runs

Sizes are distinct states.

| run | instance | shows |
|---|---|---|
| `policy_case` (3.4 M) | two threads, two calls, one token, one file in two letter cases, one entry per ioctl, entries the kernel refuses, one fault, query cut short or restart | `PersistenceIsEarned`, `HandlersAnswerTruthfully`, `RowOutlivesRule` |
| `policy_mode` (580 k) | two calls one after the other from every table and rule set, two modes of a directory and a file below it, one entry per ioctl, one fault or restart, also in the middle of a batch loop, fair scheduling | `NoRightFromNowhere`, although the rights of rows are merged into rules; `EveryCallReturns` |
| `bundle_single` (940 k) | one channel, no fault, five package events, a preserved and an erased application | `RowsFollowApplication` |
| `bundle_double` (2.5 M) | both channels, duplicates, one fault or crash | `OnlyOwnPolicies`, `PreservedNeverErased` |
| `volume_race` (2.1 M) | two handlers on two volumes, the clock at, below and above the limit, another handler's step, one failing access or query cut short, entries the kernel refuses | `AgingSparesFreshRows`; `VolumeAnswersTruthfully`: mounting leaves no stamp, removing leaves no rule but refused ones |
| `monitor_channel` (4.6 M) | two events and two requests of all sizes, queue of two messages and three bytes, one outstanding answer, two reconnect attempts, two faults | `QueueWithinBudget`, `SleepsOnlyIfArmed`, `NothingKeptForNobody`, `StreamInOrder`, `OneVerdictPerEvent`, `HangupWaitsForRequests` |
| `monitor_live` (32 k) | one event, one request, two faults, fair scheduling | `ChildIsReaped`, `ReconnectEnds` |
| `launch` (253 k) | two launches: twelve pairs of configurations that compete for a name or not, and the 216 lists of three policy mounts over a directory, one in it, and that one spelled with a slash more, each read-only or not; one failing call, kill, reused pid or deletion anywhere, fair scheduling | `RunsConfined`, `RefusalHasCause`, `LockIsReturned`, `LaunchSettles`, and the refinement `KeepsContract` |
| `op_control` (1.7 M) | six profiles, then two of eleven requests; a socket path and two names for two inodes, two renames, one fault | `ReportIsTrue`, `StartsUnderItsProfile`, `SocketStaysProtected`, `AskedIsEnforced` |
| `grants` (606 k) | two handlers at a time in four groups (grants, shared rows, package events, removal and erasure), two users, one bundle installed for both, five profiles, one fault or restart | `SharedIsWithinScope`, `OkMeansDone`, `RuleIsRecorded`, `OtherUsersKeep`, `MapIsWhole` |
| `service_life` (387 k) | two threads, two rows, three operations out of add, erase, modify and find, a file of no, the first or the current version, one fault, fair scheduling | `StoreIsUsable`, `ComesToRest`, and the refinement `KeepsTable` |
| `algorithms` (129 k) | every pattern of up to seven of five characters, every call against allow lists of up to two names, profiles of up to two policies or rules, values of height up to three, share configurations of up to two scopes | `PatternsFollowGrammar`, `FilterGivesVerdict`, `StreamReadsBack`, `DepthIsHeight`, `SharedIsDeclared` |

Deadlock is not checked: every model is bounded, and with its calls, events and
faults used up the system rests, as the service does without callers and as the
monitor does when the child is reaped. Where something must happen it is a liveness
property instead.

No run checks a `TypeOK`: the type invariants are theorems, and the part of the
inductive invariants the others start from.

**Why these bounds are enough.** The races in the engine and in the preservation
are between two handlers of one token or volume: no step reads more than one
table and one kernel state, so a third thread adds no new kind of interleaving.
Two calls of ten operations on two threads contain every pair of handlers. The
initial states of `PolicyManager` are all tables and rule sets an earlier life may
have left, so `policy_mode` needs no long sequences: whatever a sequence of calls
leads to is an initial state again, with less known to be granted. No run has a path
that stops inheritance (`NoInherit`); the proofs hold for every such set. In `volume_race` a time
to live of 0 puts the three cases of a stamp (younger, exactly at the limit, older)
within two clock values. One entry per ioctl with requests of two puts every failure
and every other thread between two batches. In the monitor all limits (64
messages, 128 KiB, 256 answers) shrink to values that two events and two requests
exceed, so evictions by count and by bytes happen; bodies of 1, 2 and 3 are below,
at and above what the socket takes. Two attempts are one that is retried and one
that gives up. In `launch` two launches are what the lock on a name is about, and
one trouble at any of the steps, in either process, is what each step has to be
robust against; the configurations cover both sandbox types, with and without a pid
namespace, a socket, subject rules and policy mounts, and every refusal. Three policy
mounts are one that is covered, one that covers it, and one that names it again. In
`op_control` two inodes and three names give every aliasing of two rules and of the
socket; a payload of four entities lets one request exceed it. In `grants` handlers
meet in the groups that share state: grants, erasures and cleanings share the rows
and records, the shared directory handlers the map and their table, and package
events the map, the rules and the rows. Two users show that a handler stays with its
own, and a bundle of both that deleting it takes it from both. Two handlers and a
profile of two scopes are enough for a removal in the middle of a load.
In `service_life` a version 0 file is created, one of version 1 goes through every
upgrade, and two rows make a transaction that can be cut in the middle; three
operations let one find the store another one holds while a third is done. Replace
takes the steps of add, and remove those of modify. The inputs
of `algorithms` are longer than every window the checks look at.

**Fairness.** `PolicyManager` assumes weak fairness of each thread's `Step`: an
IPC thread is scheduled until its handler returns, and ioctls and statements
return, with an error if need be. Starting a handler, faults and restarts get
none. `SandboxMonitor` assumes weak fairness of the monitor's own steps: it is a
process of its own that runs whenever a system call can return. The application,
the kernel's events, the device and the child get none; `ChildIsReaped` therefore
starts from an exited child. `SandboxLaunch` assumes weak fairness of the two
processes of each launch, for the same reason; the command may run for ever, nobody
has to be killed. `ServiceLife` assumes that threads run, that a posted task runs,
that the system ability manager asks the service it was told to unload, and that a
stopped process ends; nobody has to call.

### Behaviours worth knowing

What the code does where a reader may expect something else. The properties are
stated so that they do not depend on these.

* *Trie.* `CheckPathInternalNew` stops at the first policy on the way down, so
  `CheckPersistPolicy` reports a stored policy as not persisted when a directory
  above it is persisted with fewer rights; `sandbox_manager_kit.h:198` says "check
  policys whether is persisted". With nested scopes of a share profile, too, the
  outermost one decides.
* *Duplicate records.* Deleting the duplicates by application, user and original
  token also deletes the chosen record when it names the same token
  (`persistent_preserve.cpp:236`), and a restore that then fails cannot be repeated;
  line 228 says "Delete old records (except the latest one)".
* *Early use.* An application that persists one of its old policies before its
  installation event is handled keeps the others from being restored: the one
  UPDATE of the token meets a primary key conflict (`persistent_preserve.cpp:130`).
  `RowsFollowApplication` excepts such applications.
* *Partly sent reports.* A report that was partly sent when the channel dropped is
  neither replayed nor forgotten (`sandbox_monitor.cpp:437`); line 432 says that a
  peer that comes back is "handed everything it missed".
* *Responses in one read.* The responses to all requests of one read are queued
  before anything is flushed, so with more requests than the queue holds the first
  stay unanswered (`sandbox_monitor.cpp:304`, against the comment at 1161).
* *Device before socket.* When the device event of a batch is handled first, sending
  its report to a peer that has closed drops the channel with that peer's requests
  unread. `HangupWaitsForRequests` speaks of hangups the socket event itself brings.
* *Volumes.* `ActivateRecords` clears the stamp of a row whose rule could not be set.
* *Refused entries.* `UnSetPolicyToMac` looks at its ioctl and not at the entry's
  result (`mac_adapter.cpp:617`): when the kernel refuses the entry, `UnPersistPolicy`
  deletes the row of a rule that stays in force, and the removal of a volume answers
  OK. `UnSetPolicy` answers OK, too. `HandlersAnswerTruthfully`, `RowOutlivesRule` and
  `VolumeAnswersTruthfully` except exactly these rules; `StopAccessingPolicy` reads the
  results and needs no exception.
* *Queries cut short.* All query loops end at any error of `GoToNextRow`
  (`sandbox_manager_rdb.cpp:426`, 468, 519, 557) and return the rows so far as
  SUCCESS. Handlers then leave undone what concerns the rows they did not see.
* *Grants.* A status is GRANTED even if the kernel refused the entry: refusals of
  single entries are dropped by `GrantPermissionByUser` and by `UnSetPolicy`.
  `OkMeansDone` is stated for handlers the kernel refused no entry.
* *Unknown users.* `CleanPolicyByUserId` deletes a row of another user when
  `GetHapTokenInfo` fails for its token (`policy_info_manager.cpp:153`), which it always
  does for a token that is no application. `OtherUsersKeep` excepts these tokens.
* *Shared directories.* While a profile is being refreshed, other handlers see the
  bundle as not loaded. A refresh deletes the bundle for every user and loads it for
  one; a profile that cannot be read then leaves it unloaded, and the module update
  still answers success (`share_files.cpp:414`), which is what `OkMeansDone` says of
  it. A removal in the middle of another handler's load leaves a part of the profile,
  although the comment at line 389 says "to maintain atomicity"; `MapIsWhole` says that
  nothing else does. `UpdateShareFileInfo` keeps the old row when the new profile
  shares nothing. Revoking a directory whose row is gone leaves its rule. A path of
  the largest number of parts in its short form has one too many in its long form.
* *Connection.* A restore that fails in `Init` leaves `db_` set and no event handler:
  the connection is then never closed. Operations that fail schedule no cleanup.
* *Unloading.* The unload task does not look at running calls; it marks the unload as
  delayed and the next idle request agrees. Threads end in the middle of their work,
  which `KeepsTable` shows to be harmless to the tables.
* *System call filter.* `sandbox_manager.cpp:91` says that any attempt to become a
  user below the limit is blocked, and lines 1519 to 1524 and 1649 to 1651 give the
  rule for each call. The allow list is tested first, though, so a listed `setuid` is
  allowed with any id. `FilterGivesVerdict` compares with the verdict of the comments
  and names this departure. With an allow list, an unlisted `setuid` is killed even
  with an id in range: there the comments differ among themselves, and the verdict
  follows line 1697, "only listed syscalls". Line 93 announces EACCES where the filter
  kills.
* *Nested policy mounts.* "must not widen an existing readonly mount to writable"
  (`sandbox_mount.cpp:773`) is asked only on a remount, of a place that mountinfo
  lists in exactly the spelling of the policy. A later writable mount of a directory
  above, or of the same place with a slash more, is bound by a conditional rule without
  that question (line 898). `RunsConfined` says that what the template has read-only
  stays so in any case, and what the policy makes so unless such a mount follows.
* *Lost credentials.* A credential that `setenv` refuses is only logged
  (`sandbox_credential.cpp:92`), and the command runs without it.
* *Patterns.* `**/*` is accepted although the comment in `sandbox_glob_pattern.cpp:33`
  asks for a non-empty literal behind the star.
* *Clashes.* Clashing rules of one file operation are all reported, as the comment at
  `sandbox_op_control_parser.cpp:705` says, but the operations after it are not looked
  at any more (line 794).
* *Moving names.* A rename between the comparison of objects and the opening of their
  descriptors is not noticed; `AskedIsEnforced` is stated for names that stay.

## 4. Proofs

TLAPS checks the following for every value of the constants that satisfies the
named assumptions of the modules: any number of threads, launches, messages and
faults, any paths, profiles and configurations. Every proof has the same outline:
an inductive invariant, its `Init` lemma, one lemma per action or kind of step, and
a temporal theorem that puts them together. What follows says, per module, what the
property alone lacks to be inductive.

**`PolicyManagerProofs`**, from `PathAssumption` (the path order is reflexive and
transitive), `PolicyAssumption` and `BoundAssumption`:

* `TypeCorrect`: `Spec => []TypeOK`, including that a flag belongs to a row and a
  persist mark to a rule.
* `PersistenceIsAlwaysEarned`: `Spec => []PersistenceIsEarned`. A handler stores
  or sets later what it found earlier, so a row might be written from a local copy of
  which nothing is known. `EarnedInv` adds `CallsEarned`, that all such copies (what
  `persist` is about to store, what `set` with flag 1 and `startByToken` are about to
  set) lie within what was earned. The rest is that `earned` only grows
  (`EarnedGrows`) and that lying within is closed under the path order
  (`EarnedWithin`), which is where transitivity is needed: a query answered by a rule
  above the path passes on what that rule had.
* `EveryRightIsGranted`: `Spec => []NoRightFromNowhere`, likewise with the granted
  rights. Rows above a path are merged into one rule, so the lemma about passing down
  (`RightsPassDown`) is per right and not per policy.
* `AnswersAreTrue`: `Spec => []HandlersAnswerTruthfully`. `KeptInv` says what each
  handler has achieved at each of its points, for the policies no other thread touched
  since it began: what it will report is stored (`ReportsKept`), what it removes is
  gone or still on its list (`RemovalKept`), and the whole token for the handlers that
  clear one (`WholeKept`). The exceptions are part of it: what is left of a row is
  `missed`, what is left of a rule is `kept`, and the invariant says that nothing else
  gets into either. A step of another thread is one lemma for all handlers: it
  marks what it changes (`Respects`).
* `RulesGoFirst`: `Spec => RowOutlivesRule`, an action property, from the same
  invariant. It is about the transaction of `RemoveNormalPolicy`; erasing a whole token
  deletes its rows before it destroys its rules.

**`BundlePreserveProofs`**, from `OwnerAssumption` and `NoneAssumption`:
`TypeCorrect`, `PoliciesStayWithTheirOwner` (`OnlyOwnPolicies`) and
`PreservedPoliciesSurvive` (`PreservedNeverErased`), with both channels, duplicates,
faults and crashes. `Inv` adds that events and jobs name tokens of their application
and records the token of their own (`OwnInv`, with the types), that a restoring
handler has chosen a record (`ChosenOK`), and that only handlers of an unpreserved
application delete rows (`ClearsUnpreserved`). Two more theorems need the system to be
at rest, and say what happens when nothing goes wrong:

* `RemovedRowsAreErased` (no failing access, any channels, doubled events): a row of an
  application that is not preserved and whose token is no longer the installed one has
  a removal event or a handler on its way to erase it (`EraseInv`).
* `RowsFollowTheApplication` (`RowsFollowApplication`; no failing access, one channel):
  `FollowInv` looks at the events that are still to be handled, in their order
  (`Pending`), and says for the rows and the record of each application which of those
  events will bring them to where they belong.

**`VolumePreserveProofs`**, from `VolumeAssumption`: `TypeCorrect`; `AnswersAreTrue`
(`VolumeAnswersTruthfully`) and `AgingIsSafe` (`AgingSparesFreshRows`). The removal of
expired rows works from a list read earlier, so `PurgeListExpired` says that the list
keeps the stamps it was made of. `Tracked` says for every row of the volume that
nobody else changed, and that no query of the call lost, how far the handler has got
with it (`Progress`); a row persisted or stamped in between is in `touched`, and a rule
that is left is in `kept`.

**`SharedDirectoriesProofs`**, from `GrantAssumption`, `ScenarioAssumption`,
`ProfileAssumption` and `InputAssumption`, over `UserGrants` composed with
`SharedDirectories`. Every step is one of a few kinds
(`NextKinds`), so each invariant has a lemma per kind and a case only where a step
matters to it.

* `TypeCorrect` and `ArgsCorrect`: the types, and what the arguments and the program
  counter of a handler have to do with each other (`Args`).
* `OthersAreSpared`: `Spec => OtherUsersKeep`: a step takes rules only from tokens of
  the user its handler works for, and rows, too, or from tokens that cleaning could not
  look up. The list cleaning deletes was filtered steps before, which the invariant
  carries over to the deletion.
* `RulesAreRecorded`: `Spec => []RuleIsRecorded`, while no two handlers met.
  `RecordInv` adds that a grant has its records before it sets rules and an erasure
  has its rules removed before the records, and `AloneInv` that such a handler runs
  alone.
* `OkIsHonest`: `Spec => OkMeansDone`. `SoFarInv` says what a handler that runs alone
  and was refused no entry has finished at each point; its last step completes it. A
  module update that could not read its profile has finished, too, with the bundle not
  loaded.
* `MapStaysWhole`: `Spec => []MapIsWhole`. Loading goes scope by scope and a profile
  found invalid is taken out only at the end, so a half loaded map is no mistake.
  `MapInv` says what handlers load (`LoadersRight`) and, per bundle and user, what the
  map has (`MapsRight`): the latest item for each path is in the map or still to come
  (`WholeMap`); of a bundle that was deleted in the middle of a load only that what is
  there is right (`PartMap`); and the entries of an invalid profile are gone or about
  to go (`BadMap`). Deleting tears a bundle exactly when another handler is halfway
  through it (`Halfway`). That there is a latest item is a least counterexample
  argument (`LatestExists`).
* `SharedStaysInScope`: `Spec => []SharedIsWithinScope`. A handler works with a
  directory it looked up and rows it read several steps earlier, while others refresh
  the profile: `ScopeInv` says that whatever it holds lies within a scope of a profile
  of the owner (`Gathers`), and so do rows (`RowsMade`) and rules (`RulesMade`).
* `SharingNeedsAScope`: `AnyInput => []SharedIsDeclared`, about `ProcessShareFileInfo`
  itself: whichever of its two spellings a path has (`NormalizeBasePath`,
  `PathCompose`), a directory that is let through lies within one of the scopes
  (`SharingDeclared`).

**`ServiceLifeProofs`**, from `OpsAssumption` (an operation names rows of the table),
`BoundsAssumption` and `VersionsAssumption`:

* `TablesAreAtomic`: `FairSpec => KeepsTable`. A query cut short by its cursor is one of
  the abstract query's answers: some rows of one moment. An operation takes effect at its
  commit, but what it commits was computed statement by statement before, so the
  simulation needs `TableInv`: the open transaction holds the rows of the file with
  the operation done on the keys that are no longer left (`TransactionInv`), a writer
  excludes everybody else (`OneWriter`), every point of an operation has its lock and
  its kind (`ThreadInv`), and a process that is starting has no callers
  (`NobodyCallsTheStarting`), which is when rows may be lost. One lemma per action
  gives the invariant and the abstract step together.
* `StoreIsAlwaysUsable`: `FairSpec => []StoreIsUsable`. `StoreInv` adds `SchemaOK`:
  after every interrupted upgrade the file has at least the tables of the version it
  states, which is what makes the next upgrade complete it; an open or held store has
  the latest version.
* `TypeCorrect`: `FairSpec => []TypeOK`, with the part that is no type: the counter
  `OnIdle` asks is the number of threads at work (`Counted`), so no entry or return is
  lost or counted twice, and the end of the process leaves it right. The set of
  threads need not be finite; the ones at work always are.

**`SandboxLaunchProofs`**, from `LaunchAssumption` and `PathAssumption` (directories
nest as a forest, and spelling does not change what is within what). A step of the process fails,
passes privately, or is one of the special steps (`Fails`, `Passes`, `Special`), so
that most of the 44 steps share one lemma; their order is that of `Steps`.

* `TypeCorrect`, and `ContractIsKept`: `Spec => Contract!Safely`, the safety part of
  `KeepsContract`. `EndsInv` relates the points of the two processes to the status of
  the launch and to what the caller was told (`Settled`).
* `LockIsGivenBack`: `Spec => []LockIsReturned`. Inductive as it stands: a launch that
  takes the lock accounts for it (`Holds`), every step before the end of `PivotRoot`
  keeps that so, and whoever stops accounting for it has cleaned up.
* `CommandIsConfined`: `Spec => []RunsConfined`. `GuardInv` says at every step that
  all measures of the steps behind it are in force (`Armed`), that the mounts so far
  are the template's and those of the policy (`Mounted`), and that the gate opens only
  by the byte of a parent that watches (`Gated`, `Shut`). The mounts of a policy are
  applied one after the other over each other. `Rooted` says that every mount is at a
  place, of the template or below a conditional rule, which by `LaunchAssumption` keeps
  the policy's binds away from the template's mounts; `Carried` says that after k policy
  mounts each of them that is read-only still is, where a process looks (`ReadOnlyAt`),
  or was reopened by a later one of the k (`Sealed`).
* `RefusalsAreDeserved`: `Spec => []RefusalHasCause`. The converse: without trouble
  and without a cause in its configuration or a competing launch, every step finds
  what it needs (`ClearInv`). For the policy mounts that means to trace a mode or a
  covered place back to the policy mount that made it (`Traced`).

The module also has the two algorithms of the confined command, from
`FilterAssumption`, `DepthAssumption` and `InputAssumption`:

* `FilterIsRight`: `AnyInput => []FilterGivesVerdict`, with the verdict of the comments
  and the listed calls that name a system user as the one exception. The machine's run is a function
  from steps to states; the lemmas say what a run does that reaches a section of the
  program (`Visits`): the allow list is left at the least place that names the call, and
  the sections about user ids decide the calls they are about and pass the others on.
* `DepthIsCounted`: `AnyInput => []DepthIsHeight`. A text is read between two states of
  the scan (`Reads`), and the texts of a value's parts join. Whether it is given up
  depends on the height alone: a value of least height for which that fails would have
  a part for which it fails.

**`OperationControlProofs`**, from `OperationControlAssumption`: `TypeCorrect`;
`SocketIsProtected`, `ProgramStartsConfined`, `AnswersAreTrue` (`ReportIsTrue`) and
the action property `WhatIsAskedIsEnforced`. `Inv` says what the parser lets through
(`Parsed`), where each stage finds the delivery (`Staged`), that exactly the modules
done have an answer (`Account`), that the device still has for the others what it had
before the request (`Untouched`), how the verdict follows from the answers
(`Verdict`), that open descriptors are of rules of the request and of the inodes they
name, unless a name moved (`Bound`), and that the guarded inode is that of the socket
(`Guarded`).

`StreamIsReadBack`: `AnyInput => []StreamReadsBack`, about the stream a profile is
sent as, from `InputAssumption`. A text means a list of things when reading as many
blocks as it counts, from wherever it stands and whatever was read before, ends behind
it and adds that list (`Parses`); texts with that property keep it when they are put
one after the other (`ParsesJoin`, `ParsesAll`). A rule, an entity, a section, a policy and a
profile are such texts, each by the one below it; the size of a policy, taken before its
content is appended, is where the reader ends. The second half is that `Serialize`
refuses exactly the profiles with a comparison its item does not allow (`ProfileOk`).

`PatternsAreParsed`: `AnyInput => []PatternsFollowGrammar`, from `InputAssumption`.
The grammar is about the segments between slashes and the parser about positions, so
the two are tied by a cut (`IsCut`): where in the pattern each segment begins.
`SegmentsCut` shows that the segments of every pattern are one. Each check of the parser is then
restated over the segments of the part it looks at: which characters a part holds
(`CharsIn`), that the component at a position is the segment that begins there
(`ComponentIs`), and that no component is special exactly when no segment is
(`NoneSpecial`), which needs the part to end behind a slash or with a segment that is
not empty. `PathIs` says that segments written behind slashes are the part they were
cut from. From there both directions: a pattern with legal segments passes every check
and the prefix and the suffix kept are those that are meant (`LegalAccepted`), and the
segments of a pattern the parser accepts are legal (`AcceptedStar`, `AcceptedPrefix`,
`AcceptedTail`).

**`SandboxMonitorProofs`**, from `SizeAssumption` and `LimitAssumption`:

* `NothingIsKeptForNobody` and `NoLostWakeup`, both from `ChannelIsConsistent`
  (`Spec => []ChannelInv`). A handler leaves EPOLLOUT out of date while it runs
  and repairs it in its last step, so the wakeup property has to hold between all
  events of a batch and not only before the wait; and the last steps rely on the
  descriptor the event was dispatched for. `StagesHaveTheirDescriptor` states both.
* `HangupComesLast`: `Spec => HangupWaitsForRequests`, from the stages a wakeup of the
  socket runs through (`StageInv`).
* `EventsAreAnsweredOnce` (`OneVerdictPerEvent`) and `StreamIsInOrder`
  (`StreamInOrder`), from `DataInv`: the device and the peer number what they send
  (`SourceInv`), what was sent, what is in the Tx buffer and what is queued are sorted
  and ahead of each other (`StreamInv`), and an event waits for a verdict only after
  it was taken from the device (`VerdictInv`).
* `BudgetIsKept`: `Spec => []QueueWithinBudget`. The counter of bytes is the sum over
  the queue; what adding, taking and evicting do to that sum is shown by a least
  counterexample (`LeastNat`), since induction over sequences is not available.
* `TypeCorrect`: `Spec => []TypeOK`, from all of these and from where the loop may be
  and what it may hold (`LoopTypes`): the attempts left never leave their range, the
  byte count never drops below zero, and what is outstanding or answered is an event
  that was raised.

**Only model-checked.**

* The liveness properties (`EveryCallReturns`, `ChildIsReaped`, `ReconnectEnds`,
  `LaunchSettles`, `ComesToRest`) and the fair part of `KeepsContract`: fairness and
  ENABLED are beyond the prover.

Where a proof is about data of any length (sequences, programs, texts, nested values),
induction is replaced by a least counterexample: sets of numbers have a least element
(`LeastNat`), which is a fact the provers can use, and the definitions are functions or
folds and not `RECURSIVE` operators.

## 5. Not modelled

* Deny policies (the deny configuration of the MAC adapter) and the media half of
  persisting, whose state is in the media library; only the cancelling of media
  grants when a token is erased is modelled.
* The node structure of the trie: only its results over the path order.
* Requests above the batch size of `policy_info_manager.cpp` behave as several
  calls, and the limits of a request keep them at one round today.
* Byte-wise assembly of socket headers and bodies: a request is complete, refused
  or breaks the protocol. The fields of JSON documents, commands and device records:
  conversions without state, accepted or refused as a whole.
* The client library: a thin proxy without policy state.
* Restoring a backup from the time before the dual write (`OnCreate`).
* Statistics, data size reports, log and event reporting: they change no state.

## 6. Plan

Done: all modules of section 2 with their runs and the proofs of section 4. Next:

1. `SandboxSocket`: partial reads and discarded bodies, with the abstract request
   stream of `SandboxMonitor` as the specification it implements.
2. `PolicyTrie` as an algorithm, checked against the path order of `PolicyManager`.
3. Deny policies and media grants; the client's loading and the death of the service
   on its side.
