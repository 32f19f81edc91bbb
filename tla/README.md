# AgentPorter: a verification development

AgentPorter is a gateway that lets remote assistants run commands and delegate
coding jobs on an owner's machine. Commands run in sandboxes, on a private copy
of a workspace; what they changed is published into the real workspace under a
journal; Git operations on remotes need an approval the owner signed. The
gateway may die at any moment, the owner works in the same directories without
taking any lock, and answers from remote hosts may be lost.

This directory holds TLA+ modules translated from the source
(`src/src/agentporter/`; paths below are relative to it), the TLC
configurations that check them on small instances, and theorems that TLAPS
proves for every instance. `PROJECT.json` records which lines each definition
stands for (`map`), what each run checks (`runs`), a plausible bug of the code
that each property catches (`mutants`), and the hazards the properties are
aimed at (`hazards`).

## 1. The system

### Components

| Component | State it keeps | Operations | What makes it correct |
|---|---|---|---|
| Job manager (`tools/jobs.py`, `resources.py`, `resource_supervisor.py`) | SQLite table `jobs`; a monitor thread and a process tree per job | launch (raw, overlay, agent), watch, finalize, cancel, start-up settlement | a verdict tells the truth about the workspace; a settled row never changes; every watched job settles |
| Admission (`admission.py`, `git_admission.py`) | tables `job_admissions`, `git_admissions` | reserve, bind, release, link, resolve, start-up sweep | a slot is held as long as anything behind it may run or is undecided, and not longer |
| Workspace transaction (`sandbox/workspace_transactions.py`, `workspace_delta.py`) | `<key>.pending.json`, private directory, flock | prepare, journal, publish, verify, retire | nobody's file is lost; the workspace is never a mixture unless guarded |
| Entry custody (`sandbox/workspace_custody.py`) | a custody directory with intent and receipts per entry | capture, inspect, restore | never overwrites, never loses an inode, repeatable after a death |
| Workspace recovery (`sandbox/workspace_recovery.py`, `recovery_guards.py`) | recovery bundle, plan, receipts | plan, review, apply, settle, retire | rolls back to what was, refuses only over the owner's work, repeatable |
| Approved Git operations (`git_pushes.py`, `git_fetches.py`, `git_commits.py`, `git_approvals.py`, `git_authorizations.py`) | claims in the approval ledger, `<key>.git-pending.json` | inspect, lease, claim, guard, effect, resolve | an approval is used once, in time, for what was signed; an unknown outcome stays charged |
| Git recovery (`git_*_recovery.py`) | the same files | plan, apply | an acknowledged outcome is final |
| Worker's pull (`git_pulls.py`, `worker_git_service.py`) | claim, guard and link inside a running job | pull, close | no verdict over a spent approval without its effect or its guard |
| Worker Git RPC (`worker_git_rpc.py`, `worker_git_service.py`, `worker_git_transport.py`) | grants and a bounded store of prepared requests, in memory; a lock around the backend | admit, prepare, claim, wait, revoke, close | a prepared request takes effect at most once, and never once close has returned |
| Clones and births (`git_clones.py`, `git_clone_recovery.py`, `sandbox/repository_birth.py`) | prepared guard, intent and record in the job's private directory; guard, link and claim | prepare, execute, reject, finish, recover | a refused clone leaves nothing, a spent approval stays charged until it took effect or was settled |
| Private Git histories (`sandbox/workspace_git*.py`, `native_git_*.py`) | baseline, before copies, originals in custody, a hash-linked journal of names and descriptors, `git-pending.json` | guard, import, retire, inspect, roll back | metadata is wholly before or after, and what the owner's Git wrote stays |
| Directories (`sandbox/workspace_directories.py`) | `directory-intent.json`; `prepared`, `original` and `captured` in private storage | prepare, publish, replace, roll back | an occupied directory is never removed, a death is recognised |
| Delegation relay (`agents/production_relay.py`) | two durable ledgers, one on each host | call, look up, settle | at most one worker per request, refusals final |
| Confined launch (`agents/development.py`) | caches of verdicts about worker files and the toolkit, each under a lock; private root, descriptors and endpoints of a launch | verify, admit, build, clean up | nothing is launched on a verdict about other files; no writable directory under another worker's mount |
| Egress (`agents/development_egress.py`, `provider_egress.py`) | sockets, threads, a semaphore | accept, inspect, relay, close | bounded, one inspected request, closed with the job |
| Ingress (`middleware.py`, `auth.py`, `server.py`, `rest/`) | sliding windows per client | authenticate, limit, route | bounded memory, correct windows |
| File tools, leases (`tools/files.py`, `workspaces/`) | flock per workspace | read, write, patch, list | mutual exclusion; refuses a workspace with a pending guard |
| HTTPS scopes and downloads (`scoped_https*.py`, `https_download.py`) | the approval loaded at start, a permit; a spool during a call | fetch, download, publish | never overwrites; an artifact has its receipt |
| Policy, registry, configuration, CLI, reports | files read once | decide, print | pure functions |
| Owner's approval page (`owner_approval/`) | none | sign | its receipt is an input here |

### How they meet

* A request thread **reserves** a slot (`admission.py:17`), takes the
  workspace's **flock**, which refuses if a guard file is on disk, inserts the
  job row, spawns, starts the **monitor thread**, and only then **binds** the
  slot to the row (`admission.py:53`). A cancellation is a third thread.
* The monitor **claims finalization** by a compare-and-swap on the row, then
  calls the transaction's **publish**; whether the slot is given up depends on
  how that ended (`tools/jobs.py:281`).
* Publication hands every replaced inode to **custody** and retires its journal
  last. The owner's **recovery command** takes over whatever the gateway left,
  with the gateway down, and settles row and slot in one database transaction.
* A Git operation takes the same slots and the same flock, spends its receipt
  in the **approval ledger**, writes a **guard**, links its admission and only
  then causes the effect. A worker's pull does this inside a job that holds
  the slot already.
* A start of the gateway sweeps the tables in two steps (`_init_db`,
  `configure_resources`), by rules that differ per status and per link.

### What is hard

Threads interleave between SQLite transactions; a process may die between any
two system calls; the owner edits files without a lock; the answer of a remote
may be lost while its effect happens; receipts expire while a call waits; each
clean-up step of a failure path may fail itself. `PROJECT.json` lists the
places one by one under `hazards`, those without a property included.

## 2. The modules

A step of every module is one durable change: a SQLite transaction, a rename, a
link, a file that becomes durable, a process tree that starts or is proved
empty. Threads and the owner interleave between steps and a death can fall
between any two.

### `JobManager` (with `JobContract`)

One instance is a set `Ops` of requests, each of a `Kind` (raw, overlay, agent,
exec, git) on a workspace `Root[o]`. Durable state: `slot` (`job_admissions`),
`legacy` (the rows `_init_db` adds for running jobs), `gitrow`
(`git_admissions`), `row` (`jobs.status`), `pending` (journal), `gitguard`,
`edits` (what the workspace holds: untouched, half, all). Volatile: `launch`,
`monitor`, `canceller` program counters, `verdict`, `clean`, `seen`, `stop`,
`flock`, `tree`. The actions follow the code's order: `Admit`, `OpenRoot`,
`RecordLaunching`, `Spawn`, the failure ladder `KillFailedLaunch`, `Unwind`,
`Release`, `Bind` against a monitor that is already running, the monitor's
`MonitorDecides`, `MonitorReaps`, `ClaimFinalization`, the publication, and the
final row, the canceller's `CancelMark` and `CancelSignal`, `Crash`, `InitDb`,
`ConfigureResources`, the owner's `RecoverEdits`, `RecoverJob`, `RetireGuard`
and `RecoverGit`, a synchronous command, a Git operation and a worker's pull.

`JobContract` is what a client of the job API may rely on: a status per job
that moves along an allowed graph, and edits that are published only under
`finalizing` or into a retained failure. `JobManager` implements it under
`INSTANCE JobContract WITH ...` (checked by TLC as `ImplementsContract` and proved as
`LifecycleImplementsContract`).

The failure ladder has two ends beside the orderly one. A `ResourceCleanupError`
keeps the slot (`kept`); any other error that leaves the clean-up early makes
`execution_slot` delete it although the tree may live or the row read active
(`escape`, `escaped`). The properties about capacity leave the latter out by
name (`Escaped`) until a restart has killed what was left. The model presumes
that resource envelopes are configured (`job_resources`) and that the ledger's
own statements succeed.

### `WorkspaceCustody`

`capture_workspace_entry` and `restore_workspace_entry`, one system call a
step: intent, `renameat2(NOREPLACE)`, receipt, second look, give-back. State:
which inode is at the path (`source`) and in custody (`held`), the receipts
`captured` and `restored`, and of the inspection only what is compared
(`seen`). The owner replaces, removes or edits between any two calls.

### `WorkspacePublication`

A transaction with several paths (create, replace, delete): the first journal
in place, journal updates through `<key>.pending.json.next` with `O_EXCL`,
capture, `linkat`, verification, retirement; then the owner's plan, the review,
`--apply`, undo, settlement of the row and the two-step retirement of the
guard. A capture is two steps here (intent, rename): what its inner system
calls leave behind is `WorkspaceCustody`'s subject. The next transaction on the
same workspace is `Again`.

### `GitOperation`

Push, fetch and commit as calls `c` of a `Kind`, in the order of
`GitPushes.push`, `GitFetches.fetch` and `GitCommits.commit`: inspect, lease,
claim (with the ledger's lock between reading the clock and the claim), guard,
link, effect, resolve, unlink, with the error paths of each. The remote (or the
local reference, for fetch and commit) is `tip`; an update is applied, refused
or lost. Others move the tip, the policy on disk changes, receipts are signed
and expire, the service stops and starts, the gateway dies, and the owner's
recovery plans, applies, resolves and removes.

The server passes `approved_pushes=None` (`server.py:208`): pushes are complete
in the source, with tests, but not offered by this version. Fetches and
commits of a workspace are.

`ApprovalContract` is what a signed approval promises whoever asks for its
effect, without claims, guards, links and deaths: the effect is begun once at the
most, alone in doubt on its repository and only by the one entry in the ledger;
an answer says what happened, and a decision stays. `GitOperation` implements it
(`HonoursApprovals`).

### `GitAcquisition`

A pull or a clone inside a running job: `git_pulls.py`, `git_clones.py`, their
recoveries, and the parts of publication that carry their intents. Where
`JobManager` has a pull as four steps against the monitor, this module has one
job and everything durable around its spent approval: `guard` at the
workspace's `git-pending` path, `papers` (a clone's prepared guard, intent and
record), `link` and `slot`, `spent`, the publication `journal` (`first` cannot
yet name the guard, `full` does), `held` guards in custody, the `bundle` and the
`receipts`. A clone is `PrepareClone` .. `AttachClone` in the order of
`_execute_locked`, with `CloneFails` wherever it may raise and the handler's
question to the ledger (`KeepClaimed`, `RejectGuard`, `FinishReject`). A pull
claims first and guards afterwards (`ClaimPull`, `GuardPull`, `LinkPull`). The
monitor validates the intent again (`ValidateIntent`), a pull's guard is
replaced by the history's (`MoveGuard`, `WriteHistoryGuard`, `BindJournal`),
and both retire differently (`RetireClone` .. `UnlinkJournal`; `PrepareBundle` ..
`FinishBundle`). `PlanRecovery`, `CaptureForClone` .. `SettleClone` are
`recover_clone`, `BeginRollback` .. `RetireRecovered` are `recover_workspace`.
The owner puts something at the destination, replaces the guard or withdraws
the policy. The workspace is before, half or after: the inner steps are those
of the next two modules and of `WorkspacePublication`.

### `NativeGit`

The import of a worker's private history into the canonical `.git`: one branch
with its reflog, the stash with its stack, the index and `HEAD`, each an inode
with its content (`cell`). The gateway writes the guard, records `guarded`,
moves every original into custody and links a verified copy
(`TakeOriginal`, `LinkCopy`); the import program takes `index.lock` and
`HEAD.lock`, prepares and commits the reference transaction, compares and
exchanges stash stack, index and `HEAD`. `left` are the names it has created in
the metadata, `bound` those the journal binds to its own descriptors: each
creation is followed by a `JournalEvent` and each exchange preceded by one. The
order of the program is the table `AfterEvent`, `EventOf`, `AfterSwap`. The
recovery accepts only what is proven (`Proven`, `SafeBefore`), captures
everything new before it restores anything, and verifies the whole endpoint.
The owner's Git commands respect locks and run between any two steps.

### `WorkspaceDirectories`

`prepare_directory`, `publish_directory` and `rollback_directory`, one
`renameat2` a step, for a plain creation and for a birth that replaces an empty
directory. `path`, `prepared`, `original` and `taken` say which directory is in
which of the four places; `stirred` and `deep` are changes by the owner to a
directory's own record and further down, which the code tells apart by
signature and by manifest. `State` is the code's `_state` or
`_replacement_state`, `Observed` its `inspect_directory`.

### `HttpsDownload`

`https_download` and the metadata fetch: the gateway's approval in memory
against the worker's reading of the one on disk, the permit and the slot, the
worker's end (done, denied, killed at the deadline), and `publish`: both names
vacant, staged inodes, the receipt linked first, then the artifact, then the
sync. The owner edits approval and directory.

### `WorkerEgress`

`PublicEgress`, `HeadroomEgress` (with and without `enforce_provider_tools`)
and `ProviderEgress` share the acceptor, the semaphore and `close`; which one
is served is a variable that never changes. A link is one connection with a
class of request; the acceptor's steps between `accept` and `thread.start`, the
handlers' between their locks, and the closer's are apart, so that `close` may
find a link in the acceptor's hand, unregistered or connecting upstream. `close`
shuts a socket and then closes it; for the provider's TLS sockets these are two
steps (`CutsSocket`, `ClosesSocket`), because a handler that unwraps one between
them ends in an exception (`HandlerRaises`).
Parsing is accept or refuse per class (`ConnectAdmits`, `HeadroomAdmits`,
`ProviderAdmits`). The bridge in the worker's namespace has its own bound.

### `DevelopmentLaunch`

`DevelopmentRuntime.prepare` by several threads: read the configuration, sign
the worker's files, look into the cache or probe under the lock, admit the
workspace (`Admitted`, the allowlist with its nested directories), take root,
mounts, toolkit, schema and endpoints, launch, clean up. A build may also be
refused after its endpoints run, and an endpoint that cannot start its accept
thread leaves the descriptor of its directory. The operator replaces executable,
toolkit or allowlist between any two steps. A version stands for what
`_signature` compares: files are versions that only grow, while the code
compares modification time, inode and size, without `ctime`, and of a mounted
directory only its inode (`agents/development.py:1033-1041`). A replacement
those do not show is outside the model.

### `DelegationRelay`

The client's `ProductionDelegationClient.call` and the receiver's handler in
`server.py`, each with its `RelayLedger`. A client request is drawn, written to
the client's ledger, posted, posted again after a time-out or any answer but
200, and then returned as known or as `delivery_uncertain`; lookups settle it
later. A receiver takes a post under `relay_dispatch_lock`: it marks ended
jobs (`Receive`), reserves (`Reserve`), and is refused (`Reject`), fails without
a verdict (`Fail`) or launches (`Launch`) and registers (`Record`). A ledger
row is `Absent`, `Uncertain`, `NotLaunched` or the job it names; `finished` are
the jobs whose row is inactive. Posts arrive in any order, late, or not at
all; a receiver dies between any two steps. With `supervised` (the
`job_resources` setting) the supervisor lock admits one receiver at a time and
a start interrupts what was left; without it a second process may overlap the
first, which the comments in `server.py` and `reserve` provide for. A job is
what the relay can see of `JobManager`: running, ended, or left without a clean
verdict (`stuck`), with or without live processes.

`DispatchContract` is what delegation promises the gateway that asks, without
posts, receivers, lookups and deaths: one worker at the most for a request,
started only after the client has put the request down; one record of what
became of it, which is true when it is made and is not taken back; a client
that learns nothing but this record. `DelegationRelay` implements it
(`HonoursDispatch`): the workers of a request are those launched for it, the two
ledgers are the record and what the client heard.

### `WorkerGit`

The Git service of one job. `Connections` are threads of its socket, of which
`_serial` lets one through to the RPC (`Admit` of one while none other is
busy); `Owners` come through `owner_request`, beside them. State: `granted` (the job is in
`_grants`), `selected` (`_selected_repositories`), `store` (`_prepared`: the
time of preparation and whether it was claimed), `holder` of the service's
`_operation` lock, how far `close` is (`closer`), each caller's request with
the time it was admitted at, and `launched`, how often each proposal took
effect. `receipts` is the backend's `requires_receipt`: with it a run must name
a prepared digest, without it a run may prepare its own and a fetch always
does. The actions follow the code's lock regions: `Select` (the first request
binds the job to a repository), `ReuseClone`, `AskBackend`, `KeepOrRefresh`,
`Store` (with `_make_room`'s expiry and eviction), `Claim`, then, outside the
RPC's lock, `Enter` and `Leave` of the backend, `Conclude`, `Look` and `Wake`
of a waiter; the monitor's `Close`, `Revoke`, `Drain`, `CloseTransport`. What
the backend finds for reasons of its own is a choice (`BackendDenies`, the
answer in `AskBackend`): the pull's inner steps are in `JobManager`, those of an
approved operation in `GitOperation`. A request is denied where the code denies
it; which code the answer carries is left out.

### `WorkerGitSockets`

The two sockets under which that service is reached, and how they end.
`entry` is what is linked at the socket's name, `fate` where each entry went
(`there`, `custody`, parked `away`, `gone`), `inode` its number, which the kernel
may give again once nothing pins it. `start()` is one step per system call: the
`stat` and the probe of a leftover, its retirement, `bind`, `chmod`, the `stat`
that takes the identity. `Moves`, `Checks` and `Returns` are `_retire_socket`, for
the start and for the teardown. The accept loop, each handler, `close()` by the
loop's own thread or by the service, the bootstrap that attaches the worker's
view under the `_operation` lock, and the service's `close` are threads beside
each other; other owners of the name (`Guests`, external to the gateway) put
files and sockets there and take them away at any moment. `Thread.start` may
fail. What a request does past the RPC is `WorkerGit`'s subject.

## 3. The runs

| Run | Bounds | What it shows |
|---|---|---|
| `JobWorkspace` | pairs on one workspace: agent and overlay job, Git operation and synchronous command, Git operation and pulling agent; 2 slots, 2 crashes | verdicts are honest, what is undecided stays charged and guarded, settled jobs free their slot, every step is one of `JobContract` |
| `JobLiveness` | two requests at a time for 1 slot, of an agent, an overlay and a raw job and a synchronous command; 1 crash | live trees stay within the limit; cancellations and watched jobs settle |
| `GitEffects` | two pushes with one receipt, or a fetch and a commit without; 2 slots, clock 0..1, 2 moves, 1 crash | approvals once and in time, effects as claimed, undecided outcomes held, every step is one of `ApprovalContract` |
| `GitRecovers` | a fetch and a push, 1 move, 1 crash | readable guards retire |
| `Entries` | custody: 3 acts of the owner, 2 deaths; publication: a creation, a replacement and a deletion, 2 acts, 1 death of each process, a second transaction if the owner keeps away; directory: 3 acts, 2 deaths; Git metadata: 2 acts, 2 deaths; socket: two other owners with 3 acts and 2 inode numbers, or two connections for one slot and a bootstrap, 1 thread that cannot be started | nothing is lost or overwritten, refusals have a cause outside the gateway, no mixture is reported as an endpoint, recovery ends; the socket and its threads end clean |
| `Acquisition` | a pull and a clone, 2 deaths, 2 acts; two downloads and a fetch, 1 act, 1 death; a worker and an owner with two proposals, a store of 1, clock 0..2 | a spent approval stays charged or takes effect once, recovery settles, artifacts have receipts, one effect per proposal, quiet after close |
| `Workers` | relay: two requests for one place at one supervised receiver or two that overlap, 1 death; egress: two links, one permit, every endpoint; launch: two callers, a chain of three directories, 2 changes | one worker per request, every step of the relay is one of `DispatchContract`, outcomes arrive; nothing is sent after close, one inspected request; nothing launched on another file's verdict, nested mounts read-only |

`Entries`, `Acquisition` and `Workers` are *suites*: an MC module extends several
components that share no variable, a variable of the suite (`mechanism`,
`fetched`, `service`) picks one in the initial state and only that one moves. Such
a run is the disjoint union of the components' own state graphs, and its
fairness is each component's own, conjoined with the choice.

Where one run has several groups of requests, an action constraint of its MC
module lets any one group start, so that the run is the union of the small
instances and not their product. The constraints, each explained where it is
defined:

* `OnePair`, `TwoForOneSlot` (`MCJobManager`) and `OnePair` (`MCGitOperation`,
  `MCWorkerGit`): one group of requests;
* `FewReceivers`: with two receivers the client stays up, one request is
  posted once and only the other is looked up, which leaves each hazard of
  the relay its two parties;
* `FewLinks`: a second link only at the public endpoint, since links meet in the
  acceptor and the permits, which all endpoints share;
* `FewChanges`: files change where both callers want one open directory, the
  allowlist where they want nested ones;
* `InTurn`: the second download starts after the first, a fetch between them;
* `AloneOnReturn`: a second transaction only if the owner kept away in it;
* `SocketsApart`: other owners use a socket's name, or the service has
  connections and a bootstrap. The two meet only in the teardown, which the
  first part has too, and the theorem `SocketsEnd` needs no such constraint.

An action constraint only removes behaviours; what it leaves out of one group is
what another group accounts for. The runs that expect a violation check what a
comment, a test or a document says of the code; section 5 lists them.

*Why the bounds are enough.* Two requests are the smallest number that compete
for a slot, a flock, a lease or a receipt; three operations appear only where a
third kind matters. Two crashes let a second one hit the recovery from the
first. One slot for two requests makes the limit bite (`JobLiveness`); two slots
let a retained one and a new one coexist (`JobWorkspace`). In custody the owner
needs two acts to move an entry away and put another there, and a third to act
again after the give-back; the same holds for a directory. In a publication one
path of each operation kind covers every branch, since paths share no state but
the journal. In the Git metadata each path is there once, with the one branch
either new or old, and two acts let the owner move one thing before the import
looks and one after. Two owners and two inode numbers are the least with which
an entry takes the number of another and a third takes its name. A pull and a clone never meet in one job (a pending marker
excludes the other), so one at a time is the real system. One tick of the clock
expires a receipt of lifetime 1; two moves of the tip are needed for a tip that
leaves and comes back. A store of one record is full with one proposal, so that
the second meets both eviction and refusal. One permit makes the limit of the
endpoint bite with two links; two forwarded blocks tell one request from more.
Three nested directories are the least for which a grandchild is not a child.

`CHECK_DEADLOCK FALSE` is set everywhere: a gateway without requests, or one
that waits for an owner who does not run the recovery, rightly does nothing.

### Fairness

* `JobManager`: weak fairness of each monitor's own steps, of a cancellation
  that has begun, of binding, and of the two start-up steps. The first three are
  threads the interpreter schedules; the monitor's waits are bounded by the
  job's deadline (`tools/jobs.py:657`), and the service is restarted
  by systemd (`examples/agentporter.service:25`, `Restart=always`). Nothing is
  assumed of clients and of the owner.
* `WorkspaceCustody`, `WorkspaceDirectories`, `NativeGit`, `WorkerGitSockets`,
  `HttpsDownload` and `DevelopmentLaunch` have safety properties only and
  assume nothing.
* `WorkspacePublication`: the gateway finishes what it started, and an owner
  who was told that recovery is required runs the command again until it is done.
* `GitOperation`: each call's own steps, the remote's answer to an update
  (applied, refused, or the transport's time-out), the service manager, and an
  owner who repeats the recovery. `Plan` and `Apply` need strong fairness: the
  recovery runs only while the service is stopped, and the service may
  come back in between.
* `DelegationRelay`: a handler that began returns, the service manager restarts
  a receiver, and a caller who was given a public id keeps asking for its status
  and reads the answers. Nothing is assumed of posts and of their answers.
* `GitAcquisition`: the owner stops a gateway that has nothing to do and runs the
  recovery command, again if it did not end. Nothing is assumed of the job, of
  its worker or of the service manager.
* `WorkerEgress`: the acceptor, the handlers and `close` are threads, and every
  blocking call in them has a time-out. Nothing is assumed of links.
* `WorkerGit`: each handler and the closing monitor go on, a backend call ends
  (the transports below it have time-outs), and the clock advances, which ends
  every wait. Nothing is assumed of requests and of the job's end.

## 4. What is proved

Each theorem is proved by TLAPS for all values of the constants, from the
assumptions named in the modules (`KindAssumption`, `RootAssumption`,
`MaxActiveAssumption`, ...) which TLC evaluates in the runs.

**`JobManagerProofs`.** `LiveTreeCharged` (a live process tree has its
admission row, unless its failed launch raised past the slot, `Escaped`) is not
inductive: whether a failure path may release depends on
what the launching thread has already undone, and whether the start-up sweep
may delete depends on nothing being alive by then. `SlotInv` adds these facts:
`Stopped` (threads exist only in a gateway that serves), `Unwatched` (nothing
watches a request before its launcher started the monitor), `TokenHeld` (the
launcher's token is in the ledger until it is bound), `NothingStarted` (where
the launcher has started nothing or has seen it dead), `Reaped` (from the claim
on, and in every clean verdict, the tree is gone), `DoubtIsVerdict`,
`BindingRace` (a terminal row seen by the binding transaction was written by a
monitor that had reaped the tree). `CapacityPaysForTrees` follows; `TreesWithinLimit` adds
`ChargedWithinLimit`, that the admission count keeps to `max_active_jobs`, and
that a subset of a finite set is not larger. `GitEffectsStayCharged` is proved
from `GitInv` on top: `GitLink`, `GitOnly`, `OwnerRecovers`, `GitGuard`,
`SpentLink` follow an active link through the pull, binding, the monitor, two
start-up steps and recovery.

What a job did to its workspace follows from `PublicationInv`: who publishes
holds the flock (`Locked`, `RunsLocked`, `LockGuards`), and where a launch and a
monitor stand fixes what the edits (`EditsFollow`), the row (`RowFollows`,
`LaunchRow`) and the charge (`ChargeFollows`) may be. `VerdictsAreTrue`,
`UncertainJobsStayCharged`, `HalfPublishedIsGuarded` and `CapacityComesBack` are
conjuncts of it. `LifecycleImplementsContract`, the refinement of `JobContract`,
shows that a step of the detailed system moves each job's row, edits and charge as
the contract allows (`RowMove`, `EditMove`, `ChargeMove`), or not at all.

`KeptSlotsHaveCause` is the boundary of the finding on kept slots (`KeptInv`, beside
the invariants above): a slot that a request keeps stands for a live tree, a job
row, an active Git link, a workspace the request could not close, or a guard in
its workspace that nobody living will retire. The finding is the last.

**`WorkspaceCustodyProofs`.** `EntriesSurvive`, `ReceiptsNeverContradict`,
`RetriesNeverRefuse`, `SuccessesAreExact`,
from `Linked` (where the inode is at each system call), `Receipted` (what the
receipts say of it), `Returning` (a give-back is receipted in custody first),
and, for a call that may refuse only over the owner, `Quiet` (while the owner
did nothing, the entry is the untouched original). Directories have their own
half: `DirInv` (which call a step belongs to, that the captured directory came
from the path, that no directory is lost) gives `DirectoriesSurvive` and
`OwnerTreesSurface`, and the arrangements a call may meet while the owner keeps
away (`Layout`) give `DirectoryCallsNeverRefuse`.

**`DelegationRelayProofs`.** `NoSecondWorker` and `RefusalIsFinal` follow from
`LaunchIsReserved` (a receiver that is about to launch or to register holds the
uncertain row of its request, alone), `LaunchIsRecorded` (a launched worker's row
is uncertain or names it) and `RefusalIsRecorded` (the client hears of a refusal
only from the receiving ledger). `WorkersWithinLimit` adds `PlaceHeld`: the
active rows keep to the limit, rows become inactive only for ended jobs, and
no ended job has processes; mapping each live worker to its active row is then
an injection. `RelayHonoursDispatch` is the refinement of `DispatchContract`: each
step maps to one of the contract's or to a stutter. `HonourInv` adds to the
invariant above that nothing is on its way, served or recorded before the client
has put the request down (`Requested`, `PostsRequested`, `ServesRequested`) and
that a job the client has or is being told is the one on record
(`ToldIsRecorded`); `Moves` says what a step may do to a request in the relay's own
terms, each action is shown to keep to it, and it is then translated.

**`WorkerGitProofs`.** `EffectsStayBound` needs to know what stands behind an
effect: `EffectsRecorded` (while the grant stands, what took effect or is about
to has a claimed record, which no eviction drops), `ClaimsExclusive` (a claim
that has not set out is the only one for its proposal), `RequestsBound` and
`CommitmentsBound` (requests past `Select`, and all commitments, share the bound
repository; the second half outlives the revocation, which forgets the
binding). `ClosedIsQuiet` follows from `LockInv`: who runs holds the lock, and
the closer held it after the last one who could still set out.

A clone or a pull (`GitAcquisition`) rests on `AcquisitionIInv`: `RowFits` (row,
slot and the gateway's life agree on where the job is), `Unpublished` (nothing is
journalled before finalization), `CallFits` and `CloneLinked` (what each step of
a call has made of approval, guard, link and papers), `EndFits` and
`RecoveryFits` (the same for finalization and for the two recoveries),
`SlotPays`, `CompletedFits`. `RefusalsAreUnspent`, `SpentClonesAreCharged` and
`SettledJobsAreWhole` follow. `RecoverableInv` goes on from there: what the papers,
the journal and the place of the recovery command say together (`PapersFit`,
`JournalFits`, `CommandFits`), and what a death can have left (`DeathFits`). It
gives `StoppedJobsRecover`: while the owner is not in the way, a stopped job that
is not settled has a plan, a reviewed plan still holds, and neither undoing nor
retiring meets a state it does not know (`RecoveryLeadsOn`). Then there is the exception, `InterruptedClonesAreStuck`: a clone whose
gateway died while its job ran has no plan, it is the only one, and no step of
anybody settles it or frees its slot. For downloads `Fits` says what a call has behind
it at each step, `EntryFits` that an entry which names a call was linked by it,
`ReceiptStays` that without the owner a linked receipt stays; hence
`ArtifactsHaveReceipts` and `NothingIsOverwritten`.

**`GitOperationProofs`.** `IInv` needs what no single property says: effects are
started by a ready call only (`NoEffectYet`), the request of a call stays what
was checked, signed and entered in the ledger (`RequestFixed`), no two calls
spend one nonce (`SpentApart`), one call at a time is under the lease and the
guard is its own (`GuardLeads`), a linked call is charged (`LinkedHeld`), a
receipt precedes every resolution (`ReceiptFirst`), and recovery meets only calls
that can do nothing more (`RecoveryAlone`). `SingleUse`, `UncertainStaysHeld`,
`ExactlyAsApproved` and `AcknowledgedStays` follow, the last two as properties of
steps. `OperationsHonourApprovals` is the refinement of `ApprovalContract`; `AnswerInv` adds to
`IInv` that an answer says what happened (`AnswerTrue`) and that a call is linked
only behind its guard (`LinkedBehindGuard`). `TornGuardsHideNothing` bounds the finding on
torn fetch guards: nothing was linked, started, answered or decided under a
guard recovery can not read.

**`WorkspacePublicationProofs`.** The invariant speaks of the paths the owner
left alone: each is at its old endpoint, taken away, or at its new endpoint
(`Arranged`), `CurrentPath` and `Waiting` say how far the path in hand and those
not yet begun are, `GuardHeld` that a journal blocks the workspace meanwhile, and
`Vouched` what a verification has seen. `AllOrNothing`, `OriginalsSurvive`,
`RecoveredIsTrue` and `OwnerEntriesSurvive` follow. A recovery that the owner does not
disturb meets no state it refuses (`RollbackNeverRefuses`), and each of its
steps lowers a rank of what is left to do (`RollbackLeadsOn`): what TLC checks as
`RecoveryCompletes` lacks only the fairness and the count of the files. The two findings get their
boundaries: a conflict means an edit of the owner or an undo capture of a dead
recovery (`ConflictsAreExplained`), an interruption without a death the owner or
the `.next` of an earlier round (`InterruptionsAreExplained`). For the Git metadata
`NativeInv` keeps what the import saw under its locks (`LocksHeld`,
`SeenUnderLock`), that originals are in custody while it runs
(`OriginalsTaken`), that a name is bound in the journal before it is exchanged
(`BoundAhead`), and that every path is at its baseline or provably the import's
while the owner keeps away (`Covered`): `OwnerMetadataSurvives`,
`EndpointsAreWhole`, `DeadImportsAreRecoverable`.

**`DevelopmentLaunchProofs`.** `LaunchedAsVerified` compares versions of files
that change under every step. It holds because versions only grow
(`VersionsGrow`) and because a verdict filed under the present version came from
a probe of that version (`VerdictIsCurrent`, `ToolsAreCurrent`), a launch in the
past staying what it was (`LaunchIsPast`); `NestedMountsReadOnly` because what is
built was admitted under the allowlist it read (`BuiltIsAdmitted`). `NothingKept`
says that a call which is over holds no resource, but those whose clean-up
raised, and the descriptor of an endpoint that did not start, which no launched
worker ever had (`HeldInBuild`).

**`WorkerEgressProofs`.** Permits and links are counted against each other
(`PermitsCounted`, with the link in the acceptor's hand), what is registered is
in `close`'s snapshot until it is shut, and a handler breaks only at a provider's
endpoint that is being closed (`CloseCovers`), who may send upstream is
registered (`SendersRegistered`), and what may still be forwarded was decided by
the one inspected request (`RequestDecides`): `PermitsKept` (the equation of permits
and links, not only the bound),
`ClosedIsSilent`, `InspectedOnce`. `SocketsEnd` is the same for the sockets of
`WorkerGitSockets`, from `NamesInv` (the name is retired by one of start and
teardown at a time, an entry in custody is not at the name, the own socket is
identified before it can be retired, and what was looked at keeps its number),
`SlotsInv` (slots and connections counted) and `OperationInv` (who uses the
backend or attaches the view holds `_operation`).

**Model-checked only.** The liveness properties: `JobsSettle`,
`RecoveryCompletes`, `GuardsRetire`, `RecoverySettles`, `CallsEnd`,
`OutcomeReported`, `HandlersEnd`; liveness under fairness is outside what TLAPS
proves. What safety can say of two of them is proved: the recovery of a
publication never refuses and always comes nearer to its end
(`RollbackNeverRefuses`, `RollbackLeadsOn` for `RecoveryCompletes`), that of a pull or
clone always has a next step (`StoppedJobsRecover` for `RecoverySettles`). Every
safety property of a passing run, invariant, property of steps or contract, is
also a theorem.

## 5. Where the code and its words disagree

Each is a run with `expect: violation`; the two of the publication were also
reproduced by running the code. Details are under `findings`. The run shows that
the words are wrong, and a theorem how far: which states break them, and that
there are no others.

| Run | Property | In short | Its boundary |
|---|---|---|---|
| `JobBlockedSlot` | `HeldSlotHasCause` | a command refused because of the guard another request left keeps its slot, as if descendants were left | `KeptSlotsHaveCause` |
| `PublicationConflict` | `ConflictMeansOwnerWork` | a recovery that died inside an undo capture leaves a "conflict with owner work" | `ConflictsAreExplained` |
| `PublicationReplacement` | `RecoveryUnblocks` | `<key>.pending.json.next` survives recovery and interrupts every later publication | `InterruptionsAreExplained` |
| `GitFetchGuard` | `FetchGuardComplete` | a death between link and unlink leaves a guard recovery refuses to read | `TornGuardsHideNothing` |
| `CloneDeath` | `DeathIsRecoverable` | a gateway that died during a clone whose approval is spent leaves a job that start-up calls `interrupted`, which the clone's recovery refuses; the test sets the status by hand | `InterruptedClonesAreStuck` |

The models have more behaviours a reader should know; the properties leave
them out by name:

* a transactional job that failed its clean-up before any journal existed is
  retained, slot included, for a recovery that refuses it
  (`workspace_recovery.py:834`);
* the comment "Keep capacity held for unresolved descendants" (`admission.py:24`)
  covers `ResourceCleanupError` only: when `proc.wait(timeout=2)` raises
  `TimeoutExpired` (`tools/jobs.py:237`), the handle cannot be duplicated, or a
  second error replaces a `ResourceCleanupError` (`:245-249`, `:533-541`), the slot
  is deleted while the tree may live, and the limit on live trees is exceeded
  until the next start kills it (`Escaped`);
* a failed spawn whose envelope did not drain keeps its slot but gives up the
  workspace lock (`tools/jobs.py:174`);
* a death between a push guard and its admission link lets the start-up sweep
  free the slot; the workspace stays guarded;
* a fetch gives its slot back on the error that reports live descendants
  (`git_fetches.py:433`);
* a first journal, or a push or commit guard, torn by a death inside its write
  blocks the workspace, because no reader accepts it;
* a policy edited after an approval makes recovery refuse until it is put back;
* a dispatch refused before the receiver wrote a row, at the limit
  (`agents/production_relay.py:107`) or by a policy, and one whose launch failed
  without a verdict, is reported as `delivery_uncertain` however often the caller
  asks; the latter also keeps its place;
* a clone proposed and not claimed within the five minutes of its record can
  not be proposed again by the same job: the RPC asks the backend anew, and
  `JobBoundGitClone.prepare` refuses what it prepared before;
* a waiter whose record was evicted is not woken by a revocation, only by the end
  of its half minute;
* pulls meet the same refusal as clones after a death while the job ran
  (`sandbox/workspace_recovery.py:524` and `:534`); a pull that died between its
  claim and its guard leaves a spent approval and nothing else, and one whose
  journal never came to name the guard has no recovery tool; a pull whose bundle
  is done but whose row says `cleanup_failed` keeps its slot (`tools/jobs.py:356`);
* a clone that died between the custody of its rejected guard and the update of
  its link leaves the slot charged; after `recover_workspace` died while it
  retired, `recover_clone` settles the job, and the bundle stays until
  `recover_workspace` is run again;
* `ProviderEgress` registers its sockets without a second look at the stop flag
  (`agents/provider_egress.py:435` and `:463`) and may send once after `close`
  has returned, which `SilentAfterClose` therefore does not claim of it;
* a handler of `ProviderEgress` that unwraps a socket which `close` has shut and
  not yet closed gets `ValueError`, which nothing suppresses
  (`agents/provider_egress.py:500-502`): its registrations and its permit are never
  given back (stage `broken`, named in `HandlersEnd` and `PermitsAccounted`);
* an endpoint whose accept thread cannot be started raises before `_build` holds it
  (`agents/development_egress.py:183-187`): the descriptor of its directory stays
  open (`LaunchLeavesNothing` names it);
* a handler thread that could not be started makes `close` raise in `join`: the
  socket stays linked, and the launch's clean-up, which runs once, leaves the
  rest of its resources (`agents/development.py:660-675`);
* a worker is launched from its path some time after it was signed and
  verified, under the configuration read at the beginning: a replacement in
  between is launched as it is;
* the gateway publishes a download into the directory of the approval it loaded
  when it started, although the worker checks the approval on disk;
* `rollback_directory` alone accepts a tree its owner changed below the top after
  a death between capture and inspection; the recovery that calls it inspects
  the tree once more and refuses (`Settle`);
* a socket that took the name of a job's socket while its identity was being
  retired is unlinked, against the comment at `worker_git_transport.py:351`, if
  the kernel gave it the inode number of the socket just closed
  (`LaterOwnersKept` leaves that case out by name; the test keeps the old inode
  alive);
* between `bind` and the `stat` that takes the identity a private socket of the
  same user is taken for the service's own (`worker_git_transport.py:218-222`);
* an accept thread that cannot be started leaves a listening socket nobody
  closes (`:196`), and a handler thread that cannot be started ends the accept
  loop without a close and keeps its slot (`:273`);
* the service's `close` does not wait for a teardown that the accept loop has
  begun by itself (`:320`): the socket may still be linked when it returns;
* a push whose pack is still on the wire may be accepted by the remote after
  the owner acknowledged what recovery observed, within what the owner signed.

## 6. What is not modelled, and why

Left out for good: command lines, argument validation, log capture, header and payload
parsing, cgroup limits as numbers, signature encoding, path strings, report
formatting, the web page that signs. They are pure functions over strings or
wiring, and no property here depends on more than whether they accept. So are the
decision tables of the client and action policies, the sliding window of the
rate limiter, and what provisioning scripts install. The bounds on message sizes
and the framing of HTTP (which model calls and CONNECT requests arrive in one
`recv`) are below the level of the egress module.

Not modelled although it could be: the restoration of deletions under schema 2
guards, the atomic write of one file by the file tools, the rate limiter's
windows and the decision tables of the policies as operators with a reference
definition, and the installer's exchange of releases.

Abstractions inside the modelled parts: file contents are identities (an edited
inode counts as the owner's); paths are published in any order (the code sorts
by name), and extended attributes are not compared; directories, Git histories
and acquisitions are components of their own beside the publication of files,
not items of it; objects of a repository are content addressed, never undone and
left out; a sandbox tree is alive or proved empty; a job's time-out is
one of the verdicts its monitor may reach; `JobManager` rolls a whole workspace
back in one step, which `WorkspacePublication` takes apart; of a second manager
beside a live one (the command line builds one, `cli.py:111`), only what its
`_init_db` does to the tables is there.

## 7. Plan

What is left, in order of value.

1. Proofs: ranks, as in `RollbackLeadsOn`, for `JobsSettle`, `CallsEnd`, `HandlersEnd`
   and `GuardsRetire`; the contract of one guarded edit of a workspace, between
   `JobContract` and `WorkspacePublication`.
2. The restoration of deletions under schema 2 guards
   (`sandbox/workspace_recovery.py`), as a third way out of
   `WorkspacePublication`'s recovery.
3. The atomic write and the patches of the file tools against a transaction on
   the same workspace (`tools/files.py`, `workspaces/patching.py`).
4. The sliding windows of `auth.py` against a reference definition, and the client
   and action policies as operators.
5. The installer's exchange of releases and its rollback (`scripts/`).
6. `GitAcquisition` on top of `WorkspacePublication`'s steps instead of a
   workspace that is before, half or after.
