------------------------------ MODULE JobManager ------------------------------
(***************************************************************************)
(* The gateway's admission ledger and job lifecycle: the admission slots   *)
(* of admission.py and git_admission.py, the launch, monitor, finalise and *)
(* cancel paths of tools/jobs.py, the start-up recovery, and the owner's   *)
(* offline recovery as far as it touches jobs and admissions.              *)
(*                                                                         *)
(* A step is one SQLite transaction, one change of a process tree, or one  *)
(* durable change of a workspace.  Threads of the gateway (the launching   *)
(* request, the monitor, a cancelling request) interleave between steps; a *)
(* crash can fall between any two.                                         *)
(***************************************************************************)
EXTENDS Integers, FiniteSets

CONSTANTS
  Ops,         \* requests that take an admission slot, each at most once
  Kind,        \* Kind[o]: which of the entry points below serves o
  Workspaces,
  Nowhere,     \* Root[o] = Nowhere: o opens no private workspace transaction
  Root,        \* the workspace whose mutation lock o takes
  Nobody,
  MaxActive,   \* JobManager.max_active_jobs
  MaxCrashes   \* bound: gateway crashes per behaviour

Kinds == {"raw",      \* start_raw_job, start_scoped_https_job
          "overlay",  \* start_transaction_job
          "agent",    \* start_confined_agent_job
          "exec",     \* exec_run: the synchronous sandbox
          "git"}      \* an owner-approved Git operation (push shape)

ASSUME OpsAssumption == IsFiniteSet(Ops)
ASSUME MaxActiveAssumption == MaxActive \in Nat
ASSUME KindAssumption == Kind \in [Ops -> Kinds]
ASSUME RootAssumption ==
  /\ Root \in [Ops -> Workspaces \cup {Nowhere}]
  /\ Nowhere \notin Workspaces /\ Nobody \notin Ops
  /\ \A o \in Ops : /\ Kind[o] = "raw" => Root[o] = Nowhere
                    /\ Kind[o] \in {"overlay", "git"} => Root[o] # Nowhere

VARIABLES
  up,       \* "down", "starting" (JobManager built, not yet recovered), "up"
  slot,     \* o's job_admissions row: "none", "unbound" (job_id NULL), "bound"
  legacy,   \* ops that also have a 'legacy_<job_id>' admission row
  gitrow,   \* o's git_admissions row
  row,      \* jobs.status of o, "none" before the INSERT
  tree,     \* o's cgroup envelope is not yet verified empty
  flock,    \* holder of the workspace mutation lock (a process-local flock)
  pending,  \* whose publication journal (.pending.json) is on disk
  edits,    \* what o's private edits have done to the workspace files
  gitguard, \* whose Git guard (.git-pending.json) is on disk
  spent,    \* in memory: how far o's worker is in spending a pull approval
  launch,   \* program counter of the thread that launches (or runs) o
  monitor,  \* program counter of o's monitor thread
  verdict,  \* the monitor's local `status`
  clean,    \* the monitor's local `cleanup_ok`
  seen,     \* jobs.status as the monitor's last SELECT returned it
  canceller,\* program counter of a cancel(o) request
  stop,     \* proc._agentporter_stop
  crashes

ledger   == <<slot, legacy, gitrow>>
threads  == <<launch, monitor, verdict, clean, seen, canceller, stop>>
durable  == <<flock, pending, gitguard, edits, spent>>
vars     == <<up, slot, legacy, gitrow, row, tree, flock, pending, gitguard,
              edits, spent, launch, monitor, verdict, clean, seen, canceller,
              stop, crashes>>

Async == {o \in Ops : Kind[o] \in {"raw", "overlay", "agent"}}
Transactional == {o \in Ops : Root[o] # Nowhere}

(* jobs.status values.  TERMINAL_JOB_STATUSES at jobs.py:28; Unfinished are
   the statuses _init_db protects with an admission.                         *)
Terminal == {"completed", "failed", "timed_out", "cancelled",
             "output_limit_exceeded", "interrupted", "recovered"}
Unfinished == {"running", "launching", "cancelling", "finalizing", "cleanup_failed"}
Statuses == Terminal \cup Unfinished

Charged == {o \in Ops : slot[o] # "none"}
Admissions == Cardinality(Charged) + Cardinality(legacy)

Init ==
  /\ up = "down"
  /\ slot = [o \in Ops |-> "none"] /\ legacy = {}
  /\ gitrow = [o \in Ops |-> "none"]
  /\ row = [o \in Ops |-> "none"]
  /\ tree = [o \in Ops |-> FALSE]
  /\ flock = [w \in Workspaces |-> Nobody]
  /\ pending = [w \in Workspaces |-> Nobody]
  /\ edits = [o \in Ops |-> "none"]
  /\ gitguard = [w \in Workspaces |-> Nobody]
  /\ spent = [o \in Ops |-> "no"]
  /\ launch = [o \in Ops |-> "idle"]
  /\ monitor = [o \in Ops |-> "off"]
  /\ verdict = [o \in Ops |-> "completed"]
  /\ clean = [o \in Ops |-> TRUE]
  /\ seen = [o \in Ops |-> "none"]
  /\ canceller = [o \in Ops |-> "idle"]
  /\ stop = [o \in Ops |-> FALSE]
  /\ crashes = 0

Go(o, from, to) == launch[o] = from /\ launch' = [launch EXCEPT ![o] = to]
Unlock(o) == [w \in Workspaces |-> IF flock[w] = o THEN Nobody ELSE flock[w]]
Dropped(guard, o) == [w \in Workspaces |-> IF guard[w] = o THEN Nobody ELSE guard[w]]
Blocked(w) == pending[w] # Nobody \/ gitguard[w] # Nobody

-----------------------------------------------------------------------------
(* Launching: execution_slot, the private workspace, the process, the row.   *)

(* execution_slot: one immediate transaction counts every admission row and
   inserts this request's token.                                             *)
Admit(o) ==
  /\ up = "up" /\ Go(o, "idle", "admitted")
  /\ Admissions < MaxActive
  /\ slot' = [slot EXCEPT ![o] = "unbound"]
  /\ UNCHANGED <<up, legacy, gitrow, row, tree, durable, monitor, verdict,
                 clean, seen, canceller, stop, crashes>>

(* Fault: only the lock is tried, the pending guard is not looked at.        *)
OpenRootUnguarded(o) ==
  /\ Go(o, "admitted", "opened")
  /\ IF Root[o] = Nowhere THEN flock' = flock
     ELSE flock[Root[o]] = Nobody /\ flock' = [flock EXCEPT ![Root[o]] = o]
  /\ UNCHANGED <<up, ledger, row, tree, pending, gitguard, edits, spent, monitor,
                 verdict, clean, seen, canceller, stop, crashes>>

(* WorkspaceTransaction.__init__ / mutation_lease takes the workspace lock
   when it is free and no guard of any kind is on disk.                         *)
OpenRoot(o) ==
  /\ Go(o, "admitted", "opened")
  /\ IF Root[o] = Nowhere THEN flock' = flock
     ELSE /\ flock[Root[o]] = Nobody /\ ~Blocked(Root[o])
          /\ flock' = [flock EXCEPT ![Root[o]] = o]
  /\ UNCHANGED <<up, ledger, row, tree, pending, gitguard, edits, spent, monitor,
                 verdict, clean, seen, canceller, stop, crashes>>

(* A busy lock (PermissionError), a rejected request, or a failure before a
   process, row or guard exists: the slot is given back.                     *)
LaunchRefused(o) ==
  /\ launch[o] \in {"admitted", "opened"}
  /\ launch' = [launch EXCEPT ![o] = IF launch[o] = "opened" /\ Kind[o] # "git"
                                     THEN "unwind" ELSE "release"]
  /\ flock' = IF Kind[o] = "git" THEN Unlock(o) ELSE flock
  /\ UNCHANGED <<up, ledger, row, tree, pending, gitguard, edits, spent, monitor,
                 verdict, clean, seen, canceller, stop, crashes>>

(* A pending guard on the workspace raises ResourceCleanupError, which
   execution_slot treats as unresolved descendants: the slot stays.          *)
LaunchBlocked(o) ==
  /\ Root[o] # Nowhere /\ flock[Root[o]] = Nobody /\ Blocked(Root[o])
  /\ Go(o, "admitted", "kept")
  /\ UNCHANGED <<up, ledger, row, tree, durable, monitor, verdict, clean, seen,
                 canceller, stop, crashes>>

(* A confined agent's row and its admission binding commit together, before
   anything is launched.                                                     *)
RecordLaunching(o) ==
  /\ Kind[o] = "agent" /\ Go(o, "opened", "recorded")
  /\ slot[o] = "unbound"
  /\ row' = [row EXCEPT ![o] = "launching"]
  /\ slot' = [slot EXCEPT ![o] = "bound"]
  /\ UNCHANGED <<up, legacy, gitrow, tree, durable, monitor, verdict, clean,
                 seen, canceller, stop, crashes>>

ReadyToSpawn(o) == \/ Kind[o] \in {"raw", "overlay"} /\ launch[o] = "opened"
                   \/ Kind[o] = "agent" /\ launch[o] = "recorded"

(* _popen: the envelope is created and the launcher starts inside it.        *)
Spawn(o) ==
  /\ ReadyToSpawn(o)
  /\ launch' = [launch EXCEPT ![o] = "spawned"]
  /\ tree' = [tree EXCEPT ![o] = TRUE]
  /\ UNCHANGED <<up, ledger, row, durable, monitor, verdict, clean, seen,
                 canceller, stop, crashes>>

(* _popen failed.  Its envelope drained (plain error), or could not be shown
   to (ResourceCleanupError): then the row and the workspace are still
   unwound, but the slot is kept.                                            *)
SpawnFails(o) ==
  /\ ReadyToSpawn(o)
  /\ \/ launch' = [launch EXCEPT ![o] = "unwind"] /\ tree' = tree
     \/ /\ launch' = [launch EXCEPT ![o] = "unwind_uncertain"]
        /\ tree' = [tree EXCEPT ![o] = TRUE]
  /\ UNCHANGED <<up, ledger, row, durable, monitor, verdict, clean, seen,
                 canceller, stop, crashes>>

(* A raw or overlay job INSERTs 'running' only now; an agent's row moves from
   'launching', which no other writer may have changed.                      *)
RecordRunning(o) ==
  /\ Go(o, "spawned", "running")
  /\ Kind[o] = "agent" => row[o] = "launching"
  /\ row' = [row EXCEPT ![o] = "running"]
  /\ UNCHANGED <<up, ledger, tree, durable, monitor, verdict, clean, seen,
                 canceller, stop, crashes>>

(* Registering the handle, opening the agent's gate and starting the monitor
   are in memory.  An agent's caller now has the job id; the other two still
   bind their admission.                                                     *)
StartMonitor(o) ==
  /\ Go(o, "running", IF Kind[o] = "agent" THEN "done" ELSE "bind")
  /\ monitor' = [monitor EXCEPT ![o] = "watch"]
  /\ UNCHANGED <<up, ledger, row, tree, durable, verdict, clean, seen,
                 canceller, stop, crashes>>

(* The row update or the monitor thread failed: kill what was spawned.       *)
LaunchFails(o) ==
  /\ \/ launch[o] \in {"spawned", "running"} /\ launch' = [launch EXCEPT ![o] = "kill"]
     \/ launch[o] = "recorded" /\ launch' = [launch EXCEPT ![o] = "unwind"]
  /\ UNCHANGED <<up, ledger, row, tree, durable, monitor, verdict, clean, seen,
                 canceller, stop, crashes>>

(* Fault: an envelope that could not be emptied unwinds like one that was.    *)
KillAndForget(o) ==
  /\ Go(o, "kill", "unwind") /\ tree' \in {tree, [tree EXCEPT ![o] = FALSE]}
  /\ UNCHANGED <<up, ledger, row, durable, monitor, verdict, clean, seen,
                 canceller, stop, crashes>>

(* _terminate_process_tree, wait, _drop_lease.  If the envelope cannot be
   shown empty the error leaves at once, and row and workspace stay as they
   are.  A ResourceCleanupError keeps the slot; any other error (the handle
   cannot be duplicated, the leader outlives wait(timeout=2)) lets
   execution_slot delete it while the tree may still run.                    *)
KillFailedLaunch(o) ==
  /\ \/ Go(o, "kill", "unwind") /\ tree' = [tree EXCEPT ![o] = FALSE]
     \/ /\ launch[o] = "kill" /\ tree' = tree
        /\ \E to \in {"kept", "escape"} : launch' = [launch EXCEPT ![o] = to]
  /\ UNCHANGED <<up, ledger, row, durable, monitor, verdict, clean, seen,
                 canceller, stop, crashes>>

(* The rest of the failure handler: the row becomes 'failed' if it exists and
   the private workspace is discarded.  A discard that cannot be verified is
   a ResourceCleanupError and keeps both the lock and the slot.  Any other
   error on the way (the row's UPDATE, an agent's proxy cleanup) skips what is
   left and takes the place of the error being handled: the slot is given back
   although the row may read active, or the envelope did not drain.          *)
Failed(o) == [row EXCEPT ![o] = IF @ = "none" THEN "none" ELSE "failed"]
Unwind(o) ==
  /\ launch[o] \in {"unwind", "unwind_uncertain"}
  /\ \/ /\ Go(o, "unwind", "release") /\ flock' \in {flock, Unlock(o)}
        /\ row' = Failed(o)
     \/ /\ Go(o, "unwind_uncertain", "kept") /\ flock' = Unlock(o)
        /\ row' = Failed(o)
     \/ /\ Root[o] # Nowhere /\ launch' = [launch EXCEPT ![o] = "kept"]
        /\ flock' = flock /\ row' = Failed(o)
     \/ /\ launch' = [launch EXCEPT ![o] = "escape"]
        /\ \/ row' = row /\ flock' \in {flock} \cup
                            (IF Kind[o] = "agent" THEN {Unlock(o)} ELSE {})
           \/ /\ launch[o] = "unwind_uncertain" /\ row' = Failed(o)
              /\ flock' = flock
  /\ UNCHANGED <<up, ledger, tree, pending, gitguard, edits, spent, monitor, verdict,
                 clean, seen, canceller, stop, crashes>>

(* execution_slot's DELETE of its own token, or synchronous_slot's release.
   "escaped" marks a launch whose tree or active row may outlive its slot.   *)
Release(o) ==
  /\ Go(o, "release", "done") \/ Go(o, "escape", "escaped")
  /\ slot' = [slot EXCEPT ![o] = "none"]
  /\ UNCHANGED <<up, legacy, gitrow, row, tree, durable, monitor, verdict,
                 clean, seen, canceller, stop, crashes>>

(* Fault: the binding does not look whether the job has already ended.       *)
BindAlways(o) ==
  /\ Go(o, "bind", "done")
  /\ slot' = [slot EXCEPT ![o] = "bound"]
  /\ UNCHANGED <<up, legacy, gitrow, row, tree, durable, monitor, verdict,
                 clean, seen, canceller, stop, crashes>>

(* admitted_job: bind the token to the job id and, in the same transaction,
   drop it when the monitor already reached a clean terminal status.         *)
Bind(o) ==
  /\ Go(o, "bind", "done")
  /\ slot' = [slot EXCEPT ![o] = IF row[o] \in Terminal THEN "none" ELSE "bound"]
  /\ UNCHANGED <<up, legacy, gitrow, row, tree, durable, monitor, verdict,
                 clean, seen, canceller, stop, crashes>>

(* The binding transaction failed: ResourceCleanupError, the token stays.    *)
BindFails(o) ==
  /\ Go(o, "bind", "kept")
  /\ UNCHANGED <<up, ledger, row, tree, durable, monitor, verdict, clean, seen,
                 canceller, stop, crashes>>

-----------------------------------------------------------------------------
(* exec_run: the request thread itself spawns, drains, publishes, closes.    *)

RunExec(o) ==
  /\ Kind[o] = "exec" /\ Go(o, "opened", "executing")
  /\ tree' = [tree EXCEPT ![o] = TRUE]
  /\ UNCHANGED <<up, ledger, row, durable, monitor, verdict, clean, seen,
                 canceller, stop, crashes>>

(* _run_command's finally: the envelope is closed before any result exists.
   Exit code 0 publishes the private edits, anything else discards them.     *)
ExecDrained(o) ==
  /\ launch[o] = "executing" /\ monitor[o] = "off"
  /\ \/ /\ tree' = [tree EXCEPT ![o] = FALSE]
        /\ \E ok \in BOOLEAN :
             monitor' = [monitor EXCEPT ![o] = IF Root[o] = Nowhere THEN "final"
                                               ELSE IF ok THEN "publish" ELSE "close"]
        /\ launch' = launch
     \/ /\ launch' = [launch EXCEPT ![o] = "kept"]
        /\ UNCHANGED <<tree, monitor>>
  /\ UNCHANGED <<up, ledger, row, durable, verdict, clean, seen, canceller,
                 stop, crashes>>

(* synchronous_slot: a ResourceCleanupError keeps the slot.                  *)
ExecReturns(o) ==
  /\ Kind[o] = "exec" /\ monitor[o] = "final"
  /\ Go(o, "executing", IF clean[o] THEN "release" ELSE "kept")
  /\ monitor' = [monitor EXCEPT ![o] = "done"]
  /\ UNCHANGED <<up, ledger, row, tree, durable, verdict, clean, seen,
                 canceller, stop, crashes>>

-----------------------------------------------------------------------------
(* An approved Git operation: guard file, admission link, remote effect, then
   the link is resolved and the guard removed, under the workspace lock.     *)

WriteGitGuard(o) ==
  /\ Kind[o] = "git" /\ Go(o, "opened", "guarded")
  /\ gitguard[Root[o]] = Nobody
  /\ gitguard' = [gitguard EXCEPT ![Root[o]] = o]
  /\ UNCHANGED <<up, ledger, row, tree, flock, pending, edits, spent, monitor,
                 verdict, clean, seen, canceller, stop, crashes>>

(* git_admission.bind refuses anything but this request's own unbound token. *)
BindGit(o) ==
  /\ Go(o, "guarded", "linked")
  /\ slot[o] = "unbound" /\ gitrow[o] = "none"
  /\ gitrow' = [gitrow EXCEPT ![o] = "active"]
  /\ UNCHANGED <<up, slot, legacy, row, tree, durable, monitor, verdict, clean,
                 seen, canceller, stop, crashes>>

(* git_admission.resolve, called only after the durable success receipt.     *)
ResolveGit(o) ==
  /\ Go(o, "linked", "settled")
  /\ gitrow' = [gitrow EXCEPT ![o] = "resolved"]
  /\ slot' = [slot EXCEPT ![o] = IF @ = "unbound" THEN "none" ELSE @]
  /\ UNCHANGED <<up, legacy, row, tree, durable, monitor, verdict, clean, seen,
                 canceller, stop, crashes>>

RemoveGitGuard(o) ==
  /\ Go(o, "settled", "done")
  /\ gitguard' = Dropped(gitguard, o)
  /\ flock' = Unlock(o)
  /\ UNCHANGED <<up, ledger, row, tree, pending, edits, spent, monitor, verdict,
                 clean, seen, canceller, stop, crashes>>

(* Any failure once the guard may exist keeps guard and slot for the owner.  *)
GitInterrupted(o) ==
  /\ launch[o] \in {"guarded", "linked", "settled"}
  /\ launch' = [launch EXCEPT ![o] = "kept"]
  /\ flock' = Unlock(o)
  /\ UNCHANGED <<up, ledger, row, tree, pending, gitguard, edits, spent, monitor,
                 verdict, clean, seen, canceller, stop, crashes>>

-----------------------------------------------------------------------------
(* The monitor thread.                                                       *)

(* A worker inside an agent job asks for a pull.  The gateway flags the job's
   transaction and spends the approval in the ledger, while the job still runs
   and is not being drained ...                                              *)
PullLive(o) == /\ Kind[o] = "agent" /\ Root[o] # Nowhere
               /\ monitor[o] \in {"watch", "reap"}
ClaimPull(o) ==
  /\ PullLive(o) /\ monitor[o] = "watch" /\ row[o] = "running" /\ spent[o] = "no"
  /\ spent' = [spent EXCEPT ![o] = "claimed"]
  /\ UNCHANGED <<up, ledger, row, tree, flock, pending, gitguard, edits, launch,
                 monitor, verdict, clean, seen, canceller, stop, crashes>>

(* ... puts the Git guard on disk ...                                        *)
GuardPull(o) ==
  /\ PullLive(o) /\ spent[o] = "claimed" /\ gitguard[Root[o]] = Nobody
  /\ spent' = [spent EXCEPT ![o] = "guarded"]
  /\ gitguard' = [gitguard EXCEPT ![Root[o]] = o]
  /\ UNCHANGED <<up, ledger, row, tree, flock, pending, edits, launch, monitor,
                 verdict, clean, seen, canceller, stop, crashes>>

(* ... and links the effect to the job's own bound admission.  An operation
   in flight is drained before the monitor goes on (worker_git_service.py
   close); one that fails on the way stays where it is, flag set.            *)
LinkPull(o) ==
  /\ PullLive(o) /\ spent[o] = "guarded" /\ slot[o] = "bound" /\ gitrow[o] = "none"
  /\ spent' = [spent EXCEPT ![o] = "linked"]
  /\ gitrow' = [gitrow EXCEPT ![o] = "active"]
  /\ UNCHANGED <<up, slot, legacy, row, tree, flock, pending, gitguard, edits,
                 launch, monitor, verdict, clean, seen, canceller, stop, crashes>>

(* End of the drain loop: EOF and exit 0, a nonzero exit or an internal
   error, the deadline, the log budget, or the stop flag.  The last disjunct
   is a leader that could not be reaped.                                     *)
MonitorDecides(o) ==
  /\ monitor[o] = "watch"
  /\ monitor' = [monitor EXCEPT ![o] = "reap"]
  /\ \/ /\ \E v \in {"completed", "failed", "timed_out", "output_limit_exceeded"}
                    \cup (IF stop[o] THEN {"cancelled"} ELSE {}) :
             verdict' = [verdict EXCEPT ![o] = v]
        /\ clean' = clean
     \/ /\ verdict' = [verdict EXCEPT ![o] = "cleanup_failed"]
        /\ clean' = [clean EXCEPT ![o] = FALSE]
  /\ UNCHANGED <<up, ledger, row, tree, durable, launch, seen, canceller, stop,
                 crashes>>

(* lease.close proves the envelope empty or fails; the worker Git service and
   the launch cleanup may fail even when it did.                             *)
MonitorReaps(o) ==
  /\ monitor[o] = "reap"
  /\ \E drained \in BOOLEAN, ok \in BOOLEAN :
       LET good == clean[o] /\ drained /\ ok IN
         /\ tree' = [tree EXCEPT ![o] = @ /\ ~drained]
         /\ clean' = [clean EXCEPT ![o] = good]
         /\ verdict' = [verdict EXCEPT ![o] = IF good THEN @ ELSE "cleanup_failed"]
         /\ monitor' = [monitor EXCEPT ![o] = IF good /\ Root[o] # Nowhere
                                              THEN "claim" ELSE "final"]
  /\ UNCHANGED <<up, ledger, row, durable, launch, seen, canceller, stop, crashes>>

(* cleanup_failed, exit 1, cleanup_ok False: the transaction stays open.     *)
Doubt(o) ==
  /\ verdict' = [verdict EXCEPT ![o] = "cleanup_failed"]
  /\ clean' = [clean EXCEPT ![o] = FALSE]
  /\ monitor' = [monitor EXCEPT ![o] = "final"]

(* Fault: the claim does not test that the row is still 'running'.           *)
ClaimUnconditionally(o) ==
  /\ monitor[o] = "claim"
  /\ \/ /\ verdict[o] = "completed"
        /\ row' = [row EXCEPT ![o] = "finalizing"]
        /\ monitor' = [monitor EXCEPT ![o] = "publish"]
        /\ UNCHANGED <<verdict, clean>>
     \/ verdict[o] # "completed" /\ spent[o] # "no" /\ Doubt(o) /\ row' = row
     \/ /\ verdict[o] # "completed" /\ spent[o] = "no"
        /\ monitor' = [monitor EXCEPT ![o] = "close"]
        /\ UNCHANGED <<row, verdict, clean>>
  /\ UNCHANGED <<up, ledger, tree, durable, launch, seen, canceller, stop, crashes>>

(* _finalize_workspace_edits up to publish(): only a row that is still
   'running' may be claimed for publication, and a claim hides it from
   cancel().  Spent authority never leaves through this door.                *)
ClaimFinalization(o) ==
  /\ monitor[o] = "claim"
  /\ \/ /\ verdict[o] = "completed" /\ row[o] = "running"
        /\ row' = [row EXCEPT ![o] = "finalizing"]
        /\ monitor' = [monitor EXCEPT ![o] = "publish"]
        /\ UNCHANGED <<verdict, clean>>
     \/ /\ verdict[o] # "completed" \/ row[o] # "running"
        /\ spent[o] # "no" /\ Doubt(o) /\ row' = row
     \/ /\ verdict[o] # "completed" \/ row[o] # "running"
        /\ spent[o] = "no"
        /\ verdict' = [verdict EXCEPT ![o] =
              IF @ # "completed" THEN @
              ELSE IF row[o] \in {"cancelling", "cancelled"} THEN "cancelled"
              ELSE "failed"]
        /\ monitor' = [monitor EXCEPT ![o] = "close"]
        /\ UNCHANGED <<row, clean>>
  /\ UNCHANGED <<up, ledger, tree, durable, launch, seen, canceller, stop, crashes>>

(* publish() refused before its journal exists.  exec_run turns this into
   exit code 1; a job's monitor into 'failed'.                               *)
PublishRejected(o) ==
  /\ monitor[o] = "publish"
  /\ \/ spent[o] # "no" /\ Doubt(o)
     \/ /\ spent[o] = "no"
        /\ verdict' = [verdict EXCEPT ![o] = "failed"]
        /\ monitor' = [monitor EXCEPT ![o] = "close"]
        /\ clean' = clean
  /\ UNCHANGED <<up, ledger, row, tree, durable, launch, seen, canceller, stop,
                 crashes>>

(* The worker changed nothing: no journal, nothing to apply.                 *)
PublishNothing(o) ==
  /\ monitor[o] = "publish" /\ spent[o] = "no"
  /\ monitor' = [monitor EXCEPT ![o] = "close"]
  /\ edits' = [edits EXCEPT ![o] = "empty"]
  /\ UNCHANGED <<up, ledger, row, tree, flock, pending, gitguard, spent, launch,
                 verdict, clean, seen, canceller, stop, crashes>>

(* The durable journal, written before any workspace entry moves.  A spent
   pull is published only when it was integrated and linked.                 *)
JournalPublication(o) ==
  /\ monitor[o] = "publish" /\ spent[o] \in {"no", "linked"}
  /\ pending' = [pending EXCEPT ![Root[o]] = o]
  /\ monitor' = [monitor EXCEPT ![o] = "apply"]
  /\ UNCHANGED <<up, ledger, row, tree, flock, gitguard, edits, spent, launch, verdict,
                 clean, seen, canceller, stop, crashes>>

(* One operation after another; between the first and the last the workspace
   holds a part of the edits.                                                *)
ApplyEdits(o) ==
  /\ monitor[o] = "apply"
  /\ \/ edits[o] = "none" /\ edits' = [edits EXCEPT ![o] = "partial"]
                          /\ monitor' = monitor
     \/ edits[o] = "partial" /\ edits' = [edits EXCEPT ![o] = "published"]
                             /\ monitor' = [monitor EXCEPT ![o] = "retire"]
  /\ UNCHANGED <<up, ledger, row, tree, flock, pending, gitguard, spent, launch,
                 verdict, clean, seen, canceller, stop, crashes>>

(* Verified and receipted.  A published pull first settles its Git link, with
   the job's admission left to the job.                                      *)
ResolvePull(o) ==
  /\ monitor[o] = "retire" /\ spent[o] = "linked"
  /\ gitrow' = [gitrow EXCEPT ![o] = "resolved"]
  /\ spent' = [spent EXCEPT ![o] = "resolved"]
  /\ UNCHANGED <<up, slot, legacy, row, tree, flock, pending, gitguard, edits,
                 launch, monitor, verdict, clean, seen, canceller, stop, crashes>>

(* Then the guards are retired; only now may others open the workspace.      *)
RetireJournal(o) ==
  /\ monitor[o] = "retire" /\ spent[o] # "linked"
  /\ pending' = Dropped(pending, o) /\ gitguard' = Dropped(gitguard, o)
  /\ spent' = [spent EXCEPT ![o] = "no"]
  /\ monitor' = [monitor EXCEPT ![o] = "close"]
  /\ UNCHANGED <<up, ledger, row, tree, flock, edits, launch, verdict, clean,
                 seen, canceller, stop, crashes>>

(* publish() raises ResourceCleanupError from the journal write to the sync
   after the journal's removal.                                              *)
PublicationInterrupted(o) ==
  /\ monitor[o] \in {"publish", "apply", "retire"}
  /\ \/ UNCHANGED <<pending, gitguard>>
     \/ /\ monitor[o] = "publish" /\ spent[o] \in {"no", "linked"}
        /\ pending' = [pending EXCEPT ![Root[o]] = o] /\ gitguard' = gitguard
     \/ /\ monitor[o] = "retire" /\ spent[o] # "linked"
        /\ pending' = Dropped(pending, o) /\ gitguard' = Dropped(gitguard, o)
  /\ Doubt(o)
  /\ UNCHANGED <<up, ledger, row, tree, flock, edits, spent, launch, seen,
                 canceller, stop, crashes>>

(* transaction.close(): the lock is released once the private directory is
   gone or retained; a close that fails keeps both.                          *)
CloseTransaction(o) ==
  /\ monitor[o] = "close"
  /\ \/ /\ flock' = Unlock(o)
        /\ monitor' = [monitor EXCEPT ![o] = "final"]
        /\ UNCHANGED <<verdict, clean>>
     \/ Doubt(o) /\ flock' = flock
  /\ UNCHANGED <<up, ledger, row, tree, pending, gitguard, edits, spent, launch, seen,
                 canceller, stop, crashes>>

(* The last SELECT runs outside the write transaction.                       *)
ReadFinalRow(o) ==
  /\ o \in Async /\ monitor[o] = "final"
  /\ seen' = [seen EXCEPT ![o] = row[o]]
  /\ monitor' = [monitor EXCEPT ![o] = "write"]
  /\ UNCHANGED <<up, ledger, row, tree, durable, launch, verdict, clean,
                 canceller, stop, crashes>>

(* Fault: the admissions go whatever the clean-up found.                     *)
WriteFinalRowAndRelease(o) ==
  /\ monitor[o] = "write"
  /\ row' = [row EXCEPT ![o] = IF seen[o] \in {"cancelled", "cancelling"} /\ clean[o]
                               THEN "cancelled" ELSE verdict[o]]
  /\ slot' = [slot EXCEPT ![o] = IF @ = "bound" THEN "none" ELSE @]
  /\ legacy' = legacy \ {o}
  /\ monitor' = [monitor EXCEPT ![o] = "done"]
  /\ UNCHANGED <<up, gitrow, tree, durable, launch, verdict, clean, seen,
                 canceller, stop, crashes>>

(* The final status and the release of every admission naming this job commit
   together; an admission the launcher has not bound yet is not named.       *)
WriteFinalRow(o) ==
  /\ monitor[o] = "write"
  /\ row' = [row EXCEPT ![o] = IF seen[o] \in {"cancelled", "cancelling"} /\ clean[o]
                               THEN "cancelled" ELSE verdict[o]]
  /\ IF clean[o]
     THEN /\ slot' = [slot EXCEPT ![o] = IF @ = "bound" THEN "none" ELSE @]
          /\ legacy' = legacy \ {o}
     ELSE UNCHANGED <<slot, legacy>>
  /\ monitor' = [monitor EXCEPT ![o] = "done"]
  /\ UNCHANGED <<up, gitrow, tree, durable, launch, verdict, clean, seen,
                 canceller, stop, crashes>>

-----------------------------------------------------------------------------
(* cancel(): only a caller that was given the job id can ask, and only for a
   row that reads 'running' with a live handle this process owns.            *)

CancelLookup(o) ==
  /\ up = "up" /\ launch[o] = "done" /\ canceller[o] = "idle"
  /\ row[o] = "running" /\ monitor[o] = "watch"
  /\ canceller' = [canceller EXCEPT ![o] = "found"]
  /\ UNCHANGED <<up, ledger, row, tree, durable, launch, monitor, verdict,
                 clean, seen, stop, crashes>>

(* Fault: the UPDATE is not guarded by the status the lookup saw.            *)
CancelMarkUnguarded(o) ==
  /\ canceller[o] = "found"
  /\ row' = [row EXCEPT ![o] = "cancelling"]
  /\ canceller' = [canceller EXCEPT ![o] = "marked"]
  /\ UNCHANGED <<up, ledger, tree, durable, launch, monitor, verdict, clean,
                 seen, stop, crashes>>

(* The guarded UPDATE decides the race with the monitor's claim.             *)
CancelMark(o) ==
  /\ canceller[o] = "found"
  /\ IF row[o] = "running"
     THEN /\ row' = [row EXCEPT ![o] = "cancelling"]
          /\ canceller' = [canceller EXCEPT ![o] = "marked"]
     ELSE /\ row' = row /\ canceller' = [canceller EXCEPT ![o] = "idle"]
  /\ UNCHANGED <<up, ledger, tree, durable, launch, monitor, verdict, clean,
                 seen, stop, crashes>>

(* Stop flag and kill.  A kill that errs turns a row that is still
   'cancelling' into cleanup_failed; the monitor may yet overwrite it.       *)
CancelSignal(o) ==
  /\ canceller[o] = "marked"
  /\ stop' = [stop EXCEPT ![o] = TRUE]
  /\ canceller' = [canceller EXCEPT ![o] = "idle"]
  /\ \/ row' = row
     \/ row' = [row EXCEPT ![o] = IF @ = "cancelling" THEN "cleanup_failed" ELSE @]
  /\ UNCHANGED <<up, ledger, tree, durable, launch, monitor, verdict, clean,
                 seen, crashes>>

-----------------------------------------------------------------------------
(* Crash, start-up, and the owner's offline recovery.                        *)

(* Every thread, lock and in-memory transaction of the gateway is gone; job
   trees may outlive it (KillMode=process).                                  *)
Crash ==
  /\ up # "down" /\ crashes < MaxCrashes
  /\ crashes' = crashes + 1
  /\ up' = "down"
  /\ launch' = [o \in Ops |-> IF launch[o] \in {"idle", "escaped"}
                              THEN launch[o] ELSE "gone"]
  /\ monitor' = [o \in Ops |-> "off"]
  /\ canceller' = [o \in Ops |-> "idle"]
  /\ stop' = [o \in Ops |-> FALSE]
  /\ verdict' = [o \in Ops |-> "completed"]
  /\ clean' = [o \in Ops |-> TRUE]
  /\ seen' = [o \in Ops |-> "none"]
  /\ flock' = [w \in Workspaces |-> Nobody]
  /\ \E dead \in SUBSET {o \in Ops : tree[o]} :
       tree' = [o \in Ops |-> tree[o] /\ o \notin dead]
  /\ spent' = [o \in Ops |-> "no"]
  /\ UNCHANGED <<ledger, row, pending, gitguard, edits>>

(* _init_db: every unfinished job without a bound admission gets a legacy
   row.  JobManager() runs it, and so does each CLI command that builds one
   while the gateway is serving.                                             *)
ProtectUnfinished ==
  legacy' = legacy \cup {o \in Ops : row[o] \in Unfinished /\ slot[o] # "bound"}

InitDb ==
  /\ ProtectUnfinished
  /\ up' = IF up = "down" THEN "starting" ELSE up
  /\ UNCHANGED <<slot, gitrow, row, tree, durable, threads, crashes>>

RestartedWithoutFinalizing(o) ==      \* Fault: 'finalizing' is not swept
  CASE row[o] \in {"running", "launching", "cancelling"} -> "interrupted"
    [] row[o] = "cleanup_failed" /\ Root[o] = Nowhere -> "interrupted"
    [] OTHER -> row[o]

(* configure_resources, under the exclusive supervisor lock: every envelope
   is killed and proved empty, then one transaction settles the rows and
   drops the admissions nothing stands behind any more.  What had escaped is
   killed and settled with the rest.                                         *)
Restarted(o) ==
  CASE row[o] = "finalizing" -> "cleanup_failed"
    [] row[o] \in {"running", "launching", "cancelling"} -> "interrupted"
    [] row[o] = "cleanup_failed" /\ Root[o] = Nowhere -> "interrupted"
    [] OTHER -> row[o]

ConfigureResources ==
  /\ up = "starting"
  /\ up' = "up"
  /\ tree' = [o \in Ops |-> FALSE]
  /\ row' = [o \in Ops |-> Restarted(o)]
  /\ slot' = [o \in Ops |->
       IF gitrow[o] = "active" \/ (slot[o] = "bound" /\ Restarted(o) = "cleanup_failed")
       THEN slot[o] ELSE "none"]
  /\ legacy' = {o \in legacy : Restarted(o) = "cleanup_failed"}
  /\ launch' = [o \in Ops |-> IF launch[o] = "escaped" THEN "gone" ELSE launch[o]]
  /\ UNCHANGED <<gitrow, durable, monitor, verdict, clean, seen, canceller, stop,
                 crashes>>

(* _maintenance: the service is stopped and its cgroup tree is empty.        *)
Maintenance == up = "down" /\ \A o \in Ops : ~tree[o]

(* _custody_rollback: every applied edit is undone under the pending guard.
   A job in another state than the recoverable ones is refused.              *)
RecoverEdits(o) ==
  /\ Maintenance /\ Kind[o] # "git"
  /\ Root[o] # Nowhere /\ pending[Root[o]] = o
  /\ o \in Async => row[o] \in {"cleanup_failed", "finalizing", "recovered"}
  /\ edits' = [edits EXCEPT ![o] = "restored"]
  /\ UNCHANGED <<up, ledger, row, tree, flock, pending, gitguard, spent, threads, crashes>>

(* The receipt is durable: the job becomes 'recovered' and gives up its
   admissions, and an active Git link with them, in one transaction.         *)
RecoverJob(o) ==
  /\ Maintenance /\ o \in Async
  /\ Root[o] # Nowhere /\ pending[Root[o]] = o /\ edits[o] = "restored"
  /\ row[o] \in {"cleanup_failed", "finalizing", "recovered"}
  /\ row' = [row EXCEPT ![o] = "recovered"]
  /\ gitrow' = [gitrow EXCEPT ![o] = IF @ = "active" THEN "resolved" ELSE @]
  /\ slot' = [slot EXCEPT ![o] = IF @ = "bound" THEN "none" ELSE @]
  /\ legacy' = legacy \ {o}
  /\ UNCHANGED <<up, tree, durable, threads, crashes>>

(* recovery_guards.retire: only now is the workspace unblocked.              *)
RetireGuard(o) ==
  /\ Maintenance /\ Kind[o] # "git"
  /\ Root[o] # Nowhere /\ pending[Root[o]] = o /\ edits[o] = "restored"
  /\ o \in Async => row[o] = "recovered"
  /\ pending' = Dropped(pending, o) /\ gitguard' = Dropped(gitguard, o)
  /\ UNCHANGED <<up, ledger, row, tree, flock, edits, spent, threads, crashes>>

(* recover_push and its siblings: the admission link is resolved, inserting
   it when the gateway died before binding, and then the guard goes.         *)
RecoverGit(o) ==
  /\ Maintenance /\ Kind[o] = "git" /\ gitguard[Root[o]] = o
  /\ \/ /\ gitrow[o] # "resolved"
        /\ gitrow' = [gitrow EXCEPT ![o] = "resolved"]
        /\ slot' = [slot EXCEPT ![o] = IF @ = "unbound" THEN "none" ELSE @]
        /\ gitguard' = gitguard
     \/ /\ gitrow[o] = "resolved"
        /\ gitguard' = Dropped(gitguard, o)
        /\ UNCHANGED <<gitrow, slot>>
  /\ UNCHANGED <<up, legacy, row, tree, flock, pending, edits, spent, threads,
                 crashes>>

-----------------------------------------------------------------------------
Launching(o) == \/ Admit(o) \/ OpenRoot(o) \/ LaunchRefused(o) \/ LaunchBlocked(o)
                \/ RecordLaunching(o) \/ Spawn(o) \/ SpawnFails(o)
                \/ RecordRunning(o) \/ StartMonitor(o) \/ LaunchFails(o)
                \/ KillFailedLaunch(o) \/ Unwind(o) \/ Release(o)
                \/ Bind(o) \/ BindFails(o)
Executing(o) == RunExec(o) \/ ExecDrained(o) \/ ExecReturns(o)
GitStep(o) == \/ WriteGitGuard(o) \/ BindGit(o) \/ ResolveGit(o)
              \/ RemoveGitGuard(o) \/ GitInterrupted(o)
Pulling(o) == ClaimPull(o) \/ GuardPull(o) \/ LinkPull(o)
Finalizing(o) == \/ ClaimFinalization(o) \/ PublishRejected(o) \/ PublishNothing(o)
                 \/ JournalPublication(o) \/ ApplyEdits(o)
                 \/ ResolvePull(o) \/ RetireJournal(o)
                 \/ PublicationInterrupted(o) \/ CloseTransaction(o)
Monitoring(o) == \/ MonitorDecides(o) \/ MonitorReaps(o) \/ Finalizing(o)
                 \/ ReadFinalRow(o) \/ WriteFinalRow(o)
Cancelling(o) == CancelLookup(o) \/ CancelMark(o) \/ CancelSignal(o)
Recovering(o) == RecoverEdits(o) \/ RecoverJob(o) \/ RetireGuard(o) \/ RecoverGit(o)

Next ==
  \/ \E o \in Ops : \/ Launching(o) \/ Executing(o) \/ GitStep(o)
                    \/ Pulling(o) \/ Monitoring(o) \/ Cancelling(o)
                    \/ Recovering(o)
  \/ Crash \/ InitDb \/ ConfigureResources

Spec == Init /\ [][Next]_vars

(* The threads of a serving gateway are scheduled, its monitor loop is bounded
   by the job's deadline, and the service manager restarts it.               *)
Fairness ==
  /\ \A o \in Ops : /\ WF_vars(Monitoring(o))
                    /\ WF_vars(CancelMark(o) \/ CancelSignal(o))
                    /\ WF_vars(Bind(o) \/ BindFails(o))
  /\ WF_vars(up = "down" /\ InitDb)
  /\ WF_vars(ConfigureResources)
FairSpec == Spec /\ Fairness

-----------------------------------------------------------------------------
LaunchStates == {"idle", "admitted", "opened", "recorded", "spawned", "running",
                 "bind", "kill", "unwind", "unwind_uncertain", "release", "done",
                 "kept", "escape", "escaped", "executing", "guarded", "linked",
                 "settled", "gone"}
MonitorStates == {"off", "watch", "reap", "claim", "publish", "apply", "retire",
                  "close", "final", "write", "done"}

TypeOK ==
  /\ up \in {"down", "starting", "up"}
  /\ slot \in [Ops -> {"none", "unbound", "bound"}]
  /\ legacy \subseteq Ops
  /\ gitrow \in [Ops -> {"none", "active", "resolved"}]
  /\ row \in [Ops -> Statuses \cup {"none"}]
  /\ tree \in [Ops -> BOOLEAN]
  /\ flock \in [Workspaces -> Ops \cup {Nobody}]
  /\ pending \in [Workspaces -> Ops \cup {Nobody}]
  /\ edits \in [Ops -> {"none", "empty", "partial", "published", "restored"}]
  /\ gitguard \in [Workspaces -> Ops \cup {Nobody}]
  /\ spent \in [Ops -> {"no", "claimed", "guarded", "linked", "resolved"}]
  /\ launch \in [Ops -> LaunchStates]
  /\ monitor \in [Ops -> MonitorStates]
  /\ verdict \in [Ops -> Statuses]
  /\ clean \in [Ops -> BOOLEAN]
  /\ seen \in [Ops -> Statuses \cup {"none"}]
  /\ canceller \in [Ops -> {"idle", "found", "marked"}]
  /\ stop \in [Ops -> BOOLEAN]
  /\ crashes \in Nat

(* However launches, monitors, cancellations, crashes and recoveries
   interleave, a job tree that may still run is paid for: its admission row is
   in the ledger until its envelope was proved empty (admission.py:22-27,
   jobs.py:840-843, 360-362).  The one exception: the clean-up of its failed
   launch raised something other than ResourceCleanupError before the
   envelope was proved empty (jobs.py:236-237, 245-249, 518-541).            *)
Escaped == {o \in Ops : launch[o] = "escaped"}
LiveTreeCharged == \A o \in Ops \ Escaped : tree[o] => slot[o] # "none"

(* Capacity is a bound on real process trees, not only on rows: beside those
   that escaped, never more than max_active_jobs envelopes of requests exist. *)
LiveTreesWithinLimit == Cardinality({o \in Ops \ Escaped : tree[o]}) <= MaxActive

(* What a job reports is what its edits did.  A job reported failed, cancelled,
   timed out or interrupted has left the workspace untouched; 'completed'
   means published (or nothing to publish); 'recovered' means rolled back
   (the claim at jobs.py:290-310 against cancel at 960-966).                 *)
VerdictMatchesEdits ==
  \A o \in Async \cap Transactional :
    /\ row[o] \in Terminal \ {"completed", "recovered"} => edits[o] = "none"
    /\ row[o] = "completed" => edits[o] \in {"empty", "published"}
    /\ row[o] = "recovered" => edits[o] = "restored"

(* An uncertain publication is never forgotten: while a job's journal blocks
   the workspace, the job still holds an admission, through crashes between
   any two steps and through the start-up clean-up, until the owner recovered
   it (jobs.py:117-120, 357-362).                                            *)
UncertainPublicationCharged ==
  \A o \in Async : Root[o] # Nowhere /\ pending[Root[o]] = o /\ row[o] # "recovered"
    => slot[o] # "none" \/ o \in legacy

(* Half-published files are always behind a durable guard of their own job,
   and no started command of another runs against them: not before a crash,
   and not after the restart either (workspace_transactions.py:101-109).  A job
   whose launch failed has no command to run.                                *)
Started(o) == Kind[o] = "exec" \/ row[o] \notin {"none", "launching", "failed"}
HalfPublicationContained ==
  \A p \in Transactional : edits[p] = "partial" =>
    /\ pending[Root[p]] = p
    /\ \A o \in Transactional \ {p} : Root[o] = Root[p] /\ Started(o) => ~tree[o]

(* Once nobody works on a job any more and its row reads terminal, its
   capacity is reusable: no admission row names it and none is left behind
   by the race between the launcher's binding, the monitor's delete and a CLI
   that runs _init_db in between (jobs.py:840-843); only an unresolved pull
   keeps the slot of the job that a restart interrupted.                     *)
SettledJobFreesCapacity ==
  \A o \in Async :
    /\ row[o] \in Terminal /\ gitrow[o] # "active"
    /\ \/ launch[o] = "done" /\ monitor[o] = "done"
       \/ launch[o] = "gone" /\ up = "up"
    => slot[o] = "none" /\ o \notin legacy

(* An unresolved Git effect keeps its slot and its workspace over any number of
   restarts, a worker's pull as well as an owner-approved operation: the
   start-up clean-up spares exactly the active links (jobs.py:360-361).      *)
ActiveGitHeld ==
  \A o \in Ops : gitrow[o] = "active" => slot[o] # "none" /\ gitguard[Root[o]] = o

(* Every job whose monitor started is eventually settled, with a terminal row
   or cleanup_failed for the owner, and a cancellation that was accepted does
   not stay 'cancelling' for ever.                                           *)
JobsSettle ==
  \A o \in Async :
    /\ monitor[o] = "watch" ~> row[o] \in Terminal \cup {"cleanup_failed"}
    /\ row[o] = "cancelling" ~> row[o] # "cancelling"

(* "Keep capacity held for unresolved descendants" (admission.py:24): a slot
   that an error kept stands for something its own request left unresolved: a
   tree, a job row, a Git link, or a workspace it holds locked or guarded.   *)
HeldSlotHasCause ==
  \A o \in Ops : slot[o] # "none" /\ launch[o] = "kept"
    => \/ tree[o] \/ row[o] # "none" \/ gitrow[o] = "active"
       \/ /\ Root[o] # Nowhere
          /\ o \in {flock[Root[o]], pending[Root[o]], gitguard[Root[o]]}

-----------------------------------------------------------------------------
(* The lifecycle above implements the job contract.  A job that escaped still
   owes the capacity its launch gave back, until a restart has killed it.    *)
Reported(o) ==
  CASE row[o] = "none" -> "absent"
    [] row[o] \in {"launching", "running"} -> "active"
    [] row[o] = "cancelling" -> "stopping"
    [] row[o] = "finalizing" -> "publishing"
    [] row[o] = "cleanup_failed" -> "doubt"
    [] row[o] = "completed" -> "done"
    [] row[o] = "recovered" -> "recovered"
    [] OTHER -> "denied"

Contract == INSTANCE JobContract WITH
  Jobs <- Async, Editing <- Async \cap Transactional, serving <- up = "up",
  report <- [o \in Async |-> Reported(o)], effect <- [o \in Async |-> edits[o]],
  charged <- {o \in Async : slot[o] # "none" \/ o \in legacy \/ o \in Escaped}

(* Every step of launcher, monitor, canceller, crash, start-up and owner
   recovery is a move the contract allows.                                   *)
ImplementsContract == Contract!Spec
=============================================================================
