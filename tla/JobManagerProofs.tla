--------------------------- MODULE JobManagerProofs ---------------------------
(***************************************************************************)
(* What holds of the admission ledger and the job lifecycle for any set of *)
(* requests, any mix of entry points and workspaces, any max_active_jobs   *)
(* and any number of crashes.                                              *)
(***************************************************************************)
EXTENDS JobManager, FiniteSetTheorems, TLAPS

USE DEF Statuses, Terminal, Unfinished, LaunchStates, MonitorStates, Failed

(* The gateway starts with empty tables and no threads.                      *)
LEMMA TypeInit == Init => TypeOK
BY RootAssumption DEF Init, TypeOK

(* Setting one flag of a table leaves a table of flags.                       *)
LEMMA FlagSet ==
  ASSUME NEW S, NEW f \in [S -> BOOLEAN], NEW x \in S, NEW v \in BOOLEAN
  PROVE  [f EXCEPT ![x] = v] \in [S -> BOOLEAN]
OBVIOUS

(* Every action keeps every table column and program counter in its range.   *)
LEMMA TypeStep == TypeOK /\ [Next]_vars => TypeOK'
<1> SUFFICES ASSUME TypeOK, [Next]_vars PROVE TypeOK'
  OBVIOUS
<1> USE RootAssumption DEF TypeOK, ledger, threads, durable
<1>1. ASSUME NEW o \in Ops, Launching(o) PROVE TypeOK'
  <2>1. CASE Admit(o)
    BY <2>1 DEF Admit, Go
  <2>2. CASE OpenRoot(o)
    BY <2>2 DEF OpenRoot, Go, Blocked
  <2>3. CASE LaunchRefused(o)
    BY <2>3 DEF LaunchRefused, Unlock
  <2>4. CASE LaunchBlocked(o)
    BY <2>4 DEF LaunchBlocked, Go, Blocked
  <2>5. CASE RecordLaunching(o)
    BY <2>5 DEF RecordLaunching, Go
  <2>6. CASE Spawn(o)
    BY <2>6 DEF Spawn, ReadyToSpawn
  <2>7. CASE SpawnFails(o)
    <3>1. launch' \in [Ops -> LaunchStates]
      <4>1. \E to \in {"unwind", "unwind_uncertain"} : launch' = [launch EXCEPT ![o] = to]
        BY <2>7 DEF SpawnFails
      <4>q. QED BY <4>1
    <3>2. tree' \in [Ops -> BOOLEAN]
      <4>1. tree' = tree \/ tree' = [tree EXCEPT ![o] = TRUE]
        BY <2>7 DEF SpawnFails
      <4>2. tree \in [Ops -> BOOLEAN] /\ o \in Ops
        OBVIOUS
      <4>q. QED BY ONLY <4>1, <4>2, FlagSet
    <3>q. QED BY <2>7, <3>1, <3>2 DEF SpawnFails, ReadyToSpawn
  <2>8. CASE RecordRunning(o)
    BY <2>8 DEF RecordRunning, Go
  <2>9. CASE StartMonitor(o)
    BY <2>9 DEF StartMonitor, Go
  <2>10. CASE LaunchFails(o)
    BY <2>10 DEF LaunchFails
  <2>11. CASE KillFailedLaunch(o)
    <3>1. launch' \in [Ops -> LaunchStates]
      BY <2>11 DEF KillFailedLaunch, Go
    <3>2. tree' \in [Ops -> BOOLEAN]
      <4>1. tree' = tree \/ tree' = [tree EXCEPT ![o] = FALSE]
        BY <2>11 DEF KillFailedLaunch, Go
      <4>2. tree \in [Ops -> BOOLEAN] /\ o \in Ops
        OBVIOUS
      <4>q. QED BY ONLY <4>1, <4>2, FlagSet
    <3>q. QED BY <2>11, <3>1, <3>2 DEF KillFailedLaunch, Go
  <2>12. CASE Unwind(o)
    BY <2>12 DEF Unwind, Go, Unlock
  <2>13. CASE Release(o)
    BY <2>13 DEF Release, Go
  <2>14. CASE Bind(o)
    BY <2>14 DEF Bind, Go
  <2>15. CASE BindFails(o)
    BY <2>15 DEF BindFails, Go
  <2>q. QED BY <1>1, <2>1, <2>2, <2>3, <2>4, <2>5, <2>6, <2>7, <2>8, <2>9, <2>10,
        <2>11, <2>12, <2>13, <2>14, <2>15 DEF Launching
<1>2. ASSUME NEW o \in Ops, Executing(o) PROVE TypeOK'
  <2>1. CASE RunExec(o)
    BY <2>1 DEF RunExec, Go
  <2>2. CASE ExecDrained(o)
    <3>1. launch' \in [Ops -> LaunchStates]
      BY <2>2 DEF ExecDrained
    <3>2. tree' \in [Ops -> BOOLEAN]
      <4>1. tree' = tree \/ tree' = [tree EXCEPT ![o] = FALSE]
        BY <2>2 DEF ExecDrained
      <4>2. tree \in [Ops -> BOOLEAN] /\ o \in Ops
        OBVIOUS
      <4>q. QED BY ONLY <4>1, <4>2, FlagSet
    <3>3. monitor' \in [Ops -> MonitorStates]
      BY <2>2 DEF ExecDrained
    <3>q. QED BY <2>2, <3>1, <3>2, <3>3 DEF ExecDrained
  <2>3. CASE ExecReturns(o)
    BY <2>3 DEF ExecReturns, Go
  <2>q. QED BY <1>2, <2>1, <2>2, <2>3 DEF Executing
<1>3. ASSUME NEW o \in Ops, GitStep(o) PROVE TypeOK'
  <2>1. CASE WriteGitGuard(o)
    BY <2>1 DEF WriteGitGuard, Go
  <2>2. CASE BindGit(o)
    BY <2>2 DEF BindGit, Go
  <2>3. CASE ResolveGit(o)
    BY <2>3 DEF ResolveGit, Go
  <2>4. CASE RemoveGitGuard(o)
    BY <2>4 DEF RemoveGitGuard, Go, Unlock, Dropped
  <2>5. CASE GitInterrupted(o)
    BY <2>5 DEF GitInterrupted, Unlock
  <2>q. QED BY <1>3, <2>1, <2>2, <2>3, <2>4, <2>5 DEF GitStep
<1>4. ASSUME NEW o \in Ops, Finalizing(o) PROVE TypeOK'
  <2>1. CASE ClaimFinalization(o)
    <3>1. row' \in [Ops -> Statuses \cup {"none"}]
      BY <2>1 DEF ClaimFinalization, Doubt
    <3>2. monitor' \in [Ops -> MonitorStates]
      BY <2>1 DEF ClaimFinalization, Doubt
    <3>3. verdict' \in [Ops -> Statuses]
      BY <2>1 DEF ClaimFinalization, Doubt
    <3>4. clean' \in [Ops -> BOOLEAN]
      <4>1. clean' = clean \/ clean' = [clean EXCEPT ![o] = FALSE]
        BY <2>1 DEF ClaimFinalization, Doubt
      <4>2. clean \in [Ops -> BOOLEAN] /\ o \in Ops
        OBVIOUS
      <4>q. QED BY ONLY <4>1, <4>2, FlagSet
    <3>q. QED BY <2>1, <3>1, <3>2, <3>3, <3>4 DEF ClaimFinalization, Doubt
  <2>2. CASE PublishRejected(o)
    <3>1. monitor' \in [Ops -> MonitorStates]
      BY <2>2 DEF PublishRejected, Doubt
    <3>2. verdict' \in [Ops -> Statuses]
      BY <2>2 DEF PublishRejected, Doubt
    <3>3. clean' \in [Ops -> BOOLEAN]
      <4>1. clean' = clean \/ clean' = [clean EXCEPT ![o] = FALSE]
        BY <2>2 DEF PublishRejected, Doubt
      <4>2. clean \in [Ops -> BOOLEAN] /\ o \in Ops
        OBVIOUS
      <4>q. QED BY ONLY <4>1, <4>2, FlagSet
    <3>q. QED BY <2>2, <3>1, <3>2, <3>3 DEF PublishRejected, Doubt
  <2>3. CASE PublishNothing(o)
    BY <2>3 DEF PublishNothing
  <2>4. CASE JournalPublication(o)
    BY <2>4 DEF JournalPublication
  <2>5. CASE ApplyEdits(o)
    BY <2>5 DEF ApplyEdits
  <2>6. CASE ResolvePull(o)
    BY <2>6 DEF ResolvePull
  <2>7. CASE RetireJournal(o)
    BY <2>7 DEF RetireJournal, Dropped
  <2>8. CASE PublicationInterrupted(o)
    BY <2>8 DEF PublicationInterrupted, Dropped, Doubt
  <2>9. CASE CloseTransaction(o)
    <3>1. monitor' \in [Ops -> MonitorStates]
      BY <2>9 DEF CloseTransaction, Unlock, Doubt
    <3>2. flock' \in [Workspaces -> Ops \cup {Nobody}]
      BY <2>9 DEF CloseTransaction, Unlock, Doubt
    <3>3. verdict' \in [Ops -> Statuses]
      BY <2>9 DEF CloseTransaction, Unlock, Doubt
    <3>4. clean' \in [Ops -> BOOLEAN]
      <4>1. clean' = clean \/ clean' = [clean EXCEPT ![o] = FALSE]
        BY <2>9 DEF CloseTransaction, Unlock, Doubt
      <4>2. clean \in [Ops -> BOOLEAN] /\ o \in Ops
        OBVIOUS
      <4>q. QED BY ONLY <4>1, <4>2, FlagSet
    <3>q. QED BY <2>9, <3>1, <3>2, <3>3, <3>4 DEF CloseTransaction, Unlock, Doubt
  <2>q. QED BY <1>4, <2>1, <2>2, <2>3, <2>4, <2>5, <2>6, <2>7, <2>8, <2>9 DEF
        Finalizing
<1>5. ASSUME NEW o \in Ops, MonitorDecides(o) \/ MonitorReaps(o) \/
      ReadFinalRow(o) \/ WriteFinalRow(o) PROVE TypeOK'
  <2>1. CASE MonitorDecides(o)
    <3>1. monitor' \in [Ops -> MonitorStates]
      BY <2>1 DEF MonitorDecides
    <3>2. verdict' \in [Ops -> Statuses]
      BY <2>1 DEF MonitorDecides
    <3>3. clean' \in [Ops -> BOOLEAN]
      <4>1. clean' = clean \/ clean' = [clean EXCEPT ![o] = FALSE]
        BY <2>1 DEF MonitorDecides
      <4>2. clean \in [Ops -> BOOLEAN] /\ o \in Ops
        OBVIOUS
      <4>q. QED BY ONLY <4>1, <4>2, FlagSet
    <3>q. QED BY <2>1, <3>1, <3>2, <3>3 DEF MonitorDecides
  <2>2. CASE MonitorReaps(o)
    BY <2>2 DEF MonitorReaps
  <2>3. CASE ReadFinalRow(o)
    BY <2>3 DEF ReadFinalRow, Async
  <2>4. CASE WriteFinalRow(o)
    BY <2>4 DEF WriteFinalRow
  <2>q. QED BY <1>5, <2>1, <2>2, <2>3, <2>4
<1>6. ASSUME NEW o \in Ops, Pulling(o) PROVE TypeOK'
  <2>1. CASE ClaimPull(o)
    BY <2>1 DEF ClaimPull, PullLive
  <2>2. CASE GuardPull(o)
    BY <2>2 DEF GuardPull, PullLive
  <2>3. CASE LinkPull(o)
    BY <2>3 DEF LinkPull, PullLive
  <2>q. QED BY <1>6, <2>1, <2>2, <2>3 DEF Pulling
<1>7. ASSUME NEW o \in Ops, Cancelling(o) PROVE TypeOK'
  <2>1. CASE CancelLookup(o)
    BY <2>1 DEF CancelLookup
  <2>2. CASE CancelMark(o)
    BY <2>2 DEF CancelMark
  <2>3. CASE CancelSignal(o)
    BY <2>3 DEF CancelSignal
  <2>q. QED BY <1>7, <2>1, <2>2, <2>3 DEF Cancelling
<1>8. ASSUME NEW o \in Ops, Recovering(o) PROVE TypeOK'
  <2>1. CASE RecoverEdits(o)
    BY <2>1 DEF RecoverEdits, Async, Maintenance
  <2>2. CASE RecoverJob(o)
    BY <2>2 DEF RecoverJob, Async, Maintenance
  <2>3. CASE RetireGuard(o)
    BY <2>3 DEF RetireGuard, Async, Dropped, Maintenance
  <2>4. CASE RecoverGit(o)
    BY <2>4 DEF RecoverGit, Dropped, Maintenance
  <2>q. QED BY <1>8, <2>1, <2>2, <2>3, <2>4 DEF Recovering
<1>9. CASE Crash
  BY <1>9 DEF Crash
<1>10. CASE InitDb
  BY <1>10 DEF InitDb, ProtectUnfinished
<1>11. CASE ConfigureResources
  BY <1>11 DEF ConfigureResources, Restarted
<1>12. CASE UNCHANGED vars
  BY <1>12 DEF vars
<1>q. QED BY <1>1, <1>2, <1>3, <1>4, <1>5, <1>6, <1>7, <1>8, <1>9, <1>10, <1>11,
      <1>12 DEF Next, Monitoring

-----------------------------------------------------------------------------
(* The inductive invariant behind the capacity theorems.                     *)

(* Threads exist only in a gateway that serves.                              *)
Stopped == up # "up" =>
  \A o \in Ops : launch[o] \in {"idle", "gone", "escaped"} /\ monitor[o] = "off"

(* Nothing watches a request before its launcher started the monitor.        *)
Unwatched(o) ==
  /\ launch[o] \in {"idle", "admitted", "opened", "recorded", "spawned", "running"}
       => monitor[o] = "off"
  /\ monitor[o] # "off" /\ Kind[o] = "agent" => launch[o] = "done"
  /\ launch[o] = "executing" => Kind[o] = "exec"

(* The launcher's own token is still in the ledger, not yet bound unless the
   entry point binds it before the launch.                                   *)
TokenHeld(o) ==
  /\ \/ launch[o] \in {"admitted", "opened", "bind"}
     \/ Kind[o] # "agent" /\ launch[o] \in {"spawned", "running"}
     => slot[o] = "unbound"
  /\ launch[o] = "recorded" => slot[o] = "bound"

(* Where the launcher has started nothing, or has seen it dead.              *)
NothingStarted(o) ==
  launch[o] \in {"idle", "admitted", "opened", "recorded", "unwind", "release",
                 "guarded", "linked", "settled"} => ~tree[o]

(* From the claim on, and in every clean verdict, the tree is gone.          *)
Reaped(o) ==
  /\ monitor[o] \in {"claim", "publish", "apply", "retire", "close"} => ~tree[o]
  /\ monitor[o] \in {"final", "write", "done"} /\ clean[o] => ~tree[o]

(* A monitor in doubt has given its verdict.                                 *)
DoubtIsVerdict(o) ==
  /\ monitor[o] \in {"off", "watch", "claim", "publish", "apply", "retire", "close"}
       => clean[o]
  /\ ~clean[o] => verdict[o] = "cleanup_failed"

(* A terminal row seen by the binding transaction was written by a monitor
   that had reaped the tree.                                                 *)
BindingRace(o) ==
  /\ launch[o] = "running" => row[o] \notin Terminal
  /\ launch[o] = "bind" /\ row[o] \in Terminal => ~tree[o]

SlotInv ==
  /\ Stopped
  /\ \A o \in Ops : /\ Unwatched(o) /\ TokenHeld(o) /\ NothingStarted(o) /\ Reaped(o)
                    /\ DoubtIsVerdict(o) /\ BindingRace(o)
                    /\ tree[o] => slot[o] # "none" \/ launch[o] = "escaped"

LEMMA SlotInit == Init => SlotInv
BY DEF Init, SlotInv, Stopped, Unwatched, TokenHeld, NothingStarted, Reaped,
       DoubtIsVerdict, BindingRace

(* Each action, by whichever thread, keeps the whole invariant.              *)
LEMMA SlotStep == TypeOK /\ SlotInv /\ [Next]_vars => SlotInv'
<1> SUFFICES ASSUME TypeOK, SlotInv, [Next]_vars PROVE SlotInv'
  OBVIOUS
<1> USE KindAssumption, RootAssumption
    DEF TypeOK, SlotInv, Stopped, Unwatched, TokenHeld, NothingStarted, Reaped,
        DoubtIsVerdict, BindingRace, ledger, threads, durable
<1>1. ASSUME NEW o \in Ops, Launching(o) PROVE SlotInv'
  <2>1. CASE Admit(o)
    BY <2>1 DEF Admit, Go
  <2>2. CASE OpenRoot(o)
    BY <2>2 DEF OpenRoot, Go, Blocked
  <2>3. CASE LaunchRefused(o)
    BY <2>3 DEF LaunchRefused, Unlock
  <2>4. CASE LaunchBlocked(o)
    BY <2>4 DEF LaunchBlocked, Go, Blocked
  <2>5. CASE RecordLaunching(o)
    BY <2>5 DEF RecordLaunching, Go
  <2>6. CASE Spawn(o)
    BY <2>6 DEF Spawn, ReadyToSpawn
  <2>7. CASE SpawnFails(o)
    BY <2>7 DEF SpawnFails, ReadyToSpawn
  <2>8. CASE RecordRunning(o)
    BY <2>8 DEF RecordRunning, Go
  <2>9. CASE StartMonitor(o)
    BY <2>9 DEF StartMonitor, Go
  <2>10. CASE LaunchFails(o)
    BY <2>10 DEF LaunchFails
  <2>11. CASE KillFailedLaunch(o)
    BY <2>11 DEF KillFailedLaunch, Go
  <2>12. CASE Unwind(o)
    BY <2>12 DEF Unwind, Go, Unlock
  <2>13. CASE Release(o)
    BY <2>13 DEF Release, Go
  <2>14. CASE Bind(o)
    BY <2>14 DEF Bind, Go
  <2>15. CASE BindFails(o)
    BY <2>15 DEF BindFails, Go
  <2>q. QED BY <1>1, <2>1, <2>2, <2>3, <2>4, <2>5, <2>6, <2>7, <2>8, <2>9, <2>10,
        <2>11, <2>12, <2>13, <2>14, <2>15 DEF Launching
<1>2. ASSUME NEW o \in Ops, Executing(o) PROVE SlotInv'
  <2>1. CASE RunExec(o)
    BY <2>1 DEF RunExec, Go
  <2>2. CASE ExecDrained(o)
    BY <2>2 DEF ExecDrained
  <2>3. CASE ExecReturns(o)
    BY <2>3 DEF ExecReturns, Go
  <2>q. QED BY <1>2, <2>1, <2>2, <2>3 DEF Executing
<1>3. ASSUME NEW o \in Ops, GitStep(o) PROVE SlotInv'
  <2>1. CASE WriteGitGuard(o)
    BY <2>1 DEF WriteGitGuard, Go
  <2>2. CASE BindGit(o)
    BY <2>2 DEF BindGit, Go
  <2>3. CASE ResolveGit(o)
    BY <2>3 DEF ResolveGit, Go
  <2>4. CASE RemoveGitGuard(o)
    BY <2>4 DEF RemoveGitGuard, Go, Unlock, Dropped
  <2>5. CASE GitInterrupted(o)
    BY <2>5 DEF GitInterrupted, Unlock
  <2>q. QED BY <1>3, <2>1, <2>2, <2>3, <2>4, <2>5 DEF GitStep
<1>4. ASSUME NEW o \in Ops, Finalizing(o) PROVE SlotInv'
  <2>1. CASE ClaimFinalization(o)
    BY <2>1 DEF ClaimFinalization, Doubt
  <2>2. CASE PublishRejected(o)
    BY <2>2 DEF PublishRejected, Doubt
  <2>3. CASE PublishNothing(o)
    BY <2>3 DEF PublishNothing
  <2>4. CASE JournalPublication(o)
    BY <2>4 DEF JournalPublication
  <2>5. CASE ApplyEdits(o)
    BY <2>5 DEF ApplyEdits
  <2>6. CASE ResolvePull(o)
    BY <2>6 DEF ResolvePull
  <2>7. CASE RetireJournal(o)
    BY <2>7 DEF RetireJournal, Dropped
  <2>8. CASE PublicationInterrupted(o)
    BY <2>8 DEF PublicationInterrupted, Dropped, Doubt
  <2>9. CASE CloseTransaction(o)
    BY <2>9 DEF CloseTransaction, Unlock, Doubt
  <2>q. QED BY <1>4, <2>1, <2>2, <2>3, <2>4, <2>5, <2>6, <2>7, <2>8, <2>9 DEF
        Finalizing
<1>5. ASSUME NEW o \in Ops, MonitorDecides(o) \/ MonitorReaps(o) \/
      ReadFinalRow(o) \/ WriteFinalRow(o) PROVE SlotInv'
  <2>1. CASE MonitorDecides(o)
    BY <2>1 DEF MonitorDecides
  <2>2. CASE MonitorReaps(o)
    <3>1. PICK drained \in BOOLEAN, ok \in BOOLEAN :
            LET good == clean[o] /\ drained /\ ok IN
              /\ tree' = [tree EXCEPT ![o] = @ /\ ~drained]
              /\ clean' = [clean EXCEPT ![o] = good]
              /\ verdict' = [verdict EXCEPT ![o] = IF good THEN @ ELSE "cleanup_failed"]
              /\ monitor' = [monitor EXCEPT ![o] = IF good /\ Root[o] # Nowhere
                                                   THEN "claim" ELSE "final"]
      BY <2>2 DEF MonitorReaps
    <3>2. CASE clean[o] /\ drained /\ ok
      <4>0. tree' = [tree EXCEPT ![o] = FALSE] /\ clean' = [clean EXCEPT ![o] = TRUE]
        BY <2>2, <3>1, <3>2, Zenon
      <4>1. ~tree'[o] /\ clean'[o] /\ monitor'[o] \in {"claim", "final"}
        BY <2>2, <4>0, <3>1, <3>2
      <4>2. \A p \in Ops \ {o} : /\ tree'[p] = tree[p] /\ clean'[p] = clean[p]
                                /\ verdict'[p] = verdict[p] /\ monitor'[p] = monitor[p]
        BY <2>2, <3>1
      <4>3. launch[o] \notin {"idle", "admitted", "opened", "recorded", "spawned", "running"}
        BY <2>2 DEF MonitorReaps
      <4>q. QED BY <2>2, <4>1, <4>2, <4>3 DEF MonitorReaps
    <3>3. CASE ~(clean[o] /\ drained /\ ok)
      BY <2>2, <3>1, <3>3 DEF MonitorReaps
    <3>q. QED BY <3>2, <3>3
  <2>3. CASE ReadFinalRow(o)
    BY <2>3 DEF ReadFinalRow, Async
  <2>4. CASE WriteFinalRow(o)
    BY <2>4 DEF WriteFinalRow
  <2>q. QED BY <1>5, <2>1, <2>2, <2>3, <2>4
<1>6. ASSUME NEW o \in Ops, Pulling(o) PROVE SlotInv'
  <2>1. CASE ClaimPull(o)
    BY <2>1 DEF ClaimPull, PullLive
  <2>2. CASE GuardPull(o)
    BY <2>2 DEF GuardPull, PullLive
  <2>3. CASE LinkPull(o)
    BY <2>3 DEF LinkPull, PullLive
  <2>q. QED BY <1>6, <2>1, <2>2, <2>3 DEF Pulling
<1>7. ASSUME NEW o \in Ops, Cancelling(o) PROVE SlotInv'
  <2>1. CASE CancelLookup(o)
    BY <2>1 DEF CancelLookup
  <2>2. CASE CancelMark(o)
    BY <2>2 DEF CancelMark
  <2>3. CASE CancelSignal(o)
    BY <2>3 DEF CancelSignal
  <2>q. QED BY <1>7, <2>1, <2>2, <2>3 DEF Cancelling
<1>8. ASSUME NEW o \in Ops, Recovering(o) PROVE SlotInv'
  <2>1. CASE RecoverEdits(o)
    BY <2>1 DEF RecoverEdits, Async, Maintenance
  <2>2. CASE RecoverJob(o)
    BY <2>2 DEF RecoverJob, Async, Maintenance
  <2>3. CASE RetireGuard(o)
    BY <2>3 DEF RetireGuard, Async, Dropped, Maintenance
  <2>4. CASE RecoverGit(o)
    BY <2>4 DEF RecoverGit, Dropped, Maintenance
  <2>q. QED BY <1>8, <2>1, <2>2, <2>3, <2>4 DEF Recovering
<1>9. CASE Crash
  BY <1>9 DEF Crash
<1>10. CASE InitDb
  BY <1>10 DEF InitDb, ProtectUnfinished
<1>11. CASE ConfigureResources
  BY <1>11 DEF ConfigureResources, Restarted
<1>12. CASE UNCHANGED vars
  BY <1>12 DEF vars
<1>q. QED BY <1>1, <1>2, <1>3, <1>4, <1>5, <1>6, <1>7, <1>8, <1>9, <1>10, <1>11,
      <1>12 DEF Next, Monitoring

-----------------------------------------------------------------------------
(* The inductive invariant behind the Git theorem; it rests on the one above. *)

(* An active Git link names a token that nobody else can bind or drop: an
   operation's own unbound one, or the bound one of an agent's job.          *)
GitLink(o) ==
  gitrow[o] = "active" =>
    \/ Kind[o] = "git" /\ slot[o] = "unbound" /\ launch[o] \in {"linked", "kept", "gone"}
    \/ Kind[o] = "agent" /\ slot[o] = "bound" /\ launch[o] \in {"done", "gone"}

(* Only a Git operation takes the Git steps, and nothing monitors it.         *)
GitOnly(o) ==
  /\ launch[o] \in {"guarded", "linked", "settled"} => Kind[o] = "git"
  /\ Kind[o] = "git" =>
       /\ monitor[o] = "off"
       /\ launch[o] \in {"idle", "admitted", "opened", "release", "guarded", "linked",
                         "settled", "done", "kept", "gone"}

(* Only the owner's recovery makes a row 'recovered', of a job that is gone.  *)
OwnerRecovers(o) ==
  /\ launch[o] \in {"idle", "admitted", "opened"} => row[o] = "none"
  /\ verdict[o] # "recovered"
  /\ row[o] = "recovered" => /\ gitrow[o] # "active" /\ monitor[o] = "off"
                             /\ launch[o] \in {"gone", "escaped"}

(* A guard of a Git effect stays on disk as long as the link may be active.   *)
GitGuard(o) ==
  /\ gitrow[o] = "active" => Root[o] \in Workspaces /\ gitguard[Root[o]] = o
  /\ launch[o] = "settled" => gitrow[o] = "resolved"
  /\ launch[o] \in {"guarded", "linked"} => Root[o] \in Workspaces /\ gitguard[Root[o]] = o

(* What the worker has spent so far, and what of it a step may still undo.    *)
SpentLink(o) ==
  /\ spent[o] # "no" => Kind[o] = "agent" /\ Root[o] \in Workspaces
                        /\ monitor[o] # "off"
  /\ spent[o] \in {"guarded", "linked"} => gitguard[Root[o]] = o
  /\ gitrow[o] = "active" /\ Kind[o] = "agent" /\ monitor[o] # "off" => spent[o] = "linked"
  /\ monitor[o] \in {"apply", "retire"} => spent[o] \in {"no", "linked", "resolved"}
  /\ monitor[o] = "close" \/ (monitor[o] \in {"final", "write"} /\ clean[o]) => spent[o] = "no"

GitInv == \A o \in Ops : /\ GitLink(o) /\ GitOnly(o) /\ OwnerRecovers(o)
                         /\ GitGuard(o) /\ SpentLink(o)

LEMMA GitInit == Init => GitInv
BY DEF Init, GitInv, GitLink, GitOnly, OwnerRecovers, GitGuard, SpentLink

(* Each action keeps the link, the guard and the spent approval together.    *)
LEMMA GitStepKeeps == TypeOK /\ SlotInv /\ GitInv /\ [Next]_vars => GitInv'
<1> SUFFICES ASSUME TypeOK, SlotInv, GitInv, [Next]_vars PROVE GitInv'
  OBVIOUS
<1>0. \A p \in Ops : launch[p] \in {"idle", "running", "release", "escape"}
                   => gitrow[p] # "active" /\ row[p] # "recovered"
  BY DEF GitInv, GitLink, OwnerRecovers
<1> USE KindAssumption, RootAssumption
    DEF TypeOK, SlotInv, Stopped, Unwatched, TokenHeld, GitInv, GitLink, GitOnly,
        OwnerRecovers, GitGuard, SpentLink, ledger, threads, durable
<1>1. ASSUME NEW o \in Ops, Launching(o) PROVE GitInv'
  <2>1. CASE Admit(o)
    <3>1. \A p \in Ops \ {o} : (GitLink(p) /\ GitOnly(p) /\ OwnerRecovers(p) /\ GitGuard(p) /\ SpentLink(p))'
      BY <2>1 DEF Admit, Go
    <3>2. gitrow[o] # "active" /\ row[o] # "recovered"
      BY <1>0, <2>1 DEF Admit, Go
    <3>3. (launch'[o] = "admitted") /\ monitor'[o] = "off" /\ spent[o] = "no"
      BY <2>1 DEF Admit, Go
    <3>4. GitLink(o)' /\ GitGuard(o)'
      BY <3>2, <3>3, <2>1 DEF Admit, Go
    <3>5. GitOnly(o)'
      BY <3>2, <3>3, <2>1 DEF Admit, Go
    <3>6. OwnerRecovers(o)' /\ SpentLink(o)'
      BY <3>2, <3>3, <2>1 DEF Admit, Go
    <3>q. QED BY <3>1, <3>4, <3>5, <3>6
  <2>2. CASE OpenRoot(o)
    BY <2>2 DEF OpenRoot, Go, Blocked
  <2>3. CASE LaunchRefused(o)
    BY <2>3 DEF LaunchRefused, Unlock
  <2>4. CASE LaunchBlocked(o)
    BY <2>4 DEF LaunchBlocked, Go, Blocked
  <2>5. CASE RecordLaunching(o)
    BY <2>5 DEF RecordLaunching, Go
  <2>6. CASE Spawn(o)
    BY <2>6 DEF Spawn, ReadyToSpawn
  <2>7. CASE SpawnFails(o)
    BY <2>7 DEF SpawnFails, ReadyToSpawn
  <2>8. CASE RecordRunning(o)
    BY <2>8 DEF RecordRunning, Go
  <2>9. CASE StartMonitor(o)
    <3>1. \A p \in Ops \ {o} : (GitLink(p) /\ GitOnly(p) /\ OwnerRecovers(p) /\ GitGuard(p) /\ SpentLink(p))'
      BY <2>9 DEF StartMonitor, Go
    <3>2. gitrow[o] # "active" /\ row[o] # "recovered"
      BY <1>0, <2>9 DEF StartMonitor, Go
    <3>3. (launch'[o] = "done" \/ launch'[o] = "bind") /\ monitor'[o] = "watch" /\ spent[o] = "no"
      BY <2>9 DEF StartMonitor, Go
    <3>4. GitLink(o)' /\ GitGuard(o)'
      BY <3>2, <3>3, <2>9 DEF StartMonitor, Go
    <3>5. GitOnly(o)'
      BY <3>2, <3>3, <2>9 DEF StartMonitor, Go
    <3>6. OwnerRecovers(o)' /\ SpentLink(o)'
      BY <3>2, <3>3, <2>9 DEF StartMonitor, Go
    <3>q. QED BY <3>1, <3>4, <3>5, <3>6
  <2>10. CASE LaunchFails(o)
    BY <2>10 DEF LaunchFails
  <2>11. CASE KillFailedLaunch(o)
    BY <2>11 DEF KillFailedLaunch, Go
  <2>12. CASE Unwind(o)
    BY <2>12 DEF Unwind, Go, Unlock
  <2>13. CASE Release(o)
    <3>1. \A p \in Ops \ {o} : (GitLink(p) /\ GitOnly(p) /\ OwnerRecovers(p) /\ GitGuard(p) /\ SpentLink(p))'
      BY <2>13 DEF Release, Go
    <3>2. gitrow[o] # "active" /\ row[o] # "recovered"
      BY <1>0, <2>13 DEF Release, Go
    <3>3. /\ launch'[o] \in {"done", "escaped"} /\ monitor'[o] = monitor[o] /\ spent[o] = "no"
          /\ launch'[o] = "escaped" => Kind[o] # "git"
      BY <2>13 DEF Release, Go
    <3>4. GitLink(o)' /\ GitGuard(o)'
      BY <3>2, <3>3, <2>13 DEF Release, Go
    <3>5. GitOnly(o)'
      BY <3>2, <3>3, <2>13 DEF Release, Go
    <3>6. OwnerRecovers(o)' /\ SpentLink(o)'
      BY <3>2, <3>3, <2>13 DEF Release, Go
    <3>q. QED BY <3>1, <3>4, <3>5, <3>6
  <2>14. CASE Bind(o)
    BY <2>14 DEF Bind, Go
  <2>15. CASE BindFails(o)
    BY <2>15 DEF BindFails, Go
  <2>q. QED BY <1>1, <2>1, <2>2, <2>3, <2>4, <2>5, <2>6, <2>7, <2>8, <2>9, <2>10,
        <2>11, <2>12, <2>13, <2>14, <2>15 DEF Launching
<1>2. ASSUME NEW o \in Ops, Executing(o) PROVE GitInv'
  <2>1. CASE RunExec(o)
    BY <2>1 DEF RunExec, Go
  <2>2. CASE ExecDrained(o)
    BY <2>2 DEF ExecDrained
  <2>3. CASE ExecReturns(o)
    BY <2>3 DEF ExecReturns, Go
  <2>q. QED BY <1>2, <2>1, <2>2, <2>3 DEF Executing
<1>3. ASSUME NEW o \in Ops, GitStep(o) PROVE GitInv'
  <2>1. CASE WriteGitGuard(o)
    BY <2>1 DEF WriteGitGuard, Go
  <2>2. CASE BindGit(o)
    BY <2>2 DEF BindGit, Go
  <2>3. CASE ResolveGit(o)
    BY <2>3 DEF ResolveGit, Go
  <2>4. CASE RemoveGitGuard(o)
    BY <2>4 DEF RemoveGitGuard, Go, Unlock, Dropped
  <2>5. CASE GitInterrupted(o)
    BY <2>5 DEF GitInterrupted, Unlock
  <2>q. QED BY <1>3, <2>1, <2>2, <2>3, <2>4, <2>5 DEF GitStep
<1>4. ASSUME NEW o \in Ops, Finalizing(o) PROVE GitInv'
  <2>1. CASE ClaimFinalization(o)
    BY <2>1 DEF ClaimFinalization, Doubt
  <2>2. CASE PublishRejected(o)
    BY <2>2 DEF PublishRejected, Doubt
  <2>3. CASE PublishNothing(o)
    BY <2>3 DEF PublishNothing
  <2>4. CASE JournalPublication(o)
    BY <2>4 DEF JournalPublication
  <2>5. CASE ApplyEdits(o)
    BY <2>5 DEF ApplyEdits
  <2>6. CASE ResolvePull(o)
    BY <2>6 DEF ResolvePull
  <2>7. CASE RetireJournal(o)
    BY <2>7 DEF RetireJournal, Dropped
  <2>8. CASE PublicationInterrupted(o)
    <3>1. CASE UNCHANGED <<pending, gitguard>>
      BY <2>8, <3>1 DEF PublicationInterrupted, Dropped, Doubt
    <3>2. CASE monitor[o] = "publish" /\ gitguard' = gitguard
      BY <2>8, <3>2 DEF PublicationInterrupted, Dropped, Doubt
    <3>3. CASE monitor[o] = "retire" /\ spent[o] # "linked" /\ gitguard' =
          Dropped(gitguard, o)
      <4>1. gitrow[o] # "active" /\ Kind[o] # "git" /\ launch[o] \notin {"guarded", "linked"}
        BY <2>8, <3>3 DEF PublicationInterrupted, Doubt
      <4>2. \A p \in Ops \ {o} : Root[p] \in Workspaces /\ gitguard[Root[p]] = p => gitguard'[Root[p]] = p
        BY <3>3 DEF Dropped
      <4>q. QED BY <4>1, <4>2, <2>8, <3>3 DEF PublicationInterrupted, Dropped, Doubt
    <3>q. QED BY <2>8, <3>1, <3>2, <3>3 DEF PublicationInterrupted
  <2>9. CASE CloseTransaction(o)
    BY <2>9 DEF CloseTransaction, Unlock, Doubt
  <2>q. QED BY <1>4, <2>1, <2>2, <2>3, <2>4, <2>5, <2>6, <2>7, <2>8, <2>9 DEF
        Finalizing
<1>5. ASSUME NEW o \in Ops, MonitorDecides(o) \/ MonitorReaps(o) \/
      ReadFinalRow(o) \/ WriteFinalRow(o) PROVE GitInv'
  <2>1. CASE MonitorDecides(o)
    BY <2>1 DEF MonitorDecides
  <2>2. CASE MonitorReaps(o)
    BY <2>2 DEF MonitorReaps
  <2>3. CASE ReadFinalRow(o)
    BY <2>3 DEF ReadFinalRow, Async
  <2>4. CASE WriteFinalRow(o)
    BY <2>4 DEF WriteFinalRow
  <2>q. QED BY <1>5, <2>1, <2>2, <2>3, <2>4
<1>6. ASSUME NEW o \in Ops, Pulling(o) PROVE GitInv'
  <2>1. CASE ClaimPull(o)
    BY <2>1 DEF ClaimPull, PullLive
  <2>2. CASE GuardPull(o)
    BY <2>2 DEF GuardPull, PullLive
  <2>3. CASE LinkPull(o)
    BY <2>3 DEF LinkPull, PullLive
  <2>q. QED BY <1>6, <2>1, <2>2, <2>3 DEF Pulling
<1>7. ASSUME NEW o \in Ops, Cancelling(o) PROVE GitInv'
  <2>1. CASE CancelLookup(o)
    BY <2>1 DEF CancelLookup
  <2>2. CASE CancelMark(o)
    BY <2>2 DEF CancelMark
  <2>3. CASE CancelSignal(o)
    BY <2>3 DEF CancelSignal
  <2>q. QED BY <1>7, <2>1, <2>2, <2>3 DEF Cancelling
<1>8. ASSUME NEW o \in Ops, Recovering(o) PROVE GitInv'
  <2>1. CASE RecoverEdits(o)
    BY <2>1 DEF RecoverEdits, Async, Maintenance
  <2>2. CASE RecoverJob(o)
    BY <2>2 DEF RecoverJob, Async, Maintenance
  <2>3. CASE RetireGuard(o)
    BY <2>3 DEF RetireGuard, Async, Dropped, Maintenance
  <2>4. CASE RecoverGit(o)
    BY <2>4 DEF RecoverGit, Dropped, Maintenance
  <2>q. QED BY <1>8, <2>1, <2>2, <2>3, <2>4 DEF Recovering
<1>9. CASE Crash
  BY <1>9 DEF Crash
<1>10. CASE InitDb
  BY <1>10 DEF InitDb, ProtectUnfinished
<1>11. CASE ConfigureResources
  BY <1>11 DEF ConfigureResources, Restarted
<1>12. CASE UNCHANGED vars
  BY <1>12 DEF vars
<1>q. QED BY <1>1, <1>2, <1>3, <1>4, <1>5, <1>6, <1>7, <1>8, <1>9, <1>10, <1>11,
      <1>12 DEF Next, Monitoring

-----------------------------------------------------------------------------
(* Only an admission adds a row to the ledger; every other step keeps the
   charged requests or drops some.                                           *)
LEMMA ChargedShrinks ==
  TypeOK /\ SlotInv /\ [Next]_vars /\ (\A o \in Ops : ~Admit(o)) => Charged' \subseteq Charged
<1> SUFFICES ASSUME TypeOK, SlotInv, [Next]_vars, \A o \in Ops : ~Admit(o)
             PROVE  Charged' \subseteq Charged
  OBVIOUS
<1>0. \A o \in Ops : /\ launch[o] = "opened" => slot[o] = "unbound"
                    /\ launch[o] = "bind" => slot[o] = "unbound"
  BY DEF SlotInv, TokenHeld
<1> USE DEF Charged, TypeOK, ledger, threads, durable
<1>1. ASSUME NEW o \in Ops, Launching(o) PROVE Charged' \subseteq Charged
  <2>1. CASE RecordLaunching(o)
    BY <1>0, <2>1 DEF RecordLaunching, Go
  <2>2. CASE Release(o)
    BY <1>0, <2>2 DEF Release, Go
  <2>3. CASE Bind(o)
    BY <1>0, <2>3 DEF Bind, Go
  <2>4. CASE OpenRoot(o) \/ LaunchRefused(o) \/ LaunchBlocked(o) \/ Spawn(o) \/
        SpawnFails(o) \/ RecordRunning(o) \/ StartMonitor(o) \/ LaunchFails(o) \/
        KillFailedLaunch(o) \/ Unwind(o) \/ BindFails(o)
    BY <2>4 DEF OpenRoot, LaunchRefused, LaunchBlocked, Spawn, SpawnFails,
          RecordRunning, StartMonitor, LaunchFails, KillFailedLaunch, Unwind,
          BindFails
  <2>q. QED BY <1>1, <2>1, <2>2, <2>3, <2>4 DEF Launching
<1>2. ASSUME NEW o \in Ops, Executing(o) PROVE Charged' \subseteq Charged
  <2>1. CASE RunExec(o) \/ ExecDrained(o) \/ ExecReturns(o)
    BY <2>1 DEF RunExec, ExecDrained, ExecReturns
  <2>q. QED BY <1>2, <2>1 DEF Executing
<1>3. ASSUME NEW o \in Ops, GitStep(o) PROVE Charged' \subseteq Charged
  <2>1. CASE ResolveGit(o)
    BY <1>0, <2>1 DEF ResolveGit, Go
  <2>2. CASE WriteGitGuard(o) \/ BindGit(o) \/ RemoveGitGuard(o) \/
        GitInterrupted(o)
    BY <2>2 DEF WriteGitGuard, BindGit, RemoveGitGuard, GitInterrupted
  <2>q. QED BY <1>3, <2>1, <2>2 DEF GitStep
<1>4. ASSUME NEW o \in Ops, Finalizing(o) PROVE Charged' \subseteq Charged
  <2>1. CASE ClaimFinalization(o) \/ PublishRejected(o) \/ PublishNothing(o) \/
        JournalPublication(o) \/ ApplyEdits(o) \/ ResolvePull(o) \/
        RetireJournal(o) \/ PublicationInterrupted(o) \/ CloseTransaction(o)
    BY <2>1 DEF ClaimFinalization, PublishRejected, PublishNothing,
          JournalPublication, ApplyEdits, ResolvePull, RetireJournal,
          PublicationInterrupted, CloseTransaction
  <2>q. QED BY <1>4, <2>1 DEF Finalizing
<1>5. ASSUME NEW o \in Ops, MonitorDecides(o) \/ MonitorReaps(o) \/
      ReadFinalRow(o) \/ WriteFinalRow(o) PROVE Charged' \subseteq Charged
  <2>1. CASE WriteFinalRow(o)
    BY <1>0, <2>1 DEF WriteFinalRow
  <2>2. CASE MonitorDecides(o) \/ MonitorReaps(o) \/ ReadFinalRow(o)
    BY <2>2 DEF MonitorDecides, MonitorReaps, ReadFinalRow
  <2>q. QED BY <1>5, <2>1, <2>2
<1>6. ASSUME NEW o \in Ops, Pulling(o) PROVE Charged' \subseteq Charged
  <2>1. CASE ClaimPull(o) \/ GuardPull(o) \/ LinkPull(o)
    BY <2>1 DEF ClaimPull, GuardPull, LinkPull
  <2>q. QED BY <1>6, <2>1 DEF Pulling
<1>7. ASSUME NEW o \in Ops, Cancelling(o) PROVE Charged' \subseteq Charged
  <2>1. CASE CancelLookup(o) \/ CancelMark(o) \/ CancelSignal(o)
    BY <2>1 DEF CancelLookup, CancelMark, CancelSignal
  <2>q. QED BY <1>7, <2>1 DEF Cancelling
<1>8. ASSUME NEW o \in Ops, Recovering(o) PROVE Charged' \subseteq Charged
  <2>1. CASE RecoverJob(o)
    BY <1>0, <2>1 DEF RecoverJob, Async, Maintenance
  <2>2. CASE RecoverGit(o)
    BY <1>0, <2>2 DEF RecoverGit, Dropped, Maintenance
  <2>3. CASE RecoverEdits(o) \/ RetireGuard(o)
    BY <2>3 DEF RecoverEdits, RetireGuard
  <2>q. QED BY <1>8, <2>1, <2>2, <2>3 DEF Recovering
<1>9. CASE Crash
  BY <1>9 DEF Crash
<1>10. CASE InitDb
  BY <1>10 DEF InitDb, ProtectUnfinished
<1>11. CASE ConfigureResources
  BY <1>11 DEF ConfigureResources, Restarted
<1>12. CASE UNCHANGED vars
  BY <1>12 DEF vars
<1>q. QED BY <1>1, <1>2, <1>3, <1>4, <1>5, <1>6, <1>7, <1>8, <1>9, <1>10, <1>11,
      <1>12 DEF Next, Monitoring

(* The count taken by execution_slot bounds the charged requests.            *)
ChargedWithinLimit == Cardinality(Charged) <= MaxActive

LEMMA ChargedStep ==
  ASSUME TypeOK, SlotInv, [Next]_vars, ChargedWithinLimit
  PROVE  ChargedWithinLimit'
<1>1. IsFiniteSet(Charged) /\ IsFiniteSet(legacy)
  BY OpsAssumption, FS_Subset DEF Charged, TypeOK
<1>2. Cardinality(Charged) \in Nat /\ Cardinality(legacy) \in Nat
  BY <1>1, FS_CardinalityType
<1>3. CASE \E o \in Ops : Admit(o)
  <2>1. PICK o \in Ops : Admit(o)
    BY <1>3
  <2>2. Charged' = Charged \cup {o}
    BY <2>1 DEF Admit, Charged, TypeOK
  <2>3. Cardinality(Charged') \in {Cardinality(Charged), Cardinality(Charged) + 1}
    BY <1>1, <2>2, FS_AddElement
  <2>4. Cardinality(Charged) + Cardinality(legacy) < MaxActive
    BY <2>1 DEF Admit, Admissions
  <2>5. Cardinality(Charged') \in Nat
    BY <1>1, <2>2, FS_AddElement, FS_CardinalityType
  <2>q. QED BY <1>2, <2>3, <2>4, <2>5, MaxActiveAssumption DEF ChargedWithinLimit
<1>4. CASE \A o \in Ops : ~Admit(o)
  <2>1. Charged' \subseteq Charged
    BY <1>4, ChargedShrinks
  <2>2. Cardinality(Charged') <= Cardinality(Charged) /\ Cardinality(Charged') \in Nat
    BY <1>1, <2>1, FS_Subset, FS_CardinalityType
  <2>q. QED BY <1>2, <2>2, MaxActiveAssumption DEF ChargedWithinLimit
<1>q. QED BY <1>3, <1>4

-----------------------------------------------------------------------------
(* Every column of the job, admission and Git tables and every program counter
   of launcher, monitor and canceller keeps to its documented values.        *)
THEOREM TypeCorrect == Spec => []TypeOK
<1>1. TypeOK /\ [Next]_vars => TypeOK'
  BY TypeStep
<1>q. QED BY TypeInit, <1>1, PTL DEF Spec

(* The invariant holds in every reachable state.                             *)
LEMMA SlotInvariant == Spec => []SlotInv
<1>1. SlotInv /\ TypeOK /\ [Next]_vars => SlotInv'
  BY SlotStep
<1>q. QED BY SlotInit, <1>1, TypeCorrect, PTL DEF Spec

(* A process tree that may still run is paid for with an admission row,
   through every failure of launch, kill, drain and cleanup, every
   cancellation, crash, start-up and recovery.                               *)
THEOREM CapacityPaysForTrees == Spec => []LiveTreeCharged
<1>1. SlotInv => LiveTreeCharged
  BY DEF SlotInv, LiveTreeCharged, Escaped
<1>q. QED BY SlotInvariant, <1>1, PTL

(* max_active_jobs bounds the process trees themselves.                      *)
THEOREM TreesWithinLimit == Spec => []LiveTreesWithinLimit
<1>1. Init => ChargedWithinLimit
  BY FS_EmptySet, MaxActiveAssumption DEF Init, Charged, ChargedWithinLimit
<1>2. TypeOK /\ SlotInv /\ ChargedWithinLimit /\ [Next]_vars => ChargedWithinLimit'
  BY ChargedStep
<1>3. ASSUME TypeOK, SlotInv, ChargedWithinLimit
      PROVE  LiveTreesWithinLimit
  <2>1. {o \in Ops \ Escaped : tree[o]} \subseteq Charged
    BY <1>3 DEF SlotInv, Charged, Escaped
  <2>2. IsFiniteSet(Charged)
    BY OpsAssumption, FS_Subset DEF Charged
  <2>3. /\ Cardinality({o \in Ops \ Escaped : tree[o]}) <= Cardinality(Charged)
        /\ Cardinality({o \in Ops \ Escaped : tree[o]}) \in Nat /\ Cardinality(Charged) \in Nat
    BY <2>1, <2>2, FS_Subset, FS_CardinalityType
  <2>q. QED BY <1>3, <2>3, MaxActiveAssumption DEF LiveTreesWithinLimit,
        ChargedWithinLimit
<1>4. TypeOK /\ SlotInv /\ ChargedWithinLimit => LiveTreesWithinLimit
  BY <1>3
<1>q. QED BY <1>1, <1>2, <1>4, TypeCorrect, SlotInvariant, PTL DEF Spec

LEMMA GitInvariant == Spec => []GitInv
<1>1. GitInv /\ TypeOK /\ SlotInv /\ [Next]_vars => GitInv'
  BY GitStepKeeps
<1>q. QED BY GitInit, <1>1, TypeCorrect, SlotInvariant, PTL DEF Spec

(* Neither a restart nor another request takes the slot of a Git effect whose
   outcome is not settled.                                                   *)
THEOREM GitEffectsStayCharged == Spec => []ActiveGitHeld
<1>1. GitInv => ActiveGitHeld
  BY DEF GitInv, GitLink, GitGuard, ActiveGitHeld
<1>q. QED BY GitInvariant, <1>1, PTL

-----------------------------------------------------------------------------
(* The invariant behind the publication theorems; it rests on both above.    *)

(* The workspace lock is held from its opening until the transaction is closed
   or the gateway dies, and whoever holds it meets no journal but its own.  *)
Locked(o) ==
  Root[o] # Nowhere /\ ( \/ launch[o] \in {"opened", "recorded", "spawned", "running", "kill",
                                            "unwind", "unwind_uncertain"}
                         \/ launch[o] = "executing" /\ monitor[o] = "off"
                         \/ monitor[o] \in {"watch", "reap", "claim", "publish", "apply",
                                            "retire", "close"} )
    => flock[Root[o]] = o

LockGuards == \A v \in Workspaces :
  /\ flock[v] # Nobody => pending[v] \in {Nobody, flock[v]}
  /\ pending[v] # Nobody => Root[pending[v]] = v

(* A started command of a serving gateway runs under the lock.               *)
RunsLocked(o) ==
  /\ up = "up" /\ tree[o] /\ Root[o] # Nowhere /\ Started(o) => flock[Root[o]] = o
  /\ launch[o] = "unwind_uncertain" => ~Started(o)



(* What the edits of a job have done, by where its monitor is.               *)
EditsFollow(o) ==
  /\ \/ launch[o] \in {"idle", "admitted", "opened", "recorded", "spawned", "running", "kill",
                       "unwind", "unwind_uncertain", "escape", "escaped"}
     \/ launch[o] = "executing" /\ monitor[o] = "off"
     \/ launch[o] = "release" /\ o \in Async
     \/ monitor[o] \in {"watch", "reap", "claim", "publish"}
     => edits[o] = "none" /\ \A v \in Workspaces : pending[v] # o
  /\ launch[o] \in {"kill", "unwind", "unwind_uncertain", "escape", "escaped"}
       => monitor[o] = "off"
  /\ launch[o] = "release" /\ o \in Async => monitor[o] = "off"
  /\ monitor[o] \in {"claim", "publish", "apply", "retire", "close"} => Root[o] # Nowhere
  /\ monitor[o] = "apply" => edits[o] \in {"none", "partial"} /\ pending[Root[o]] = o
  /\ monitor[o] = "retire" => edits[o] = "published"
  /\ monitor[o] = "close" \/ (monitor[o] \in {"final", "write"} /\ clean[o])
       => edits[o] # "partial" /\ \A v \in Workspaces : pending[v] # o
  /\ edits[o] = "partial" => Root[o] # Nowhere /\ pending[Root[o]] = o
  /\ Root[o] = Nowhere => edits[o] = "none"

(* What the row of a job says, by where its monitor is.                      *)
RowFollows(o) ==
  o \in Async =>
    /\ monitor[o] \in {"watch", "reap", "claim", "close", "final", "write"}
         => row[o] \in {"running", "cancelling", "cleanup_failed", "finalizing"}
    /\ monitor[o] \in {"publish", "apply", "retire"} => row[o] = "finalizing"
    /\ launch[o] \in {"idle", "admitted", "opened"} => row[o] = "none"
    /\ launch[o] = "running" => row[o] = "running"
    /\ canceller[o] # "idle" => launch[o] = "done"
    /\ row[o] \in {"none", "launching", "running", "cancelling"} => edits[o] = "none"
    /\ \A v \in Workspaces : pending[v] = o => row[o] \in {"finalizing", "cleanup_failed", "recovered"}
    /\ monitor[o] \in {"publish", "apply", "retire"} => verdict[o] = "completed"
    /\ Root[o] # Nowhere /\ (monitor[o] = "close" \/ (monitor[o] \in {"final", "write"} /\ clean[o]))
         => IF verdict[o] = "completed"
            THEN /\ edits[o] \in {"empty", "published"} /\ row[o] = "finalizing"
                 /\ monitor[o] = "write" => seen[o] = "finalizing"
            ELSE edits[o] = "none"
    /\ clean[o] => verdict[o] \in {"completed", "failed", "timed_out", "cancelled",
                                   "output_limit_exceeded"}



(* What the row of a job says while its launch is being undone.              *)
LaunchRow(o) ==
  o \in Async =>
    /\ launch[o] \in {"recorded", "spawned", "running", "kill", "unwind", "unwind_uncertain"}
         => row[o] \in {"none", "launching", "running"}
    /\ launch[o] = "recorded" => row[o] = "launching"
    /\ launch[o] \in {"escape", "escaped"} => row[o] \in {"none", "launching", "running", "failed"}
    /\ launch[o] = "release" => row[o] \in {"none", "failed"}

(* What a job is charged, by where its threads are.                          *)
ChargeFollows(o) ==
  o \in Async =>
    /\ Kind[o] = "agent" /\ launch[o] \in {"recorded", "spawned", "running"} => slot[o] = "bound"
    /\ launch[o] = "gone" => monitor[o] = "off"
    /\ monitor[o] \in {"watch", "reap", "claim", "publish", "apply", "retire", "close",
                       "final", "write"}
         => slot[o] # "none" /\ (launch[o] = "done" => slot[o] = "bound")
    /\ monitor[o] = "done" /\ row[o] \in Terminal
         => o \notin legacy /\ (launch[o] = "done" => slot[o] = "none")
    /\ up = "starting" /\ row[o] \in Unfinished /\ slot[o] # "bound" => o \in legacy



(* The invariant behind the publication theorems; the theorems' own properties
   are part of it.                                                           *)
PublicationInv ==
  /\ LockGuards
  /\ \A o \in Ops : /\ Locked(o) /\ RunsLocked(o) /\ EditsFollow(o) /\ RowFollows(o)
                    /\ LaunchRow(o) /\ ChargeFollows(o)
  /\ VerdictMatchesEdits /\ UncertainPublicationCharged
  /\ SettledJobFreesCapacity /\ HalfPublicationContained

LEMMA PublicationInit == Init => PublicationInv
BY RootAssumption DEF Init, PublicationInv, LockGuards, Locked, RunsLocked, EditsFollow,
    RowFollows,
       LaunchRow, ChargeFollows, VerdictMatchesEdits, UncertainPublicationCharged,
       SettledJobFreesCapacity, HalfPublicationContained, Async, Transactional

(* Each action, by whichever thread, keeps lock, journal, edits, rows and
   admissions together.                                                      *)
LEMMA PublicationStep ==
  TypeOK /\ SlotInv /\ GitInv /\ PublicationInv /\ [Next]_vars => PublicationInv'
<1> SUFFICES ASSUME TypeOK, SlotInv, GitInv, PublicationInv, [Next]_vars PROVE PublicationInv'
  OBVIOUS
<1> USE KindAssumption, RootAssumption
    DEF TypeOK, SlotInv, GitInv, PublicationInv, ledger, threads, durable
<1>1. ASSUME NEW o \in Ops, Launching(o) PROVE PublicationInv'
  <2>1. CASE Admit(o)
    <3> USE <2>1 DEF Admit, Go
    <3>1. LockGuards' /\ VerdictMatchesEdits' /\ HalfPublicationContained'
      BY DEF LockGuards, VerdictMatchesEdits, Async, Transactional,
          HalfPublicationContained, Started
    <3>2. ASSUME NEW p \in Ops PROVE Locked(p)'
      BY DEF Locked, Unwatched
    <3>3. ASSUME NEW p \in Ops PROVE RunsLocked(p)'
      BY DEF RunsLocked, Started, Locked, RowFollows, NothingStarted, Unwatched, Reaped,
          Stopped
    <3>4. ASSUME NEW p \in Ops PROVE EditsFollow(p)'
      BY DEF EditsFollow, Unwatched, Locked, LockGuards, Stopped
    <3>5. ASSUME NEW p \in Ops PROVE RowFollows(p)'
      BY DEF RowFollows, Async, EditsFollow, Unwatched, OwnerRecovers, BindingRace,
          LockGuards, Stopped, Locked
    <3>6. ASSUME NEW p \in Ops PROVE LaunchRow(p)'
      BY DEF LaunchRow, Async, EditsFollow, RowFollows, Stopped
    <3>7. ASSUME NEW p \in Ops PROVE ChargeFollows(p)'
      BY DEF ChargeFollows, Async, TokenHeld, Unwatched, Stopped, RowFollows
    <3>8. UncertainPublicationCharged'
      BY DEF UncertainPublicationCharged, Async, EditsFollow, ChargeFollows,
          OwnerRecovers, GitOnly, RowFollows, Stopped, Unwatched, TokenHeld
    <3>9. SettledJobFreesCapacity'
      BY DEF SettledJobFreesCapacity, Async, ChargeFollows, Stopped, Unwatched,
          RowFollows, GitOnly, GitLink, OwnerRecovers, TokenHeld
    <3>q. QED BY <3>1, <3>2, <3>3, <3>4, <3>5, <3>6, <3>7, <3>8, <3>9
  <2>2. CASE OpenRoot(o)
    <3> USE <2>2 DEF OpenRoot, Go, Blocked
    <3>1. VerdictMatchesEdits' /\ UncertainPublicationCharged' /\ HalfPublicationContained'
      BY DEF VerdictMatchesEdits, Async, Transactional, UncertainPublicationCharged,
          HalfPublicationContained, Started
    <3>2. LockGuards'
      BY DEF LockGuards, Locked, EditsFollow, Unwatched
    <3>3. ASSUME NEW p \in Ops PROVE Locked(p)'
      BY DEF Locked, Unwatched
    <3>4. ASSUME NEW p \in Ops PROVE RunsLocked(p)'
      BY DEF RunsLocked, Started, Locked, RowFollows, NothingStarted, Unwatched, Reaped,
          Stopped
    <3>5. ASSUME NEW p \in Ops PROVE EditsFollow(p)'
      BY DEF EditsFollow, Unwatched, Locked, LockGuards, Stopped
    <3>6. ASSUME NEW p \in Ops PROVE RowFollows(p)'
      BY DEF RowFollows, Async, EditsFollow, Unwatched, OwnerRecovers, BindingRace,
          LockGuards, Stopped, Locked
    <3>7. ASSUME NEW p \in Ops PROVE LaunchRow(p)'
      BY DEF LaunchRow, Async, EditsFollow, RowFollows, Stopped
    <3>8. ASSUME NEW p \in Ops PROVE ChargeFollows(p)'
      BY DEF ChargeFollows, Async, TokenHeld, Unwatched, Stopped, RowFollows
    <3>9. SettledJobFreesCapacity'
      BY DEF SettledJobFreesCapacity, Async, ChargeFollows, Stopped, Unwatched,
          RowFollows, GitOnly, GitLink, OwnerRecovers, TokenHeld
    <3>q. QED BY <3>1, <3>2, <3>3, <3>4, <3>5, <3>6, <3>7, <3>8, <3>9
  <2>3. CASE LaunchRefused(o)
    <3> USE <2>3 DEF LaunchRefused, Unlock
    <3>1. VerdictMatchesEdits' /\ UncertainPublicationCharged' /\ HalfPublicationContained'
      BY DEF VerdictMatchesEdits, Async, Transactional, UncertainPublicationCharged,
          HalfPublicationContained, Started
    <3>2. LockGuards'
      BY DEF LockGuards, Locked, EditsFollow, Unwatched
    <3>3. ASSUME NEW p \in Ops PROVE Locked(p)'
      BY DEF Locked, Unwatched
    <3>4. ASSUME NEW p \in Ops PROVE RunsLocked(p)'
      BY DEF RunsLocked, Started, Locked, RowFollows, NothingStarted, Unwatched, Reaped,
          Stopped
    <3>5. ASSUME NEW p \in Ops PROVE EditsFollow(p)'
      BY DEF EditsFollow, Unwatched, Locked, LockGuards, Stopped
    <3>6. ASSUME NEW p \in Ops PROVE RowFollows(p)'
      BY DEF RowFollows, Async, EditsFollow, Unwatched, OwnerRecovers, BindingRace,
          LockGuards, Stopped, Locked
    <3>7. ASSUME NEW p \in Ops PROVE LaunchRow(p)'
      BY DEF LaunchRow, Async, EditsFollow, RowFollows, Stopped
    <3>8. ASSUME NEW p \in Ops PROVE ChargeFollows(p)'
      BY DEF ChargeFollows, Async, TokenHeld, Unwatched, Stopped, RowFollows
    <3>9. SettledJobFreesCapacity'
      BY DEF SettledJobFreesCapacity, Async, ChargeFollows, Stopped, Unwatched,
          RowFollows, GitOnly, GitLink, OwnerRecovers, TokenHeld
    <3>q. QED BY <3>1, <3>2, <3>3, <3>4, <3>5, <3>6, <3>7, <3>8, <3>9
  <2>4. CASE LaunchBlocked(o)
    <3> USE <2>4 DEF LaunchBlocked, Go
    <3>1. LockGuards' /\ VerdictMatchesEdits' /\ UncertainPublicationCharged'
          /\ HalfPublicationContained'
      BY DEF LockGuards, VerdictMatchesEdits, Async, Transactional,
          UncertainPublicationCharged, HalfPublicationContained, Started
    <3>2. ASSUME NEW p \in Ops PROVE Locked(p)'
      BY DEF Locked, Unwatched
    <3>3. ASSUME NEW p \in Ops PROVE RunsLocked(p)'
      BY DEF RunsLocked, Started, Locked, RowFollows, NothingStarted, Unwatched, Reaped,
          Stopped
    <3>4. ASSUME NEW p \in Ops PROVE EditsFollow(p)'
      BY DEF EditsFollow, Unwatched, Locked, LockGuards, Stopped
    <3>5. ASSUME NEW p \in Ops PROVE RowFollows(p)'
      BY DEF RowFollows, Async, EditsFollow, Unwatched, OwnerRecovers, BindingRace,
          LockGuards, Stopped, Locked
    <3>6. ASSUME NEW p \in Ops PROVE LaunchRow(p)'
      BY DEF LaunchRow, Async, EditsFollow, RowFollows, Stopped
    <3>7. ASSUME NEW p \in Ops PROVE ChargeFollows(p)'
      BY DEF ChargeFollows, Async, TokenHeld, Unwatched, Stopped, RowFollows
    <3>8. SettledJobFreesCapacity'
      BY DEF SettledJobFreesCapacity, Async, ChargeFollows, Stopped, Unwatched,
          RowFollows, GitOnly, GitLink, OwnerRecovers, TokenHeld
    <3>q. QED BY <3>1, <3>2, <3>3, <3>4, <3>5, <3>6, <3>7, <3>8
  <2>5. CASE RecordLaunching(o)
    <3> USE <2>5 DEF RecordLaunching, Go
    <3>1. LockGuards'
      BY DEF LockGuards
    <3>2. ASSUME NEW p \in Ops PROVE Locked(p)'
      BY DEF Locked, Unwatched
    <3>3. ASSUME NEW p \in Ops PROVE RunsLocked(p)'
      BY DEF RunsLocked, Started, Locked, RowFollows, NothingStarted, Unwatched, Reaped,
          Stopped
    <3>4. ASSUME NEW p \in Ops PROVE EditsFollow(p)'
      BY DEF EditsFollow, Unwatched, Locked, LockGuards, Stopped
    <3>5. ASSUME NEW p \in Ops PROVE RowFollows(p)'
      BY DEF RowFollows, Async, EditsFollow, Unwatched, OwnerRecovers, BindingRace,
          LockGuards, Stopped, Locked
    <3>6. ASSUME NEW p \in Ops PROVE LaunchRow(p)'
      BY DEF LaunchRow, Async, EditsFollow, RowFollows, Stopped
    <3>7. ASSUME NEW p \in Ops PROVE ChargeFollows(p)'
      BY DEF ChargeFollows, Async, TokenHeld, Unwatched, Stopped, RowFollows
    <3>8. VerdictMatchesEdits'
      BY DEF VerdictMatchesEdits, Async, Transactional, EditsFollow, RowFollows, Stopped,
          Unwatched, LockGuards
    <3>9. UncertainPublicationCharged'
      BY DEF UncertainPublicationCharged, Async, EditsFollow, ChargeFollows,
          OwnerRecovers, GitOnly, RowFollows, Stopped, Unwatched, TokenHeld
    <3>10. SettledJobFreesCapacity'
      BY DEF SettledJobFreesCapacity, Async, ChargeFollows, Stopped, Unwatched,
          RowFollows, GitOnly, GitLink, OwnerRecovers, TokenHeld
    <3>11. HalfPublicationContained'
      BY DEF HalfPublicationContained, Transactional, Started, EditsFollow, RunsLocked,
          LockGuards, Stopped, RowFollows, Unwatched, NothingStarted, Reaped
    <3>q. QED BY <3>1, <3>2, <3>3, <3>4, <3>5, <3>6, <3>7, <3>8, <3>9, <3>10, <3>11
  <2>6. CASE Spawn(o)
    <3> USE <2>6 DEF Spawn, ReadyToSpawn
    <3>1. LockGuards' /\ VerdictMatchesEdits' /\ UncertainPublicationCharged'
      BY DEF LockGuards, VerdictMatchesEdits, Async, Transactional,
          UncertainPublicationCharged
    <3>2. ASSUME NEW p \in Ops PROVE Locked(p)'
      BY DEF Locked, Unwatched
    <3>3. ASSUME NEW p \in Ops PROVE RunsLocked(p)'
      BY DEF RunsLocked, Started, Locked, RowFollows, NothingStarted, Unwatched, Reaped,
          Stopped
    <3>4. ASSUME NEW p \in Ops PROVE EditsFollow(p)'
      BY DEF EditsFollow, Unwatched, Locked, LockGuards, Stopped
    <3>5. ASSUME NEW p \in Ops PROVE RowFollows(p)'
      BY DEF RowFollows, Async, EditsFollow, Unwatched, OwnerRecovers, BindingRace,
          LockGuards, Stopped, Locked
    <3>6. ASSUME NEW p \in Ops PROVE LaunchRow(p)'
      BY DEF LaunchRow, Async, EditsFollow, RowFollows, Stopped
    <3>7. ASSUME NEW p \in Ops PROVE ChargeFollows(p)'
      BY DEF ChargeFollows, Async, TokenHeld, Unwatched, Stopped, RowFollows
    <3>8. SettledJobFreesCapacity'
      BY DEF SettledJobFreesCapacity, Async, ChargeFollows, Stopped, Unwatched,
          RowFollows, GitOnly, GitLink, OwnerRecovers, TokenHeld
    <3>9. HalfPublicationContained'
      <4>1. up' = "up"
        BY DEF Stopped, ReadyToSpawn
      <4>2. LockGuards' /\ \A p \in Ops : RunsLocked(p)' /\ EditsFollow(p)'
        BY <3>1, <3>2, <3>3, <3>4, <3>5, <3>6, <3>7, <3>8
      <4>q. QED BY <4>1, <4>2 DEF HalfPublicationContained, Transactional, LockGuards,
                RunsLocked, EditsFollow, Started
    <3>q. QED BY <3>1, <3>2, <3>3, <3>4, <3>5, <3>6, <3>7, <3>8, <3>9
  <2>7. CASE SpawnFails(o)
    <3> USE <2>7 DEF SpawnFails, ReadyToSpawn
    <3>1. LockGuards' /\ VerdictMatchesEdits' /\ UncertainPublicationCharged'
      BY DEF LockGuards, VerdictMatchesEdits, Async, Transactional,
          UncertainPublicationCharged
    <3>2. ASSUME NEW p \in Ops PROVE Locked(p)'
      BY DEF Locked, Unwatched
    <3>3. ASSUME NEW p \in Ops PROVE RunsLocked(p)'
      BY DEF RunsLocked, Started, Locked, RowFollows, LaunchRow, Async, NothingStarted,
          Unwatched, Reaped, Stopped
    <3>4. ASSUME NEW p \in Ops PROVE EditsFollow(p)'
      BY DEF EditsFollow, Unwatched, Locked, LockGuards, Stopped
    <3>5. ASSUME NEW p \in Ops PROVE RowFollows(p)'
      BY DEF RowFollows, Async, EditsFollow, Unwatched, OwnerRecovers, BindingRace,
          LockGuards, Stopped, Locked
    <3>6. ASSUME NEW p \in Ops PROVE LaunchRow(p)'
      BY DEF LaunchRow, Async, EditsFollow, RowFollows, Stopped
    <3>7. ASSUME NEW p \in Ops PROVE ChargeFollows(p)'
      BY DEF ChargeFollows, Async, TokenHeld, Unwatched, Stopped, RowFollows
    <3>8. SettledJobFreesCapacity'
      BY DEF SettledJobFreesCapacity, Async, ChargeFollows, Stopped, Unwatched,
          RowFollows, GitOnly, GitLink, OwnerRecovers, TokenHeld
    <3>9. HalfPublicationContained'
      <4>1. up' = "up"
        BY DEF Stopped, ReadyToSpawn
      <4>2. LockGuards' /\ \A p \in Ops : RunsLocked(p)' /\ EditsFollow(p)'
        BY <3>1, <3>2, <3>3, <3>4, <3>5, <3>6, <3>7, <3>8
      <4>q. QED BY <4>1, <4>2 DEF HalfPublicationContained, Transactional, LockGuards,
                RunsLocked, EditsFollow, Started
    <3>q. QED BY <3>1, <3>2, <3>3, <3>4, <3>5, <3>6, <3>7, <3>8, <3>9
  <2>8. CASE RecordRunning(o)
    <3> USE <2>8 DEF RecordRunning, Go
    <3>1. LockGuards'
      BY DEF LockGuards
    <3>2. ASSUME NEW p \in Ops PROVE Locked(p)'
      BY DEF Locked, Unwatched
    <3>3. ASSUME NEW p \in Ops PROVE RunsLocked(p)'
      BY DEF RunsLocked, Started, Locked, RowFollows, NothingStarted, Unwatched, Reaped,
          Stopped
    <3>4. ASSUME NEW p \in Ops PROVE EditsFollow(p)'
      BY DEF EditsFollow, Unwatched, Locked, LockGuards, Stopped
    <3>5. ASSUME NEW p \in Ops PROVE RowFollows(p)'
      BY DEF RowFollows, Async, EditsFollow, Unwatched, OwnerRecovers, BindingRace,
          LockGuards, Stopped, Locked
    <3>6. ASSUME NEW p \in Ops PROVE LaunchRow(p)'
      BY DEF LaunchRow, Async, EditsFollow, RowFollows, Stopped
    <3>7. ASSUME NEW p \in Ops PROVE ChargeFollows(p)'
      BY DEF ChargeFollows, Async, TokenHeld, Unwatched, Stopped, RowFollows
    <3>8. VerdictMatchesEdits'
      BY DEF VerdictMatchesEdits, Async, Transactional, EditsFollow, RowFollows, Stopped,
          Unwatched, LockGuards
    <3>9. UncertainPublicationCharged'
      BY DEF UncertainPublicationCharged, Async, EditsFollow, ChargeFollows,
          OwnerRecovers, GitOnly, RowFollows, Stopped, Unwatched, TokenHeld
    <3>10. SettledJobFreesCapacity'
      BY DEF SettledJobFreesCapacity, Async, ChargeFollows, Stopped, Unwatched,
          RowFollows, GitOnly, GitLink, OwnerRecovers, TokenHeld
    <3>11. HalfPublicationContained'
      <4>1. up' = "up"
        BY DEF Stopped, ReadyToSpawn
      <4>2. LockGuards' /\ \A p \in Ops : RunsLocked(p)' /\ EditsFollow(p)'
        BY <3>1, <3>2, <3>3, <3>4, <3>5, <3>6, <3>7, <3>8, <3>9, <3>10
      <4>q. QED BY <4>1, <4>2 DEF HalfPublicationContained, Transactional, LockGuards,
                RunsLocked, EditsFollow, Started
    <3>q. QED BY <3>1, <3>2, <3>3, <3>4, <3>5, <3>6, <3>7, <3>8, <3>9, <3>10, <3>11
  <2>9. CASE StartMonitor(o)
    <3> USE <2>9 DEF StartMonitor, Go
    <3>1. LockGuards' /\ VerdictMatchesEdits' /\ UncertainPublicationCharged'
          /\ HalfPublicationContained'
      BY DEF LockGuards, VerdictMatchesEdits, Async, Transactional,
          UncertainPublicationCharged, HalfPublicationContained, Started
    <3>2. ASSUME NEW p \in Ops PROVE Locked(p)'
      BY DEF Locked, Unwatched
    <3>3. ASSUME NEW p \in Ops PROVE RunsLocked(p)'
      BY DEF RunsLocked, Started, Locked, RowFollows, NothingStarted, Unwatched, Reaped,
          Stopped
    <3>4. ASSUME NEW p \in Ops PROVE EditsFollow(p)'
      BY DEF EditsFollow, Unwatched, Locked, LockGuards, Stopped
    <3>5. ASSUME NEW p \in Ops PROVE RowFollows(p)'
      BY DEF RowFollows, Async, EditsFollow, Unwatched, OwnerRecovers, BindingRace,
          LockGuards, Stopped, Locked
    <3>6. ASSUME NEW p \in Ops PROVE LaunchRow(p)'
      BY DEF LaunchRow, Async, EditsFollow, RowFollows, Stopped
    <3>7. ASSUME NEW p \in Ops PROVE ChargeFollows(p)'
      BY DEF ChargeFollows, Async, TokenHeld, Unwatched, Stopped, RowFollows
    <3>8. SettledJobFreesCapacity'
      BY DEF SettledJobFreesCapacity, Async, ChargeFollows, Stopped, Unwatched,
          RowFollows, GitOnly, GitLink, OwnerRecovers, TokenHeld
    <3>q. QED BY <3>1, <3>2, <3>3, <3>4, <3>5, <3>6, <3>7, <3>8
  <2>10. CASE LaunchFails(o)
    <3> USE <2>10 DEF LaunchFails
    <3>1. LockGuards' /\ VerdictMatchesEdits' /\ UncertainPublicationCharged'
          /\ HalfPublicationContained'
      BY DEF LockGuards, VerdictMatchesEdits, Async, Transactional,
          UncertainPublicationCharged, HalfPublicationContained, Started
    <3>2. ASSUME NEW p \in Ops PROVE Locked(p)'
      BY DEF Locked, Unwatched
    <3>3. ASSUME NEW p \in Ops PROVE RunsLocked(p)'
      BY DEF RunsLocked, Started, Locked, RowFollows, NothingStarted, Unwatched, Reaped,
          Stopped
    <3>4. ASSUME NEW p \in Ops PROVE EditsFollow(p)'
      BY DEF EditsFollow, Unwatched, Locked, LockGuards, Stopped
    <3>5. ASSUME NEW p \in Ops PROVE RowFollows(p)'
      BY DEF RowFollows, Async, EditsFollow, Unwatched, OwnerRecovers, BindingRace,
          LockGuards, Stopped, Locked
    <3>6. ASSUME NEW p \in Ops PROVE LaunchRow(p)'
      BY DEF LaunchRow, Async, EditsFollow, RowFollows, Stopped
    <3>7. ASSUME NEW p \in Ops PROVE ChargeFollows(p)'
      BY DEF ChargeFollows, Async, TokenHeld, Unwatched, Stopped, RowFollows
    <3>8. SettledJobFreesCapacity'
      BY DEF SettledJobFreesCapacity, Async, ChargeFollows, Stopped, Unwatched,
          RowFollows, GitOnly, GitLink, OwnerRecovers, TokenHeld
    <3>q. QED BY <3>1, <3>2, <3>3, <3>4, <3>5, <3>6, <3>7, <3>8
  <2>11. CASE KillFailedLaunch(o)
    <3> USE <2>11 DEF KillFailedLaunch, Go
    <3>1. LockGuards' /\ VerdictMatchesEdits' /\ UncertainPublicationCharged'
      BY DEF LockGuards, VerdictMatchesEdits, Async, Transactional,
          UncertainPublicationCharged
    <3>2. ASSUME NEW p \in Ops PROVE Locked(p)'
      BY DEF Locked, Unwatched
    <3>3. ASSUME NEW p \in Ops PROVE RunsLocked(p)'
      BY DEF RunsLocked, Started, Locked, RowFollows, NothingStarted, Unwatched, Reaped,
          Stopped
    <3>4. ASSUME NEW p \in Ops PROVE EditsFollow(p)'
      BY DEF EditsFollow, Unwatched, Locked, LockGuards, Stopped
    <3>5. ASSUME NEW p \in Ops PROVE RowFollows(p)'
      BY DEF RowFollows, Async, EditsFollow, Unwatched, OwnerRecovers, BindingRace,
          LockGuards, Stopped, Locked
    <3>6. ASSUME NEW p \in Ops PROVE LaunchRow(p)'
      BY DEF LaunchRow, Async, EditsFollow, RowFollows, Stopped
    <3>7. ASSUME NEW p \in Ops PROVE ChargeFollows(p)'
      BY DEF ChargeFollows, Async, TokenHeld, Unwatched, Stopped, RowFollows
    <3>8. SettledJobFreesCapacity'
      BY DEF SettledJobFreesCapacity, Async, ChargeFollows, Stopped, Unwatched,
          RowFollows, GitOnly, GitLink, OwnerRecovers, TokenHeld
    <3>9. HalfPublicationContained'
      BY DEF HalfPublicationContained, Transactional, Started, EditsFollow, RunsLocked,
          LockGuards, Stopped, RowFollows, Unwatched, NothingStarted, Reaped
    <3>q. QED BY <3>1, <3>2, <3>3, <3>4, <3>5, <3>6, <3>7, <3>8, <3>9
  <2>12. CASE Unwind(o)
    <3> USE <2>12 DEF Unwind, Go, Unlock
    <3>1. LockGuards'
      BY DEF LockGuards, Locked, EditsFollow, Unwatched
    <3>2. ASSUME NEW p \in Ops PROVE Locked(p)'
      BY DEF Locked, Unwatched, EditsFollow
    <3>3. ASSUME NEW p \in Ops PROVE RunsLocked(p)'
      BY DEF RunsLocked, Started, Locked, RowFollows, NothingStarted, Unwatched, Reaped,
          Stopped
    <3>4. ASSUME NEW p \in Ops PROVE EditsFollow(p)'
      BY DEF EditsFollow, Unwatched, Locked, LockGuards, Stopped
    <3>5. ASSUME NEW p \in Ops PROVE RowFollows(p)'
      BY DEF RowFollows, Async, EditsFollow, Unwatched, OwnerRecovers, BindingRace,
          LockGuards, Stopped, Locked
    <3>6. ASSUME NEW p \in Ops PROVE LaunchRow(p)'
      BY DEF LaunchRow, Async, EditsFollow, RowFollows, Stopped
    <3>7. ASSUME NEW p \in Ops PROVE ChargeFollows(p)'
      BY DEF ChargeFollows, Async, TokenHeld, Unwatched, Stopped, RowFollows, EditsFollow
    <3>8. VerdictMatchesEdits'
      BY DEF VerdictMatchesEdits, Async, Transactional, EditsFollow, RowFollows, Stopped,
          Unwatched, LockGuards
    <3>9. UncertainPublicationCharged'
      BY DEF UncertainPublicationCharged, Async, EditsFollow, ChargeFollows,
          OwnerRecovers, GitOnly, RowFollows, Stopped, Unwatched, TokenHeld
    <3>10. SettledJobFreesCapacity'
      BY DEF SettledJobFreesCapacity, Async, ChargeFollows, Stopped, Unwatched,
          RowFollows, GitOnly, GitLink, OwnerRecovers, TokenHeld
    <3>11. HalfPublicationContained'
      BY DEF HalfPublicationContained, Transactional, Started, EditsFollow, RunsLocked,
          LockGuards, Stopped, RowFollows, Unwatched, NothingStarted, Reaped
    <3>q. QED BY <3>1, <3>2, <3>3, <3>4, <3>5, <3>6, <3>7, <3>8, <3>9, <3>10, <3>11
  <2>13. CASE Release(o)
    <3> USE <2>13 DEF Release, Go
    <3>1. LockGuards' /\ VerdictMatchesEdits' /\ HalfPublicationContained'
      BY DEF LockGuards, VerdictMatchesEdits, Async, Transactional,
          HalfPublicationContained, Started
    <3>2. ASSUME NEW p \in Ops PROVE Locked(p)'
      BY DEF Locked, Unwatched
    <3>3. ASSUME NEW p \in Ops PROVE RunsLocked(p)'
      BY DEF RunsLocked, Started, Locked, RowFollows, NothingStarted, Unwatched, Reaped,
          Stopped
    <3>4. ASSUME NEW p \in Ops PROVE EditsFollow(p)'
      BY DEF EditsFollow, Unwatched, Locked, LockGuards, Stopped
    <3>5. ASSUME NEW p \in Ops PROVE RowFollows(p)'
      BY DEF RowFollows, Async, EditsFollow, Unwatched, OwnerRecovers, BindingRace,
          LockGuards, Stopped, Locked
    <3>6. ASSUME NEW p \in Ops PROVE LaunchRow(p)'
      BY DEF LaunchRow, Async, EditsFollow, RowFollows, Stopped
    <3>7. ASSUME NEW p \in Ops PROVE ChargeFollows(p)'
      BY DEF ChargeFollows, Async, TokenHeld, Unwatched, Stopped, RowFollows, EditsFollow
    <3>8. UncertainPublicationCharged'
      BY DEF UncertainPublicationCharged, Async, EditsFollow, ChargeFollows,
          OwnerRecovers, GitOnly, RowFollows, Stopped, Unwatched, TokenHeld
    <3>9. SettledJobFreesCapacity'
      BY DEF SettledJobFreesCapacity, Async, ChargeFollows, Stopped, Unwatched,
          RowFollows, GitOnly, GitLink, OwnerRecovers, TokenHeld
    <3>q. QED BY <3>1, <3>2, <3>3, <3>4, <3>5, <3>6, <3>7, <3>8, <3>9
  <2>14. CASE Bind(o)
    <3> USE <2>14 DEF Bind, Go
    <3>1. LockGuards' /\ VerdictMatchesEdits' /\ HalfPublicationContained'
      BY DEF LockGuards, VerdictMatchesEdits, Async, Transactional,
          HalfPublicationContained, Started
    <3>2. ASSUME NEW p \in Ops PROVE Locked(p)'
      BY DEF Locked, Unwatched
    <3>3. ASSUME NEW p \in Ops PROVE RunsLocked(p)'
      BY DEF RunsLocked, Started, Locked, RowFollows, NothingStarted, Unwatched, Reaped,
          Stopped
    <3>4. ASSUME NEW p \in Ops PROVE EditsFollow(p)'
      BY DEF EditsFollow, Unwatched, Locked, LockGuards, Stopped
    <3>5. ASSUME NEW p \in Ops PROVE RowFollows(p)'
      BY DEF RowFollows, Async, EditsFollow, Unwatched, OwnerRecovers, BindingRace,
          LockGuards, Stopped, Locked
    <3>6. ASSUME NEW p \in Ops PROVE LaunchRow(p)'
      BY DEF LaunchRow, Async, EditsFollow, RowFollows, Stopped
    <3>7. ASSUME NEW p \in Ops PROVE ChargeFollows(p)'
      <4>1. CASE p = o
        <5>1. slot[o] = "unbound" /\ launch'[o] = "done" /\ UNCHANGED <<up, legacy, row, monitor>>
          BY DEF TokenHeld
        <5>2. slot'[o] = IF row[o] \in Terminal THEN "none" ELSE "bound"
          OBVIOUS
        <5>3. up = "up"
          BY DEF Stopped
        <5>q. QED BY <4>1, <5>1, <5>2, <5>3 DEF ChargeFollows, RowFollows, Async
      <4>2. CASE p # o
        BY <4>2 DEF ChargeFollows, Async
      <4>q. QED BY <4>1, <4>2
    <3>8. UncertainPublicationCharged'
      <4>1. row[o] # "recovered" /\ UNCHANGED <<pending, row, legacy>>
        BY DEF OwnerRecovers
      <4>2. \A p \in Ops \ {o} : slot'[p] = slot[p]
        OBVIOUS
      <4>3. o \in Async /\ pending[Root[o]] = o /\ Root[o] # Nowhere => slot'[o] # "none"
        BY <4>1 DEF RowFollows
      <4>q. QED BY <4>1, <4>2, <4>3 DEF UncertainPublicationCharged, Async
    <3>9. SettledJobFreesCapacity'
      BY DEF SettledJobFreesCapacity, Async, ChargeFollows, Stopped, Unwatched,
          RowFollows, GitOnly, GitLink, OwnerRecovers, TokenHeld
    <3>q. QED BY <3>1, <3>2, <3>3, <3>4, <3>5, <3>6, <3>7, <3>8, <3>9
  <2>15. CASE BindFails(o)
    <3> USE <2>15 DEF BindFails, Go
    <3>1. LockGuards' /\ VerdictMatchesEdits' /\ UncertainPublicationCharged'
          /\ HalfPublicationContained'
      BY DEF LockGuards, VerdictMatchesEdits, Async, Transactional,
          UncertainPublicationCharged, HalfPublicationContained, Started
    <3>2. ASSUME NEW p \in Ops PROVE Locked(p)'
      BY DEF Locked, Unwatched
    <3>3. ASSUME NEW p \in Ops PROVE RunsLocked(p)'
      BY DEF RunsLocked, Started, Locked, RowFollows, NothingStarted, Unwatched, Reaped,
          Stopped
    <3>4. ASSUME NEW p \in Ops PROVE EditsFollow(p)'
      BY DEF EditsFollow, Unwatched, Locked, LockGuards, Stopped
    <3>5. ASSUME NEW p \in Ops PROVE RowFollows(p)'
      BY DEF RowFollows, Async, EditsFollow, Unwatched, OwnerRecovers, BindingRace,
          LockGuards, Stopped, Locked
    <3>6. ASSUME NEW p \in Ops PROVE LaunchRow(p)'
      BY DEF LaunchRow, Async, EditsFollow, RowFollows, Stopped
    <3>7. ASSUME NEW p \in Ops PROVE ChargeFollows(p)'
      BY DEF ChargeFollows, Async, TokenHeld, Unwatched, Stopped, RowFollows
    <3>8. SettledJobFreesCapacity'
      BY DEF SettledJobFreesCapacity, Async, ChargeFollows, Stopped, Unwatched,
          RowFollows, GitOnly, GitLink, OwnerRecovers, TokenHeld
    <3>q. QED BY <3>1, <3>2, <3>3, <3>4, <3>5, <3>6, <3>7, <3>8
  <2>q. QED BY <1>1, <2>1, <2>2, <2>3, <2>4, <2>5, <2>6, <2>7, <2>8, <2>9, <2>10, <2>11,
      <2>12, <2>13, <2>14, <2>15 DEF Launching
<1>2. ASSUME NEW o \in Ops, Executing(o) PROVE PublicationInv'
  <2>1. CASE RunExec(o)
    <3> USE <2>1 DEF RunExec, Go
    <3>1. LockGuards' /\ VerdictMatchesEdits' /\ UncertainPublicationCharged'
      BY DEF LockGuards, VerdictMatchesEdits, Async, Transactional,
          UncertainPublicationCharged
    <3>2. ASSUME NEW p \in Ops PROVE Locked(p)'
      BY DEF Locked, Unwatched
    <3>3. ASSUME NEW p \in Ops PROVE RunsLocked(p)'
      BY DEF RunsLocked, Started, Locked, RowFollows, NothingStarted, Unwatched, Reaped,
          Stopped
    <3>4. ASSUME NEW p \in Ops PROVE EditsFollow(p)'
      BY DEF EditsFollow, Unwatched, Locked, LockGuards, Stopped
    <3>5. ASSUME NEW p \in Ops PROVE RowFollows(p)'
      BY DEF RowFollows, Async, EditsFollow, Unwatched, OwnerRecovers, BindingRace,
          LockGuards, Stopped, Locked
    <3>6. ASSUME NEW p \in Ops PROVE LaunchRow(p)'
      BY DEF LaunchRow, Async, EditsFollow, RowFollows, Stopped
    <3>7. ASSUME NEW p \in Ops PROVE ChargeFollows(p)'
      BY DEF ChargeFollows, Async, TokenHeld, Unwatched, Stopped, RowFollows
    <3>8. SettledJobFreesCapacity'
      BY DEF SettledJobFreesCapacity, Async, ChargeFollows, Stopped, Unwatched,
          RowFollows, GitOnly, GitLink, OwnerRecovers, TokenHeld
    <3>9. HalfPublicationContained'
      <4>1. up' = "up"
        BY DEF Stopped, ReadyToSpawn
      <4>2. LockGuards' /\ \A p \in Ops : RunsLocked(p)' /\ EditsFollow(p)'
        BY <3>1, <3>2, <3>3, <3>4, <3>5, <3>6, <3>7, <3>8
      <4>q. QED BY <4>1, <4>2 DEF HalfPublicationContained, Transactional, LockGuards,
                RunsLocked, EditsFollow, Started
    <3>q. QED BY <3>1, <3>2, <3>3, <3>4, <3>5, <3>6, <3>7, <3>8, <3>9
  <2>2. CASE ExecDrained(o)
    <3> USE <2>2 DEF ExecDrained
    <3>1. LockGuards' /\ VerdictMatchesEdits' /\ UncertainPublicationCharged'
      BY DEF LockGuards, VerdictMatchesEdits, Async, Transactional,
          UncertainPublicationCharged
    <3>2. ASSUME NEW p \in Ops PROVE Locked(p)'
      BY DEF Locked, Unwatched
    <3>3. ASSUME NEW p \in Ops PROVE RunsLocked(p)'
      BY DEF RunsLocked, Started, Locked, RowFollows, NothingStarted, Unwatched, Reaped,
          Stopped
    <3>4. ASSUME NEW p \in Ops PROVE EditsFollow(p)'
      BY DEF EditsFollow, Unwatched, Locked, LockGuards, Stopped
    <3>5. ASSUME NEW p \in Ops PROVE RowFollows(p)'
      BY DEF RowFollows, Async, EditsFollow, Unwatched, OwnerRecovers, BindingRace,
          LockGuards, Stopped, Locked
    <3>6. ASSUME NEW p \in Ops PROVE LaunchRow(p)'
      BY DEF LaunchRow, Async, EditsFollow, RowFollows, Stopped
    <3>7. ASSUME NEW p \in Ops PROVE ChargeFollows(p)'
      BY DEF ChargeFollows, Async, TokenHeld, Unwatched, Stopped, RowFollows
    <3>8. SettledJobFreesCapacity'
      BY DEF SettledJobFreesCapacity, Async, ChargeFollows, Stopped, Unwatched,
          RowFollows, GitOnly, GitLink, OwnerRecovers, TokenHeld
    <3>9. HalfPublicationContained'
      BY DEF HalfPublicationContained, Transactional, Started, EditsFollow, RunsLocked,
          LockGuards, Stopped, RowFollows, Unwatched, NothingStarted, Reaped
    <3>q. QED BY <3>1, <3>2, <3>3, <3>4, <3>5, <3>6, <3>7, <3>8, <3>9
  <2>3. CASE ExecReturns(o)
    <3> USE <2>3 DEF ExecReturns, Go
    <3>1. LockGuards' /\ VerdictMatchesEdits' /\ UncertainPublicationCharged'
          /\ HalfPublicationContained'
      BY DEF LockGuards, VerdictMatchesEdits, Async, Transactional,
          UncertainPublicationCharged, HalfPublicationContained, Started
    <3>2. ASSUME NEW p \in Ops PROVE Locked(p)'
      BY DEF Locked, Unwatched
    <3>3. ASSUME NEW p \in Ops PROVE RunsLocked(p)'
      BY DEF RunsLocked, Started, Locked, RowFollows, NothingStarted, Unwatched, Reaped,
          Stopped
    <3>4. ASSUME NEW p \in Ops PROVE EditsFollow(p)'
      BY DEF EditsFollow, Unwatched, Locked, LockGuards, Stopped, Async
    <3>5. ASSUME NEW p \in Ops PROVE RowFollows(p)'
      BY DEF RowFollows, Async, EditsFollow, Unwatched, OwnerRecovers, BindingRace,
          LockGuards, Stopped, Locked
    <3>6. ASSUME NEW p \in Ops PROVE LaunchRow(p)'
      BY DEF LaunchRow, Async, EditsFollow, RowFollows, Stopped
    <3>7. ASSUME NEW p \in Ops PROVE ChargeFollows(p)'
      BY DEF ChargeFollows, Async, TokenHeld, Unwatched, Stopped, RowFollows
    <3>8. SettledJobFreesCapacity'
      BY DEF SettledJobFreesCapacity, Async, ChargeFollows, Stopped, Unwatched,
          RowFollows, GitOnly, GitLink, OwnerRecovers, TokenHeld
    <3>q. QED BY <3>1, <3>2, <3>3, <3>4, <3>5, <3>6, <3>7, <3>8
  <2>q. QED BY <1>2, <2>1, <2>2, <2>3 DEF Executing
<1>3. ASSUME NEW o \in Ops, GitStep(o) PROVE PublicationInv'
  <2>1. CASE WriteGitGuard(o)
    <3> USE <2>1 DEF WriteGitGuard, Go
    <3>1. LockGuards' /\ VerdictMatchesEdits' /\ UncertainPublicationCharged'
          /\ HalfPublicationContained'
      BY DEF LockGuards, VerdictMatchesEdits, Async, Transactional,
          UncertainPublicationCharged, HalfPublicationContained, Started
    <3>2. ASSUME NEW p \in Ops PROVE Locked(p)'
      BY DEF Locked, Unwatched
    <3>3. ASSUME NEW p \in Ops PROVE RunsLocked(p)'
      BY DEF RunsLocked, Started, Locked, RowFollows, NothingStarted, Unwatched, Reaped,
          Stopped
    <3>4. ASSUME NEW p \in Ops PROVE EditsFollow(p)'
      BY DEF EditsFollow, Unwatched, Locked, LockGuards, Stopped
    <3>5. ASSUME NEW p \in Ops PROVE RowFollows(p)'
      BY DEF RowFollows, Async, EditsFollow, Unwatched, OwnerRecovers, BindingRace,
          LockGuards, Stopped, Locked
    <3>6. ASSUME NEW p \in Ops PROVE LaunchRow(p)'
      BY DEF LaunchRow, Async, EditsFollow, RowFollows, Stopped
    <3>7. ASSUME NEW p \in Ops PROVE ChargeFollows(p)'
      BY DEF ChargeFollows, Async, TokenHeld, Unwatched, Stopped, RowFollows
    <3>8. SettledJobFreesCapacity'
      BY DEF SettledJobFreesCapacity, Async, ChargeFollows, Stopped, Unwatched,
          RowFollows, GitOnly, GitLink, OwnerRecovers, TokenHeld
    <3>q. QED BY <3>1, <3>2, <3>3, <3>4, <3>5, <3>6, <3>7, <3>8
  <2>2. CASE BindGit(o)
    <3> USE <2>2 DEF BindGit, Go
    <3>1. LockGuards' /\ VerdictMatchesEdits' /\ UncertainPublicationCharged'
          /\ HalfPublicationContained'
      BY DEF LockGuards, VerdictMatchesEdits, Async, Transactional,
          UncertainPublicationCharged, HalfPublicationContained, Started
    <3>2. ASSUME NEW p \in Ops PROVE Locked(p)'
      BY DEF Locked, Unwatched
    <3>3. ASSUME NEW p \in Ops PROVE RunsLocked(p)'
      BY DEF RunsLocked, Started, Locked, RowFollows, NothingStarted, Unwatched, Reaped,
          Stopped
    <3>4. ASSUME NEW p \in Ops PROVE EditsFollow(p)'
      BY DEF EditsFollow, Unwatched, Locked, LockGuards, Stopped
    <3>5. ASSUME NEW p \in Ops PROVE RowFollows(p)'
      BY DEF RowFollows, Async, EditsFollow, Unwatched, OwnerRecovers, BindingRace,
          LockGuards, Stopped, Locked
    <3>6. ASSUME NEW p \in Ops PROVE LaunchRow(p)'
      BY DEF LaunchRow, Async, EditsFollow, RowFollows, Stopped
    <3>7. ASSUME NEW p \in Ops PROVE ChargeFollows(p)'
      BY DEF ChargeFollows, Async, TokenHeld, Unwatched, Stopped, RowFollows
    <3>8. SettledJobFreesCapacity'
      BY DEF SettledJobFreesCapacity, Async, ChargeFollows, Stopped, Unwatched,
          RowFollows, GitOnly, GitLink, OwnerRecovers, TokenHeld
    <3>q. QED BY <3>1, <3>2, <3>3, <3>4, <3>5, <3>6, <3>7, <3>8
  <2>3. CASE ResolveGit(o)
    <3> USE <2>3 DEF ResolveGit, Go
    <3>1. LockGuards' /\ VerdictMatchesEdits' /\ HalfPublicationContained'
      BY DEF LockGuards, VerdictMatchesEdits, Async, Transactional,
          HalfPublicationContained, Started
    <3>2. ASSUME NEW p \in Ops PROVE Locked(p)'
      BY DEF Locked, Unwatched
    <3>3. ASSUME NEW p \in Ops PROVE RunsLocked(p)'
      BY DEF RunsLocked, Started, Locked, RowFollows, NothingStarted, Unwatched, Reaped,
          Stopped
    <3>4. ASSUME NEW p \in Ops PROVE EditsFollow(p)'
      BY DEF EditsFollow, Unwatched, Locked, LockGuards, Stopped
    <3>5. ASSUME NEW p \in Ops PROVE RowFollows(p)'
      BY DEF RowFollows, Async, EditsFollow, Unwatched, OwnerRecovers, BindingRace,
          LockGuards, Stopped, Locked
    <3>6. ASSUME NEW p \in Ops PROVE LaunchRow(p)'
      BY DEF LaunchRow, Async, EditsFollow, RowFollows, Stopped
    <3>7. ASSUME NEW p \in Ops PROVE ChargeFollows(p)'
      BY DEF ChargeFollows, Async, TokenHeld, Unwatched, Stopped, RowFollows, GitOnly
    <3>8. UncertainPublicationCharged'
      BY DEF UncertainPublicationCharged, Async, EditsFollow, ChargeFollows,
          OwnerRecovers, GitOnly, RowFollows, Stopped, Unwatched, TokenHeld
    <3>9. SettledJobFreesCapacity'
      BY DEF SettledJobFreesCapacity, Async, ChargeFollows, Stopped, Unwatched,
          RowFollows, GitOnly, GitLink, OwnerRecovers, TokenHeld
    <3>q. QED BY <3>1, <3>2, <3>3, <3>4, <3>5, <3>6, <3>7, <3>8, <3>9
  <2>4. CASE RemoveGitGuard(o)
    <3> USE <2>4 DEF RemoveGitGuard, Go, Unlock
    <3>1. VerdictMatchesEdits' /\ UncertainPublicationCharged' /\ HalfPublicationContained'
      BY DEF VerdictMatchesEdits, Async, Transactional, UncertainPublicationCharged,
          HalfPublicationContained, Started
    <3>2. LockGuards'
      BY DEF LockGuards, Locked, EditsFollow, Unwatched
    <3>3. ASSUME NEW p \in Ops PROVE Locked(p)'
      BY DEF Locked, Unwatched, GitOnly
    <3>4. ASSUME NEW p \in Ops PROVE RunsLocked(p)'
      BY DEF RunsLocked, Started, Locked, RowFollows, NothingStarted, Unwatched, Reaped,
          Stopped
    <3>5. ASSUME NEW p \in Ops PROVE EditsFollow(p)'
      BY DEF EditsFollow, Unwatched, Locked, LockGuards, Stopped
    <3>6. ASSUME NEW p \in Ops PROVE RowFollows(p)'
      BY DEF RowFollows, Async, EditsFollow, Unwatched, OwnerRecovers, BindingRace,
          LockGuards, Stopped, Locked
    <3>7. ASSUME NEW p \in Ops PROVE LaunchRow(p)'
      BY DEF LaunchRow, Async, EditsFollow, RowFollows, Stopped
    <3>8. ASSUME NEW p \in Ops PROVE ChargeFollows(p)'
      BY DEF ChargeFollows, Async, TokenHeld, Unwatched, Stopped, RowFollows, GitOnly
    <3>9. SettledJobFreesCapacity'
      BY DEF SettledJobFreesCapacity, Async, ChargeFollows, Stopped, Unwatched,
          RowFollows, GitOnly, GitLink, OwnerRecovers, TokenHeld
    <3>q. QED BY <3>1, <3>2, <3>3, <3>4, <3>5, <3>6, <3>7, <3>8, <3>9
  <2>5. CASE GitInterrupted(o)
    <3> USE <2>5 DEF GitInterrupted, Unlock
    <3>1. VerdictMatchesEdits' /\ UncertainPublicationCharged' /\ HalfPublicationContained'
      BY DEF VerdictMatchesEdits, Async, Transactional, UncertainPublicationCharged,
          HalfPublicationContained, Started
    <3>2. LockGuards'
      BY DEF LockGuards, Locked, EditsFollow, Unwatched
    <3>3. ASSUME NEW p \in Ops PROVE Locked(p)'
      BY DEF Locked, Unwatched, GitOnly
    <3>4. ASSUME NEW p \in Ops PROVE RunsLocked(p)'
      BY DEF RunsLocked, Started, Locked, RowFollows, NothingStarted, Unwatched, Reaped,
          Stopped
    <3>5. ASSUME NEW p \in Ops PROVE EditsFollow(p)'
      BY DEF EditsFollow, Unwatched, Locked, LockGuards, Stopped
    <3>6. ASSUME NEW p \in Ops PROVE RowFollows(p)'
      BY DEF RowFollows, Async, EditsFollow, Unwatched, OwnerRecovers, BindingRace,
          LockGuards, Stopped, Locked
    <3>7. ASSUME NEW p \in Ops PROVE LaunchRow(p)'
      BY DEF LaunchRow, Async, EditsFollow, RowFollows, Stopped
    <3>8. ASSUME NEW p \in Ops PROVE ChargeFollows(p)'
      BY DEF ChargeFollows, Async, TokenHeld, Unwatched, Stopped, RowFollows
    <3>9. SettledJobFreesCapacity'
      BY DEF SettledJobFreesCapacity, Async, ChargeFollows, Stopped, Unwatched,
          RowFollows, GitOnly, GitLink, OwnerRecovers, TokenHeld
    <3>q. QED BY <3>1, <3>2, <3>3, <3>4, <3>5, <3>6, <3>7, <3>8, <3>9
  <2>q. QED BY <1>3, <2>1, <2>2, <2>3, <2>4, <2>5 DEF GitStep
<1>4. ASSUME NEW o \in Ops, Pulling(o) PROVE PublicationInv'
  <2>1. CASE ClaimPull(o)
    BY <2>1 DEF ClaimPull, LockGuards, Locked, RunsLocked, Started, EditsFollow,
        RowFollows, LaunchRow, ChargeFollows,
          VerdictMatchesEdits, UncertainPublicationCharged, SettledJobFreesCapacity,
          HalfPublicationContained, Async, Transactional
  <2>2. CASE GuardPull(o)
    BY <2>2 DEF GuardPull, LockGuards, Locked, RunsLocked, Started, EditsFollow,
        RowFollows, LaunchRow, ChargeFollows,
          VerdictMatchesEdits, UncertainPublicationCharged, SettledJobFreesCapacity,
          HalfPublicationContained, Async, Transactional
  <2>3. CASE LinkPull(o)
    <3> USE <2>3 DEF LinkPull, PullLive
    <3>1. LockGuards' /\ (\A p \in Ops : Locked(p))'
          /\ (\A p \in Ops : RunsLocked(p))' /\ (\A p \in Ops : EditsFollow(p))'
          /\ (\A p \in Ops : RowFollows(p))' /\ (\A p \in Ops : LaunchRow(p))'
          /\ (\A p \in Ops : ChargeFollows(p))' /\ VerdictMatchesEdits'
          /\ UncertainPublicationCharged' /\ HalfPublicationContained'
      BY DEF LockGuards, Locked, RunsLocked, Started, EditsFollow, RowFollows, Async,
          LaunchRow, ChargeFollows, VerdictMatchesEdits, Transactional,
          UncertainPublicationCharged, HalfPublicationContained
    <3>2. SettledJobFreesCapacity'
      BY DEF SettledJobFreesCapacity, Async, ChargeFollows, Stopped, Unwatched,
          RowFollows, GitOnly, GitLink, OwnerRecovers, TokenHeld
    <3>q. QED BY <3>1, <3>2
  <2>q. QED BY <1>4, <2>1, <2>2, <2>3 DEF Pulling
<1>5. ASSUME NEW o \in Ops, Finalizing(o) PROVE PublicationInv'
  <2>1. CASE ClaimFinalization(o)
    <3> USE <2>1 DEF ClaimFinalization, Doubt
    <3>1. LockGuards'
      BY DEF LockGuards
    <3>2. ASSUME NEW p \in Ops PROVE Locked(p)'
      BY DEF Locked, Unwatched
    <3>3. ASSUME NEW p \in Ops PROVE RunsLocked(p)'
      BY DEF RunsLocked, Started, Locked, RowFollows, NothingStarted, Unwatched, Reaped,
          Stopped
    <3>4. ASSUME NEW p \in Ops PROVE EditsFollow(p)'
      BY DEF EditsFollow, Unwatched, Locked, LockGuards, Stopped
    <3>5. ASSUME NEW p \in Ops PROVE RowFollows(p)'
      BY DEF RowFollows, Async, EditsFollow, Unwatched, OwnerRecovers, BindingRace,
          LockGuards, Stopped, Locked
    <3>6. ASSUME NEW p \in Ops PROVE LaunchRow(p)'
      BY DEF LaunchRow, Async, EditsFollow, RowFollows, Stopped, Unwatched
    <3>7. ASSUME NEW p \in Ops PROVE ChargeFollows(p)'
      BY DEF ChargeFollows, Async, TokenHeld, Unwatched, Stopped, RowFollows
    <3>8. VerdictMatchesEdits'
      BY DEF VerdictMatchesEdits, Async, Transactional, EditsFollow, RowFollows, Stopped,
          Unwatched, LockGuards
    <3>9. UncertainPublicationCharged'
      BY DEF UncertainPublicationCharged, Async, EditsFollow, ChargeFollows,
          OwnerRecovers, GitOnly, RowFollows, Stopped, Unwatched, TokenHeld
    <3>10. SettledJobFreesCapacity'
      BY DEF SettledJobFreesCapacity, Async, ChargeFollows, Stopped, Unwatched,
          RowFollows, GitOnly, GitLink, OwnerRecovers, TokenHeld
    <3>11. HalfPublicationContained'
      BY DEF HalfPublicationContained, Transactional, Started, EditsFollow, RunsLocked,
          LockGuards, Stopped, RowFollows, Unwatched, NothingStarted, Reaped
    <3>q. QED BY <3>1, <3>2, <3>3, <3>4, <3>5, <3>6, <3>7, <3>8, <3>9, <3>10, <3>11
  <2>2. CASE PublishRejected(o)
    <3> USE <2>2 DEF PublishRejected, Doubt
    <3>1. LockGuards' /\ (\A p \in Ops : RunsLocked(p))'
          /\ (\A p \in Ops : LaunchRow(p))' /\ VerdictMatchesEdits'
          /\ UncertainPublicationCharged' /\ HalfPublicationContained'
      BY DEF LockGuards, RunsLocked, Started, LaunchRow, Async, VerdictMatchesEdits,
          Transactional, UncertainPublicationCharged, HalfPublicationContained
    <3>2. ASSUME NEW p \in Ops PROVE Locked(p)'
      BY DEF Locked, Unwatched
    <3>3. ASSUME NEW p \in Ops PROVE EditsFollow(p)'
      BY DEF EditsFollow, Unwatched, Locked, LockGuards, Stopped
    <3>4. ASSUME NEW p \in Ops PROVE RowFollows(p)'
      BY DEF RowFollows, Async, EditsFollow, Unwatched, OwnerRecovers, BindingRace,
          LockGuards, Stopped, Locked
    <3>5. ASSUME NEW p \in Ops PROVE ChargeFollows(p)'
      BY DEF ChargeFollows, Async, TokenHeld, Unwatched, Stopped, RowFollows
    <3>6. SettledJobFreesCapacity'
      BY DEF SettledJobFreesCapacity, Async, ChargeFollows, Stopped, Unwatched,
          RowFollows, GitOnly, GitLink, OwnerRecovers, TokenHeld
    <3>q. QED BY <3>1, <3>2, <3>3, <3>4, <3>5, <3>6
  <2>3. CASE PublishNothing(o)
    <3> USE <2>3 DEF PublishNothing
    <3>1. LockGuards' /\ (\A p \in Ops : RunsLocked(p))'
          /\ (\A p \in Ops : LaunchRow(p))' /\ UncertainPublicationCharged'
      BY DEF LockGuards, RunsLocked, Started, LaunchRow, Async, UncertainPublicationCharged
    <3>2. ASSUME NEW p \in Ops PROVE Locked(p)'
      BY DEF Locked, Unwatched
    <3>3. ASSUME NEW p \in Ops PROVE EditsFollow(p)'
      BY DEF EditsFollow, Unwatched, Locked, LockGuards, Stopped
    <3>4. ASSUME NEW p \in Ops PROVE RowFollows(p)'
      BY DEF RowFollows, Async, EditsFollow, Unwatched, OwnerRecovers, BindingRace,
          LockGuards, Stopped, Locked
    <3>5. ASSUME NEW p \in Ops PROVE ChargeFollows(p)'
      BY DEF ChargeFollows, Async, TokenHeld, Unwatched, Stopped, RowFollows
    <3>6. VerdictMatchesEdits'
      <4>1. o \in Async => row[o] = "finalizing"
        BY DEF RowFollows
      <4>2. row' = row /\ \A p \in Ops \ {o} : edits'[p] = edits[p]
        OBVIOUS
      <4>q. QED BY <4>1, <4>2 DEF VerdictMatchesEdits, Async, Transactional
    <3>7. SettledJobFreesCapacity'
      BY DEF SettledJobFreesCapacity, Async, ChargeFollows, Stopped, Unwatched,
          RowFollows, GitOnly, GitLink, OwnerRecovers, TokenHeld
    <3>8. HalfPublicationContained'
      BY DEF HalfPublicationContained, Transactional, Started, EditsFollow, RunsLocked,
          LockGuards, Stopped, RowFollows, Unwatched, NothingStarted, Reaped
    <3>q. QED BY <3>1, <3>2, <3>3, <3>4, <3>5, <3>6, <3>7, <3>8
  <2>4. CASE JournalPublication(o)
    <3> USE <2>4 DEF JournalPublication
    <3>1. (\A p \in Ops : RunsLocked(p))' /\ (\A p \in Ops : LaunchRow(p))'
          /\ VerdictMatchesEdits'
      BY DEF RunsLocked, Started, LaunchRow, Async, VerdictMatchesEdits, Transactional
    <3>2. LockGuards'
      BY DEF LockGuards, Locked, EditsFollow, Unwatched
    <3>3. ASSUME NEW p \in Ops PROVE Locked(p)'
      BY DEF Locked, Unwatched
    <3>4. ASSUME NEW p \in Ops PROVE EditsFollow(p)'
      BY DEF EditsFollow, Unwatched, Locked, LockGuards, Stopped
    <3>5. ASSUME NEW p \in Ops PROVE RowFollows(p)'
      BY DEF RowFollows, Async, EditsFollow, Unwatched, OwnerRecovers, BindingRace,
          LockGuards, Stopped, Locked
    <3>6. ASSUME NEW p \in Ops PROVE ChargeFollows(p)'
      BY DEF ChargeFollows, Async, TokenHeld, Unwatched, Stopped, RowFollows
    <3>7. UncertainPublicationCharged'
      BY DEF UncertainPublicationCharged, Async, EditsFollow, ChargeFollows,
          OwnerRecovers, GitOnly, RowFollows, Stopped, Unwatched, TokenHeld
    <3>8. SettledJobFreesCapacity'
      BY DEF SettledJobFreesCapacity, Async, ChargeFollows, Stopped, Unwatched,
          RowFollows, GitOnly, GitLink, OwnerRecovers, TokenHeld
    <3>9. HalfPublicationContained'
      <4>1. up' = "up"
        BY DEF Stopped, ReadyToSpawn
      <4>2. LockGuards' /\ \A p \in Ops : RunsLocked(p)' /\ EditsFollow(p)'
        BY <3>1, <3>2, <3>3, <3>4, <3>5, <3>6, <3>7, <3>8
      <4>q. QED BY <4>1, <4>2 DEF HalfPublicationContained, Transactional, LockGuards,
                RunsLocked, EditsFollow, Started
    <3>q. QED BY <3>1, <3>2, <3>3, <3>4, <3>5, <3>6, <3>7, <3>8, <3>9
  <2>5. CASE ApplyEdits(o)
    <3> USE <2>5 DEF ApplyEdits
    <3>1. LockGuards' /\ (\A p \in Ops : RunsLocked(p))'
          /\ (\A p \in Ops : LaunchRow(p))' /\ UncertainPublicationCharged'
      BY DEF LockGuards, RunsLocked, Started, LaunchRow, Async, UncertainPublicationCharged
    <3>2. ASSUME NEW p \in Ops PROVE Locked(p)'
      BY DEF Locked, Unwatched
    <3>3. ASSUME NEW p \in Ops PROVE EditsFollow(p)'
      BY DEF EditsFollow, Unwatched, Locked, LockGuards, Stopped
    <3>4. ASSUME NEW p \in Ops PROVE RowFollows(p)'
      BY DEF RowFollows, Async, EditsFollow, Unwatched, OwnerRecovers, BindingRace,
          LockGuards, Stopped, Locked
    <3>5. ASSUME NEW p \in Ops PROVE ChargeFollows(p)'
      BY DEF ChargeFollows, Async, TokenHeld, Unwatched, Stopped, RowFollows
    <3>6. VerdictMatchesEdits'
      <4>1. o \in Async => row[o] = "finalizing"
        BY DEF RowFollows
      <4>2. row' = row /\ \A p \in Ops \ {o} : edits'[p] = edits[p]
        OBVIOUS
      <4>q. QED BY <4>1, <4>2 DEF VerdictMatchesEdits, Async, Transactional
    <3>7. SettledJobFreesCapacity'
      BY DEF SettledJobFreesCapacity, Async, ChargeFollows, Stopped, Unwatched,
          RowFollows, GitOnly, GitLink, OwnerRecovers, TokenHeld
    <3>8. HalfPublicationContained'
      BY DEF HalfPublicationContained, Transactional, Started, EditsFollow, RunsLocked,
          LockGuards, Stopped, RowFollows, Unwatched, NothingStarted, Reaped
    <3>q. QED BY <3>1, <3>2, <3>3, <3>4, <3>5, <3>6, <3>7, <3>8
  <2>6. CASE ResolvePull(o)
    <3> USE <2>6 DEF ResolvePull
    <3>1. LockGuards' /\ (\A p \in Ops : Locked(p))'
          /\ (\A p \in Ops : RunsLocked(p))' /\ (\A p \in Ops : EditsFollow(p))'
          /\ (\A p \in Ops : RowFollows(p))' /\ (\A p \in Ops : LaunchRow(p))'
          /\ (\A p \in Ops : ChargeFollows(p))' /\ VerdictMatchesEdits'
          /\ UncertainPublicationCharged' /\ HalfPublicationContained'
      BY DEF LockGuards, Locked, RunsLocked, Started, EditsFollow, RowFollows, Async,
          LaunchRow, ChargeFollows, VerdictMatchesEdits, Transactional,
          UncertainPublicationCharged, HalfPublicationContained
    <3>2. SettledJobFreesCapacity'
      BY DEF SettledJobFreesCapacity, Async, ChargeFollows, Stopped, Unwatched,
          RowFollows, GitOnly, GitLink, OwnerRecovers, TokenHeld
    <3>q. QED BY <3>1, <3>2
  <2>7. CASE RetireJournal(o)
    <3> USE <2>7 DEF RetireJournal, Dropped
    <3>1. (\A p \in Ops : RunsLocked(p))' /\ (\A p \in Ops : LaunchRow(p))'
          /\ VerdictMatchesEdits'
      BY DEF RunsLocked, Started, LaunchRow, Async, VerdictMatchesEdits, Transactional
    <3>2. LockGuards'
      BY DEF LockGuards, Locked, EditsFollow, Unwatched
    <3>3. ASSUME NEW p \in Ops PROVE Locked(p)'
      BY DEF Locked, Unwatched
    <3>4. ASSUME NEW p \in Ops PROVE EditsFollow(p)'
      BY DEF EditsFollow, Unwatched, Locked, LockGuards, Stopped
    <3>5. ASSUME NEW p \in Ops PROVE RowFollows(p)'
      BY DEF RowFollows, Async, EditsFollow, Unwatched, OwnerRecovers, BindingRace,
          LockGuards, Stopped, Locked
    <3>6. ASSUME NEW p \in Ops PROVE ChargeFollows(p)'
      BY DEF ChargeFollows, Async, TokenHeld, Unwatched, Stopped, RowFollows
    <3>7. UncertainPublicationCharged'
      BY DEF UncertainPublicationCharged, Async, EditsFollow, ChargeFollows,
          OwnerRecovers, GitOnly, RowFollows, Stopped, Unwatched, TokenHeld
    <3>8. SettledJobFreesCapacity'
      BY DEF SettledJobFreesCapacity, Async, ChargeFollows, Stopped, Unwatched,
          RowFollows, GitOnly, GitLink, OwnerRecovers, TokenHeld
    <3>9. HalfPublicationContained'
      BY DEF HalfPublicationContained, Transactional, Started, EditsFollow, RunsLocked,
          LockGuards, Stopped, RowFollows, Unwatched, NothingStarted, Reaped
    <3>q. QED BY <3>1, <3>2, <3>3, <3>4, <3>5, <3>6, <3>7, <3>8, <3>9
  <2>8. CASE PublicationInterrupted(o)
    <3> USE <2>8 DEF PublicationInterrupted, Dropped, Doubt
    <3>1. (\A p \in Ops : RunsLocked(p))' /\ (\A p \in Ops : LaunchRow(p))'
          /\ VerdictMatchesEdits'
      BY DEF RunsLocked, Started, LaunchRow, Async, VerdictMatchesEdits, Transactional
    <3>2. LockGuards'
      BY DEF LockGuards, Locked, EditsFollow, Unwatched
    <3>3. ASSUME NEW p \in Ops PROVE Locked(p)'
      BY DEF Locked, Unwatched
    <3>4. ASSUME NEW p \in Ops PROVE EditsFollow(p)'
      BY DEF EditsFollow, Unwatched, Locked, LockGuards, Stopped
    <3>5. ASSUME NEW p \in Ops PROVE RowFollows(p)'
      BY DEF RowFollows, Async, EditsFollow, Unwatched, OwnerRecovers, BindingRace,
          LockGuards, Stopped, Locked
    <3>6. ASSUME NEW p \in Ops PROVE ChargeFollows(p)'
      BY DEF ChargeFollows, Async, TokenHeld, Unwatched, Stopped, RowFollows
    <3>7. UncertainPublicationCharged'
      BY DEF UncertainPublicationCharged, Async, EditsFollow, ChargeFollows,
          OwnerRecovers, GitOnly, RowFollows, Stopped, Unwatched, TokenHeld
    <3>8. SettledJobFreesCapacity'
      BY DEF SettledJobFreesCapacity, Async, ChargeFollows, Stopped, Unwatched,
          RowFollows, GitOnly, GitLink, OwnerRecovers, TokenHeld
    <3>9. HalfPublicationContained'
      <4>1. up' = "up"
        BY DEF Stopped, ReadyToSpawn
      <4>2. LockGuards' /\ \A p \in Ops : RunsLocked(p)' /\ EditsFollow(p)'
        BY <3>1, <3>2, <3>3, <3>4, <3>5, <3>6, <3>7, <3>8
      <4>q. QED BY <4>1, <4>2 DEF HalfPublicationContained, Transactional, LockGuards,
                RunsLocked, EditsFollow, Started
    <3>q. QED BY <3>1, <3>2, <3>3, <3>4, <3>5, <3>6, <3>7, <3>8, <3>9
  <2>9. CASE CloseTransaction(o)
    <3> USE <2>9 DEF CloseTransaction, Unlock, Doubt
    <3>1. (\A p \in Ops : LaunchRow(p))' /\ VerdictMatchesEdits'
          /\ UncertainPublicationCharged' /\ HalfPublicationContained'
      BY DEF LaunchRow, Async, VerdictMatchesEdits, Transactional,
          UncertainPublicationCharged, HalfPublicationContained, Started
    <3>2. LockGuards'
      BY DEF LockGuards, Locked, EditsFollow, Unwatched
    <3>3. ASSUME NEW p \in Ops PROVE Locked(p)'
      BY DEF Locked, Unwatched, EditsFollow
    <3>4. ASSUME NEW p \in Ops PROVE RunsLocked(p)'
      BY DEF RunsLocked, Started, Locked, RowFollows, NothingStarted, Unwatched, Reaped,
          Stopped
    <3>5. ASSUME NEW p \in Ops PROVE EditsFollow(p)'
      BY DEF EditsFollow, Unwatched, Locked, LockGuards, Stopped
    <3>6. ASSUME NEW p \in Ops PROVE RowFollows(p)'
      BY DEF RowFollows, Async, EditsFollow, Unwatched, OwnerRecovers, BindingRace,
          LockGuards, Stopped, Locked
    <3>7. ASSUME NEW p \in Ops PROVE ChargeFollows(p)'
      BY DEF ChargeFollows, Async, TokenHeld, Unwatched, Stopped, RowFollows
    <3>8. SettledJobFreesCapacity'
      BY DEF SettledJobFreesCapacity, Async, ChargeFollows, Stopped, Unwatched,
          RowFollows, GitOnly, GitLink, OwnerRecovers, TokenHeld
    <3>q. QED BY <3>1, <3>2, <3>3, <3>4, <3>5, <3>6, <3>7, <3>8
  <2>q. QED BY <1>5, <2>1, <2>2, <2>3, <2>4, <2>5, <2>6, <2>7, <2>8, <2>9 DEF Finalizing
<1>6. ASSUME NEW o \in Ops, MonitorDecides(o) \/ MonitorReaps(o) \/
      ReadFinalRow(o) \/ WriteFinalRow(o) PROVE PublicationInv'
  <2>1. CASE MonitorDecides(o)
    <3> USE <2>1 DEF MonitorDecides
    <3>1. LockGuards' /\ (\A p \in Ops : RunsLocked(p))'
          /\ (\A p \in Ops : LaunchRow(p))' /\ VerdictMatchesEdits'
          /\ UncertainPublicationCharged' /\ HalfPublicationContained'
      BY DEF LockGuards, RunsLocked, Started, LaunchRow, Async, VerdictMatchesEdits,
          Transactional, UncertainPublicationCharged, HalfPublicationContained
    <3>2. ASSUME NEW p \in Ops PROVE Locked(p)'
      BY DEF Locked, Unwatched
    <3>3. ASSUME NEW p \in Ops PROVE EditsFollow(p)'
      BY DEF EditsFollow, Unwatched, Locked, LockGuards, Stopped
    <3>4. ASSUME NEW p \in Ops PROVE RowFollows(p)'
      BY DEF RowFollows, Async, EditsFollow, Unwatched, OwnerRecovers, BindingRace,
          LockGuards, Stopped, Locked
    <3>5. ASSUME NEW p \in Ops PROVE ChargeFollows(p)'
      BY DEF ChargeFollows, Async, TokenHeld, Unwatched, Stopped, RowFollows
    <3>6. SettledJobFreesCapacity'
      BY DEF SettledJobFreesCapacity, Async, ChargeFollows, Stopped, Unwatched,
          RowFollows, GitOnly, GitLink, OwnerRecovers, TokenHeld
    <3>q. QED BY <3>1, <3>2, <3>3, <3>4, <3>5, <3>6
  <2>2. CASE MonitorReaps(o)
    <3> USE <2>2 DEF MonitorReaps
    <3>1. LockGuards' /\ (\A p \in Ops : LaunchRow(p))' /\ VerdictMatchesEdits'
          /\ UncertainPublicationCharged'
      BY DEF LockGuards, LaunchRow, Async, VerdictMatchesEdits, Transactional,
          UncertainPublicationCharged
    <3>2. ASSUME NEW p \in Ops PROVE Locked(p)'
      BY DEF Locked, Unwatched
    <3>3. ASSUME NEW p \in Ops PROVE RunsLocked(p)'
      BY DEF RunsLocked, Started, Locked, RowFollows, NothingStarted, Unwatched, Reaped,
          Stopped
    <3>4. ASSUME NEW p \in Ops PROVE EditsFollow(p)'
      BY DEF EditsFollow, Unwatched, Locked, LockGuards, Stopped
    <3>5. ASSUME NEW p \in Ops PROVE RowFollows(p)'
      BY DEF RowFollows, Async, EditsFollow, Unwatched, OwnerRecovers, BindingRace,
          LockGuards, Stopped, Locked
    <3>6. ASSUME NEW p \in Ops PROVE ChargeFollows(p)'
      BY DEF ChargeFollows, Async, TokenHeld, Unwatched, Stopped, RowFollows
    <3>7. SettledJobFreesCapacity'
      BY DEF SettledJobFreesCapacity, Async, ChargeFollows, Stopped, Unwatched,
          RowFollows, GitOnly, GitLink, OwnerRecovers, TokenHeld
    <3>8. HalfPublicationContained'
      BY DEF HalfPublicationContained, Transactional, Started, EditsFollow, RunsLocked,
          LockGuards, Stopped, RowFollows, Unwatched, NothingStarted, Reaped
    <3>q. QED BY <3>1, <3>2, <3>3, <3>4, <3>5, <3>6, <3>7, <3>8
  <2>3. CASE ReadFinalRow(o)
    <3> USE <2>3 DEF ReadFinalRow, Async
    <3>1. LockGuards' /\ (\A p \in Ops : RunsLocked(p))'
          /\ (\A p \in Ops : LaunchRow(p))' /\ VerdictMatchesEdits'
          /\ UncertainPublicationCharged' /\ HalfPublicationContained'
      BY DEF LockGuards, RunsLocked, Started, LaunchRow, Async, VerdictMatchesEdits,
          Transactional, UncertainPublicationCharged, HalfPublicationContained
    <3>2. ASSUME NEW p \in Ops PROVE Locked(p)'
      BY DEF Locked, Unwatched
    <3>3. ASSUME NEW p \in Ops PROVE EditsFollow(p)'
      BY DEF EditsFollow, Unwatched, Locked, LockGuards, Stopped
    <3>4. ASSUME NEW p \in Ops PROVE RowFollows(p)'
      BY DEF RowFollows, EditsFollow, Unwatched, OwnerRecovers, BindingRace, LockGuards,
          Stopped, Locked
    <3>5. ASSUME NEW p \in Ops PROVE ChargeFollows(p)'
      BY DEF ChargeFollows, TokenHeld, Unwatched, Stopped, RowFollows
    <3>6. SettledJobFreesCapacity'
      BY DEF SettledJobFreesCapacity, ChargeFollows, Stopped, Unwatched, RowFollows,
          GitOnly, GitLink, OwnerRecovers, TokenHeld
    <3>q. QED BY <3>1, <3>2, <3>3, <3>4, <3>5, <3>6
  <2>4. CASE WriteFinalRow(o)
    <3> USE <2>4 DEF WriteFinalRow
    <3>1. LockGuards'
      BY DEF LockGuards
    <3>2. ASSUME NEW p \in Ops PROVE Locked(p)'
      BY DEF Locked, Unwatched
    <3>3. ASSUME NEW p \in Ops PROVE RunsLocked(p)'
      <4>1. CASE p = o /\ ~tree[o]
        BY <4>1 DEF RunsLocked, Unwatched, EditsFollow
      <4>2. CASE p = o /\ tree[o]
        <5>1. ~clean[o]
          BY <4>2 DEF Reaped
        <5>2. launch[o] # "unwind_uncertain" /\ Kind[o] # "git"
          BY DEF EditsFollow, GitOnly
        <5>3. Kind[o] # "exec" => row[o] \notin {"none", "launching", "failed"}
          BY <5>2 DEF RowFollows, Async, Kinds
        <5>q. QED BY <4>2, <5>2, <5>3 DEF RunsLocked, Started
      <4>3. CASE p # o
        BY <4>3 DEF RunsLocked, Started
      <4>q. QED BY <4>1, <4>2, <4>3
    <3>4. ASSUME NEW p \in Ops PROVE EditsFollow(p)'
      BY DEF EditsFollow, Unwatched, Locked, LockGuards, Stopped
    <3>5. ASSUME NEW p \in Ops PROVE RowFollows(p)'
      <4>0. /\ monitor'[o] = "done" /\ UNCHANGED <<up, launch, edits, pending, verdict, clean, seen, canceller, gitrow>>
            /\ \A q \in Ops \ {o} : monitor'[q] = monitor[q] /\ row'[q] = row[q] /\ slot'[q] = slot[q]
        OBVIOUS
      <4>1. row'[o] \in {"cancelled", verdict[o]} /\ (~clean[o] => row'[o] = "cleanup_failed")
        BY DEF DoubtIsVerdict

      <4>2. CASE p = o
        <5>1. CASE clean[o]
          BY <4>0, <4>1, <4>2, <5>1 DEF RowFollows, EditsFollow, Unwatched
        <5>2. CASE ~clean[o]
          BY <4>0, <4>1, <4>2, <5>2 DEF RowFollows, EditsFollow, Unwatched
        <5>q. QED BY <5>1, <5>2
      <4>3. CASE p # o
        BY <4>0, <4>3 DEF RowFollows, Async
      <4>q. QED BY <4>2, <4>3
    <3>6. ASSUME NEW p \in Ops PROVE LaunchRow(p)'
      BY DEF LaunchRow, Async, EditsFollow, RowFollows, Stopped, Unwatched
    <3>7. ASSUME NEW p \in Ops PROVE ChargeFollows(p)'
      <4>0. /\ monitor'[o] = "done" /\ UNCHANGED <<up, launch, edits, pending, verdict, clean, seen, canceller, gitrow>>
            /\ \A q \in Ops \ {o} : monitor'[q] = monitor[q] /\ row'[q] = row[q] /\ slot'[q] = slot[q]
        OBVIOUS
      <4>1. row'[o] \in {"cancelled", verdict[o]} /\ (~clean[o] => row'[o] = "cleanup_failed")
        BY DEF DoubtIsVerdict

      <4>2. CASE p = o
        <5>0. o \in Async => launch[o] \notin {"recorded", "spawned", "running", "gone"} /\ up = "up"
          BY DEF Unwatched, ChargeFollows, Stopped
        <5>1. CASE clean[o]
          <6>1. slot'[o] = (IF slot[o] = "bound" THEN "none" ELSE slot[o]) /\ legacy' = legacy \ {o}
            BY <5>1
          <6>q. QED BY <4>0, <4>2, <5>0, <6>1 DEF ChargeFollows, Async
        <5>2. CASE ~clean[o]
          BY <4>0, <4>1, <4>2, <5>0, <5>2 DEF ChargeFollows, Async
        <5>q. QED BY <5>1, <5>2
      <4>3. CASE p # o
        <5>1. p \in legacy' <=> p \in legacy
          BY <4>3
        <5>q. QED BY <4>0, <4>3, <5>1 DEF ChargeFollows, Async
      <4>q. QED BY <4>2, <4>3
    <3>8. VerdictMatchesEdits'
      <4>0. /\ monitor'[o] = "done" /\ UNCHANGED <<up, launch, edits, pending, verdict, clean, seen, canceller, gitrow>>
            /\ \A q \in Ops \ {o} : monitor'[q] = monitor[q] /\ row'[q] = row[q] /\ slot'[q] = slot[q]
        OBVIOUS
      <4>1. row'[o] \in {"cancelled", verdict[o]} /\ (~clean[o] => row'[o] = "cleanup_failed")
        BY DEF DoubtIsVerdict

      <4>2. ASSUME o \in Async, Root[o] # Nowhere
            PROVE  /\ row'[o] \in Terminal \ {"completed", "recovered"} => edits[o] = "none"
                   /\ row'[o] = "completed" => edits[o] \in {"empty", "published"}
                   /\ row'[o] # "recovered"
        <5>1. CASE clean[o] /\ verdict[o] = "completed"
          BY <4>2, <5>1 DEF RowFollows
        <5>2. CASE clean[o] /\ verdict[o] # "completed"
          BY <4>1, <4>2, <5>2 DEF RowFollows, OwnerRecovers
        <5>3. CASE ~clean[o]
          BY <4>1, <5>3
        <5>q. QED BY <5>1, <5>2, <5>3
      <4>q. QED BY <4>0, <4>2 DEF VerdictMatchesEdits, Async, Transactional
    <3>9. UncertainPublicationCharged'
      BY DEF UncertainPublicationCharged, Async, EditsFollow, ChargeFollows,
          OwnerRecovers, GitOnly, RowFollows, Stopped, Unwatched, TokenHeld
    <3>10. SettledJobFreesCapacity'
      <4>0. /\ monitor'[o] = "done" /\ UNCHANGED <<up, launch, edits, pending, verdict, clean, seen, canceller, gitrow>>
            /\ \A q \in Ops \ {o} : monitor'[q] = monitor[q] /\ row'[q] = row[q] /\ slot'[q] = slot[q]
        OBVIOUS
      <4>1. row'[o] \in {"cancelled", verdict[o]} /\ (~clean[o] => row'[o] = "cleanup_failed")
        BY DEF DoubtIsVerdict

      <4>2. ASSUME NEW p \in Ops, p # o PROVE p \in legacy' <=> p \in legacy
        BY <4>2
      <4>3. o \in Async /\ launch[o] = "gone" => FALSE
        BY DEF ChargeFollows
      <4>4. o \in Async /\ row'[o] \in Terminal /\ launch[o] = "done"
              => slot'[o] = "none" /\ o \notin legacy'
        <5>1. CASE clean[o]
          BY <5>1 DEF ChargeFollows
        <5>2. CASE ~clean[o]
          BY <4>1, <5>2
        <5>q. QED BY <5>1, <5>2
      <4>q. QED BY <4>0, <4>2, <4>3, <4>4 DEF SettledJobFreesCapacity, Async
    <3>11. HalfPublicationContained'
      <4>1. up' = "up"
        BY DEF Stopped, ReadyToSpawn
      <4>2. LockGuards' /\ \A p \in Ops : RunsLocked(p)' /\ EditsFollow(p)'
        BY <3>1, <3>2, <3>3, <3>4, <3>5, <3>6, <3>7, <3>8, <3>9, <3>10
      <4>q. QED BY <4>1, <4>2 DEF HalfPublicationContained, Transactional, LockGuards,
                RunsLocked, EditsFollow, Started
    <3>q. QED BY <3>1, <3>2, <3>3, <3>4, <3>5, <3>6, <3>7, <3>8, <3>9, <3>10, <3>11
  <2>q. QED BY <1>6, <2>1, <2>2, <2>3, <2>4
<1>7. ASSUME NEW o \in Ops, Cancelling(o) PROVE PublicationInv'
  <2>1. CASE CancelLookup(o)
    <3> USE <2>1 DEF CancelLookup
    <3>1. LockGuards' /\ (\A p \in Ops : Locked(p))'
          /\ (\A p \in Ops : RunsLocked(p))' /\ (\A p \in Ops : EditsFollow(p))'
          /\ (\A p \in Ops : LaunchRow(p))' /\ (\A p \in Ops : ChargeFollows(p))'
          /\ VerdictMatchesEdits' /\ UncertainPublicationCharged'
          /\ SettledJobFreesCapacity' /\ HalfPublicationContained'
      BY DEF LockGuards, Locked, RunsLocked, Started, EditsFollow, LaunchRow, Async,
          ChargeFollows, VerdictMatchesEdits, Transactional, UncertainPublicationCharged,
          SettledJobFreesCapacity, HalfPublicationContained
    <3>2. ASSUME NEW p \in Ops PROVE RowFollows(p)'
      BY DEF RowFollows, Async, EditsFollow, Unwatched, OwnerRecovers, BindingRace,
          LockGuards, Stopped, Locked
    <3>q. QED BY <3>1, <3>2
  <2>2. CASE CancelMark(o)
    <3> USE <2>2 DEF CancelMark
    <3>1. LockGuards' /\ (\A p \in Ops : Locked(p))' /\ (\A p \in Ops : EditsFollow(p))'
      BY DEF LockGuards, Locked, EditsFollow
    <3>2. ASSUME NEW p \in Ops PROVE RunsLocked(p)'
      BY DEF RunsLocked, Started, Locked, RowFollows, NothingStarted, Unwatched, Reaped,
          Stopped
    <3>3. ASSUME NEW p \in Ops PROVE RowFollows(p)'
      <4>1. UNCHANGED <<up, launch, monitor, slot, legacy, gitrow, edits, pending, verdict, clean, seen>>
        OBVIOUS
      <4>2. \A q \in Ops \ {o} : row'[q] = row[q] /\ canceller'[q] = canceller[q]
        OBVIOUS
      <4>3. o \in Async => launch[o] = "done" /\ up = "up"
        BY DEF RowFollows, Stopped
      <4>4. \/ row'[o] = row[o]
            \/ row[o] = "running" /\ row'[o] = "cancelling"
            \/ row[o] = "cancelling" /\ row'[o] = "cleanup_failed"
        OBVIOUS
      <4>5. canceller'[o] = "idle" \/ canceller[o] # "idle"
        OBVIOUS

      <4>6. CASE p = o
        BY <4>1, <4>3, <4>4, <4>5, <4>6 DEF RowFollows
      <4>7. CASE p # o
        BY <4>1, <4>2, <4>7 DEF RowFollows, Async
      <4>q. QED BY <4>6, <4>7
    <3>4. ASSUME NEW p \in Ops PROVE LaunchRow(p)'
      BY DEF LaunchRow, Async, EditsFollow, RowFollows, Stopped
    <3>5. ASSUME NEW p \in Ops PROVE ChargeFollows(p)'
      <4>1. UNCHANGED <<up, launch, monitor, slot, legacy, gitrow, edits, pending, verdict, clean, seen>>
        OBVIOUS
      <4>2. \A q \in Ops \ {o} : row'[q] = row[q] /\ canceller'[q] = canceller[q]
        OBVIOUS
      <4>3. o \in Async => launch[o] = "done" /\ up = "up"
        BY DEF RowFollows, Stopped
      <4>4. \/ row'[o] = row[o]
            \/ row[o] = "running" /\ row'[o] = "cancelling"
            \/ row[o] = "cancelling" /\ row'[o] = "cleanup_failed"
        OBVIOUS
      <4>5. canceller'[o] = "idle" \/ canceller[o] # "idle"
        OBVIOUS

      <4>6. CASE p = o
        BY <4>1, <4>3, <4>4, <4>6 DEF ChargeFollows
      <4>7. CASE p # o
        BY <4>1, <4>2, <4>7 DEF ChargeFollows, Async
      <4>q. QED BY <4>6, <4>7
    <3>6. VerdictMatchesEdits'
      BY DEF VerdictMatchesEdits, Async, Transactional, EditsFollow, RowFollows, Stopped,
          Unwatched, LockGuards
    <3>7. UncertainPublicationCharged'
      BY DEF UncertainPublicationCharged, Async, EditsFollow, ChargeFollows,
          OwnerRecovers, GitOnly, RowFollows, Stopped, Unwatched, TokenHeld
    <3>8. SettledJobFreesCapacity'
      <4>1. UNCHANGED <<up, launch, monitor, slot, legacy, gitrow, edits, pending, verdict, clean, seen>>
        OBVIOUS
      <4>2. \A q \in Ops \ {o} : row'[q] = row[q] /\ canceller'[q] = canceller[q]
        OBVIOUS
      <4>3. o \in Async => launch[o] = "done" /\ up = "up"
        BY DEF RowFollows, Stopped
      <4>4. \/ row'[o] = row[o]
            \/ row[o] = "running" /\ row'[o] = "cancelling"
            \/ row[o] = "cancelling" /\ row'[o] = "cleanup_failed"
        OBVIOUS
      <4>5. canceller'[o] = "idle" \/ canceller[o] # "idle"
        OBVIOUS

      <4>q. QED BY <4>1, <4>2, <4>4 DEF SettledJobFreesCapacity, Async
    <3>9. HalfPublicationContained'
      BY DEF HalfPublicationContained, Transactional, Started, EditsFollow, RunsLocked,
          LockGuards, Stopped, RowFollows, Unwatched, NothingStarted, Reaped
    <3>q. QED BY <3>1, <3>2, <3>3, <3>4, <3>5, <3>6, <3>7, <3>8, <3>9
  <2>3. CASE CancelSignal(o)
    <3> USE <2>3 DEF CancelSignal
    <3>1. LockGuards' /\ (\A p \in Ops : Locked(p))' /\ (\A p \in Ops : EditsFollow(p))'
      BY DEF LockGuards, Locked, EditsFollow
    <3>2. ASSUME NEW p \in Ops PROVE RunsLocked(p)'
      BY DEF RunsLocked, Started, Locked, RowFollows, NothingStarted, Unwatched, Reaped,
          Stopped
    <3>3. ASSUME NEW p \in Ops PROVE RowFollows(p)'
      <4>1. UNCHANGED <<up, launch, monitor, slot, legacy, gitrow, edits, pending, verdict, clean, seen>>
        OBVIOUS
      <4>2. \A q \in Ops \ {o} : row'[q] = row[q] /\ canceller'[q] = canceller[q]
        OBVIOUS
      <4>3. o \in Async => launch[o] = "done" /\ up = "up"
        BY DEF RowFollows, Stopped
      <4>4. \/ row'[o] = row[o]
            \/ row[o] = "running" /\ row'[o] = "cancelling"
            \/ row[o] = "cancelling" /\ row'[o] = "cleanup_failed"
        OBVIOUS
      <4>5. canceller'[o] = "idle" \/ canceller[o] # "idle"
        OBVIOUS

      <4>6. CASE p = o
        BY <4>1, <4>3, <4>4, <4>5, <4>6 DEF RowFollows
      <4>7. CASE p # o
        BY <4>1, <4>2, <4>7 DEF RowFollows, Async
      <4>q. QED BY <4>6, <4>7
    <3>4. ASSUME NEW p \in Ops PROVE LaunchRow(p)'
      BY DEF LaunchRow, Async, EditsFollow, RowFollows, Stopped
    <3>5. ASSUME NEW p \in Ops PROVE ChargeFollows(p)'
      <4>1. UNCHANGED <<up, launch, monitor, slot, legacy, gitrow, edits, pending, verdict, clean, seen>>
        OBVIOUS
      <4>2. \A q \in Ops \ {o} : row'[q] = row[q] /\ canceller'[q] = canceller[q]
        OBVIOUS
      <4>3. o \in Async => launch[o] = "done" /\ up = "up"
        BY DEF RowFollows, Stopped
      <4>4. \/ row'[o] = row[o]
            \/ row[o] = "running" /\ row'[o] = "cancelling"
            \/ row[o] = "cancelling" /\ row'[o] = "cleanup_failed"
        OBVIOUS
      <4>5. canceller'[o] = "idle" \/ canceller[o] # "idle"
        OBVIOUS

      <4>6. CASE p = o
        BY <4>1, <4>3, <4>4, <4>6 DEF ChargeFollows
      <4>7. CASE p # o
        BY <4>1, <4>2, <4>7 DEF ChargeFollows, Async
      <4>q. QED BY <4>6, <4>7
    <3>6. VerdictMatchesEdits'
      BY DEF VerdictMatchesEdits, Async, Transactional, EditsFollow, RowFollows, Stopped,
          Unwatched, LockGuards
    <3>7. UncertainPublicationCharged'
      BY DEF UncertainPublicationCharged, Async, EditsFollow, ChargeFollows,
          OwnerRecovers, GitOnly, RowFollows, Stopped, Unwatched, TokenHeld
    <3>8. SettledJobFreesCapacity'
      <4>1. UNCHANGED <<up, launch, monitor, slot, legacy, gitrow, edits, pending, verdict, clean, seen>>
        OBVIOUS
      <4>2. \A q \in Ops \ {o} : row'[q] = row[q] /\ canceller'[q] = canceller[q]
        OBVIOUS
      <4>3. o \in Async => launch[o] = "done" /\ up = "up"
        BY DEF RowFollows, Stopped
      <4>4. \/ row'[o] = row[o]
            \/ row[o] = "running" /\ row'[o] = "cancelling"
            \/ row[o] = "cancelling" /\ row'[o] = "cleanup_failed"
        OBVIOUS
      <4>5. canceller'[o] = "idle" \/ canceller[o] # "idle"
        OBVIOUS

      <4>q. QED BY <4>1, <4>2, <4>4 DEF SettledJobFreesCapacity, Async
    <3>9. HalfPublicationContained'
      BY DEF HalfPublicationContained, Transactional, Started, EditsFollow, RunsLocked,
          LockGuards, Stopped, RowFollows, Unwatched, NothingStarted, Reaped
    <3>q. QED BY <3>1, <3>2, <3>3, <3>4, <3>5, <3>6, <3>7, <3>8, <3>9
  <2>q. QED BY <1>7, <2>1, <2>2, <2>3 DEF Cancelling
<1>8. ASSUME NEW o \in Ops, Recovering(o) PROVE PublicationInv'
  <2>1. CASE RecoverEdits(o)
    <3> USE <2>1 DEF RecoverEdits, Maintenance, Async
    <3>1. LockGuards' /\ (\A p \in Ops : Locked(p))'
          /\ (\A p \in Ops : RunsLocked(p))' /\ (\A p \in Ops : LaunchRow(p))'
          /\ (\A p \in Ops : ChargeFollows(p))' /\ UncertainPublicationCharged'
          /\ SettledJobFreesCapacity'
      BY DEF LockGuards, Locked, RunsLocked, Started, LaunchRow, Async, ChargeFollows,
          UncertainPublicationCharged, SettledJobFreesCapacity
    <3>2. ASSUME NEW p \in Ops PROVE EditsFollow(p)'
      BY DEF EditsFollow, Unwatched, Locked, LockGuards, Stopped
    <3>3. ASSUME NEW p \in Ops PROVE RowFollows(p)'
      BY DEF RowFollows, EditsFollow, Unwatched, OwnerRecovers, BindingRace, LockGuards,
          Stopped, Locked
    <3>4. VerdictMatchesEdits'
      <4>1. o \in Async => row[o] \in {"finalizing", "cleanup_failed", "recovered"}
        OBVIOUS
      <4>2. row' = row /\ edits'[o] = "restored" /\ \A p \in Ops \ {o} : edits'[p] = edits[p]
        OBVIOUS
      <4>q. QED BY <4>1, <4>2 DEF VerdictMatchesEdits, Async, Transactional
    <3>5. HalfPublicationContained'
      BY DEF HalfPublicationContained, Transactional, Started, EditsFollow, RunsLocked,
          LockGuards, Stopped, RowFollows, Unwatched, NothingStarted, Reaped
    <3>q. QED BY <3>1, <3>2, <3>3, <3>4, <3>5
  <2>2. CASE RecoverJob(o)
    <3> USE <2>2 DEF RecoverJob, Maintenance, Async
    <3>1. LockGuards' /\ (\A p \in Ops : Locked(p))' /\ (\A p \in Ops : EditsFollow(p))'
      BY DEF LockGuards, Locked, EditsFollow
    <3>2. ASSUME NEW p \in Ops PROVE RunsLocked(p)'
      BY DEF RunsLocked, Started, Locked, RowFollows, NothingStarted, Unwatched, Reaped,
          Stopped
    <3>3. ASSUME NEW p \in Ops PROVE RowFollows(p)'
      BY DEF RowFollows, EditsFollow, Unwatched, OwnerRecovers, BindingRace, LockGuards,
          Stopped, Locked
    <3>4. ASSUME NEW p \in Ops PROVE LaunchRow(p)'
      BY DEF LaunchRow, EditsFollow, RowFollows, Stopped
    <3>5. ASSUME NEW p \in Ops PROVE ChargeFollows(p)'
      BY DEF ChargeFollows, TokenHeld, Unwatched, Stopped, RowFollows
    <3>6. VerdictMatchesEdits'
      BY DEF VerdictMatchesEdits, Transactional, EditsFollow, RowFollows, Stopped,
          Unwatched, LockGuards
    <3>7. UncertainPublicationCharged'
      BY DEF UncertainPublicationCharged, EditsFollow, ChargeFollows, OwnerRecovers,
          GitOnly, RowFollows, Stopped, Unwatched, TokenHeld
    <3>8. SettledJobFreesCapacity'
      BY DEF SettledJobFreesCapacity, ChargeFollows, Stopped, Unwatched, RowFollows,
          GitOnly, GitLink, OwnerRecovers, TokenHeld
    <3>9. HalfPublicationContained'
      BY DEF HalfPublicationContained, Transactional, Started, EditsFollow, RunsLocked,
          LockGuards, Stopped, RowFollows, Unwatched, NothingStarted, Reaped
    <3>q. QED BY <3>1, <3>2, <3>3, <3>4, <3>5, <3>6, <3>7, <3>8, <3>9
  <2>3. CASE RetireGuard(o)
    <3> USE <2>3 DEF RetireGuard, Maintenance, Async, Dropped
    <3>1. (\A p \in Ops : Locked(p))' /\ (\A p \in Ops : RunsLocked(p))'
          /\ (\A p \in Ops : LaunchRow(p))' /\ (\A p \in Ops : ChargeFollows(p))'
          /\ VerdictMatchesEdits' /\ SettledJobFreesCapacity'
      BY DEF Locked, RunsLocked, Started, LaunchRow, Async, ChargeFollows,
          VerdictMatchesEdits, Transactional, SettledJobFreesCapacity
    <3>2. LockGuards'
      BY DEF LockGuards, Locked, EditsFollow, Unwatched
    <3>3. ASSUME NEW p \in Ops PROVE EditsFollow(p)'
      BY DEF EditsFollow, Unwatched, Locked, LockGuards, Stopped
    <3>4. ASSUME NEW p \in Ops PROVE RowFollows(p)'
      BY DEF RowFollows, EditsFollow, Unwatched, OwnerRecovers, BindingRace, LockGuards,
          Stopped, Locked
    <3>5. UncertainPublicationCharged'
      BY DEF UncertainPublicationCharged, EditsFollow, ChargeFollows, OwnerRecovers,
          GitOnly, RowFollows, Stopped, Unwatched, TokenHeld
    <3>6. HalfPublicationContained'
      BY DEF HalfPublicationContained, Transactional, Started, EditsFollow, RunsLocked,
          LockGuards, Stopped, RowFollows, Unwatched, NothingStarted, Reaped
    <3>q. QED BY <3>1, <3>2, <3>3, <3>4, <3>5, <3>6
  <2>4. CASE RecoverGit(o)
    <3> USE <2>4 DEF RecoverGit, Maintenance
    <3>1. LockGuards' /\ (\A p \in Ops : Locked(p))'
          /\ (\A p \in Ops : RunsLocked(p))' /\ (\A p \in Ops : EditsFollow(p))'
          /\ (\A p \in Ops : RowFollows(p))' /\ (\A p \in Ops : LaunchRow(p))'
          /\ VerdictMatchesEdits' /\ HalfPublicationContained'
      BY DEF LockGuards, Locked, RunsLocked, Started, EditsFollow, RowFollows, Async,
          LaunchRow, VerdictMatchesEdits, Transactional, HalfPublicationContained
    <3>2. ASSUME NEW p \in Ops PROVE ChargeFollows(p)'
      BY DEF ChargeFollows, Async, TokenHeld, Unwatched, Stopped, RowFollows
    <3>3. UncertainPublicationCharged'
      BY DEF UncertainPublicationCharged, Async, EditsFollow, ChargeFollows,
          OwnerRecovers, GitOnly, RowFollows, Stopped, Unwatched, TokenHeld
    <3>4. SettledJobFreesCapacity'
      BY DEF SettledJobFreesCapacity, Async, ChargeFollows, Stopped, Unwatched,
          RowFollows, GitOnly, GitLink, OwnerRecovers, TokenHeld
    <3>q. QED BY <3>1, <3>2, <3>3, <3>4
  <2>q. QED BY <1>8, <2>1, <2>2, <2>3, <2>4 DEF Recovering
<1>9. CASE Crash
  <2> USE <1>9 DEF Crash
  <2>1. VerdictMatchesEdits' /\ UncertainPublicationCharged'
    BY DEF VerdictMatchesEdits, Async, Transactional, UncertainPublicationCharged
  <2>2. LockGuards'
    BY DEF LockGuards, Locked, EditsFollow, Unwatched
  <2>3. ASSUME NEW p \in Ops PROVE Locked(p)'
    BY DEF Locked, Unwatched
  <2>4. ASSUME NEW p \in Ops PROVE RunsLocked(p)'
    BY DEF RunsLocked, Started, Locked, RowFollows, NothingStarted, Unwatched, Reaped,
        Stopped
  <2>5. ASSUME NEW p \in Ops PROVE EditsFollow(p)'
    BY DEF EditsFollow, Unwatched, Locked, LockGuards, Stopped
  <2>6. ASSUME NEW p \in Ops PROVE RowFollows(p)'
    BY DEF RowFollows, Async, EditsFollow, Unwatched, OwnerRecovers, BindingRace,
        LockGuards, Stopped, Locked
  <2>7. ASSUME NEW p \in Ops PROVE LaunchRow(p)'
    BY DEF LaunchRow, Async, EditsFollow, RowFollows, Stopped
  <2>8. ASSUME NEW p \in Ops PROVE ChargeFollows(p)'
    BY DEF ChargeFollows, Async, TokenHeld, Unwatched, Stopped, RowFollows
  <2>9. SettledJobFreesCapacity'
    BY DEF SettledJobFreesCapacity, Async, ChargeFollows, Stopped, Unwatched, RowFollows,
        GitOnly, GitLink, OwnerRecovers, TokenHeld
  <2>10. HalfPublicationContained'
    BY DEF HalfPublicationContained, Transactional, Started, EditsFollow, RunsLocked,
        LockGuards, Stopped, RowFollows, Unwatched, NothingStarted, Reaped
  <2>q. QED BY <2>1, <2>2, <2>3, <2>4, <2>5, <2>6, <2>7, <2>8, <2>9, <2>10
<1>10. CASE InitDb
  <2> USE <1>10 DEF InitDb, ProtectUnfinished
  <2>1. LockGuards' /\ (\A p \in Ops : Locked(p))'
        /\ (\A p \in Ops : EditsFollow(p))' /\ (\A p \in Ops : RowFollows(p))'
        /\ (\A p \in Ops : LaunchRow(p))' /\ VerdictMatchesEdits'
        /\ HalfPublicationContained'
    BY DEF LockGuards, Locked, EditsFollow, RowFollows, Async, LaunchRow,
        VerdictMatchesEdits, Transactional, HalfPublicationContained, Started
  <2>2. ASSUME NEW p \in Ops PROVE RunsLocked(p)'
    BY DEF RunsLocked, Started, Locked, RowFollows, NothingStarted, Unwatched, Reaped,
        Stopped
  <2>3. ASSUME NEW p \in Ops PROVE ChargeFollows(p)'
    <3>1. p \in legacy' <=> p \in legacy \/ (row[p] \in Unfinished /\ slot[p] # "bound")
      OBVIOUS
    <3>2. UNCHANGED <<monitor, slot, launch, row>>
      OBVIOUS
    <3>q. QED BY <3>1, <3>2 DEF ChargeFollows, Async
  <2>4. UncertainPublicationCharged'
    BY DEF UncertainPublicationCharged, Async, EditsFollow, ChargeFollows, OwnerRecovers,
        GitOnly, RowFollows, Stopped, Unwatched, TokenHeld
  <2>5. SettledJobFreesCapacity'
    <3>1. \A p \in Ops : p \in legacy' <=> p \in legacy \/ (row[p] \in Unfinished /\ slot[p] # "bound")
      OBVIOUS
    <3>2. UNCHANGED <<monitor, slot, launch, row, gitrow>> /\ (up' = "up" => up = "up")
      OBVIOUS
    <3>q. QED BY <3>1, <3>2 DEF SettledJobFreesCapacity, Async
  <2>q. QED BY <2>1, <2>2, <2>3, <2>4, <2>5
<1>11. CASE ConfigureResources
  <2> USE <1>11 DEF ConfigureResources, Restarted
  <2>1. LockGuards' /\ (\A p \in Ops : Locked(p))' /\ (\A p \in Ops : EditsFollow(p))'
    BY DEF LockGuards, Locked, EditsFollow
  <2>2. ASSUME NEW p \in Ops PROVE RunsLocked(p)'
    BY DEF RunsLocked, Started, Locked, RowFollows, NothingStarted, Unwatched, Reaped,
        Stopped
  <2>3. ASSUME NEW p \in Ops PROVE RowFollows(p)'
    <3>1. /\ launch[p] \in {"idle", "gone", "escaped"} /\ monitor[p] = "off"
          /\ launch'[p] = IF launch[p] = "escaped" THEN "gone" ELSE launch[p]
      BY DEF Stopped
    <3>2. p \in Async => /\ canceller'[p] = "idle" /\ monitor'[p] = "off"
                         /\ launch'[p] \in {"idle", "gone"}
                         /\ launch'[p] = "idle" => row'[p] = "none"
                         /\ clean'[p] => verdict'[p] \in {"completed", "failed", "timed_out",
                                             "cancelled", "output_limit_exceeded"}
      BY <3>1 DEF RowFollows, Async
    <3>3. p \in Async /\ row'[p] \in {"none", "launching", "running", "cancelling"}
            => edits'[p] = "none"
      BY DEF RowFollows, Async
    <3>4. ASSUME p \in Async, NEW v \in Workspaces, pending'[v] = p
          PROVE  row'[p] \in {"finalizing", "cleanup_failed", "recovered"}
      BY <3>4 DEF RowFollows, Async, EditsFollow, LockGuards
    <3>q. QED BY <3>2, <3>3, <3>4 DEF RowFollows
  <2>4. ASSUME NEW p \in Ops PROVE LaunchRow(p)'
    BY DEF LaunchRow, Async, EditsFollow, RowFollows, Stopped
  <2>5. ASSUME NEW p \in Ops PROVE ChargeFollows(p)'
    BY DEF ChargeFollows, Async, TokenHeld, Unwatched, Stopped, RowFollows
  <2>6. VerdictMatchesEdits'
    <3>1. /\ UNCHANGED <<gitrow, monitor, edits, pending>> /\ up = "starting"
          /\ \A p \in Ops : row'[p] = Restarted(p)
      OBVIOUS
    <3>2. \A p \in Ops : slot'[p] = IF gitrow[p] = "active" \/ (slot[p] = "bound" /\ row'[p] = "cleanup_failed")
                                    THEN slot[p] ELSE "none"
      BY <3>1
    <3>3. \A p \in Ops : p \in legacy' <=> p \in legacy /\ row'[p] = "cleanup_failed"
      BY <3>1
    <3>4. \A p \in Ops : monitor[p] = "off" /\ launch[p] \in {"idle", "gone", "escaped"}
      BY <3>1 DEF Stopped

    <3>q. QED BY <3>1 DEF VerdictMatchesEdits, Async, Transactional, RowFollows
  <2>7. UncertainPublicationCharged'
    <3>1. /\ UNCHANGED <<gitrow, monitor, edits, pending>> /\ up = "starting"
          /\ \A p \in Ops : row'[p] = Restarted(p)
      OBVIOUS
    <3>2. \A p \in Ops : slot'[p] = IF gitrow[p] = "active" \/ (slot[p] = "bound" /\ row'[p] = "cleanup_failed")
                                    THEN slot[p] ELSE "none"
      BY <3>1
    <3>3. \A p \in Ops : p \in legacy' <=> p \in legacy /\ row'[p] = "cleanup_failed"
      BY <3>1
    <3>4. \A p \in Ops : monitor[p] = "off" /\ launch[p] \in {"idle", "gone", "escaped"}
      BY <3>1 DEF Stopped

    <3>5. ASSUME NEW p \in Async, Root[p] # Nowhere, pending[Root[p]] = p, row'[p] # "recovered"
          PROVE  slot'[p] # "none" \/ p \in legacy'
      <4>1. p \in Ops /\ row[p] \in {"finalizing", "cleanup_failed", "recovered"}
        BY <3>5 DEF RowFollows, Async
      <4>2. row[p] # "recovered" /\ row'[p] = "cleanup_failed"
        BY <3>1, <3>5, <4>1
      <4>3. slot[p] = "bound" \/ p \in legacy
        BY <3>1, <4>1, <4>2 DEF ChargeFollows
      <4>q. QED BY <3>2, <3>3, <4>1, <4>2, <4>3
    <3>q. QED BY <3>1, <3>5 DEF UncertainPublicationCharged, Async
  <2>8. SettledJobFreesCapacity'
    <3>1. /\ UNCHANGED <<gitrow, monitor, edits, pending>> /\ up = "starting"
          /\ \A p \in Ops : row'[p] = Restarted(p)
      OBVIOUS
    <3>2. \A p \in Ops : slot'[p] = IF gitrow[p] = "active" \/ (slot[p] = "bound" /\ row'[p] = "cleanup_failed")
                                    THEN slot[p] ELSE "none"
      BY <3>1
    <3>3. \A p \in Ops : p \in legacy' <=> p \in legacy /\ row'[p] = "cleanup_failed"
      BY <3>1
    <3>4. \A p \in Ops : monitor[p] = "off" /\ launch[p] \in {"idle", "gone", "escaped"}
      BY <3>1 DEF Stopped

    <3>q. QED BY <3>1, <3>2, <3>3, <3>4 DEF SettledJobFreesCapacity, Async
  <2>9. HalfPublicationContained'
    BY DEF HalfPublicationContained, Transactional, Started, EditsFollow, RunsLocked,
        LockGuards, Stopped, RowFollows, Unwatched, NothingStarted, Reaped
  <2>q. QED BY <2>1, <2>2, <2>3, <2>4, <2>5, <2>6, <2>7, <2>8, <2>9
<1>12. CASE UNCHANGED vars
  BY <1>12 DEF vars, LockGuards, Locked, RunsLocked, Started, EditsFollow, RowFollows,
      LaunchRow, ChargeFollows,
      VerdictMatchesEdits, UncertainPublicationCharged, SettledJobFreesCapacity,
      HalfPublicationContained, Async, Transactional
<1>q. QED BY <1>1, <1>2, <1>3, <1>4, <1>5, <1>6, <1>7, <1>8, <1>9, <1>10, <1>11,
    <1>12 DEF Next, Monitoring

LEMMA PublicationInvariant == Spec => []PublicationInv
<1>1. PublicationInv /\ TypeOK /\ SlotInv /\ GitInv /\ [Next]_vars => PublicationInv'
  BY PublicationStep
<1>q. QED BY PublicationInit, <1>1, TypeCorrect, SlotInvariant, GitInvariant, PTL DEF Spec

(* What a job reports is what its edits did: nothing when it failed, was
   cancelled, timed out or was interrupted, all of them when it completed,
   undone when the owner recovered it, for any race of claim, cancel, crash
   and restart.                                                              *)
THEOREM VerdictsAreTrue == Spec => []VerdictMatchesEdits
<1>1. PublicationInv => VerdictMatchesEdits
  BY DEF PublicationInv
<1>q. QED BY PublicationInvariant, <1>1, PTL

(* A job whose journal blocks a workspace holds an admission until the owner
   has recovered it, over any number of crashes and start-ups.               *)
THEOREM UncertainJobsStayCharged == Spec => []UncertainPublicationCharged
<1>1. PublicationInv => UncertainPublicationCharged
  BY DEF PublicationInv
<1>q. QED BY PublicationInvariant, <1>1, PTL

(* No command runs against half-published files, and those files are always
   behind the journal of the job that publishes them.                        *)
THEOREM HalfPublishedIsGuarded == Spec => []HalfPublicationContained
<1>1. PublicationInv => HalfPublicationContained
  BY DEF PublicationInv
<1>q. QED BY PublicationInvariant, <1>1, PTL

(* A job that ended leaves no admission behind, whichever of binding, final
   write, start-up and CLI came last.                                        *)
THEOREM CapacityComesBack == Spec => []SettledJobFreesCapacity
<1>1. PublicationInv => SettledJobFreesCapacity
  BY DEF PublicationInv
<1>q. QED BY PublicationInvariant, <1>1, PTL

-----------------------------------------------------------------------------
(* The refinement of the job contract: how one step may move the row of a   *)
(* job, its edits and its admissions.                                        *)
Ended == Terminal \ {"recovered"}
RowMove(j) == row'[j] # row[j] =>
  /\ edits'[j] = edits[j]
  /\ \/ row[j] = "none" /\ slot[j] # "none" /\ row'[j] \in {"launching", "running"}
     \/ /\ row[j] \in {"launching", "running"}
        /\ row'[j] \in {"running", "cancelling", "finalizing", "cleanup_failed"} \cup Ended
     \/ row[j] = "cancelling" /\ row'[j] \in {"cleanup_failed"} \cup Ended
     \/ row[j] = "finalizing" /\ row'[j] \in {"cleanup_failed", "recovered"} \cup Ended
     \/ row[j] = "cleanup_failed" /\ row'[j] \in {"recovered"} \cup Ended
  /\ row'[j] = "recovered" => edits[j] = "restored"

EditMove(j) == edits'[j] # edits[j] =>
  \/ /\ up = "up" /\ row[j] = "finalizing" /\ Root[j] # Nowhere
     /\ \/ edits[j] = "none" /\ edits'[j] \in {"empty", "partial"}
        \/ edits[j] = "partial" /\ edits'[j] = "published"
  \/ up = "down" /\ row[j] \in {"finalizing", "cleanup_failed"} /\ edits'[j] = "restored"

HasSlot(j) == slot[j] # "none" \/ j \in legacy \/ launch[j] = "escaped"
ChargeMove(j) == HasSlot(j) /\ ~HasSlot(j)' => row'[j] \in Terminal \cup {"none"}

(* Each action, by whichever thread, moves a job only so.                    *)
LEMMA JobMoves ==
  ASSUME TypeOK, SlotInv, GitInv, PublicationInv, [Next]_vars, NEW j \in Async
  PROVE  RowMove(j) /\ EditMove(j) /\ ChargeMove(j)
<1> USE KindAssumption, RootAssumption
    DEF TypeOK, SlotInv, GitInv, PublicationInv, ledger, threads, durable, HasSlot
<1>0. j \in Ops
  BY DEF Async
<1> USE <1>0
<1> DEFINE Moves == RowMove(j) /\ EditMove(j) /\ ChargeMove(j)
<1>1. ASSUME NEW o \in Ops, Launching(o) PROVE Moves
  <2>1. CASE Admit(o)
    <3>1. ChargeMove(j)
      BY <2>1 DEF Admit, Go, ChargeMove, LaunchRow, RowFollows, ChargeFollows, GitOnly,
          Stopped, Async, TokenHeld, EditsFollow
    <3>2. RowMove(j) /\ EditMove(j)
      BY <2>1 DEF Admit, RowMove, EditMove
    <3>q. QED BY <3>1, <3>2
  <2>2. CASE RecordLaunching(o)
    <3>1. RowMove(j)
      BY <2>2 DEF RecordLaunching, Go, RowMove, Ended, RowFollows, LaunchRow, TokenHeld,
          Unwatched, Stopped, Async, OwnerRecovers, EditsFollow, ChargeFollows
    <3>2. ChargeMove(j)
      BY <2>2 DEF RecordLaunching, Go, ChargeMove, LaunchRow, RowFollows, ChargeFollows,
          GitOnly, Stopped, Async, TokenHeld, EditsFollow
    <3>3. EditMove(j)
      BY <2>2 DEF RecordLaunching, EditMove
    <3>q. QED BY <3>1, <3>2, <3>3
  <2>3. CASE RecordRunning(o)
    <3>1. RowMove(j)
      BY <2>3 DEF RecordRunning, Go, RowMove, Ended, RowFollows, LaunchRow, TokenHeld,
          Unwatched, Stopped, Async, OwnerRecovers, EditsFollow, ChargeFollows
    <3>2. ChargeMove(j)
      BY <2>3 DEF RecordRunning, Go, ChargeMove, LaunchRow, RowFollows, ChargeFollows,
          GitOnly, Stopped, Async, TokenHeld, EditsFollow
    <3>3. EditMove(j)
      BY <2>3 DEF RecordRunning, EditMove
    <3>q. QED BY <3>1, <3>2, <3>3
  <2>4. CASE Unwind(o)
    <3>1. RowMove(j)
      BY <2>4 DEF Unwind, Go, Unlock, RowMove, Ended, RowFollows, LaunchRow, TokenHeld,
          Unwatched, Stopped, Async, OwnerRecovers, EditsFollow, ChargeFollows
    <3>2. ChargeMove(j)
      BY <2>4 DEF Unwind, Go, Unlock, ChargeMove, LaunchRow, RowFollows, ChargeFollows,
          GitOnly, Stopped, Async, TokenHeld, EditsFollow
    <3>3. EditMove(j)
      BY <2>4 DEF Unwind, EditMove
    <3>q. QED BY <3>1, <3>2, <3>3
  <2>5. CASE Release(o)
    <3>1. ChargeMove(j)
      BY <2>5 DEF Release, Go, ChargeMove, LaunchRow, RowFollows, ChargeFollows, GitOnly,
          Stopped, Async, TokenHeld, EditsFollow
    <3>2. RowMove(j) /\ EditMove(j)
      BY <2>5 DEF Release, RowMove, EditMove
    <3>q. QED BY <3>1, <3>2
  <2>6. CASE Bind(o)
    <3>1. ChargeMove(j)
      BY <2>6 DEF Bind, Go, ChargeMove, LaunchRow, RowFollows, ChargeFollows, GitOnly,
          Stopped, Async, TokenHeld, EditsFollow
    <3>2. RowMove(j) /\ EditMove(j)
      BY <2>6 DEF Bind, RowMove, EditMove
    <3>q. QED BY <3>1, <3>2
  <2>7. CASE OpenRoot(o) \/ LaunchRefused(o) \/ LaunchBlocked(o) \/ Spawn(o) \/ SpawnFails(o) \/ StartMonitor(o) \/ LaunchFails(o) \/ KillFailedLaunch(o) \/ BindFails(o)
    BY <2>7 DEF OpenRoot, LaunchRefused, LaunchBlocked, Spawn, SpawnFails, StartMonitor,
        LaunchFails, KillFailedLaunch, BindFails, Go, ReadyToSpawn, RowMove, EditMove,
        ChargeMove, Ended
  <2>q. QED BY <1>1, <2>1, <2>2, <2>3, <2>4, <2>5, <2>6, <2>7 DEF Launching
<1>2. ASSUME NEW o \in Ops, Executing(o) PROVE Moves
  <2>1. CASE RunExec(o) \/ ExecDrained(o) \/ ExecReturns(o)
    BY <2>1 DEF RunExec, ExecDrained, ExecReturns, Go, RowMove, EditMove, ChargeMove, Ended
  <2>q. QED BY <1>2, <2>1 DEF Executing
<1>3. ASSUME NEW o \in Ops, GitStep(o) PROVE Moves
  <2>1. CASE ResolveGit(o)
    <3>1. ChargeMove(j)
      BY <2>1 DEF ResolveGit, Go, ChargeMove, LaunchRow, RowFollows, ChargeFollows,
          GitOnly, Stopped, Async, TokenHeld, EditsFollow
    <3>2. RowMove(j) /\ EditMove(j)
      BY <2>1 DEF ResolveGit, RowMove, EditMove
    <3>q. QED BY <3>1, <3>2
  <2>2. CASE WriteGitGuard(o) \/ BindGit(o) \/ RemoveGitGuard(o) \/ GitInterrupted(o)
    BY <2>2 DEF WriteGitGuard, BindGit, RemoveGitGuard, GitInterrupted, Go, RowMove,
        EditMove, ChargeMove, Ended
  <2>q. QED BY <1>3, <2>1, <2>2 DEF GitStep
<1>4. ASSUME NEW o \in Ops, Pulling(o) PROVE Moves
  <2>1. CASE ClaimPull(o) \/ GuardPull(o) \/ LinkPull(o)
    BY <2>1 DEF ClaimPull, GuardPull, LinkPull, RowMove, EditMove, ChargeMove, Ended
  <2>q. QED BY <1>4, <2>1 DEF Pulling
<1>5. ASSUME NEW o \in Ops, Finalizing(o) PROVE Moves
  <2>1. CASE ClaimFinalization(o)
    <3>1. RowMove(j)
      BY <2>1 DEF ClaimFinalization, Doubt, RowMove, Ended, RowFollows, LaunchRow,
          TokenHeld, Unwatched, Stopped, Async, OwnerRecovers, EditsFollow, ChargeFollows
    <3>2. ChargeMove(j)
      BY <2>1 DEF ClaimFinalization, Doubt, ChargeMove, LaunchRow, RowFollows,
          ChargeFollows, GitOnly, Stopped, Async, TokenHeld, EditsFollow
    <3>3. EditMove(j)
      BY <2>1 DEF ClaimFinalization, EditMove
    <3>q. QED BY <3>1, <3>2, <3>3
  <2>2. CASE PublishNothing(o)
    <3>1. EditMove(j)
      BY <2>2 DEF PublishNothing, EditMove, RowFollows, EditsFollow, Unwatched, Stopped,
          Async, VerdictMatchesEdits, Transactional
    <3>2. RowMove(j) /\ ChargeMove(j)
      BY <2>2 DEF PublishNothing, RowMove, ChargeMove
    <3>q. QED BY <3>1, <3>2
  <2>3. CASE ApplyEdits(o)
    <3>1. EditMove(j)
      BY <2>3 DEF ApplyEdits, EditMove, RowFollows, EditsFollow, Unwatched, Stopped,
          Async, VerdictMatchesEdits, Transactional
    <3>2. RowMove(j) /\ ChargeMove(j)
      BY <2>3 DEF ApplyEdits, RowMove, ChargeMove
    <3>q. QED BY <3>1, <3>2
  <2>4. CASE PublishRejected(o) \/ JournalPublication(o) \/ ResolvePull(o) \/ RetireJournal(o) \/ PublicationInterrupted(o) \/ CloseTransaction(o)
    BY <2>4 DEF PublishRejected, JournalPublication, ResolvePull, RetireJournal,
        PublicationInterrupted, CloseTransaction, RowMove, EditMove, ChargeMove, Ended
  <2>q. QED BY <1>5, <2>1, <2>2, <2>3, <2>4 DEF Finalizing
<1>6. ASSUME NEW o \in Ops, MonitorDecides(o) \/ MonitorReaps(o) \/
      ReadFinalRow(o) \/ WriteFinalRow(o) PROVE Moves
  <2>1. CASE WriteFinalRow(o)
    <3>1. RowMove(j)
      <4>1. edits' = edits /\ \A q \in Ops \ {o} : row'[q] = row[q]
        BY <2>1 DEF WriteFinalRow
      <4>2. o = j => row'[o] \in Ended \cup {"cleanup_failed"}
        <5>1. row'[o] \in {"cancelled", verdict[o]} /\ (~clean[o] => row'[o] = "cleanup_failed")
          BY <2>1 DEF WriteFinalRow, DoubtIsVerdict
        <5>2. clean[o] /\ o = j => verdict[o] \in Ended
          BY DEF RowFollows, Ended
        <5>q. QED BY <5>1, <5>2 DEF Ended
      <4>3. o = j => row[o] \in {"running", "cancelling", "cleanup_failed", "finalizing"}
        BY <2>1 DEF WriteFinalRow, RowFollows
      <4>q. QED BY <4>1, <4>2, <4>3 DEF RowMove, Ended
    <3>2. ChargeMove(j)
      BY <2>1 DEF WriteFinalRow, ChargeMove, LaunchRow, RowFollows, ChargeFollows,
          GitOnly, Stopped, Async, TokenHeld, EditsFollow
    <3>3. EditMove(j)
      BY <2>1 DEF WriteFinalRow, EditMove
    <3>q. QED BY <3>1, <3>2, <3>3
  <2>2. CASE MonitorDecides(o) \/ MonitorReaps(o) \/ ReadFinalRow(o)
    BY <2>2 DEF MonitorDecides, MonitorReaps, ReadFinalRow, RowMove, EditMove,
        ChargeMove, Ended
  <2>q. QED BY <1>6, <2>1, <2>2
<1>7. ASSUME NEW o \in Ops, Cancelling(o) PROVE Moves
  <2>1. CASE CancelMark(o)
    <3>1. RowMove(j)
      BY <2>1 DEF CancelMark, RowMove, Ended, RowFollows, LaunchRow, TokenHeld,
          Unwatched, Stopped, Async, OwnerRecovers, EditsFollow, ChargeFollows
    <3>2. ChargeMove(j)
      BY <2>1 DEF CancelMark, ChargeMove, LaunchRow, RowFollows, ChargeFollows, GitOnly,
          Stopped, Async, TokenHeld, EditsFollow
    <3>3. EditMove(j)
      BY <2>1 DEF CancelMark, EditMove
    <3>q. QED BY <3>1, <3>2, <3>3
  <2>2. CASE CancelSignal(o)
    <3>1. RowMove(j)
      BY <2>2 DEF CancelSignal, RowMove, Ended, RowFollows, LaunchRow, TokenHeld,
          Unwatched, Stopped, Async, OwnerRecovers, EditsFollow, ChargeFollows
    <3>2. ChargeMove(j)
      BY <2>2 DEF CancelSignal, ChargeMove, LaunchRow, RowFollows, ChargeFollows,
          GitOnly, Stopped, Async, TokenHeld, EditsFollow
    <3>3. EditMove(j)
      BY <2>2 DEF CancelSignal, EditMove
    <3>q. QED BY <3>1, <3>2, <3>3
  <2>3. CASE CancelLookup(o)
    BY <2>3 DEF CancelLookup, RowMove, EditMove, ChargeMove, Ended
  <2>q. QED BY <1>7, <2>1, <2>2, <2>3 DEF Cancelling
<1>8. ASSUME NEW o \in Ops, Recovering(o) PROVE Moves
  <2>1. CASE RecoverEdits(o)
    <3>1. EditMove(j)
      BY <2>1 DEF RecoverEdits, Maintenance, Async, EditMove, RowFollows, EditsFollow,
          Unwatched, Stopped, VerdictMatchesEdits, Transactional
    <3>2. RowMove(j) /\ ChargeMove(j)
      BY <2>1 DEF RecoverEdits, RowMove, ChargeMove
    <3>q. QED BY <3>1, <3>2
  <2>2. CASE RecoverJob(o)
    <3>1. RowMove(j)
      BY <2>2 DEF RecoverJob, Maintenance, Async, RowMove, Ended, RowFollows, LaunchRow,
          TokenHeld, Unwatched, Stopped, OwnerRecovers, EditsFollow, ChargeFollows
    <3>2. ChargeMove(j)
      BY <2>2 DEF RecoverJob, Maintenance, Async, ChargeMove, LaunchRow, RowFollows,
          ChargeFollows, GitOnly, Stopped, TokenHeld, EditsFollow
    <3>3. EditMove(j)
      BY <2>2 DEF RecoverJob, EditMove
    <3>q. QED BY <3>1, <3>2, <3>3
  <2>3. CASE RecoverGit(o)
    <3>1. ChargeMove(j)
      BY <2>3 DEF RecoverGit, Maintenance, ChargeMove, LaunchRow, RowFollows,
          ChargeFollows, GitOnly, Stopped, Async, TokenHeld, EditsFollow
    <3>2. RowMove(j) /\ EditMove(j)
      BY <2>3 DEF RecoverGit, RowMove, EditMove
    <3>q. QED BY <3>1, <3>2
  <2>4. CASE RetireGuard(o)
    BY <2>4 DEF RetireGuard, RowMove, EditMove, ChargeMove, Ended
  <2>q. QED BY <1>8, <2>1, <2>2, <2>3, <2>4 DEF Recovering
<1>9. CASE Crash
  BY <1>9 DEF Crash, RowMove, EditMove, ChargeMove, Ended
<1>10. CASE InitDb
  <2>1. ChargeMove(j)
    BY <1>10 DEF InitDb, ProtectUnfinished, ChargeMove, LaunchRow, RowFollows,
        ChargeFollows, GitOnly, Stopped, Async, TokenHeld, EditsFollow
  <2>2. RowMove(j) /\ EditMove(j)
    BY <1>10 DEF InitDb, RowMove, EditMove
  <2>q. QED BY <2>1, <2>2
<1>11. CASE ConfigureResources
  <2>1. RowMove(j)
    BY <1>11 DEF ConfigureResources, Restarted, RowMove, Ended, RowFollows, LaunchRow,
        TokenHeld, Unwatched, Stopped, Async, OwnerRecovers, EditsFollow, ChargeFollows
  <2>2. ChargeMove(j)
    BY <1>11 DEF ConfigureResources, Restarted, ChargeMove, LaunchRow, RowFollows,
        ChargeFollows, GitOnly, Stopped, Async, TokenHeld, EditsFollow
  <2>3. EditMove(j)
    BY <1>11 DEF ConfigureResources, EditMove
  <2>q. QED BY <2>1, <2>2, <2>3
<1>12. CASE UNCHANGED vars
  BY <1>12 DEF vars, RowMove, EditMove, ChargeMove, Ended
<1>q. QED BY <1>1, <1>2, <1>3, <1>4, <1>5, <1>6, <1>7, <1>8, <1>9, <1>10, <1>11,
    <1>12 DEF Next, Monitoring

(* The gateway starts where the contract starts.                             *)
LEMMA InitImplements == Init => Contract!Init
BY DEF Init, Contract!Init, Async, Reported, Escaped

(* Every step of the lifecycle is one the contract allows.                   *)
LEMMA StepImplements ==
  ASSUME TypeOK, SlotInv, GitInv, PublicationInv, [Next]_vars, TypeOK', PublicationInv'
  PROVE  Contract!Next
<1> SUFFICES ASSUME NEW j \in Async
             PROVE  Contract!Report(j) /\ Contract!Effect(j) /\ Contract!Charge(j)
  BY DEF Contract!Next
<1>0. j \in Ops /\ row[j] \in Statuses \cup {"none"} /\ row'[j] \in Statuses \cup {"none"}
  BY DEF Async, TypeOK
<1>1. RowMove(j) /\ EditMove(j) /\ ChargeMove(j)
  BY JobMoves
<1>2. Root[j] = Nowhere => edits[j] = "none" /\ edits'[j] = "none"
  BY <1>0 DEF PublicationInv, EditsFollow
<1>3. Contract!Report(j)
  <2> SUFFICES ASSUME Reported(j)' # Reported(j)
               PROVE  /\ Reported(j)' \in Contract!Successors(Reported(j))
                      /\ Reported(j)' = "denied" => edits[j] = "none"
                      /\ Reported(j)' = "done" /\ Root[j] # Nowhere => edits[j] \in {"empty", "published"}
                      /\ Reported(j)' = "recovered" => edits[j] = "restored"
                      /\ Reported(j) = "absent" => HasSlot(j)
    BY <1>0 DEF Contract!Report, Contract!Honest, Transactional, HasSlot, Escaped
  <2>1. row'[j] # row[j]
    BY DEF Reported
  <2>2. Reported(j)' \in Contract!Successors(Reported(j))
    BY <1>0, <1>1, <2>1 DEF RowMove, Ended, Reported, Contract!Successors
  <2>3. Reported(j)' = "denied" => edits[j] = "none"
    <3>1. Reported(j)' = "denied" => row'[j] \in Terminal \ {"completed", "recovered"}
      BY <1>0 DEF Reported
    <3>q. QED BY <1>0, <1>1, <1>2, <2>1, <3>1
              DEF RowMove, PublicationInv, VerdictMatchesEdits, Transactional
  <2>4. Reported(j)' = "done" /\ Root[j] # Nowhere => edits[j] \in {"empty", "published"}
    <3>1. Reported(j)' = "done" => row'[j] = "completed"
      BY <1>0 DEF Reported
    <3>q. QED BY <1>0, <1>1, <2>1, <3>1
              DEF RowMove, PublicationInv, VerdictMatchesEdits, Transactional
  <2>5. Reported(j)' = "recovered" => row'[j] = "recovered"
    BY <1>0 DEF Reported
  <2>6. Reported(j) = "absent" => row[j] = "none"
    BY <1>0 DEF Reported
  <2>q. QED BY <1>1, <2>1, <2>2, <2>3, <2>4, <2>5, <2>6 DEF RowMove, HasSlot
<1>4. Contract!Effect(j)
  <2>1. row[j] = "finalizing" => Reported(j) = "publishing"
    BY DEF Reported
  <2>2. row[j] = "cleanup_failed" => Reported(j) = "doubt"
    BY DEF Reported
  <2>q. QED BY <1>0, <1>1, <2>1, <2>2 DEF Contract!Effect, EditMove, Transactional
<1>5. Contract!Charge(j)
  <2>1. row'[j] \in Terminal \cup {"none"}
          => Reported(j)' \in {"done", "denied", "recovered", "absent"}
    BY DEF Reported
  <2>2. j \in {o \in Async : slot[o] # "none" \/ o \in legacy \/ o \in Escaped} <=> HasSlot(j)
    BY <1>0 DEF HasSlot, Escaped
  <2>3. j \in {o \in Async : slot[o] # "none" \/ o \in legacy \/ o \in Escaped}' <=> HasSlot(j)'
    BY <1>0 DEF HasSlot, Escaped
  <2>q. QED BY <1>1, <2>1, <2>2, <2>3 DEF Contract!Charge, Contract!Settled, ChargeMove
<1>q. QED BY <1>3, <1>4, <1>5

(* The detailed lifecycle of launchers, monitors, cancellations, crashes and
   recoveries implements the contract of asynchronous jobs.                  *)
THEOREM LifecycleImplementsContract == Spec => ImplementsContract
<1>0. PublicationInv /\ SlotInv /\ GitInv /\ TypeOK /\ TypeOK' /\ PublicationInv'
      /\ [Next]_vars
        => [Contract!Next]_(Contract!vars)
  BY StepImplements
<1>q. QED BY InitImplements, <1>0, TypeCorrect, SlotInvariant, GitInvariant,
          PublicationInvariant, PTL
          DEF Spec, ImplementsContract, Contract!Spec

-----------------------------------------------------------------------------
(* Why a slot is kept.                                                       *)

(* Where the launcher has spawned, and not seen dead, what it launches.      *)
Spawned(o) ==
  /\ launch[o] \in {"spawned", "running", "kill", "unwind_uncertain"} => tree[o]
  /\ launch[o] = "executing" /\ monitor[o] = "off" => tree[o]

(* Only a job is monitored by a thread; a synchronous command that is left in
   doubt still holds its workspace.                                          *)
Watched(o) ==
  /\ launch[o] \in {"spawned", "running"} \/ monitor[o] \in {"watch", "reap", "claim"} => o \in Async
  /\ o \notin Async /\ launch[o] # "executing" => monitor[o] \in {"off", "done"}
  /\ launch[o] = "executing" /\ monitor[o] = "final" /\ ~clean[o]
       => Root[o] # Nowhere /\ flock[Root[o]] = o

(* A Git operation works under the lock, and gives its slot back with its link. *)
GitLocked(o) ==
  /\ launch[o] \in {"guarded", "linked", "settled"} => Root[o] # Nowhere /\ flock[Root[o]] = o
  /\ launch[o] = "linked" => gitrow[o] = "active"
  /\ launch[o] = "settled" => slot[o] = "none"
  /\ \A v \in Workspaces : gitguard[v] = o => v = Root[o]

(* A guard that whoever wrote it will not retire any more: the owner must.   *)
Orphaned(v) == flock[v] = Nobody /\ Blocked(v)

(* A slot that a request keeps stands for a tree, a job row, a Git link, a
   workspace it could not close, or one that awaits the owner's recovery.    *)
KeptSlot(o) ==
  slot[o] # "none" /\ launch[o] = "kept" =>
    \/ tree[o] \/ row[o] # "none" \/ gitrow[o] = "active"
    \/ Root[o] # Nowhere /\ \/ o \in {flock[Root[o]], pending[Root[o]], gitguard[Root[o]]}
                            \/ Orphaned(Root[o])

(* What a request keeps, with what its threads have started.                *)
KeptInv == \A o \in Ops : /\ Spawned(o) /\ Watched(o) /\ GitLocked(o) /\ KeptSlot(o)
                          /\ launch[o] = "bind" => row[o] # "none"

(* The boundary of HeldSlotHasCause.                                         *)
KeptSlotHasCause == \A o \in Ops : KeptSlot(o)

(* Initially nothing is kept.                                                *)
LEMMA KeptInit == Init => KeptInv
BY RootAssumption DEF Init, KeptInv, Spawned, Watched, GitLocked, KeptSlot

(* Every step keeps a cause for every slot that is kept.                     *)
LEMMA KeptStep ==
  TypeOK /\ SlotInv /\ GitInv /\ PublicationInv /\ KeptInv /\ [Next]_vars => KeptInv'
<1> SUFFICES ASSUME TypeOK, SlotInv, GitInv, PublicationInv, KeptInv, [Next]_vars PROVE KeptInv'
  OBVIOUS
<1> USE KindAssumption, RootAssumption
    DEF TypeOK, ledger, threads, durable, Go, KeptInv, Spawned, Watched, GitLocked, KeptSlot,
        Orphaned, Blocked, SlotInv, Stopped, Unwatched, TokenHeld, DoubtIsVerdict, GitInv, GitLink,
        GitOnly, GitGuard, PublicationInv, LockGuards, Locked, EditsFollow, RowFollows, Async,
        Terminal
<1>1. ASSUME NEW o \in Ops, Launching(o) PROVE KeptInv'
  <2>1. CASE Admit(o)
    BY <2>1 DEF Admit
  <2>2. CASE OpenRoot(o)
    BY <2>2 DEF OpenRoot
  <2>3. CASE LaunchRefused(o)
    BY <2>3 DEF LaunchRefused, Unlock
  <2>4. CASE LaunchBlocked(o)
    BY <2>4 DEF LaunchBlocked
  <2>5. CASE RecordLaunching(o)
    BY <2>5 DEF RecordLaunching
  <2>6. CASE Spawn(o)
    BY <2>6 DEF Spawn, ReadyToSpawn
  <2>7. CASE SpawnFails(o)
    BY <2>7 DEF SpawnFails, ReadyToSpawn
  <2>8. CASE RecordRunning(o)
    BY <2>8 DEF RecordRunning
  <2>9. CASE StartMonitor(o)
    BY <2>9 DEF StartMonitor
  <2>10. CASE LaunchFails(o)
    BY <2>10 DEF LaunchFails
  <2>11. CASE KillFailedLaunch(o)
    BY <2>11 DEF KillFailedLaunch
  <2>12. CASE Unwind(o)
    BY <2>12 DEF Unwind, Unlock
  <2>13. CASE Release(o)
    BY <2>13 DEF Release
  <2>14. CASE Bind(o)
    BY <2>14 DEF Bind
  <2>15. CASE BindFails(o)
    BY <2>15 DEF BindFails
  <2>q. QED BY <1>1, <2>1, <2>2, <2>3, <2>4, <2>5, <2>6, <2>7, <2>8, <2>9, <2>10, <2>11,
        <2>12, <2>13, <2>14, <2>15 DEF Launching
<1>2. ASSUME NEW o \in Ops, Executing(o) PROVE KeptInv'
  <2>1. CASE RunExec(o)
    BY <2>1 DEF RunExec
  <2>2. CASE ExecDrained(o)
    <3>1. ASSUME NEW p \in Ops \ {o}
                 PROVE  /\ launch'[p] = launch[p] /\ monitor'[p] = monitor[p]
                        /\ tree'[p] = tree[p] /\ clean'[p] = clean[p]
      BY <2>2, <3>1 DEF ExecDrained
    <3>2. UNCHANGED <<slot, row, gitrow, flock, pending, gitguard>>
      BY <2>2 DEF ExecDrained
    <3>3. /\ launch[o] = "executing" /\ tree[o] /\ clean'[o] /\ launch'[o] \in {"executing", "kept"}
          /\ launch'[o] = "kept" => tree'[o] /\ monitor'[o] = "off"
          /\ launch'[o] = "executing" => monitor'[o] \in {"final", "publish", "close"}
      BY <2>2 DEF ExecDrained
    <3>q. QED BY <3>1, <3>2, <3>3
  <2>3. CASE ExecReturns(o)
    BY <2>3 DEF ExecReturns
  <2>q. QED BY <1>2, <2>1, <2>2, <2>3 DEF Executing
<1>3. ASSUME NEW o \in Ops, GitStep(o) PROVE KeptInv'
  <2>1. CASE WriteGitGuard(o)
    BY <2>1 DEF WriteGitGuard
  <2>2. CASE BindGit(o)
    BY <2>2 DEF BindGit
  <2>3. CASE ResolveGit(o)
    BY <2>3 DEF ResolveGit
  <2>4. CASE RemoveGitGuard(o)
    BY <2>4 DEF RemoveGitGuard, Unlock, Dropped
  <2>5. CASE GitInterrupted(o)
    BY <2>5 DEF GitInterrupted, Unlock
  <2>q. QED BY <1>3, <2>1, <2>2, <2>3, <2>4, <2>5 DEF GitStep
<1>4. ASSUME NEW o \in Ops, Pulling(o) PROVE KeptInv'
  <2>1. CASE ClaimPull(o)
    BY <2>1 DEF ClaimPull, PullLive
  <2>2. CASE GuardPull(o)
    BY <2>2 DEF GuardPull, PullLive
  <2>3. CASE LinkPull(o)
    BY <2>3 DEF LinkPull, PullLive
  <2>q. QED BY <1>4, <2>1, <2>2, <2>3 DEF Pulling
<1>5. ASSUME NEW o \in Ops, Monitoring(o) PROVE KeptInv'
  <2>1. CASE MonitorDecides(o)
    BY <2>1 DEF MonitorDecides
  <2>2. CASE MonitorReaps(o)
    <3>1. monitor[o] = "reap" /\ o \in Async /\ Kind[o] # "exec"
      BY <2>2 DEF MonitorReaps
    <3>2. /\ launch[o] \notin {"spawned", "running", "kill", "unwind_uncertain", "executing"}
          /\ row[o] # "none"
      BY <3>1
    <3>3. /\ monitor'[o] \in {"claim", "final"}
          /\ \A p \in Ops \ {o} : /\ tree'[p] = tree[p] /\ monitor'[p] = monitor[p]
                                   /\ clean'[p] = clean[p]
          /\ UNCHANGED <<slot, legacy, gitrow, row, flock, pending, gitguard, launch>>
      BY <2>2 DEF MonitorReaps
    <3>4. ASSUME NEW p \in Ops \ {o}
          PROVE  (/\ Spawned(p) /\ Watched(p) /\ GitLocked(p) /\ KeptSlot(p)
                  /\ launch[p] = "bind" => row[p] # "none")'
      BY <3>3
    <3>5. (/\ Spawned(o) /\ Watched(o) /\ GitLocked(o) /\ KeptSlot(o)
           /\ launch[o] = "bind" => row[o] # "none")'
      BY <3>1, <3>2, <3>3
    <3>q. QED BY <3>4, <3>5
  <2>3. CASE ClaimFinalization(o)
    BY <2>3 DEF ClaimFinalization, Doubt
  <2>4. CASE PublishRejected(o)
    BY <2>4 DEF PublishRejected, Doubt
  <2>5. CASE PublishNothing(o)
    BY <2>5 DEF PublishNothing
  <2>6. CASE JournalPublication(o)
    BY <2>6 DEF JournalPublication
  <2>7. CASE ApplyEdits(o)
    BY <2>7 DEF ApplyEdits
  <2>8. CASE ResolvePull(o)
    BY <2>8 DEF ResolvePull
  <2>9. CASE RetireJournal(o)
    BY <2>9 DEF RetireJournal, Dropped
  <2>10. CASE PublicationInterrupted(o)
    BY <2>10 DEF PublicationInterrupted, Doubt, Dropped
  <2>11. CASE CloseTransaction(o)
    <3>1. /\ UNCHANGED <<launch, slot, row, tree, gitrow, pending, gitguard>>
          /\ \A p \in Ops \ {o} : monitor'[p] = monitor[p] /\ clean'[p] = clean[p]
          /\ monitor[o] = "close" /\ monitor'[o] = "final" /\ clean[o]
          /\ \A v \in Workspaces : flock[v] # o => flock'[v] = flock[v]
          /\ ~clean'[o] => UNCHANGED flock
      BY <2>11 DEF CloseTransaction, Doubt, Unlock
    <3>2. Root[o] \in Workspaces /\ flock[Root[o]] = o
      BY <2>11 DEF CloseTransaction
    <3>3. /\ launch[o] \notin {"guarded", "linked", "settled"}
          /\ launch[o] = "kept" => row[o] # "none"
      BY <2>11 DEF CloseTransaction
    <3>4. ASSUME NEW p \in Ops PROVE (Spawned(p) /\ Watched(p) /\ GitLocked(p))'
      BY <3>1, <3>2, <3>3
    <3>5. ASSUME NEW p \in Ops PROVE KeptSlot(p)' /\ (launch'[p] = "bind" => row'[p] # "none")
      BY <3>1, <3>2, <3>3
    <3>q. QED BY <3>4, <3>5
  <2>12. CASE ReadFinalRow(o)
    BY <2>12 DEF ReadFinalRow
  <2>13. CASE WriteFinalRow(o)
    <3>1. UNCHANGED <<launch, tree, gitrow, flock, pending, gitguard, clean>>
      BY <2>13 DEF WriteFinalRow
    <3>2. \A p \in Ops : slot'[p] \in {slot[p], "none"}
      BY <2>13 DEF WriteFinalRow
    <3>3. \A p \in Ops : row[p] # "none" => row'[p] # "none"
      <4>1. verdict[o] # "none"
        BY <2>13 DEF Statuses, Unfinished
      <4>q. QED BY <2>13, <4>1 DEF WriteFinalRow
    <3>4. \A p \in Ops : monitor'[p] # monitor[p] => monitor[p] = "write" /\ monitor'[p] = "done"
      BY <2>13 DEF WriteFinalRow
    <3>q. QED BY <3>1, <3>2, <3>3, <3>4
  <2>q. QED BY <1>5, <2>1, <2>2, <2>3, <2>4, <2>5, <2>6, <2>7, <2>8, <2>9, <2>10, <2>11,
        <2>12, <2>13 DEF Monitoring, Finalizing
<1>6. ASSUME NEW o \in Ops, Cancelling(o) PROVE KeptInv'
  <2>1. CASE CancelLookup(o)
    BY <2>1 DEF CancelLookup
  <2>2. CASE CancelMark(o)
    BY <2>2 DEF CancelMark
  <2>3. CASE CancelSignal(o)
    BY <2>3 DEF CancelSignal
  <2>q. QED BY <1>6, <2>1, <2>2, <2>3 DEF Cancelling
<1>7. ASSUME NEW o \in Ops, Recovering(o) PROVE KeptInv'
  <2>1. CASE RecoverEdits(o)
    BY <2>1 DEF RecoverEdits, Maintenance
  <2>2. CASE RecoverJob(o)
    BY <2>2 DEF RecoverJob, Maintenance
  <2>3. CASE RetireGuard(o)
    BY <2>3 DEF RetireGuard, Maintenance, Dropped
  <2>4. CASE RecoverGit(o)
    BY <2>4 DEF RecoverGit, Maintenance, Dropped
  <2>q. QED BY <1>7, <2>1, <2>2, <2>3, <2>4 DEF Recovering
<1>8. CASE Crash
  BY <1>8 DEF Crash
<1>9. CASE InitDb
  BY <1>9 DEF InitDb, ProtectUnfinished
<1>10. CASE ConfigureResources
  BY <1>10 DEF ConfigureResources
<1>11. CASE UNCHANGED vars
  BY <1>11 DEF vars
<1>q. QED BY <1>1, <1>2, <1>3, <1>4, <1>5, <1>6, <1>7, <1>8, <1>9, <1>10, <1>11 DEF Next

(* The invariant holds in every reachable state.                             *)
LEMMA KeptInvariant == Spec => []KeptInv
<1>1. KeptInv /\ TypeOK /\ SlotInv /\ GitInv /\ PublicationInv /\ [Next]_vars => KeptInv'
  BY KeptStep
<1>q. QED
  BY KeptInit, <1>1, TypeCorrect, SlotInvariant, GitInvariant, PublicationInvariant, PTL DEF Spec

(* A slot that a request keeps stands for a process tree, a job row, a Git link,
   a workspace it could not close, or one that nobody living will unblock: the
   refused launch of admission.py:24 is the only one with nothing of its own.  *)
THEOREM KeptSlotsHaveCause == Spec => []KeptSlotHasCause
<1>1. KeptInv => KeptSlotHasCause
  BY DEF KeptInv, KeptSlotHasCause
<1>q. QED BY <1>1, KeptInvariant, PTL
===============================================================================
