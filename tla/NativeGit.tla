------------------------------ MODULE NativeGit ------------------------------
(***************************************************************************)
(* How a worker's private Git history reaches the canonical repository:     *)
(* WorkspaceGitHistory of sandbox/workspace_git.py, the import program it   *)
(* runs under the journal of sandbox/native_git_journal.py, the custody of  *)
(* the original metadata (git_original_metadata.py), the retirement of the  *)
(* import's lock files (native_git_cleanup.py) and the inspection and       *)
(* rollback of a half-done import (workspace_git_recovery.py).              *)
(*                                                                         *)
(* The owner's own Git commands run at any time; they respect lock files    *)
(* and never wait for the gateway. The gateway, the import and the recovery *)
(* may die between any two steps.                                           *)
(*                                                                         *)
(* Metadata is one branch with its reflog, the stash with its stack, the    *)
(* index and HEAD. What a path holds is an inode with its content:          *)
(*   orig   the inode of the baseline       copy   the verified before copy *)
(*   mid    the copy after update-ref's automatic stash entry               *)
(*   grown  the copy after the authorised reflog entry                      *)
(*   ours   the inode the import installed  owner  whatever the owner wrote *)
(* Objects are content addressed and never undone, so they are left out.    *)
(***************************************************************************)
EXTENDS Naturals

CONSTANTS
  MaxOwnerActs,   \* how often the owner's Git acts
  MaxDies         \* how often a process of the gateway dies

ASSUME NativeAssumption == MaxOwnerActs \in Nat /\ MaxDies \in Nat

Refs == {"ref", "stash"}
Log == [r \in Refs |-> IF r = "ref" THEN "log" ELSE "stashlog"]
Paths == {"ref", "log", "stash", "stashlog", "index", "HEAD"}
RefLock == [r \in Refs |-> IF r = "ref" THEN "ref.lock" ELSE "stash.lock"]
\* The native lock a Git command needs before it writes a path.
LockOf == [p \in Paths |-> CASE p \in {"ref", "log"} -> "ref.lock"
                             [] p \in {"stash", "stashlog"} -> "stash.lock"
                             [] p = "index" -> "index.lock"
                             [] p = "HEAD" -> "HEAD.lock"]
\* The code works through sorted names.
Rank == [HEAD |-> 1, index |-> 2, log |-> 3, stashlog |-> 4, ref |-> 5, stash |-> 6]
First(p, S) == p \in S /\ \A q \in S : Rank[p] <= Rank[q]

Locks == {"ref.lock", "stash.lock", "index.lock", "HEAD.lock"}
Temporaries == {"index.tmp", "stash.tmp", "HEAD.tmp"}
Inodes == {"none", "orig", "copy", "mid", "grown", "ours", "owner"}

VARIABLES
  fresh,     \* paths without an original: a new branch has no reflog either
  change,    \* what the validated plan does to each ref
  cell,      \* what each metadata path holds
  kept,      \* originals in private custody
  left,      \* lock files and temporaries the import left in the metadata
  bound,     \* names the durable journal binds to the import's own descriptors
  guard,     \* the repository's git-pending.json
  phase,     \* the coarse lifecycle record
  at,        \* the next step of the gateway, the import or the recovery
  endpoint,  \* what was reported when the guard was retired
  owned,     \* paths the owner wrote
  gone,      \* originals the owner replaced itself
  ownerActs, dies

nativeVars == <<fresh, change, cell, kept, left, bound, guard, phase, at, endpoint,
                owned, gone, ownerActs, dies>>
journal == <<left, bound>>
ownerState == <<owned, gone, ownerActs>>

\* The snapshot is taken, and the baseline saved, before the worker starts.
NativeInit ==
  /\ fresh \in {{}, {"ref", "log"}}
  /\ change = [r \in Refs |-> "same"]
  /\ cell = [p \in Paths |-> IF p \in fresh THEN "none" ELSE "orig"]
  /\ kept = {} /\ left = {} /\ bound = {}
  /\ guard = "none" /\ phase = "none" /\ at = "plan" /\ endpoint = "none"
  /\ owned = {} /\ gone = {} /\ ownerActs = 0 /\ dies = 0

-----------------------------------------------------------------------------
(* current_state: the logical content the history inspection reports.       *)
Visible == Paths \ {"log"}
IsBefore(p) == cell[p] \in IF p \in fresh THEN {"none"} ELSE {"orig", "copy"}
LooksBefore == \A p \in Visible : IsBefore(p)

\* What each path holds when the plan has been applied.
Planned(p) ==
  CASE p = "ref" -> IF change["ref"] = "same" THEN "copy" ELSE "ours"
    [] p = "log" -> (CASE change["ref"] = "same" -> "copy"
                       [] change["ref"] = "update" -> "grown"
                       [] change["ref"] = "create" -> "ours")
    [] p = "stash" -> (CASE change["stash"] \in {"same", "drop"} -> "copy"
                         [] change["stash"] = "update" -> "ours"
                         [] change["stash"] = "clear" -> "none")
    [] p = "stashlog" -> (CASE change["stash"] = "same" -> "copy"
                            [] change["stash"] \in {"update", "drop"} -> "ours"
                            [] change["stash"] = "clear" -> "none")
    [] p \in {"index", "HEAD"} -> "ours"

\* The stash as the ref transaction leaves it: intermediate_stash.
Intermediate ==
  CASE change["stash"] = "update" -> <<"ours", "mid">>
    [] change["stash"] = "clear" -> <<"none", "none">>
    [] OTHER -> <<"copy", "copy">>

\* verify_git_baseline: every raw inode of the baseline, and no native lock.
Baseline(p) == cell[p] = IF p \in fresh THEN "none" ELSE "orig"

\* _snapshot refuses a tree with a native lock unless recovery takes it.
Snapshot == IF left # {} THEN "locked"
            ELSE IF \A p \in Paths : Baseline(p) THEN "baseline" ELSE "changed"

BaselineHolds == Snapshot = "baseline"

Jump(step) == at' = step
\* A failure after the guard was written leaves everything to recovery.
Abandon == Jump("dead")

-----------------------------------------------------------------------------
(* The gateway: prepare, guard_publication and publish up to the import.    *)

\* _EXPORT: what the validated private state asks of the two refs.
Plans == {c \in [Refs -> {"same", "update", "create", "drop", "clear"}] :
            /\ c["ref"] \in IF fresh = {} THEN {"same", "update"} ELSE {"create"}
            /\ c["stash"] \in {"same", "update", "drop", "clear"}}

\* prepare: the worker is gone, its history is validated and exported. An
\* unchanged history is not published; a plan may also move only index and HEAD.
PreparePlan ==
  /\ at = "plan"
  /\ \/ \E c \in Plans : change' = c /\ Jump("guard")
     \/ UNCHANGED change /\ Jump("done")
     \/ UNCHANGED change /\ Jump("refused")
  /\ UNCHANGED <<fresh, cell, kept, journal, guard, phase, endpoint, ownerState, dies>>

WriteGuard ==
  /\ at = "guard"
  /\ \/ BaselineHolds /\ guard' = "held" /\ Jump("guarded")
     \/ ~BaselineHolds /\ Jump("refused") /\ UNCHANGED guard
  /\ UNCHANGED <<fresh, change, cell, kept, journal, phase, endpoint, ownerState, dies>>

RecordGuarded ==
  /\ at = "guarded"
  /\ phase' = "guarded" /\ Jump("publish")
  /\ UNCHANGED <<fresh, change, cell, kept, journal, guard, endpoint, ownerState, dies>>

\* publish verifies the raw baseline again before it touches any metadata.
ImportStarts ==
  /\ at = "publish"
  /\ IF BaselineHolds THEN Jump("copies") ELSE Abandon
  /\ UNCHANGED <<fresh, change, cell, kept, journal, guard, phase, endpoint, ownerState, dies>>

\* publish_before_copy: the original inode moves into custody ...
TakeOriginal(p) ==
  /\ at = "copies" /\ First(p, Paths \ (fresh \cup kept))
  /\ \A q \in kept : cell[q] # "none"
  /\ \/ /\ cell[p] = "orig"
        /\ kept' = kept \cup {p} /\ cell' = [cell EXCEPT ![p] = "none"]
        /\ UNCHANGED at
     \/ cell[p] # "orig" /\ Abandon /\ UNCHANGED <<cell, kept>>
  /\ UNCHANGED <<fresh, change, journal, guard, phase, endpoint, ownerState, dies>>

\* ... and a recorded copy of it is linked, create-only, at the path.
LinkCopy(p) ==
  /\ at = "copies" /\ p \in kept /\ cell[p] \in {"none", "owner"}
  /\ \/ cell[p] = "none" /\ cell' = [cell EXCEPT ![p] = "copy"] /\ UNCHANGED at
     \/ cell[p] = "owner" /\ Abandon /\ UNCHANGED cell
  /\ UNCHANGED <<fresh, change, kept, journal, guard, phase, endpoint, ownerState, dies>>

RecordStarted ==
  /\ at = "copies" /\ kept = Paths \ fresh
  /\ \A p \in kept : cell[p] # "none"
  /\ phase' = "started" /\ Jump("begin")
  /\ UNCHANGED <<fresh, change, cell, kept, journal, guard, endpoint, ownerState, dies>>

-----------------------------------------------------------------------------
(* The import program. Each creation of a name is followed by a journal     *)
(* event that makes its descriptor binding durable, and each exchange of a  *)
(* name is preceded by an intent event.                                     *)
Creates == [lock_index |-> "index.lock", lock_head |-> "HEAD.lock",
            stage_index |-> "index.tmp", lock_stash |-> "stash.lock",
            stage_stash |-> "stash.tmp", stage_head |-> "HEAD.tmp"]
Installs == [swap_stash |-> "stashlog", swap_index |-> "index", swap_head |-> "HEAD"]
Staged == [p \in {"stashlog", "index", "HEAD"} |->
             CASE p = "stashlog" -> "stash.tmp" [] p = "index" -> "index.tmp"
               [] p = "HEAD" -> "HEAD.tmp"]

\* The event that follows each step, and the step that follows each event.
AfterEvent ==
  [index_locked |-> "lock_head", head_locked |-> "recheck", index_staged |-> "prepare",
   refs_prepared |-> "reverify", refs_committed |-> "after_refs",
   stash_locked |-> "compare", stash_intent |-> "swap_stash",
   index_intent |-> "swap_index", head_intent |-> "swap_head"]
EventOf ==
  [lock_index |-> "index_locked", lock_head |-> "head_locked",
   stage_index |-> "index_staged", lock_stash |-> "stash_locked",
   stage_stash |-> "stash_intent", stage_head |-> "head_intent"]
AfterSwap == [swap_stash |-> "index_intent", swap_index |-> "stage_head", swap_head |-> "verify"]

Changing(r) == change[r] \in {"update", "create"}
\* The preloaded bridge sends the descriptor of every ref lock Git creates.
RefBindings == {r \in Refs : RefLock[r] \in left /\ Changing(r)}
Bindings == left \cup {p \in DOMAIN Staged : Staged[p] \in left}
                 \cup RefBindings

\* An exception: the cleanup event makes the bindings durable, update-ref drops
\* its ref locks, every other name stays for the gateway and the exit is not 0.
HeldLocks == left \ {l \in {"ref.lock", "stash.lock"} : at \in {"refs_prepared", "reverify"}}
Raise ==
  /\ bound' = bound \cup Bindings
  /\ left' = HeldLocks
  /\ Jump("failed")

ImportBegins ==
  /\ at = "begin"
  /\ \/ LooksBefore /\ Jump("lock_index") /\ UNCHANGED journal
     \/ ~LooksBefore /\ Jump("failed") /\ UNCHANGED journal
  /\ UNCHANGED <<fresh, change, cell, kept, guard, phase, endpoint, ownerState, dies>>

\* make_guard: O_EXCL, so a name held by another Git command ends the import.
Create ==
  /\ at \in DOMAIN Creates
  /\ \/ left' = left \cup {Creates[at]} /\ Jump(EventOf[at]) /\ UNCHANGED bound
     \/ Creates[at] \in Locks /\ Raise
  /\ UNCHANGED <<fresh, change, cell, kept, guard, phase, endpoint, ownerState, dies>>

\* Fault: the event records the names but not the files they will replace.
JournalNames ==
  /\ at \in DOMAIN AfterEvent
  /\ bound' = bound \cup left
  /\ Jump(AfterEvent[at])
  /\ UNCHANGED <<fresh, change, cell, kept, left, guard, phase, endpoint, ownerState, dies>>

\* publication_event: a hash-linked record of every descriptor bound so far.
JournalEvent ==
  /\ at \in DOMAIN AfterEvent
  /\ bound' = bound \cup Bindings
  /\ Jump(AfterEvent[at])
  /\ UNCHANGED <<fresh, change, cell, kept, left, guard, phase, endpoint, ownerState, dies>>

\* With index and HEAD locked the canonical state is inspected again.
Recheck ==
  /\ at = "recheck"
  /\ \/ LooksBefore /\ Jump("stage_index") /\ UNCHANGED journal
     \/ ~LooksBefore /\ Raise
  /\ UNCHANGED <<fresh, change, cell, kept, guard, phase, endpoint, ownerState, dies>>

\* update-ref prepare: a no-deref lock on every ref, old values compared.
Prepare ==
  /\ at = "prepare"
  /\ \/ /\ \A r \in Refs : IsBefore(r)
        /\ left' = left \cup {RefLock[r] : r \in Refs}
        /\ Jump("refs_prepared") /\ UNCHANGED bound
     \/ Raise
  /\ UNCHANGED <<fresh, change, cell, kept, guard, phase, endpoint, ownerState, dies>>

\* Every ref is locked: identity and symbolic type are compared once more.
Reverify ==
  /\ at = "reverify"
  /\ \/ LooksBefore /\ Jump("commit") /\ UNCHANGED journal
     \/ ~LooksBefore /\ Raise
  /\ UNCHANGED <<fresh, change, cell, kept, guard, phase, endpoint, ownerState, dies>>

\* update-ref appends to a reflog only after its descriptor was bound with the
\* exact bytes the append may produce (publication_ref_opened).
CommitLog(r) ==
  /\ at = "commit" /\ Changing(r) /\ cell[Log[r]] \in {"none", "copy"}
  /\ r = "stash" => "ref.lock" \notin left
  /\ bound' = bound \cup {Log[r]}
  /\ cell' = [cell EXCEPT ![Log[r]] = IF @ = "none" THEN "ours"
                                      ELSE IF r = "stash" THEN "mid" ELSE "grown"]
  /\ UNCHANGED <<fresh, change, kept, left, guard, phase, at, endpoint, ownerState, dies>>

\* The lock, whose bytes have a receipt, is renamed to the ref.
CommitRef(r) ==
  /\ at = "commit" /\ RefLock[r] \in left
  /\ r = "stash" => "ref.lock" \notin left
  /\ \/ /\ Changing(r) /\ cell[Log[r]] \notin {"none", "copy"}
        /\ cell' = [cell EXCEPT ![r] = "ours"]
     \/ /\ change[r] = "clear"
        /\ cell' = [cell EXCEPT ![r] = "none", ![Log[r]] = "none"]
     \/ change[r] \in {"same", "drop"} /\ UNCHANGED cell
  /\ left' = left \ {RefLock[r]} /\ bound' = bound \ {RefLock[r]}
  /\ UNCHANGED <<fresh, change, kept, guard, phase, at, endpoint, ownerState, dies>>

CommitEnds ==
  /\ at = "commit" /\ \A r \in Refs : RefLock[r] \notin left
  /\ Jump("refs_committed")
  /\ UNCHANGED <<fresh, change, cell, kept, journal, guard, phase, endpoint, ownerState, dies>>

\* Only a changed stash stack needs the stash lock a second time.
AfterRefs ==
  /\ at = "after_refs"
  /\ Jump(IF change["stash"] = "same" THEN "index_intent" ELSE "lock_stash")
  /\ UNCHANGED <<fresh, change, cell, kept, journal, guard, phase, endpoint, ownerState, dies>>

\* Fault: the stack is not compared with the derived intermediate stack.
CompareRefOnly ==
  /\ at = "compare"
  /\ \/ /\ cell["stash"] = Intermediate[1]
        /\ Jump(IF change["stash"] = "clear" THEN "index_intent" ELSE "stage_stash")
        /\ UNCHANGED journal
     \/ cell["stash"] # Intermediate[1] /\ Raise
  /\ UNCHANGED <<fresh, change, cell, kept, guard, phase, endpoint, ownerState, dies>>

\* A drop or clear that won the gap between the two stash locks is kept.
Compare ==
  /\ at = "compare"
  /\ \/ /\ <<cell["stash"], cell["stashlog"]>> = Intermediate
        /\ Jump(IF change["stash"] = "clear" THEN "index_intent" ELSE "stage_stash")
        /\ UNCHANGED journal
     \/ <<cell["stash"], cell["stashlog"]>> # Intermediate /\ Raise
  /\ UNCHANGED <<fresh, change, cell, kept, guard, phase, endpoint, ownerState, dies>>

\* os.replace of a staged name; the lock of the path stays held.
Swap ==
  /\ at \in DOMAIN Installs
  /\ cell' = [cell EXCEPT ![Installs[at]] = "ours"]
  /\ left' = left \ {Staged[Installs[at]]}
  /\ Jump(AfterSwap[at])
  /\ UNCHANGED <<fresh, change, kept, bound, guard, phase, endpoint, ownerState, dies>>

\* The import ends well only in the validated state.
Verify ==
  /\ at = "verify"
  /\ \/ (\A p \in Visible : cell[p] = Planned(p)) /\ Jump("retire") /\ UNCHANGED journal
     \/ (\E p \in Visible : cell[p] # Planned(p)) /\ Raise
  /\ UNCHANGED <<fresh, change, cell, kept, guard, phase, endpoint, ownerState, dies>>

-----------------------------------------------------------------------------
(* The gateway again: retire, the lifecycle record, finish.                 *)

\* Each lock leaves as the exact inode the last event bound.
RetireLock(n) ==
  /\ at = "retire" /\ n \in left \cap bound
  /\ left' = left \ {n}
  /\ UNCHANGED <<fresh, change, cell, kept, bound, guard, phase, at, endpoint, ownerState, dies>>

RecordReturned ==
  /\ at = "retire" /\ left = {}
  /\ phase' = "returned" /\ Jump("finish")
  /\ UNCHANGED <<fresh, change, cell, kept, journal, guard, endpoint, ownerState, dies>>

\* A failed import is recorded too, and its guard stays for recovery.
RecordFailed ==
  /\ at = "failed"
  /\ phase' = "returned" /\ Abandon
  /\ UNCHANGED <<fresh, change, cell, kept, journal, guard, endpoint, ownerState, dies>>

\* finish: the publication was verified as a whole and the guard is retired.
\* Before that, another part of the publication may still fail.
Finish ==
  /\ at = "finish"
  /\ \/ guard' = "retired" /\ endpoint' = "after" /\ Jump("done")
     \/ Abandon /\ UNCHANGED <<guard, endpoint>>
  /\ UNCHANGED <<fresh, change, cell, kept, journal, phase, ownerState, dies>>

-----------------------------------------------------------------------------
(* inspect_git_reconciliation and the rollback of _custody_rollback.        *)

\* inspect_native_git_phases: what the complete hash chain, the descriptor
\* receipts and the opened receipts prove to be the import's own.
Journalled(n) == n \in bound

\* Entries that may be captured, or displaced to restore a kept original: only
\* what a descriptor receipt binds, never what merely has the same bytes.
Proven(p) ==
  \/ cell[p] \in {"none", "copy"}
  \/ cell[p] \in {"mid", "grown", "ours"} /\ Journalled(p)

SafeBefore ==
  /\ phase # "none"
  /\ \A n \in left : Journalled(n)
  /\ \A p \in Paths : \/ Baseline(p)
                      \/ p \in kept /\ Proven(p)
                      \/ p \in fresh /\ cell[p] = "ours" /\ Journalled(p)

StartRecovery ==
  /\ at = "dead" /\ guard = "held" /\ SafeBefore
  /\ Jump("undo")
  /\ UNCHANGED <<fresh, change, cell, kept, journal, guard, phase, endpoint, ownerState, dies>>

\* Every capture of the plan comes before the first restoration.
Captured == left = {} /\ \A p \in fresh : cell[p] # "ours"

\* capture_git_entry of a lock, a temporary or a file that had no original.
CaptureMade(n) ==
  /\ at = "undo" /\ n \in left \cap bound
  /\ left' = left \ {n}
  /\ UNCHANGED <<fresh, change, cell, kept, bound, guard, phase, at, endpoint, ownerState, dies>>

CaptureFresh(p) ==
  /\ at = "undo" /\ p \in fresh /\ cell[p] = "ours" /\ p \in bound
  /\ cell' = [cell EXCEPT ![p] = "none"]
  /\ UNCHANGED <<fresh, change, kept, journal, guard, phase, at, endpoint, ownerState, dies>>

\* restore_original: what is at the path is displaced if it is proven ...
Displace(p) ==
  /\ at = "undo" /\ Captured /\ First(p, kept) /\ cell[p] # "none"
  /\ \/ Proven(p) /\ cell' = [cell EXCEPT ![p] = "none"] /\ UNCHANGED at
     \/ ~Proven(p) /\ Abandon /\ UNCHANGED cell
  /\ UNCHANGED <<fresh, change, kept, journal, guard, phase, endpoint, ownerState, dies>>

\* ... and the original inode is renamed back, never over a later entry.
Restore(p) ==
  /\ at = "undo" /\ Captured /\ First(p, kept) /\ cell[p] = "none"
  /\ cell' = [cell EXCEPT ![p] = "orig"] /\ kept' = kept \ {p}
  /\ UNCHANGED <<fresh, change, journal, guard, phase, at, endpoint, ownerState, dies>>

\* Fault: an original still in custody counts as restored.
VerifyKept ==
  /\ at = "undo"
  /\ left = {} /\ \A p \in Paths : Baseline(p) \/ p \in kept
  /\ Jump("release")
  /\ UNCHANGED <<fresh, change, cell, kept, journal, guard, phase, endpoint, ownerState, dies>>

\* The before endpoint is inspected again; a difference keeps both guards.
VerifyBefore ==
  /\ at = "undo"
  /\ kept = {} /\ Captured
  /\ IF \A p \in Paths : Baseline(p) THEN Jump("release") ELSE Abandon
  /\ UNCHANGED <<fresh, change, cell, kept, journal, guard, phase, endpoint, ownerState, dies>>

Release ==
  /\ at = "release"
  /\ guard' = "retired" /\ endpoint' = "before" /\ Jump("done")
  /\ UNCHANGED <<fresh, change, cell, kept, journal, phase, ownerState, dies>>

-----------------------------------------------------------------------------
(* The owner's Git, and deaths.                                             *)
OwnerWrites(paths) ==
  /\ ownerActs < MaxOwnerActs
  /\ \A p \in paths : LockOf[p] \notin left
  /\ cell' = [p \in Paths |-> IF p \in paths THEN "owner" ELSE cell[p]]
  /\ owned' = owned \cup paths
  /\ gone' = gone \cup {p \in paths : cell[p] = "orig"}
  /\ ownerActs' = ownerActs + 1
  /\ UNCHANGED <<fresh, change, kept, journal, guard, phase, at, endpoint, dies>>

\* branch -f or fetch, add, switch, stash push or drop of the top, drop below it.
OwnerGit ==
  \/ OwnerWrites({"ref", "log"})
  \/ OwnerWrites({"index"})
  \/ cell["HEAD"] # "none" /\ OwnerWrites({"HEAD"})
  \/ OwnerWrites({"stash", "stashlog"})
  \/ cell["stashlog"] # "none" /\ OwnerWrites({"stashlog"})

\* A lock file that a dead import left is removed by hand.
OwnerUnlocks ==
  /\ at = "dead" /\ ownerActs < MaxOwnerActs
  /\ \E n \in left : left' = left \ {n}
  /\ ownerActs' = ownerActs + 1
  /\ UNCHANGED <<fresh, change, cell, kept, bound, guard, phase, at, endpoint, owned, gone, dies>>

\* A kill, a timeout or a power cut; what is in the metadata stays as it is.
Die ==
  /\ dies < MaxDies /\ at \notin {"plan", "guard", "refused", "dead", "done"}
  /\ Abandon /\ dies' = dies + 1
  /\ UNCHANGED <<fresh, change, cell, kept, journal, guard, phase, endpoint, ownerState>>

HostStep ==
  \/ PreparePlan \/ WriteGuard \/ RecordGuarded \/ ImportStarts \/ RecordStarted \/ RecordReturned
  \/ RecordFailed \/ Finish
  \/ \E p \in Paths : TakeOriginal(p) \/ LinkCopy(p)
  \/ \E n \in Locks : RetireLock(n)

ImportStep ==
  \/ ImportBegins \/ Create \/ JournalEvent \/ Recheck \/ Prepare \/ Reverify
  \/ CommitEnds \/ AfterRefs \/ Compare \/ Swap \/ Verify
  \/ \E r \in Refs : CommitLog(r) \/ CommitRef(r)

RecoveryStep ==
  \/ StartRecovery \/ VerifyBefore \/ Release
  \/ \E n \in Locks \cup Temporaries : CaptureMade(n)
  \/ \E p \in Paths : CaptureFresh(p) \/ Displace(p) \/ Restore(p)

NativeNext == HostStep \/ ImportStep \/ RecoveryStep \/ OwnerGit \/ OwnerUnlocks \/ Die

NativeSpec == NativeInit /\ [][NativeNext]_nativeVars

-----------------------------------------------------------------------------
(* Properties.                                                              *)
NativeTypeOK ==
  /\ fresh \subseteq Paths
  /\ change \in [Refs -> {"same", "update", "create", "drop", "clear"}]
  /\ cell \in [Paths -> Inodes]
  /\ kept \subseteq Paths /\ owned \subseteq Paths /\ gone \subseteq Paths
  /\ left \subseteq Locks \cup Temporaries
  /\ bound \subseteq Locks \cup Temporaries \cup Paths
  /\ guard \in {"none", "held", "retired"}
  /\ phase \in {"none", "guarded", "started", "returned"}
  /\ endpoint \in {"none", "before", "after"}
  /\ ownerActs \in 0..MaxOwnerActs /\ dies \in 0..MaxDies

\* The owner's metadata is never lost to an import or its rollback: what the
\* owner's Git wrote stays where it was written, and the original inode of every
\* path is there or in custody unless the owner replaced it.
OwnerMetadataKept ==
  \A p \in Paths :
    /\ p \in owned => cell[p] = "owner"
    /\ p \notin fresh \cup gone => cell[p] = "orig" \/ p \in kept

\* The guard goes only at one coherent endpoint: after a finished import nothing
\* of the old state is left in place, after a rollback every original is back,
\* and in both cases no lock file or temporary of the import is left behind.
NoMixedEndpoint ==
  guard = "retired" =>
    /\ left = {}
    /\ endpoint = "after" => \A p \in Paths : cell[p] \in {Planned(p), "owner"}
    /\ endpoint = "before" => kept = {} /\ \A p \in Paths : Baseline(p) \/ cell[p] = "owner"

\* A dead import can be rolled back unless the owner acted, the guard never got
\* its lifecycle record, or the death fell between a name's creation and the
\* journal event that binds it: no installed file is ever without its binding.
RecoveryBlockedHasCause ==
  at = "dead" /\ guard = "held" /\ ~SafeBefore =>
    ownerActs > 0 \/ phase = "none" \/ ~(left \subseteq bound)
=============================================================================
