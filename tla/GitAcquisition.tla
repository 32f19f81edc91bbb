--------------------------- MODULE GitAcquisition ---------------------------
(***************************************************************************)
(* An approved pull or clone inside a running job (git_pulls.py,           *)
(* git_clones.py): the approval is spent and the objects are brought into  *)
(* the job's private copy while the worker lives; the workspace changes    *)
(* only when the job is finalized.  In between the spent approval is       *)
(* represented by a guard at the workspace's git-pending path, a link of   *)
(* the job's slot (git_admissions) and, for a clone, an intent on disk.    *)
(* The gateway may die between any two steps; the owner may put something  *)
(* at the destination, replace the guard or change the policy, and settles *)
(* what is left with recover_clone or recover_workspace.                   *)
(*                                                                         *)
(* The inner steps of ordinary publication are in WorkspacePublication and *)
(* WorkspaceDirectories, those of the references in NativeGit: here the    *)
(* workspace is before, half or after.                                     *)
(***************************************************************************)
EXTENDS Naturals

CONSTANTS
    Kinds,       \* the acquisitions of the instance, of "pull" and "clone"
    MaxDeaths,   \* bound: deaths of the gateway and of a recovery command
    MaxActs      \* bound: acts of the owner

ASSUME AcquisitionAssumption ==
    /\ Kinds \subseteq {"pull", "clone"}
    /\ MaxDeaths \in Nat /\ MaxActs \in Nat

VARIABLES
    kind,      \* the operation the job's worker asks for
    row,       \* jobs.status
    slot,      \* the job's row in job_admissions
    link,      \* git_admissions of that slot: none, active, resolved
    spent,     \* the approval is in the ledger
    guard,     \* at the git-pending path: none, ours, history, owner
    papers,    \* private files of a clone: prepared guard, intent, record
    held,      \* guards in custody: rejected, consumed, history
    journal,   \* the publication journal: none, first, full, held
    bundle,    \* the retirement bundle: none, active, done
    receipts,  \* published, rolled back
    canon,     \* the workspace: before, half, after; moved, touched by its owner
    policy,    \* grant, policy digest and registration are what was approved
    live,      \* the worker's process
    clean,     \* it ended with exit code 0
    pending,   \* _private_pull_pending, _private_clone_pending
    pc,        \* where the gateway is with this job
    gateway,   \* up or down
    plan,      \* the plan the owner reviewed
    rpc,       \* where the recovery command is
    deaths, acts

public == <<row, slot, link, spent, guard, papers, held, journal, bundle,
            receipts, canon>>
memory == <<live, clean, pending, pc, gateway>>
tool == <<plan, rpc>>
bounds == <<kind, deaths, acts>>
vars == <<public, memory, tool, policy, bounds>>

Files == {"prepared", "intent", "record"}
NoPlan == [endpoint |-> "none", consumed |-> FALSE, canon |-> "before"]

FilesOK ==
    /\ kind \in Kinds
    /\ row \in {"running", "finalizing", "completed", "failed",
                "cleanup_failed", "interrupted", "recovered"}
    /\ link \in {"none", "active", "resolved"}
    /\ guard \in {"none", "ours", "history", "owner"}
    /\ papers \subseteq Files
    /\ held \subseteq {"rejected", "consumed", "history"}
    /\ journal \in {"none", "first", "full", "held"}
    /\ bundle \in {"none", "active", "done"}
    /\ receipts \subseteq {"published", "rolled_back"}
    /\ canon \in {"before", "half", "after", "moved", "touched"}
    /\ gateway \in {"up", "down"}
FlagsOK == {slot, spent, policy, live, clean, pending} \subseteq BOOLEAN
TypeOK == FilesOK /\ FlagsOK

Init ==
    /\ kind \in Kinds
    /\ row = "running" /\ slot = TRUE /\ link = "none" /\ spent = FALSE
    /\ guard = "none" /\ papers = {} /\ held = {}
    /\ journal = "none" /\ bundle = "none" /\ receipts = {}
    /\ canon = "before" /\ policy = TRUE
    /\ live = TRUE /\ clean = FALSE /\ pending = FALSE
    /\ pc = "idle" /\ gateway = "up" /\ plan = NoPlan /\ rpc = "idle"
    /\ deaths = 0 /\ acts = 0

(* The gateway's thread moves on; nothing of the files or tables changes    *)
(* that the action does not name.                                           *)
Goto(from, to) == pc = from /\ pc' = to
Quiet == UNCHANGED <<live, clean, gateway, tool, policy, bounds>>

-----------------------------------------------------------------------------
(* A clone                                                                  *)

(* _context: the exact running job with its transaction and its slot.       *)
RunningJob == live /\ row = "running"

(* _validate_job and CloneBirthAuthorization.validate: the exact running    *)
(* job, its live process, its transaction, the policy and the grant.        *)
LiveJob == RunningJob /\ policy

PrepareClone ==
    /\ kind = "clone" /\ Goto("idle", "prepared")
    /\ LiveJob /\ canon = "before"
    /\ UNCHANGED <<public, pending>> /\ Quiet

(* _execute_locked up to the marker: nothing pending, scope, destination    *)
(* and receipt as prepared, no guard at the path.                           *)
BeginClone ==
    /\ kind = "clone" /\ Goto("prepared", "intending")
    /\ LiveJob /\ ~pending /\ canon = "before" /\ ~spent /\ guard = "none"
    /\ pending' = TRUE
    /\ UNCHANGED public /\ Quiet

WritePaper(from, to, paper) ==
    /\ kind = "clone" /\ Goto(from, to)
    /\ papers' = papers \cup {paper}
    /\ UNCHANGED <<row, slot, link, spent, guard, held, journal, bundle,
                   receipts, canon, pending>> /\ Quiet

WritePrepared == WritePaper("intending", "papered", "prepared")
WriteIntent == WritePaper("papered", "intended", "intent")

(* The prepared guard becomes the workspace's guard in one create-only      *)
(* rename.                                                                  *)
PlaceGuard ==
    /\ kind = "clone" /\ Goto("intended", "placed")
    /\ guard = "none"
    /\ guard' = "ours" /\ papers' = papers \ {"prepared"}
    /\ UNCHANGED <<row, slot, link, spent, held, journal, bundle, receipts,
                   canon, pending>> /\ Quiet

RecordGuard == guard = "ours" /\ WritePaper("placed", "recorded", "record")

LinkSlot(from) ==
    /\ Goto(from, "linked")
    /\ slot /\ link = "none"
    /\ link' = "active"
    /\ UNCHANGED <<row, slot, spent, guard, papers, held, journal, bundle,
                   receipts, canon, pending>> /\ Quiet

LinkClone == kind = "clone" /\ LinkSlot("recorded")

ClaimClone ==
    /\ kind = "clone" /\ Goto("linked", "claimed")
    /\ LiveJob
    /\ spent' = TRUE
    /\ UNCHANGED <<row, slot, link, guard, papers, held, journal, bundle,
                   receipts, canon, pending>> /\ Quiet

(* consume_clone after the claim: the destination and the authority again,  *)
(* then the fixed program fills the private copy.                           *)
MakeClone ==
    /\ kind = "clone" /\ Goto("claimed", "made")
    /\ LiveJob /\ canon = "before"
    /\ UNCHANGED <<public, pending>> /\ Quiet

AttachClone ==
    /\ kind = "clone" /\ Goto("made", "ready")
    /\ LiveJob
    /\ UNCHANGED <<public, pending>> /\ Quiet

(* Any of these steps may raise, before or after what it did.               *)
CloneFails ==
    /\ kind = "clone"
    /\ pc \in {"intending", "papered", "intended", "placed", "recorded",
               "linked", "claimed", "made"}
    /\ pc' = "failed"
    /\ UNCHANGED <<public, pending>> /\ Quiet

(* The handler asks the ledger, not the exception, whether the approval     *)
(* was spent.                                                               *)
KeepClaimed ==
    /\ Goto("failed", "retained")
    /\ spent
    /\ UNCHANGED <<public, pending>> /\ Quiet

Placed == "intent" \in papers /\ "prepared" \notin papers

(* Fault: every failed call is taken for one that spent nothing.            *)
RejectAnyGuard ==
    /\ pc = "failed" /\ pc' = "rejected"
    /\ guard' = "none" /\ held' = held \cup {"rejected"}
    /\ UNCHANGED <<row, slot, link, spent, papers, journal, bundle, receipts,
                   canon, pending>> /\ Quiet

(* A guard of an unspent approval goes into custody of its own; if it is    *)
(* no longer ours everything is retained.                                   *)
RejectGuard ==
    /\ pc = "failed" /\ ~spent
    /\ IF ~Placed THEN pc' = "rejected" /\ UNCHANGED <<guard, held>>
       ELSE IF guard = "ours"
       THEN /\ pc' = "rejected" /\ guard' = "none"
            /\ held' = held \cup {"rejected"}
       ELSE pc' = "retained" /\ UNCHANGED <<guard, held>>
    /\ UNCHANGED <<row, slot, link, spent, papers, journal, bundle, receipts,
                   canon, pending>> /\ Quiet

FinishReject ==
    /\ Goto("rejected", "refused")
    /\ link' = IF link = "active" THEN "resolved" ELSE link
    /\ pending' = FALSE
    /\ UNCHANGED <<row, slot, spent, guard, papers, held, journal, bundle,
                   receipts, canon>> /\ Quiet

-----------------------------------------------------------------------------
(* A pull                                                                   *)

(* _proposal: the pack is fetched and imported into the private copy only;  *)
(* the workspace is inspected before and after.                             *)
Proposable == policy /\ canon = "before"

BeginPull ==
    /\ kind = "pull" /\ Goto("idle", "asking")
    /\ RunningJob /\ ~pending /\ Proposable
    /\ pending' = TRUE
    /\ UNCHANGED public /\ Quiet

ClaimPull ==
    /\ Goto("asking", "spent")
    /\ policy /\ ~spent
    /\ spent' = TRUE
    /\ UNCHANGED <<row, slot, link, guard, papers, held, journal, bundle,
                   receipts, canon, pending>> /\ Quiet

RefusePull ==
    /\ Goto("asking", "refused")
    /\ pending' = FALSE
    /\ UNCHANGED public /\ Quiet

(* _write_fetch_guard links a complete file and never replaces one.         *)
GuardPull ==
    /\ Goto("spent", "guarded")
    /\ guard = "none"
    /\ guard' = "ours"
    /\ UNCHANGED <<row, slot, link, spent, papers, held, journal, bundle,
                   receipts, canon, pending>> /\ Quiet

LinkPull == kind = "pull" /\ LinkSlot("guarded")

(* The offline program merges, or answers that it cannot: then there is no  *)
(* publication intent and the candidate stays where it is.                  *)
Integrate ==
    /\ kind = "pull" /\ pc = "linked" /\ pc' \in {"integrated", "unmerged"}
    /\ LiveJob
    /\ UNCHANGED <<public, pending>> /\ Quiet

AttachPull ==
    /\ Goto("integrated", "ready")
    /\ LiveJob /\ canon = "before" /\ guard = "ours" /\ link = "active"
    /\ UNCHANGED <<public, pending>> /\ Quiet

PullFails ==
    /\ kind = "pull"
    /\ pc \in {"spent", "guarded", "linked", "integrated"}
    /\ pc' = "retained"
    /\ UNCHANGED <<public, pending>> /\ Quiet

-----------------------------------------------------------------------------
(* The end of the job                                                       *)

EndWorker ==
    /\ live /\ live' = FALSE
    /\ clean' \in BOOLEAN
    /\ UNCHANGED <<public, pending, pc, gateway, tool, policy, bounds>>

(* The monitor closes the worker's Git service first (WorkerGit), so no     *)
(* call is in progress.                                                     *)
Resting == {"idle", "prepared", "refused", "ready", "retained", "unmerged"}

(* _finalize_workspace_edits without a publication: with a pending marker   *)
(* the slot stays.                                                          *)
FinalizeUnclean ==
    /\ ~live /\ ~clean /\ row = "running" /\ pc \in Resting
    /\ row' = IF pending THEN "cleanup_failed" ELSE "failed"
    /\ slot' = pending
    /\ pc' = "over"
    /\ UNCHANGED <<link, spent, guard, papers, held, journal, bundle, receipts,
                   canon, pending>> /\ Quiet

FinalizeOrdinary ==
    /\ ~live /\ clean /\ row = "running" /\ pc \in Resting /\ ~pending
    /\ row' = "completed" /\ slot' = FALSE
    /\ pc' = "over"
    /\ UNCHANGED <<link, spent, guard, papers, held, journal, bundle, receipts,
                   canon, pending>> /\ Quiet

ClaimFinalization ==
    /\ ~live /\ clean /\ row = "running" /\ pc \in Resting /\ pending
    /\ row' = "finalizing"
    /\ pc' = IF pc = "ready" THEN "validating" ELSE "stopped"
    /\ UNCHANGED <<slot, link, spent, guard, papers, held, journal, bundle,
                   receipts, canon, pending>> /\ Quiet

(* validate_pull_authorization: the protected policy is the one the request *)
(* was approved under, and its approval is in the ledger.                   *)
SpentAuthority == policy /\ spent

(* The intent's validate (and the pull's prepare): the same authority, the  *)
(* link still active, the guard still ours.                                 *)
IntentValid == SpentAuthority /\ slot /\ link = "active" /\ guard = "ours"

ValidateIntent ==
    /\ Goto("validating", "journalling")
    /\ IntentValid
    /\ kind = "pull" => canon = "before"
    /\ UNCHANGED <<public, pending>> /\ Quiet

(* The first journal of a pull cannot name the guard that publication       *)
(* writes next.                                                             *)
WriteJournal ==
    /\ pc = "journalling" /\ canon = "before"
    /\ IF kind = "clone" THEN journal' = "full" /\ pc' = "publishing"
                         ELSE journal' = "first" /\ pc' = "migrating"
    /\ UNCHANGED <<row, slot, link, spent, guard, papers, held, bundle,
                   receipts, canon, pending>> /\ Quiet

MoveGuard ==
    /\ Goto("migrating", "guarding")
    /\ IntentValid
    /\ guard' = "none" /\ held' = held \cup {"consumed"}
    /\ UNCHANGED <<row, slot, link, spent, papers, journal, bundle, receipts,
                   canon, pending>> /\ Quiet

WriteHistoryGuard ==
    /\ Goto("guarding", "binding")
    /\ guard = "none"
    /\ guard' = "history"
    /\ UNCHANGED <<row, slot, link, spent, papers, held, journal, bundle,
                   receipts, canon, pending>> /\ Quiet

BindJournal ==
    /\ Goto("binding", "publishing")
    /\ guard = "history"
    /\ journal' = "full"
    /\ UNCHANGED <<row, slot, link, spent, guard, papers, held, bundle,
                   receipts, canon, pending>> /\ Quiet

Publish ==
    /\ pc = "publishing"
    /\ \/ canon = "before" /\ canon' = "half" /\ UNCHANGED pc
       \/ canon = "half" /\ canon' = "after" /\ pc' = "verifying"
    /\ UNCHANGED <<row, slot, link, spent, guard, papers, held, journal,
                   bundle, receipts, pending>> /\ Quiet

(* Fault: the receipt is written without a look at what was published.      *)
WriteReceiptUnverified ==
    /\ pc \in {"publishing", "verifying"} /\ pc' = "retiring"
    /\ receipts' = receipts \cup {"published"}
    /\ UNCHANGED <<row, slot, link, spent, guard, papers, held, journal,
                   bundle, canon, pending>> /\ Quiet

WriteReceipt ==
    /\ Goto("verifying", "retiring")
    /\ canon = "after"
    /\ receipts' = receipts \cup {"published"}
    /\ UNCHANGED <<row, slot, link, spent, guard, papers, held, journal,
                   bundle, canon, pending>> /\ Quiet

(* ClonePublicationIntent.finish: the guard goes into custody inside the    *)
(* transaction that resolves the link; the journal goes last.               *)
RetireClone ==
    /\ kind = "clone" /\ Goto("retiring", "captured")
    /\ IntentValid
    /\ guard' = "none" /\ held' = held \cup {"consumed"}
    /\ UNCHANGED <<row, slot, link, spent, papers, journal, bundle, receipts,
                   canon, pending>> /\ Quiet

ResolveClone ==
    /\ Goto("captured", "unlinking")
    /\ link' = "resolved" /\ pending' = FALSE
    /\ UNCHANGED <<row, slot, spent, guard, papers, held, journal, bundle,
                   receipts, canon>> /\ Quiet

UnlinkJournal ==
    /\ Goto("unlinking", "applied")
    /\ journal' = "none"
    /\ UNCHANGED <<row, slot, link, spent, guard, papers, held, bundle,
                   receipts, canon, pending>> /\ Quiet

(* A pull retires its two guards through the recovery bundle, the history's *)
(* first, and resolves the link before the bundle is done.                  *)
PrepareBundle ==
    /\ kind = "pull" /\ Goto("retiring", "bundled")
    /\ bundle' = "active"
    /\ UNCHANGED <<row, slot, link, spent, guard, papers, held, journal,
                   receipts, canon, pending>> /\ Quiet

CaptureHistoryGuard ==
    /\ guard = "history"
    /\ guard' = "none" /\ held' = held \cup {"history"}
    /\ UNCHANGED <<row, slot, link, spent, papers, journal, bundle, receipts,
                   canon>>

CaptureJournal ==
    /\ journal = "full"
    /\ journal' = "held"
    /\ UNCHANGED <<row, slot, link, spent, guard, papers, held, bundle,
                   receipts, canon>>

RetireHistory ==
    Goto("bundled", "half_retired") /\ CaptureHistoryGuard
    /\ UNCHANGED pending /\ Quiet

RetireJournal ==
    Goto("half_retired", "resolving") /\ CaptureJournal
    /\ UNCHANGED pending /\ Quiet

ResolvePull ==
    /\ Goto("resolving", "closing")
    /\ policy /\ slot /\ link = "active"
    /\ link' = "resolved"
    /\ UNCHANGED <<row, slot, spent, guard, papers, held, journal, bundle,
                   receipts, canon, pending>> /\ Quiet

FinishBundle ==
    /\ Goto("closing", "applied")
    /\ bundle' = "done" /\ pending' = FALSE
    /\ UNCHANGED <<row, slot, link, spent, guard, papers, held, journal,
                   receipts, canon>> /\ Quiet

Complete ==
    /\ Goto("applied", "over")
    /\ row' = "completed" /\ slot' = FALSE
    /\ UNCHANGED <<link, spent, guard, papers, held, journal, bundle, receipts,
                   canon, pending>> /\ Quiet

(* Publication raises where it stands: the row says so and the slot stays.  *)
Finalizing == {"stopped", "validating", "journalling", "migrating", "guarding",
               "binding", "publishing", "verifying", "retiring", "captured",
               "unlinking", "bundled", "half_retired", "resolving", "closing"}

FailFinalization ==
    /\ pc \in Finalizing
    /\ row' = "cleanup_failed" /\ pc' = "over"
    /\ UNCHANGED <<slot, link, spent, guard, papers, held, journal, bundle,
                   receipts, canon, pending>> /\ Quiet

-----------------------------------------------------------------------------
(* The gateway's death and start, and the owner                             *)

Die ==
    /\ gateway = "up" /\ deaths < MaxDeaths
    /\ gateway' = "down" /\ live' = FALSE /\ pending' = FALSE /\ pc' = "gone"
    /\ deaths' = deaths + 1
    /\ UNCHANGED <<public, clean, tool, policy, kind, acts>>

Stop ==
    /\ gateway = "up" /\ pc \in {"over", "gone"}
    /\ gateway' = "down"
    /\ UNCHANGED <<public, live, clean, pending, pc, tool, policy, bounds>>

(* Fault: the sweep spares failed jobs only, not the slots a link counts.   *)
StartWithoutLinks ==
    /\ gateway = "down" /\ rpc = "idle" /\ row \in {"running", "finalizing"}
    /\ gateway' = "up"
    /\ row' = IF row = "running" THEN "interrupted" ELSE "cleanup_failed"
    /\ slot' = (slot /\ row' = "cleanup_failed")
    /\ UNCHANGED <<link, spent, guard, papers, held, journal, bundle, receipts,
                   canon, live, clean, pending, pc, tool, policy, bounds>>

(* configure_resources; a start that finds nothing to settle is left out.   *)
Start ==
    /\ gateway = "down" /\ rpc = "idle" /\ row \in {"running", "finalizing"}
    /\ gateway' = "up"
    /\ row' = IF row = "running" THEN "interrupted" ELSE "cleanup_failed"
    /\ slot' = (slot /\ (link = "active" \/ row' = "cleanup_failed"))
    /\ UNCHANGED <<link, spent, guard, papers, held, journal, bundle, receipts,
                   canon, live, clean, pending, pc, tool, policy, bounds>>

OwnerActs ==
    /\ acts < MaxActs /\ acts' = acts + 1
    /\ \/ /\ canon \in {"before", "after"}
          /\ canon' = IF canon = "before" THEN "moved" ELSE "touched"
          /\ UNCHANGED <<guard, policy>>
       \/ /\ guard \in {"ours", "history"} /\ guard' = "owner"
          /\ UNCHANGED <<canon, policy>>
       \/ policy /\ policy' = FALSE /\ UNCHANGED <<canon, guard>>
    /\ UNCHANGED <<row, slot, link, spent, papers, held, journal, bundle,
                   receipts, memory, tool, kind, deaths>>

-----------------------------------------------------------------------------
(* The recovery commands                                                    *)

(* _binding: a stopped job of this transaction; the slot is still the job's *)
(* unless the link is resolved.                                             *)
StoppedJob == row \in {"cleanup_failed", "finalizing", "recovered"}
Binding == StoppedJob /\ (link # "resolved" => slot)

(* Fault: a guard that finalization already took into custody is not found. *)
GuardAtPath ==
    \/ guard = "ours"
    \/ guard = "none" /\ "prepared" \in papers /\ "record" \notin papers

(* _intent: the guard is at the path, or was never placed, or is in the     *)
(* custody of consumed guards.                                              *)
GuardFound ==
    \/ guard = "ours"
    \/ guard = "none" /\ "prepared" \in papers /\ "record" \notin papers
    \/ guard = "none" /\ "prepared" \notin papers /\ "consumed" \in held
IntentRead == "intent" \in papers /\ policy /\ GuardFound /\ Binding

Undoable == canon \in {"before", "half", "after"}
JournalThere == journal \in {"first", "full"}
Retained == journal = "held" /\ bundle = "active"   \* find_unfinished

(* _custody_rollback's inspection: of a clone its intent, spent; of a pull  *)
(* both its guards, the one the journal names and the consumed one, and the *)
(* admission.                                                               *)
RollbackAccepted ==
    /\ JournalThere \/ Retained
    /\ Undoable /\ SpentAuthority
    /\ kind = "clone" => IntentRead
    /\ kind = "pull" =>
         /\ journal # "first" /\ "consumed" \in held
         /\ guard = "history" \/ "history" \in held
         /\ Binding /\ link # "none"

(* The plan of recover_workspace, and of recover_clone, which consults it   *)
(* only while the journal is at its path.                                   *)
WorkspacePlan == [endpoint |-> "rollback", consumed |-> spent, canon |-> canon]
ClonePlans ==
    IF JournalThere
    THEN IF RollbackAccepted THEN {WorkspacePlan} ELSE {}
    ELSE LET Ends(e) == {[endpoint |-> e, consumed |-> spent, canon |-> canon]}
         IN IF "rolled_back" \in receipts THEN Ends("before")
            ELSE IF "published" \in receipts
            THEN IF spent /\ canon = "after" THEN Ends("after") ELSE {}
            ELSE IF canon = "before" THEN Ends("before") ELSE {}
Plans ==
    (IF kind = "clone" /\ IntentRead THEN ClonePlans ELSE {})
        \cup (IF RollbackAccepted THEN {WorkspacePlan} ELSE {})

Recovery(from, to) ==
    /\ gateway = "down" /\ rpc = from /\ rpc' = to
    /\ UNCHANGED <<memory, policy, bounds>>

PlanRecovery ==
    /\ Recovery("idle", "reviewed")
    /\ plan' \in Plans
    /\ UNCHANGED public

(* --apply plans again and compares the digest.                             *)
CaptureForClone ==
    /\ Recovery("reviewed", "settling")
    /\ plan.endpoint # "rollback" /\ plan \in Plans
    /\ IF guard = "ours" THEN guard' = "none" /\ held' = held \cup {"consumed"}
                         ELSE UNCHANGED <<guard, held>>
    /\ UNCHANGED <<row, slot, link, spent, papers, journal, bundle, receipts,
                   canon, plan>>

SettleClone ==
    /\ Recovery("settling", "idle")
    /\ link' = "resolved" /\ row' = "recovered" /\ slot' = FALSE
    /\ plan' = NoPlan
    /\ UNCHANGED <<spent, guard, papers, held, journal, bundle, receipts,
                   canon>>

BeginRollback ==
    /\ Recovery("reviewed", "undoing")
    /\ plan.endpoint = "rollback" /\ plan \in Plans
    /\ bundle' = "active"
    /\ UNCHANGED <<row, slot, link, spent, guard, papers, held, journal,
                   receipts, canon, plan>>

Undo ==
    /\ Recovery("undoing", "undoing")
    /\ canon \in {"half", "after"}
    /\ canon' = IF canon = "after" THEN "half" ELSE "before"
    /\ UNCHANGED <<row, slot, link, spent, guard, papers, held, journal,
                   bundle, receipts, plan>>

WriteRollback ==
    /\ Recovery("undoing", "undone")
    /\ canon = "before"
    /\ receipts' = receipts \cup {"rolled_back"}
    /\ UNCHANGED <<row, slot, link, spent, guard, papers, held, journal,
                   bundle, canon, plan>>

(* A pull's link and slot are settled here, a clone's by recover_clone.     *)
SettleRollback ==
    /\ Recovery("undone", "retiring")
    /\ row' = "recovered"
    /\ IF kind = "pull" THEN link' = "resolved" /\ slot' = FALSE
                        ELSE UNCHANGED <<link, slot>>
    /\ UNCHANGED <<spent, guard, papers, held, journal, bundle, receipts,
                   canon, plan>>

RetireRecovered ==
    \/ Recovery("retiring", "retiring") /\ CaptureHistoryGuard /\ UNCHANGED plan
    \/ /\ Recovery("retiring", "retiring") /\ guard # "history"
       /\ CaptureJournal /\ UNCHANGED plan
    \/ /\ Recovery("retiring", "idle")
       /\ guard # "history" /\ journal = "held"
       /\ bundle' = "done" /\ plan' = NoPlan
       /\ UNCHANGED <<row, slot, link, spent, guard, papers, held, journal,
                      receipts, canon>>

(* A step refuses what the owner changed meanwhile, or the command dies.    *)
AbandonRecovery ==
    /\ rpc # "idle" /\ rpc' = "idle" /\ plan' = NoPlan
    /\ \/ deaths < MaxDeaths /\ deaths' = deaths + 1
       \/ UNCHANGED deaths /\ rpc = "reviewed" /\ plan \notin Plans
       \/ UNCHANGED deaths /\ rpc = "undoing" /\ ~Undoable
       \/ UNCHANGED deaths /\ rpc = "retiring" /\ guard = "owner"
    /\ UNCHANGED <<public, memory, policy, kind, acts>>

-----------------------------------------------------------------------------
Acquire ==
    \/ PrepareClone \/ BeginClone \/ WritePrepared \/ WriteIntent \/ PlaceGuard
    \/ RecordGuard \/ LinkClone \/ ClaimClone \/ MakeClone \/ AttachClone
    \/ CloneFails \/ KeepClaimed \/ RejectGuard \/ FinishReject
    \/ BeginPull \/ ClaimPull \/ RefusePull \/ GuardPull \/ LinkPull
    \/ Integrate \/ AttachPull \/ PullFails

Finalize ==
    \/ EndWorker \/ FinalizeUnclean \/ FinalizeOrdinary \/ ClaimFinalization
    \/ ValidateIntent \/ WriteJournal \/ MoveGuard \/ WriteHistoryGuard
    \/ BindJournal \/ Publish \/ WriteReceipt \/ RetireClone \/ ResolveClone
    \/ UnlinkJournal \/ PrepareBundle \/ RetireHistory \/ RetireJournal
    \/ ResolvePull \/ FinishBundle \/ Complete \/ FailFinalization

Recover ==
    \/ PlanRecovery \/ CaptureForClone \/ SettleClone \/ BeginRollback \/ Undo
    \/ WriteRollback \/ SettleRollback \/ RetireRecovered \/ AbandonRecovery

Next == Acquire \/ Finalize \/ Recover \/ Die \/ Stop \/ Start \/ OwnerActs

(* The owner stops a gateway that has nothing to do, and runs the recovery  *)
(* command, again if it did not end.                                        *)
Spec == /\ Init /\ [][Next]_vars
        /\ WF_vars(Recover) /\ WF_vars(Stop)
-----------------------------------------------------------------------------
(* Properties                                                               *)

(* A call that answers "refused before approval consumption" left nothing   *)
(* of itself: the approval is not in the ledger, no guard of ours is at the *)
(* path and no link counts the slot, however late it failed                 *)
(* (git_clones.py:136-165, git_pulls.py:543-548).                           *)
RefusedIsUnspent ==
    pc = "refused" =>
        ~spent /\ ~pending /\ guard # "ours" /\ link # "active"

(* A clone's guard and link are durable before its approval is spent: until *)
(* the link is resolved a spent approval keeps the slot, through the        *)
(* gateway's death and start, and its guard stays at the path or in         *)
(* custody unless the owner took it (git_clones.py:103-127).                *)
SpentCloneCharged ==
    kind = "clone" /\ spent /\ link # "resolved" =>
        slot /\ link = "active" /\ (guard \in {"ours", "owner"} \/ "consumed" \in held)

(* A job's last word is about a whole workspace.  Once nothing charges the  *)
(* job any more the workspace is not half published; a completed job's      *)
(* spent approval was published, with receipt, link resolved and both       *)
(* guards gone; a recovered one is back at the beginning or was published   *)
(* and never rolled back (git_pulls.py:770-783, git_clones.py:188-206,      *)
(* git_clone_recovery.py:17-46, workspace_recovery.py:783-802).             *)
SettledIsWhole ==
    /\ ~slot => link # "active"
    /\ ~slot /\ (link = "resolved" \/ row = "recovered") => canon # "half"
    /\ row = "completed" /\ spent =>
         /\ canon \in {"after", "touched"} /\ receipts = {"published"}
         /\ link = "resolved" /\ guard \notin {"ours", "history"}
         /\ ~JournalThere /\ ~Retained
    /\ row = "recovered" /\ canon = "after" => receipts = {"published"}

Disturbed == ~policy \/ guard = "owner" \/ canon \in {"moved", "touched"}

(* What finalization left behind is settled: a clone whose job is           *)
(* cleanup_failed, and a pull whose journal names its guard and whose       *)
(* bundle is not done, end up recovered with the slot free, unless the      *)
(* owner's own work is in the way.                                          *)
LeftToRecovery ==
    /\ row = "cleanup_failed"
    /\ kind = "clone" \/ (journal = "full" \/ Retained)
RecoverySettles ==
    LeftToRecovery ~> (row = "recovered" /\ ~slot) \/ Disturbed

(* What the tests of the recovery command take for granted: after the death *)
(* of the gateway the guard of a clone whose approval is spent can be       *)
(* planned and settled (tests/security/test_clone_service.py:195-250 sets   *)
(* the row to cleanup_failed by hand before it asks).                       *)
DeathIsRecoverable ==
    kind = "clone" /\ spent /\ gateway = "down" /\ row # "running" /\ rpc = "idle"
        /\ guard = "ours" /\ ~Disturbed
        => Plans # {}
=============================================================================
