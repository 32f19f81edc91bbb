------------------------ MODULE WorkspacePublication ------------------------
(***************************************************************************)
(* One workspace and the journal that guards its publications:              *)
(* WorkspaceTransaction.publish (sandbox/workspace_transactions.py) and the *)
(* owner's rollback _custody_rollback (sandbox/workspace_recovery.py) with  *)
(* the retirement of the guard (sandbox/recovery_guards.py), for ordinary   *)
(* files and a workspace without Git histories.                             *)
(*                                                                         *)
(* A path holds its original inode, the candidate of the transaction,       *)
(* something of the owner's, or nothing; an inode the owner edited counts   *)
(* as the owner's, since no check of the code accepts it any more. The      *)
(* owner takes no lock and acts between any two steps. A capture or return  *)
(* is two steps here, its intent and its rename; what a death between the   *)
(* rename and its receipts leaves behind is the subject of WorkspaceCustody.*)
(*                                                                         *)
(* Paths are published and rolled back in an arbitrary order: the code      *)
(* sorts them by name, and the model says nothing of names.                 *)
(***************************************************************************)
EXTENDS Naturals, FiniteSets

CONSTANTS
  Edited,         \* the files the transaction changes
  Op,             \* [Edited -> {"create", "replace", "delete"}]
  NoPath,
  MaxRounds,      \* transactions opened on the workspace
  MaxTouches,     \* what the owner may do
  MaxPublisherDeaths, MaxRecoveryCrashes  \* of the gateway and of the recovery command

ASSUME PublicationAssumption ==
  /\ Op \in [Edited -> {"create", "replace", "delete"}]
  /\ NoPath \notin Edited
  /\ {MaxRounds, MaxTouches, MaxPublisherDeaths, MaxRecoveryCrashes} \subseteq Nat

VARIABLES
  named,     \* what each path names
  aside,     \* the custody of its original
  undo,      \* the custody its candidate is moved to by a rollback
  staged,    \* paths whose candidate the journal records
  pending,   \* <key>.pending.json
  next,      \* <key>.pending.json.next, the journal's replacement
  bundle,    \* the recovery bundle that retires the journal
  row,       \* the job row was settled by the rollback
  plan,      \* the recovery plan the owner reviewed
  doing, cur, todo,
  touched,   \* paths the owner acted on
  touches, publisherDeaths, recoveryCrashes, round,
  calm       \* no death in this round

publicationVars == <<named, aside, undo, staged, pending, next, bundle, row, plan,
                     doing, cur, todo, touched, touches, publisherDeaths,
                     recoveryCrashes, round, calm>>
custody == <<aside, undo>>
guards == <<pending, next, bundle, row, plan>>
history == <<touched, touches, publisherDeaths, recoveryCrashes, round, calm>>

EntryKinds == {"none", "original", "candidate", "owner"}
KeptStates == {"none", "intent", "original", "owner", "returned", "restored"}
UndoStates == {"none", "intent", "candidate", "owner", "returned"}
Verdicts == {"baseline", "restore_pending", "published", "conflict"}

Publishing == {"ready", "checked", "writing", "publish", "record", "swap", "capture",
               "take", "settle", "link", "note", "noted", "receipted"}
Recovering == {"planned", "undo", "undo_take", "undo_settle", "give", "restored",
               "settled", "retired"}
Outcomes == {"rejected", "interrupted", "published", "recovered"}

Before(p) == IF Op[p] = "create" THEN "none" ELSE "original"
After(p) == IF Op[p] = "delete" THEN "none" ELSE "candidate"

\* WorkspaceTransaction refuses to open while either is on disk.
Blocked == pending # "none" \/ bundle \in {"active", "captured"}

PublicationInit ==
  /\ named = [p \in Edited |-> Before(p)]
  /\ aside = [p \in Edited |-> "none"] /\ undo = [p \in Edited |-> "none"]
  /\ staged = {} /\ pending = "none" /\ next = FALSE /\ bundle = "none"
  /\ row = "open" /\ plan = [p \in Edited |-> "conflict"]
  /\ doing = "ready" /\ cur = NoPath /\ todo = {}
  /\ touched = {} /\ touches = 0 /\ publisherDeaths = 0 /\ recoveryCrashes = 0
  /\ round = 1 /\ calm = TRUE

-----------------------------------------------------------------------------
(* Publication.                                                             *)
GoOn(step) == doing' = step /\ UNCHANGED <<cur, todo>>

\* The path is dealt with: back to the loop over the operations.
Leave(step) == doing' = step /\ cur' = NoPath /\ todo' = todo \ {cur}

\* ResourceCleanupError: the journal, if any, stays for the owner.
Stop == doing' = "interrupted" /\ cur' = NoPath /\ todo' = {}

\* Everything that can be checked and backed up before the first journal.
Preflight ==
  /\ doing = "ready"
  /\ \/ /\ \A p \in Edited : named[p] = Before(p)
        /\ GoOn("checked")
     \/ /\ \E p \in Edited : named[p] # Before(p)
        /\ GoOn("rejected")
  /\ UNCHANGED <<named, custody, staged, guards, history>>

\* The first journal is written in place: O_EXCL on the pending path itself.
OpenJournal ==
  /\ doing = "checked"
  /\ pending' = "torn" /\ GoOn("writing")
  /\ UNCHANGED <<named, custody, staged, next, bundle, row, plan, history>>

SyncJournal ==
  /\ doing = "writing"
  /\ pending' = "whole"
  /\ doing' = "publish" /\ todo' = Edited /\ UNCHANGED cur
  /\ UNCHANGED <<named, custody, staged, next, bundle, row, plan, history>>

\* Fault: the candidate is published before the journal knows it.
BeginUnrecorded(p) ==
  /\ doing = "publish" /\ p \in todo
  /\ cur' = p /\ UNCHANGED todo
  /\ doing' = IF Op[p] = "create" THEN "link" ELSE "capture"
  /\ UNCHANGED <<named, custody, staged, guards, history>>

\* A deletion goes straight to custody; a candidate is prepared in an unnamed
\* inode once the destination looks as the transaction expects it.
BeginPath(p) ==
  /\ doing = "publish" /\ p \in todo
  /\ \/ /\ Op[p] = "delete" \/ named[p] \in {"none", Before(p)}
        /\ cur' = p /\ UNCHANGED todo
        /\ doing' = IF Op[p] = "delete" THEN "capture" ELSE "record"
     \/ /\ Op[p] # "delete" /\ named[p] \notin {"none", Before(p)}
        /\ Stop
  /\ UNCHANGED <<named, custody, staged, guards, history>>

\* _journal(update=True): O_EXCL on the replacement, then os.replace. Both the
\* prepared candidate and the applied operation are journaled this way.
CreateNext ==
  /\ doing \in {"record", "note"}
  /\ \/ /\ ~next
        /\ doing = "note" /\ Op[cur] # "delete" => named[cur] = "candidate"
        /\ next' = TRUE
        /\ GoOn(IF doing = "record" THEN "swap" ELSE "noted")
     \/ /\ next \/ (doing = "note" /\ Op[cur] # "delete" /\ named[cur] # "candidate")
        /\ Stop /\ UNCHANGED next
  /\ UNCHANGED <<named, custody, staged, pending, bundle, row, plan, history>>

ReplaceJournal ==
  /\ \/ /\ doing = "swap"
        /\ staged' = staged \cup {cur}
        /\ GoOn(IF Op[cur] = "create" THEN "link" ELSE "capture")
     \/ /\ doing = "noted"
        /\ Leave("publish") /\ UNCHANGED staged
  /\ next' = FALSE
  /\ UNCHANGED <<named, custody, pending, bundle, row, plan, history>>

\* capture_workspace_entry of the original: its intent, and a first look.
CaptureOriginal ==
  /\ doing = "capture"
  /\ aside' = [aside EXCEPT ![cur] = "intent"]
  /\ \/ named[cur] = "original" /\ GoOn("take")
     \/ named[cur] # "original" /\ Stop
  /\ UNCHANGED <<named, undo, staged, guards, history>>

\* The rename takes what the path names by now.
TakeAside ==
  /\ doing = "take"
  /\ \/ /\ named[cur] = "none"
        /\ Stop /\ UNCHANGED <<named, aside>>
     \/ /\ named[cur] # "none"
        /\ aside' = [aside EXCEPT ![cur] = IF named[cur] = "original" THEN "original" ELSE "owner"]
        /\ named' = [named EXCEPT ![cur] = "none"]
        /\ GoOn("settle")
  /\ UNCHANGED <<undo, staged, guards, history>>

\* The exact original over a free path; an owner's entry is given back.
SettleOriginal ==
  /\ doing = "settle"
  /\ \/ /\ aside[cur] = "original" /\ named[cur] = "none"
        /\ GoOn(IF Op[cur] = "delete" THEN "note" ELSE "link")
        /\ UNCHANGED <<named, aside>>
     \/ /\ aside[cur] = "owner" /\ named[cur] = "none"
        /\ named' = [named EXCEPT ![cur] = "owner"]
        /\ aside' = [aside EXCEPT ![cur] = "returned"]
        /\ Stop
     \/ /\ named[cur] # "none"
        /\ Stop /\ UNCHANGED <<named, aside>>
  /\ UNCHANGED <<undo, staged, guards, history>>

\* Fault: the candidate is renamed over whatever the path names.
LinkOver ==
  /\ doing = "link"
  /\ named' = [named EXCEPT ![cur] = "candidate"] /\ GoOn("note")
  /\ UNCHANGED <<custody, staged, guards, history>>

\* linkat creates the name or fails.
Link ==
  /\ doing = "link"
  /\ \/ /\ named[cur] = "none"
        /\ named' = [named EXCEPT ![cur] = "candidate"] /\ GoOn("note")
     \/ /\ named[cur] # "none"
        /\ Stop /\ UNCHANGED named
  /\ UNCHANGED <<custody, staged, guards, history>>

\* Every candidate is in place and every original retained.
Published(p) ==
  /\ named[p] = After(p)
  /\ Op[p] # "create" => aside[p] = "original"

\* The final verification and the publication receipt.
VerifyAfter ==
  /\ doing = "publish" /\ todo = {}
  /\ \/ /\ \A p \in Edited : Published(p)
        /\ GoOn("receipted")
     \/ /\ \E p \in Edited : ~Published(p)
        /\ Stop
  /\ UNCHANGED <<named, custody, staged, guards, history>>

UnlinkJournal ==
  /\ doing = "receipted"
  /\ pending' = "none" /\ GoOn("published")
  /\ UNCHANGED <<named, custody, staged, next, bundle, row, plan, history>>

-----------------------------------------------------------------------------
(* The owner's recovery: inspect, review, apply.                            *)
\* inspect_custody of the original, as far as the rollback tells cases apart.
OriginalHeld(p) == aside[p] = "original"
OriginalThere(p) ==
  /\ aside[p] \in {"none", "intent", "restored"}
  /\ named[p] = "original"

\* inspect() in _custody_rollback; an exception in it is a conflict.
Verdict(p) ==
  IF undo[p] \notin {"none", "candidate"} THEN "conflict"
  ELSE IF Op[p] # "create" /\ ~OriginalHeld(p)
    THEN IF OriginalThere(p) THEN "baseline" ELSE "conflict"
  ELSE IF named[p] = "none"
    THEN IF Op[p] = "create" THEN "baseline" ELSE "restore_pending"
  ELSE IF named[p] = "candidate" /\ p \in staged /\ undo[p] = "none" THEN "published"
  ELSE "conflict"

\* recover_workspace without --apply: the plan the owner reviews.
Plan ==
  /\ doing = "interrupted" /\ Blocked /\ pending # "torn"
  /\ plan' = [p \in Edited |-> Verdict(p)]
  /\ GoOn("planned")
  /\ UNCHANGED <<named, custody, staged, pending, next, bundle, row, history>>

\* --apply inspects again and takes only the exact reviewed plan; the bundle
\* is durable before anything is rolled back.
Apply ==
  /\ doing = "planned"
  /\ \/ /\ \A p \in Edited : plan[p] = Verdict(p) /\ plan[p] # "conflict"
        /\ bundle' = IF bundle = "none" THEN "active" ELSE bundle
        /\ doing' = "undo" /\ todo' = Edited /\ UNCHANGED cur
     \/ /\ \E p \in Edited : plan[p] # Verdict(p) \/ plan[p] = "conflict"
        /\ Stop /\ UNCHANGED bundle
  /\ UNCHANGED <<named, custody, staged, pending, next, row, plan, history>>

\* Each path is inspected once more before it is rolled back; the intent of
\* the undo capture is written in the same step as its first look.
Undo(p) ==
  /\ doing = "undo" /\ p \in todo
  /\ \/ /\ Verdict(p) = "baseline"
        /\ doing' = "undo" /\ cur' = NoPath /\ todo' = todo \ {p}
        /\ UNCHANGED undo
     \/ /\ Verdict(p) = "published"
        /\ undo' = [undo EXCEPT ![p] = "intent"]
        /\ doing' = "undo_take" /\ cur' = p /\ UNCHANGED todo
     \/ /\ Verdict(p) = "restore_pending"
        /\ doing' = "give" /\ cur' = p /\ UNCHANGED <<todo, undo>>
     \/ /\ Verdict(p) = "conflict"
        /\ Stop /\ UNCHANGED undo
  /\ UNCHANGED <<named, aside, staged, guards, history>>

TakeCandidate ==
  /\ doing = "undo_take"
  /\ \/ /\ named[cur] = "none"
        /\ Stop /\ UNCHANGED <<named, undo>>
     \/ /\ named[cur] # "none"
        /\ undo' = [undo EXCEPT ![cur] = IF named[cur] = "candidate" THEN "candidate" ELSE "owner"]
        /\ named' = [named EXCEPT ![cur] = "none"]
        /\ GoOn("undo_settle")
  /\ UNCHANGED <<aside, staged, guards, history>>

SettleCandidate ==
  /\ doing = "undo_settle"
  /\ \/ /\ undo[cur] = "candidate" /\ named[cur] = "none"
        /\ IF Op[cur] = "create" THEN Leave("undo") ELSE GoOn("give")
        /\ UNCHANGED <<named, undo>>
     \/ /\ undo[cur] = "owner" /\ named[cur] = "none"
        /\ named' = [named EXCEPT ![cur] = "owner"]
        /\ undo' = [undo EXCEPT ![cur] = "returned"]
        /\ Stop
     \/ /\ named[cur] # "none"
        /\ Stop /\ UNCHANGED <<named, undo>>
  /\ UNCHANGED <<aside, staged, guards, history>>

\* restore_custody: NOREPLACE, and only the exact original counts. An inode
\* edited in custody goes back only if no receipt had called it exact.
GiveOriginal ==
  /\ doing = "give"
  /\ \/ /\ aside[cur] = "original" /\ named[cur] = "none"
        /\ named' = [named EXCEPT ![cur] = "original"]
        /\ aside' = [aside EXCEPT ![cur] = "restored"]
        /\ Leave("undo")
     \/ /\ aside[cur] = "owner" /\ named[cur] = "none"
        /\ named' = [named EXCEPT ![cur] = "owner"]
        /\ aside' = [aside EXCEPT ![cur] = "returned"]
        /\ Stop
     \/ /\ aside[cur] = "owner" \/ named[cur] # "none"
        /\ Stop /\ UNCHANGED <<named, aside>>
  /\ UNCHANGED <<undo, staged, guards, history>>

\* All paths are verified before the receipt says recovered.
VerifyUndone ==
  /\ doing = "undo" /\ todo = {}
  /\ \/ /\ \A p \in Edited : Verdict(p) = "baseline"
        /\ GoOn("restored")
     \/ /\ \E p \in Edited : Verdict(p) # "baseline"
        /\ Stop
  /\ UNCHANGED <<named, custody, staged, guards, history>>

\* The receipt, then one database transaction: row recovered, slot released.
SettleRow ==
  /\ doing = "restored"
  /\ row' = "recovered" /\ GoOn("settled")
  /\ UNCHANGED <<named, custody, staged, pending, next, bundle, plan, history>>

\* retire: the journal itself is moved into the bundle's custody.
CaptureJournal ==
  /\ doing = "settled"
  /\ pending' = "none" /\ bundle' = "captured" /\ GoOn("retired")
  /\ UNCHANGED <<named, custody, staged, next, row, plan, history>>

\* done.json.
FinishRetirement ==
  /\ doing = "retired"
  /\ bundle' = "done" /\ GoOn("recovered")
  /\ UNCHANGED <<named, custody, staged, pending, next, row, plan, history>>

-----------------------------------------------------------------------------
(* The next job on the workspace, the owner, and deaths.                    *)
\* A new transaction has a private directory and a bundle of its own; only
\* the workspace and the replacement file carry over.
Again ==
  /\ doing \in {"rejected", "recovered"} /\ ~Blocked /\ round < MaxRounds
  /\ \A p \in Edited : named[p] = Before(p)
  /\ aside' = [p \in Edited |-> "none"] /\ undo' = [p \in Edited |-> "none"]
  /\ staged' = {} /\ bundle' = "none" /\ row' = "open"
  /\ plan' = [p \in Edited |-> "conflict"]
  /\ doing' = "ready" /\ cur' = NoPath /\ todo' = {}
  /\ round' = round + 1 /\ calm' = TRUE
  /\ UNCHANGED <<named, pending, next, touched, touches, publisherDeaths, recoveryCrashes>>

OwnerActs(p) ==
  /\ touches < MaxTouches /\ touches' = touches + 1 /\ touched' = touched \cup {p}
  /\ \/ /\ \E e \in {"none", "owner"} : named[p] # e /\ named' = [named EXCEPT ![p] = e]
        /\ UNCHANGED custody
     \/ /\ aside[p] = "original" /\ aside' = [aside EXCEPT ![p] = "owner"]
        /\ UNCHANGED <<named, undo>>
     \/ /\ undo[p] = "candidate" /\ undo' = [undo EXCEPT ![p] = "owner"]
        /\ UNCHANGED <<named, aside>>
  /\ UNCHANGED <<staged, guards, doing, cur, todo, publisherDeaths, recoveryCrashes, round, calm>>

\* Fault: start-up clears what a dead publication left at the pending path.
GatewayDiesTidily ==
  /\ doing \in Publishing /\ publisherDeaths < MaxPublisherDeaths
  /\ publisherDeaths' = publisherDeaths + 1 /\ calm' = FALSE
  /\ doing' = "rejected" /\ cur' = NoPath /\ todo' = {} /\ pending' = "none"
  /\ UNCHANGED <<named, custody, staged, next, bundle, row, plan,
                 touched, touches, recoveryCrashes, round>>

\* Without a journal the transaction never happened; with one it is the
\* owner's to recover.
GatewayDies ==
  /\ doing \in Publishing /\ publisherDeaths < MaxPublisherDeaths
  /\ publisherDeaths' = publisherDeaths + 1 /\ calm' = FALSE
  /\ doing' = IF Blocked THEN "interrupted" ELSE "rejected"
  /\ cur' = NoPath /\ todo' = {}
  /\ UNCHANGED <<named, custody, staged, guards, touched, touches, recoveryCrashes, round>>

RecoveryDies ==
  /\ doing \in Recovering /\ recoveryCrashes < MaxRecoveryCrashes
  /\ recoveryCrashes' = recoveryCrashes + 1 /\ calm' = FALSE
  /\ Stop
  /\ UNCHANGED <<named, custody, staged, guards, touched, touches, publisherDeaths, round>>

Publish ==
  \/ Preflight \/ OpenJournal \/ SyncJournal \/ (\E p \in Edited : BeginPath(p))
  \/ CreateNext \/ ReplaceJournal \/ CaptureOriginal \/ TakeAside
  \/ SettleOriginal \/ Link \/ VerifyAfter \/ UnlinkJournal

Recover ==
  \/ Plan \/ Apply \/ (\E p \in Edited : Undo(p)) \/ TakeCandidate \/ SettleCandidate
  \/ GiveOriginal \/ VerifyUndone \/ SettleRow \/ CaptureJournal \/ FinishRetirement

PublicationNext == \/ Publish \/ Recover \/ Again
        \/ (\E p \in Edited : OwnerActs(p))
        \/ GatewayDies \/ RecoveryDies

PublicationSpec == PublicationInit /\ [][PublicationNext]_publicationVars

\* The gateway finishes what it started, and an owner who was told that
\* recovery is required runs the recovery command.
PublicationFairSpec == PublicationSpec /\ WF_publicationVars(Publish) /\ WF_publicationVars(Recover)

-----------------------------------------------------------------------------
(* Properties.                                                              *)
PublicationTypeOK ==
  /\ named \in [Edited -> EntryKinds]
  /\ aside \in [Edited -> KeptStates] /\ undo \in [Edited -> UndoStates]
  /\ staged \subseteq Edited /\ todo \subseteq Edited
  /\ pending \in {"none", "torn", "whole"} /\ next \in BOOLEAN
  /\ bundle \in {"none", "active", "captured", "done"}
  /\ row \in {"open", "recovered"}
  /\ plan \in [Edited -> Verdicts]
  /\ doing \in Publishing \cup Recovering \cup Outcomes
  /\ cur \in Edited \cup {NoPath} /\ touched \subseteq Edited
  /\ touches \in 0..MaxTouches /\ publisherDeaths \in 0..MaxPublisherDeaths
  /\ recoveryCrashes \in 0..MaxRecoveryCrashes /\ round \in 0..(MaxRounds + 1)
  /\ calm \in BOOLEAN

\* A workspace that opens for the next transaction holds one whole endpoint on
\* every path the owner left alone: all edits of a published transaction, none
\* of a rejected, interrupted or rolled-back one.
WholeEndpoint ==
  ~Blocked =>
    \A p \in Edited \ touched :
      named[p] = IF doing = "published" THEN After(p) ELSE Before(p)

\* "Original inode custody": neither publication nor rollback nor a death can
\* lose an original, it is at its path or in custody until the owner removes
\* or edits it.
OriginalsRetained ==
  \A p \in Edited \ touched :
    Op[p] # "create" => named[p] = "original" \/ aside[p] = "original"

\* How many entries of the owner's exist for a path.
Is(entry, what) == IF entry = what THEN 1 ELSE 0
OwnerEntries(p) == Is(named[p], "owner") + Is(aside[p], "owner") + Is(undo[p], "owner")

\* No step of the gateway or of the recovery destroys or duplicates an owner's
\* entry: it may only move between the path and custody.
OwnerWorkKept ==
  [][touches' = touches /\ round' = round
       => \A p \in Edited : OwnerEntries(p)' = OwnerEntries(p)]_publicationVars

\* The row says recovered only while every untouched path is back at its
\* original, the retirement of the guard included; and the guard is given up
\* only after the row was settled, so a death never strands the admission.
RecoveredMeansBefore ==
  /\ row = "recovered" => \A p \in Edited \ touched : named[p] = Before(p)
  /\ bundle \in {"captured", "done"} => row = "recovered"

\* With an owner who keeps away, an interrupted publication with a readable
\* journal is rolled back completely, unless the recovery itself died between
\* the intent and the rename of an undo capture.
RecoveryCompletes ==
  (doing = "interrupted" /\ pending # "torn" /\ touched = {})
    ~> \/ doing = "recovered" \/ touched # {}
       \/ doing = "interrupted" /\ \E p \in Edited : undo[p] = "intent"

\* workspace_recovery.py:715 reports a conflict "with owner work".
ConflictMeansOwnerWork ==
  doing = "planned" /\ (\E p \in Edited : plan[p] = "conflict") => touched # {}

\* "Recover an existing durable job before dispatching a replacement": after a
\* recovery, a replacement nobody disturbs publishes.
RecoveryUnblocks ==
  doing = "interrupted" /\ calm => touched # {}
=============================================================================
