----------------------- MODULE WorkspacePublicationProofs -----------------------
(***************************************************************************)
(* What holds of the journal, the publication and the rollback of one       *)
(* workspace for any files and operations, any number of transactions and   *)
(* deaths, and whatever the owner does between two steps; in the second     *)
(* half the same of the import of a private Git history.                    *)
(***************************************************************************)
EXTENDS WorkspacePublication, NativeGit, TLAPS

(* Where publication or rollback stands on the path it works on.             *)
CurrentPath ==
  /\ doing \in {"ready", "checked", "writing", "publish", "receipted", "published"} => cur = NoPath
  /\ doing \in {"record", "swap", "capture", "take", "settle", "link", "note", "noted",
                "undo_take", "undo_settle", "give"} => cur \in Edited
  /\ doing \in {"record", "swap"} => Op[cur] # "delete"
  /\ doing \in {"record", "swap", "capture"} => aside[cur] = "none" /\ named[cur] # "candidate"
  /\ doing \in {"capture", "take", "settle"} => Op[cur] # "create"
  /\ doing = "take" => aside[cur] = "intent" /\ named[cur] # "candidate"
  /\ doing = "link" => Op[cur] # "delete"
  /\ doing = "undo_take" => undo[cur] = "intent" /\ named[cur] # "original"
  /\ doing = "give" => aside[cur] \in {"original", "owner"}
  /\ doing \in {"undo_take", "undo_settle"} /\ Op[cur] # "create"
       => aside[cur] \in {"original", "owner"}

(* What publication has not come to yet has neither custody nor candidate.   *)
Waiting ==
  /\ doing \in {"ready", "checked", "writing"}
       => \A p \in Edited : aside[p] = "none" /\ named[p] # "candidate"
  /\ doing \in Publishing
       => \A p \in todo \ {cur} : aside[p] = "none" /\ named[p] # "candidate"

(* A publication meets no rollback, and every guard but the last file's is
   on disk while it lasts.                                                   *)
GuardHeld ==
  /\ doing \in Publishing \cup {"published", "rejected"} => row = "open" /\ bundle = "none"
  /\ doing \in Publishing => \A p \in Edited : undo[p] = "none"
  /\ doing \in Publishing \ {"ready", "checked"} => pending # "none"
  /\ doing \in Recovering \cup {"interrupted"} => Blocked /\ bundle # "done"
  /\ doing \in {"settled", "retired", "recovered"} => row = "recovered"
  /\ bundle \in {"captured", "done"} => row = "recovered"

(* The arrangements of a path the owner left alone: at its old endpoint, taken
   away, or at its new endpoint.                                             *)
AtBefore(p) == /\ named[p] = Before(p)
               /\ aside[p] \in IF Op[p] = "create" THEN {"none"} ELSE {"none", "intent", "restored"}
               /\ undo[p] \in {"none", "candidate"}
Taken(p) == /\ Op[p] # "create" /\ named[p] = "none" /\ aside[p] = "original"
            /\ undo[p] \in {"none", "candidate"}
AtAfter(p) == /\ Op[p] # "delete" /\ named[p] = "candidate"
              /\ aside[p] = IF Op[p] = "create" THEN "none" ELSE "original"
              /\ undo[p] \in {"none", "intent"}
Arranged == \A p \in Edited \ touched : AtBefore(p) \/ Taken(p) \/ AtAfter(p)

(* The steps that vouch for an endpoint.                                     *)
Vouched ==
  /\ doing \in {"ready", "checked", "writing", "rejected", "restored"} \/ row = "recovered"
       => \A p \in Edited \ touched : named[p] = Before(p)
  /\ doing \in {"receipted", "published"} => \A p \in Edited \ touched : named[p] = After(p)

IInv == /\ PublicationTypeOK /\ CurrentPath /\ Waiting /\ GuardHeld
        /\ Arranged /\ Vouched

-----------------------------------------------------------------------------
(* The bounds are numbers.                                                   *)
LEMMA Bounds ==
  MaxRounds \in Nat /\ MaxTouches \in Nat /\ MaxPublisherDeaths \in Nat /\ MaxRecoveryCrashes \in Nat
BY PublicationAssumption

(* The first transaction finds the workspace as it is to be edited.          *)
LEMMA InitHolds == PublicationInit => IInv
<1> SUFFICES ASSUME PublicationInit PROVE IInv
  OBVIOUS
<1> USE PublicationAssumption DEF PublicationInit
<1>1. PublicationTypeOK
  <2>1. /\ named \in [Edited -> EntryKinds] /\ aside \in [Edited -> KeptStates]
        /\ undo \in [Edited -> UndoStates] /\ plan \in [Edited -> Verdicts]
    BY DEF Before, EntryKinds, KeptStates, UndoStates, Verdicts
  <2>2. /\ touches \in 0..MaxTouches /\ publisherDeaths \in 0..MaxPublisherDeaths
        /\ recoveryCrashes \in 0..MaxRecoveryCrashes /\ round \in 0..(MaxRounds + 1)
    BY Bounds
  <2>q. QED BY <2>1, <2>2 DEF PublicationTypeOK, Publishing
<1>2. CurrentPath /\ Waiting /\ GuardHeld
  BY DEF CurrentPath, Waiting, GuardHeld, Before, Publishing, Recovering, Blocked
<1>3. Arranged /\ Vouched
  BY DEF Arranged, Vouched, AtBefore, Before
<1>q. QED BY <1>1, <1>2, <1>3 DEF IInv

(* Every step of a publication keeps the invariant ...                       *)
LEMMA PublishHolds ==
  ASSUME IInv, Publish
  PROVE  IInv'
<1> USE PublicationAssumption DEF IInv, custody, guards, history
<1>1. CASE Preflight
  <2> USE <1>1 DEF Preflight, GoOn
  <2>1. PublicationTypeOK'
    BY DEF PublicationTypeOK, Publishing, Recovering, Outcomes
  <2>2. CurrentPath'
    BY DEF PublicationTypeOK, CurrentPath, Waiting, Publishing
  <2>3. Waiting'
    BY DEF PublicationTypeOK, Waiting, Publishing, Recovering, CurrentPath
  <2>4. GuardHeld'
    BY DEF PublicationTypeOK, GuardHeld, Publishing, Recovering, Blocked
  <2>5. Vouched'
    BY DEF PublicationTypeOK, Vouched, Publishing, Recovering, Before, After, GuardHeld,
        CurrentPath, Arranged, AtBefore, Taken, AtAfter
  <2>6. Arranged'
    BY DEF Arranged, AtBefore, Taken, AtAfter, Before
  <2>q. QED BY <2>1, <2>2, <2>3, <2>4, <2>5, <2>6 DEF IInv
<1>2. CASE OpenJournal
  <2> USE <1>2 DEF OpenJournal, GoOn
  <2>1. PublicationTypeOK'
    BY DEF PublicationTypeOK, Publishing, Recovering, Outcomes
  <2>2. CurrentPath'
    BY DEF PublicationTypeOK, CurrentPath, Waiting, Publishing
  <2>3. Waiting'
    BY DEF PublicationTypeOK, Waiting, Publishing, Recovering, CurrentPath
  <2>4. GuardHeld'
    BY DEF PublicationTypeOK, GuardHeld, Publishing, Recovering, Blocked
  <2>5. Vouched'
    BY DEF PublicationTypeOK, Vouched, Publishing, Recovering, Before, After, GuardHeld,
        CurrentPath, Arranged, AtBefore, Taken, AtAfter
  <2>6. Arranged'
    BY DEF Arranged, AtBefore, Taken, AtAfter, Before
  <2>q. QED BY <2>1, <2>2, <2>3, <2>4, <2>5, <2>6 DEF IInv
<1>3. CASE SyncJournal
  <2> USE <1>3 DEF SyncJournal
  <2>1. PublicationTypeOK'
    BY DEF PublicationTypeOK, Publishing, Recovering, Outcomes
  <2>2. CurrentPath'
    BY DEF PublicationTypeOK, CurrentPath, Waiting, Publishing
  <2>3. Waiting'
    BY DEF PublicationTypeOK, Waiting, Publishing, Recovering, CurrentPath
  <2>4. GuardHeld'
    BY DEF PublicationTypeOK, GuardHeld, Publishing, Recovering, Blocked
  <2>5. Vouched'
    BY DEF PublicationTypeOK, Vouched, Publishing, Recovering, Before, After, GuardHeld,
        CurrentPath, Arranged, AtBefore, Taken, AtAfter
  <2>6. Arranged'
    BY DEF Arranged, AtBefore, Taken, AtAfter, Before
  <2>q. QED BY <2>1, <2>2, <2>3, <2>4, <2>5, <2>6 DEF IInv
<1>4. ASSUME NEW p \in Edited, BeginPath(p) PROVE IInv'
  <2> USE <1>4 DEF BeginPath, Stop, Before
  <2>1. PublicationTypeOK'
    BY DEF PublicationTypeOK, Publishing, Recovering, Outcomes
  <2>2. CurrentPath'
    BY DEF PublicationTypeOK, CurrentPath, Waiting, Publishing
  <2>3. Waiting'
    BY DEF PublicationTypeOK, Waiting, Publishing, Recovering, CurrentPath
  <2>4. GuardHeld'
    BY DEF PublicationTypeOK, GuardHeld, Publishing, Recovering, Blocked
  <2>5. Vouched'
    BY DEF PublicationTypeOK, Vouched, Publishing, Recovering, After, GuardHeld,
        CurrentPath, Arranged, AtBefore, Taken, AtAfter
  <2>6. Arranged'
    BY DEF Arranged, AtBefore, Taken, AtAfter
  <2>q. QED BY <2>1, <2>2, <2>3, <2>4, <2>5, <2>6 DEF IInv
<1>5. CASE CreateNext
  <2> USE <1>5 DEF CreateNext, GoOn, Stop
  <2>1. PublicationTypeOK'
    BY DEF PublicationTypeOK, Publishing, Recovering, Outcomes
  <2>2. CurrentPath'
    BY DEF PublicationTypeOK, CurrentPath, Waiting, Publishing
  <2>3. Waiting'
    BY DEF PublicationTypeOK, Waiting, Publishing, Recovering, CurrentPath
  <2>4. GuardHeld'
    BY DEF PublicationTypeOK, GuardHeld, Publishing, Recovering, Blocked
  <2>5. Vouched'
    BY DEF PublicationTypeOK, Vouched, Publishing, Recovering, Before, After, GuardHeld,
        CurrentPath, Arranged, AtBefore, Taken, AtAfter
  <2>6. Arranged'
    BY DEF Arranged, AtBefore, Taken, AtAfter, Before
  <2>q. QED BY <2>1, <2>2, <2>3, <2>4, <2>5, <2>6 DEF IInv
<1>6. CASE ReplaceJournal
  <2> USE <1>6 DEF ReplaceJournal, GoOn, Leave
  <2>1. PublicationTypeOK'
    BY DEF PublicationTypeOK, CurrentPath, Publishing, Recovering, Outcomes
  <2>2. CurrentPath'
    BY DEF PublicationTypeOK, CurrentPath, Waiting, Publishing
  <2>3. Waiting'
    BY DEF PublicationTypeOK, Waiting, Publishing, Recovering, CurrentPath
  <2>4. GuardHeld'
    BY DEF PublicationTypeOK, GuardHeld, Publishing, Recovering, Blocked
  <2>5. Vouched'
    BY DEF PublicationTypeOK, Vouched, Publishing, Recovering, Before, After, GuardHeld,
        CurrentPath, Arranged, AtBefore, Taken, AtAfter
  <2>6. Arranged'
    BY DEF Arranged, AtBefore, Taken, AtAfter, Before
  <2>q. QED BY <2>1, <2>2, <2>3, <2>4, <2>5, <2>6 DEF IInv
<1>7. CASE CaptureOriginal
  <2> USE <1>7 DEF CaptureOriginal, GoOn, Stop
  <2>1. PublicationTypeOK'
    BY DEF PublicationTypeOK, Publishing, Recovering, Outcomes, KeptStates
  <2>2. CurrentPath'
    BY DEF PublicationTypeOK, CurrentPath, Waiting, Publishing
  <2>3. Waiting'
    BY DEF PublicationTypeOK, Waiting, Publishing, Recovering, CurrentPath
  <2>4. GuardHeld'
    BY DEF PublicationTypeOK, GuardHeld, Publishing, Recovering, Blocked
  <2>5. Arranged'
    BY DEF PublicationTypeOK, Arranged, AtBefore, Taken, AtAfter, Before, CurrentPath,
        GuardHeld, Publishing, Recovering, Waiting
  <2>6. Vouched'
    BY DEF PublicationTypeOK, Vouched, Publishing, Recovering, Before, After, GuardHeld,
        CurrentPath, Arranged, AtBefore, Taken, AtAfter
  <2>q. QED BY <2>1, <2>2, <2>3, <2>4, <2>5, <2>6 DEF IInv
<1>8. CASE TakeAside
  <2> USE <1>8 DEF TakeAside, GoOn, Stop
  <2>1. PublicationTypeOK'
    BY DEF PublicationTypeOK, Publishing, Recovering, Outcomes, EntryKinds, KeptStates
  <2>2. CurrentPath'
    BY DEF PublicationTypeOK, CurrentPath, Waiting, Publishing
  <2>3. Waiting'
    BY DEF PublicationTypeOK, Waiting, Publishing, Recovering, CurrentPath
  <2>4. GuardHeld'
    BY DEF PublicationTypeOK, GuardHeld, Publishing, Recovering, Blocked
  <2>5. Arranged'
    BY DEF PublicationTypeOK, Arranged, AtBefore, Taken, AtAfter, Before, CurrentPath,
        GuardHeld, Publishing, Recovering, Waiting
  <2>6. Vouched'
    BY DEF PublicationTypeOK, Vouched, Publishing, Recovering, Before, After, GuardHeld,
        CurrentPath, Arranged, AtBefore, Taken, AtAfter
  <2>q. QED BY <2>1, <2>2, <2>3, <2>4, <2>5, <2>6 DEF IInv
<1>9. CASE SettleOriginal
  <2> USE <1>9 DEF SettleOriginal, GoOn, Stop
  <2>1. PublicationTypeOK'
    BY DEF PublicationTypeOK, Publishing, Recovering, Outcomes, EntryKinds, KeptStates
  <2>2. CurrentPath'
    BY DEF PublicationTypeOK, CurrentPath, Waiting, Publishing
  <2>3. Waiting'
    BY DEF PublicationTypeOK, Waiting, Publishing, Recovering, CurrentPath
  <2>4. GuardHeld'
    BY DEF PublicationTypeOK, GuardHeld, Publishing, Recovering, Blocked
  <2>5. Arranged'
    BY DEF PublicationTypeOK, Arranged, AtBefore, Taken, AtAfter, Before, CurrentPath,
        GuardHeld, Publishing, Recovering, Waiting
  <2>6. Vouched'
    BY DEF PublicationTypeOK, Vouched, Publishing, Recovering, Before, After, GuardHeld,
        CurrentPath, Arranged, AtBefore, Taken, AtAfter
  <2>q. QED BY <2>1, <2>2, <2>3, <2>4, <2>5, <2>6 DEF IInv
<1>10. CASE Link
  <2> USE <1>10 DEF Link, GoOn, Stop
  <2>1. PublicationTypeOK'
    BY DEF PublicationTypeOK, Publishing, Recovering, Outcomes, EntryKinds
  <2>2. CurrentPath'
    BY DEF PublicationTypeOK, CurrentPath, Waiting, Publishing
  <2>3. Waiting'
    BY DEF PublicationTypeOK, Waiting, Publishing, Recovering, CurrentPath
  <2>4. GuardHeld'
    BY DEF PublicationTypeOK, GuardHeld, Publishing, Recovering, Blocked
  <2>5. Arranged'
    BY DEF PublicationTypeOK, Arranged, AtBefore, Taken, AtAfter, Before, CurrentPath,
        GuardHeld, Publishing, Recovering, Waiting
  <2>6. Vouched'
    BY DEF PublicationTypeOK, Vouched, Publishing, Recovering, Before, After, GuardHeld,
        CurrentPath, Arranged, AtBefore, Taken, AtAfter
  <2>q. QED BY <2>1, <2>2, <2>3, <2>4, <2>5, <2>6 DEF IInv
<1>11. CASE VerifyAfter
  <2> USE <1>11 DEF VerifyAfter, GoOn, Stop, Published
  <2>1. PublicationTypeOK'
    BY DEF PublicationTypeOK, Publishing, Recovering, Outcomes
  <2>2. CurrentPath'
    BY DEF PublicationTypeOK, CurrentPath, Waiting, Publishing
  <2>3. Waiting'
    BY DEF PublicationTypeOK, Waiting, Publishing, Recovering, CurrentPath
  <2>4. GuardHeld'
    BY DEF PublicationTypeOK, GuardHeld, Publishing, Recovering, Blocked
  <2>5. Vouched'
    BY DEF PublicationTypeOK, Vouched, Publishing, Recovering, Before, After, GuardHeld,
        CurrentPath, Arranged, AtBefore, Taken, AtAfter
  <2>6. Arranged'
    BY DEF Arranged, AtBefore, Taken, AtAfter, Before
  <2>q. QED BY <2>1, <2>2, <2>3, <2>4, <2>5, <2>6 DEF IInv
<1>12. CASE UnlinkJournal
  <2> USE <1>12 DEF UnlinkJournal, GoOn
  <2>1. PublicationTypeOK'
    BY DEF PublicationTypeOK, Publishing, Recovering, Outcomes
  <2>2. CurrentPath'
    BY DEF PublicationTypeOK, CurrentPath, Waiting, Publishing
  <2>3. Waiting'
    BY DEF PublicationTypeOK, Waiting, Publishing, Recovering, CurrentPath
  <2>4. GuardHeld'
    BY DEF PublicationTypeOK, GuardHeld, Publishing, Recovering, Blocked
  <2>5. Vouched'
    BY DEF PublicationTypeOK, Vouched, Publishing, Recovering, Before, After, GuardHeld,
        CurrentPath, Arranged, AtBefore, Taken, AtAfter
  <2>6. Arranged'
    BY DEF Arranged, AtBefore, Taken, AtAfter, Before
  <2>q. QED BY <2>1, <2>2, <2>3, <2>4, <2>5, <2>6 DEF IInv
<1>q. QED BY <1>1, <1>2, <1>3, <1>4, <1>5, <1>6, <1>7, <1>8, <1>9, <1>10, <1>11,
    <1>12 DEF Publish

(* ... and so does every step of a rollback ...                              *)
LEMMA RecoverHolds ==
  ASSUME IInv, Recover
  PROVE  IInv'
<1> USE PublicationAssumption DEF IInv, custody, guards, history
<1>1. CASE Plan
  <2> USE <1>1 DEF Plan, GoOn
  <2>1. PublicationTypeOK'
    BY DEF PublicationTypeOK, Publishing, Recovering, Outcomes, Verdicts, Verdict
  <2>2. CurrentPath'
    BY DEF PublicationTypeOK, CurrentPath, Waiting, Publishing
  <2>3. Waiting'
    BY DEF PublicationTypeOK, Waiting, Publishing, Recovering, CurrentPath
  <2>4. GuardHeld'
    BY DEF PublicationTypeOK, GuardHeld, Publishing, Recovering, Blocked
  <2>5. Vouched'
    BY DEF PublicationTypeOK, Vouched, Publishing, Recovering, Before, After, GuardHeld,
        CurrentPath, Arranged, AtBefore, Taken, AtAfter
  <2>6. Arranged'
    BY DEF Arranged, AtBefore, Taken, AtAfter, Before
  <2>q. QED BY <2>1, <2>2, <2>3, <2>4, <2>5, <2>6 DEF IInv
<1>2. CASE Apply
  <2> USE <1>2 DEF Apply, Stop
  <2>1. PublicationTypeOK'
    BY DEF PublicationTypeOK, Publishing, Recovering, Outcomes
  <2>2. CurrentPath'
    BY DEF PublicationTypeOK, CurrentPath, Waiting, Publishing
  <2>3. Waiting'
    BY DEF PublicationTypeOK, Waiting, Publishing, Recovering, CurrentPath
  <2>4. GuardHeld'
    BY DEF PublicationTypeOK, GuardHeld, Publishing, Recovering, Blocked
  <2>5. Vouched'
    BY DEF PublicationTypeOK, Vouched, Publishing, Recovering, Before, After, GuardHeld,
        CurrentPath, Arranged, AtBefore, Taken, AtAfter
  <2>6. Arranged'
    BY DEF Arranged, AtBefore, Taken, AtAfter, Before
  <2>q. QED BY <2>1, <2>2, <2>3, <2>4, <2>5, <2>6 DEF IInv
<1>3. ASSUME NEW p \in Edited, Undo(p) PROVE IInv'
  <2> USE <1>3 DEF Undo, Stop, Verdict, OriginalHeld, OriginalThere
  <2>1. PublicationTypeOK'
    BY DEF PublicationTypeOK, Publishing, Recovering, Outcomes, UndoStates
  <2>2. CurrentPath'
    BY DEF PublicationTypeOK, CurrentPath, Waiting, Publishing
  <2>3. Waiting'
    BY DEF PublicationTypeOK, Waiting, Publishing, Recovering, CurrentPath
  <2>4. GuardHeld'
    BY DEF PublicationTypeOK, GuardHeld, Publishing, Recovering, Blocked
  <2>5. Arranged'
    BY DEF PublicationTypeOK, Arranged, AtBefore, Taken, AtAfter, Before, CurrentPath,
        GuardHeld, Publishing, Recovering, Waiting
  <2>6. Vouched'
    BY DEF PublicationTypeOK, Vouched, Publishing, Recovering, Before, After, GuardHeld,
        CurrentPath, Arranged, AtBefore, Taken, AtAfter
  <2>q. QED BY <2>1, <2>2, <2>3, <2>4, <2>5, <2>6 DEF IInv
<1>4. CASE TakeCandidate
  <2> USE <1>4 DEF TakeCandidate, GoOn, Stop
  <2>1. PublicationTypeOK'
    BY DEF PublicationTypeOK, Publishing, Recovering, Outcomes, EntryKinds, UndoStates
  <2>2. CurrentPath'
    BY DEF PublicationTypeOK, CurrentPath, Waiting, Publishing
  <2>3. Waiting'
    BY DEF PublicationTypeOK, Waiting, Publishing, Recovering, CurrentPath
  <2>4. GuardHeld'
    BY DEF PublicationTypeOK, GuardHeld, Publishing, Recovering, Blocked
  <2>5. Arranged'
    BY DEF PublicationTypeOK, Arranged, AtBefore, Taken, AtAfter, Before, CurrentPath,
        GuardHeld, Publishing, Recovering, Waiting
  <2>6. Vouched'
    BY DEF PublicationTypeOK, Vouched, Publishing, Recovering, Before, After, GuardHeld,
        CurrentPath, Arranged, AtBefore, Taken, AtAfter
  <2>q. QED BY <2>1, <2>2, <2>3, <2>4, <2>5, <2>6 DEF IInv
<1>5. CASE SettleCandidate
  <2> USE <1>5 DEF SettleCandidate, GoOn, Leave, Stop
  <2>1. PublicationTypeOK'
    BY DEF PublicationTypeOK, Publishing, Recovering, Outcomes, EntryKinds, UndoStates
  <2>2. CurrentPath'
    BY DEF PublicationTypeOK, CurrentPath, Waiting, Publishing
  <2>3. Waiting'
    BY DEF PublicationTypeOK, Waiting, Publishing, Recovering, CurrentPath
  <2>4. GuardHeld'
    BY DEF PublicationTypeOK, GuardHeld, Publishing, Recovering, Blocked
  <2>5. Arranged'
    BY DEF PublicationTypeOK, Arranged, AtBefore, Taken, AtAfter, Before, CurrentPath,
        GuardHeld, Publishing, Recovering, Waiting
  <2>6. Vouched'
    BY DEF PublicationTypeOK, Vouched, Publishing, Recovering, Before, After, GuardHeld,
        CurrentPath, Arranged, AtBefore, Taken, AtAfter
  <2>q. QED BY <2>1, <2>2, <2>3, <2>4, <2>5, <2>6 DEF IInv
<1>6. CASE GiveOriginal
  <2> USE <1>6 DEF GiveOriginal, Leave, Stop
  <2>1. PublicationTypeOK'
    BY DEF PublicationTypeOK, Publishing, Recovering, Outcomes, EntryKinds, KeptStates
  <2>2. CurrentPath'
    BY DEF PublicationTypeOK, CurrentPath, Waiting, Publishing
  <2>3. Waiting'
    BY DEF PublicationTypeOK, Waiting, Publishing, Recovering, CurrentPath
  <2>4. GuardHeld'
    BY DEF PublicationTypeOK, GuardHeld, Publishing, Recovering, Blocked
  <2>5. Arranged'
    BY DEF PublicationTypeOK, Arranged, AtBefore, Taken, AtAfter, Before, CurrentPath,
        GuardHeld, Publishing, Recovering, Waiting
  <2>6. Vouched'
    BY DEF PublicationTypeOK, Vouched, Publishing, Recovering, Before, After, GuardHeld,
        CurrentPath, Arranged, AtBefore, Taken, AtAfter
  <2>q. QED BY <2>1, <2>2, <2>3, <2>4, <2>5, <2>6 DEF IInv
<1>7. CASE VerifyUndone
  <2> USE <1>7 DEF VerifyUndone, GoOn, Stop, Verdict, OriginalHeld, OriginalThere
  <2>1. PublicationTypeOK'
    BY DEF PublicationTypeOK, Publishing, Recovering, Outcomes
  <2>2. CurrentPath'
    BY DEF PublicationTypeOK, CurrentPath, Waiting, Publishing
  <2>3. Waiting'
    BY DEF PublicationTypeOK, Waiting, Publishing, Recovering, CurrentPath
  <2>4. GuardHeld'
    BY DEF PublicationTypeOK, GuardHeld, Publishing, Recovering, Blocked
  <2>5. Vouched'
    BY DEF PublicationTypeOK, Vouched, Publishing, Recovering, Before, After, GuardHeld,
        CurrentPath, Arranged, AtBefore, Taken, AtAfter
  <2>6. Arranged'
    BY DEF Arranged, AtBefore, Taken, AtAfter, Before
  <2>q. QED BY <2>1, <2>2, <2>3, <2>4, <2>5, <2>6 DEF IInv
<1>8. CASE SettleRow
  <2> USE <1>8 DEF SettleRow, GoOn
  <2>1. PublicationTypeOK'
    BY DEF PublicationTypeOK, Publishing, Recovering, Outcomes
  <2>2. CurrentPath'
    BY DEF PublicationTypeOK, CurrentPath, Waiting, Publishing
  <2>3. Waiting'
    BY DEF PublicationTypeOK, Waiting, Publishing, Recovering, CurrentPath
  <2>4. GuardHeld'
    BY DEF PublicationTypeOK, GuardHeld, Publishing, Recovering, Blocked
  <2>5. Vouched'
    BY DEF PublicationTypeOK, Vouched, Publishing, Recovering, Before, After, GuardHeld,
        CurrentPath, Arranged, AtBefore, Taken, AtAfter
  <2>6. Arranged'
    BY DEF Arranged, AtBefore, Taken, AtAfter, Before
  <2>q. QED BY <2>1, <2>2, <2>3, <2>4, <2>5, <2>6 DEF IInv
<1>9. CASE CaptureJournal
  <2> USE <1>9 DEF CaptureJournal, GoOn
  <2>1. PublicationTypeOK'
    BY DEF PublicationTypeOK, Publishing, Recovering, Outcomes
  <2>2. CurrentPath'
    BY DEF PublicationTypeOK, CurrentPath, Waiting, Publishing
  <2>3. Waiting'
    BY DEF PublicationTypeOK, Waiting, Publishing, Recovering, CurrentPath
  <2>4. GuardHeld'
    BY DEF PublicationTypeOK, GuardHeld, Publishing, Recovering, Blocked
  <2>5. Vouched'
    BY DEF PublicationTypeOK, Vouched, Publishing, Recovering, Before, After, GuardHeld,
        CurrentPath, Arranged, AtBefore, Taken, AtAfter
  <2>6. Arranged'
    BY DEF Arranged, AtBefore, Taken, AtAfter, Before
  <2>q. QED BY <2>1, <2>2, <2>3, <2>4, <2>5, <2>6 DEF IInv
<1>10. CASE FinishRetirement
  <2> USE <1>10 DEF FinishRetirement, GoOn
  <2>1. PublicationTypeOK'
    BY DEF PublicationTypeOK, Publishing, Recovering, Outcomes
  <2>2. CurrentPath'
    BY DEF PublicationTypeOK, CurrentPath, Waiting, Publishing
  <2>3. Waiting'
    BY DEF PublicationTypeOK, Waiting, Publishing, Recovering, CurrentPath
  <2>4. GuardHeld'
    BY DEF PublicationTypeOK, GuardHeld, Publishing, Recovering, Blocked
  <2>5. Vouched'
    BY DEF PublicationTypeOK, Vouched, Publishing, Recovering, Before, After, GuardHeld,
        CurrentPath, Arranged, AtBefore, Taken, AtAfter
  <2>6. Arranged'
    BY DEF Arranged, AtBefore, Taken, AtAfter, Before
  <2>q. QED BY <2>1, <2>2, <2>3, <2>4, <2>5, <2>6 DEF IInv
<1>q. QED BY <1>1, <1>2, <1>3, <1>4, <1>5, <1>6, <1>7, <1>8, <1>9, <1>10 DEF Recover

(* ... and the next transaction, the owner and every death.                  *)
LEMMA OthersHold ==
  ASSUME IInv, Again \/ (\E p \in Edited : OwnerActs(p)) \/ GatewayDies \/ RecoveryDies
  PROVE  IInv'
<1> USE PublicationAssumption DEF IInv, custody, guards, history
<1>1. CASE Again
  <2> USE <1>1 DEF Again, Before
  <2>1. PublicationTypeOK'
    BY DEF PublicationTypeOK, Publishing, Recovering, Outcomes, KeptStates, UndoStates,
        Verdicts, Verdict
  <2>2. CurrentPath'
    BY DEF PublicationTypeOK, CurrentPath, Waiting, Publishing
  <2>3. Waiting'
    BY DEF PublicationTypeOK, Waiting, Publishing, Recovering, CurrentPath
  <2>4. GuardHeld'
    BY DEF PublicationTypeOK, GuardHeld, Publishing, Recovering, Blocked
  <2>5. Arranged'
    BY DEF PublicationTypeOK, Arranged, AtBefore, Taken, AtAfter, CurrentPath, GuardHeld,
        Publishing, Recovering, Waiting
  <2>6. Vouched'
    BY DEF PublicationTypeOK, Vouched, Publishing, Recovering, After, GuardHeld,
        CurrentPath, Arranged, AtBefore, Taken, AtAfter
  <2>q. QED BY <2>1, <2>2, <2>3, <2>4, <2>5, <2>6 DEF IInv
<1>2. ASSUME NEW p \in Edited, OwnerActs(p) PROVE IInv'
  <2> USE <1>2 DEF OwnerActs
  <2>1. PublicationTypeOK'
    BY DEF PublicationTypeOK, EntryKinds, KeptStates, UndoStates
  <2>2. CurrentPath'
    BY DEF PublicationTypeOK, CurrentPath, Waiting, Publishing
  <2>3. Waiting'
    BY DEF PublicationTypeOK, Waiting, Publishing, Recovering, CurrentPath
  <2>4. GuardHeld'
    BY DEF PublicationTypeOK, GuardHeld, Publishing, Recovering, Blocked
  <2>5. Arranged'
    BY DEF PublicationTypeOK, Arranged, AtBefore, Taken, AtAfter, Before, CurrentPath,
        GuardHeld, Publishing, Recovering, Waiting
  <2>6. Vouched'
    BY DEF PublicationTypeOK, Vouched, Publishing, Recovering, Before, After, GuardHeld,
        CurrentPath, Arranged, AtBefore, Taken, AtAfter
  <2>q. QED BY <2>1, <2>2, <2>3, <2>4, <2>5, <2>6 DEF IInv
<1>3. CASE GatewayDies
  <2> USE <1>3 DEF GatewayDies, Blocked
  <2>1. PublicationTypeOK'
    <3>1. publisherDeaths' \in 0..MaxPublisherDeaths
      BY Bounds DEF PublicationTypeOK
    <3>2. doing' \in Publishing \cup Recovering \cup Outcomes
      BY DEF Outcomes
    <3>q. QED BY <3>1, <3>2 DEF PublicationTypeOK
  <2>2. CurrentPath'
    BY DEF PublicationTypeOK, CurrentPath, Waiting, Publishing
  <2>3. Waiting'
    BY DEF PublicationTypeOK, Waiting, Publishing, Recovering, CurrentPath
  <2>4. GuardHeld'
    BY DEF PublicationTypeOK, GuardHeld, Publishing, Recovering
  <2>5. Vouched'
    BY DEF PublicationTypeOK, Vouched, Publishing, Recovering, Before, After, GuardHeld,
        CurrentPath, Arranged, AtBefore, Taken, AtAfter
  <2>6. Arranged'
    BY DEF Arranged, AtBefore, Taken, AtAfter, Before
  <2>q. QED BY <2>1, <2>2, <2>3, <2>4, <2>5, <2>6 DEF IInv
<1>4. CASE RecoveryDies
  <2> USE <1>4 DEF RecoveryDies, Stop, Recovering
  <2>1. PublicationTypeOK'
    <3>1. recoveryCrashes' \in 0..MaxRecoveryCrashes
      BY Bounds DEF PublicationTypeOK
    <3>2. doing' \in Publishing \cup Recovering \cup Outcomes
      BY DEF Outcomes
    <3>q. QED BY <3>1, <3>2 DEF PublicationTypeOK
  <2>2. CurrentPath'
    BY DEF PublicationTypeOK, CurrentPath, Waiting, Publishing
  <2>3. Waiting'
    BY DEF PublicationTypeOK, Waiting, Publishing, CurrentPath
  <2>4. GuardHeld'
    BY DEF PublicationTypeOK, GuardHeld, Publishing, Blocked
  <2>5. Vouched'
    BY DEF PublicationTypeOK, Vouched, Publishing, Before, After, GuardHeld, CurrentPath,
        Arranged, AtBefore, Taken, AtAfter
  <2>6. Arranged'
    BY DEF Arranged, AtBefore, Taken, AtAfter, Before
  <2>q. QED BY <2>1, <2>2, <2>3, <2>4, <2>5, <2>6 DEF IInv
<1>q. QED BY <1>1, <1>2, <1>3, <1>4

LEMMA StepHolds == IInv /\ [PublicationNext]_publicationVars => IInv'
<1> SUFFICES ASSUME IInv, [PublicationNext]_publicationVars PROVE IInv'
  OBVIOUS
<1>1. CASE PublicationNext
  BY <1>1, PublishHolds, RecoverHolds, OthersHold DEF PublicationNext
<1>2. CASE UNCHANGED publicationVars
  BY <1>2 DEF publicationVars, IInv, PublicationTypeOK, CurrentPath, Waiting, GuardHeld,
      Blocked,
       Arranged, AtBefore, Taken, AtAfter, Vouched
<1>q. QED BY <1>1, <1>2

LEMMA Invariant == PublicationSpec => []IInv
BY InitHolds, StepHolds, PTL DEF PublicationSpec

(* Every path, custody, journal and program counter keeps to its values.     *)
THEOREM TypeCorrect == PublicationSpec => []PublicationTypeOK
<1>1. IInv => PublicationTypeOK
  BY DEF IInv
<1>q. QED BY Invariant, <1>1, PTL

(* A workspace that opens for the next transaction holds one whole endpoint:
   all of a published transaction's edits or none of any other's, on every
   path the owner left alone, after any deaths of gateway and recovery.      *)
THEOREM AllOrNothing == PublicationSpec => []WholeEndpoint
<1>1. IInv => WholeEndpoint
  <2> SUFFICES ASSUME IInv, ~Blocked, NEW p \in Edited \ touched
               PROVE  named[p] = IF doing = "published" THEN After(p) ELSE Before(p)
    BY DEF WholeEndpoint
  <2>1. doing \in {"ready", "checked", "rejected", "published", "recovered"}
    BY DEF IInv, GuardHeld, PublicationTypeOK, Blocked, Publishing, Recovering, Outcomes
  <2>q. QED BY <2>1 DEF IInv, GuardHeld, Vouched
<1>q. QED BY Invariant, <1>1, PTL

(* Neither publication nor rollback nor a death loses an original the owner
   left alone: it is at its path or in custody.                              *)
THEOREM OriginalsSurvive == PublicationSpec => []OriginalsRetained
<1>1. IInv => OriginalsRetained
  BY DEF IInv, Arranged, AtBefore, Taken, AtAfter, Before, OriginalsRetained
<1>q. QED BY Invariant, <1>1, PTL

(* The row says recovered only over a workspace that is back at its old
   endpoint, and the guard is given up only after the row says so.           *)
THEOREM RecoveredIsTrue == PublicationSpec => []RecoveredMeansBefore
<1>1. IInv => RecoveredMeansBefore
  BY DEF IInv, Vouched, GuardHeld, RecoveredMeansBefore
<1>q. QED BY Invariant, <1>1, PTL

(* No step of gateway or recovery destroys or duplicates an entry of the
   owner's, not even one that appeared between a check and its rename.       *)
THEOREM OwnerEntriesSurvive == PublicationSpec => OwnerWorkKept
<1> DEFINE Kept == touches' = touches /\ round' = round
                     => \A p \in Edited : OwnerEntries(p)' = OwnerEntries(p)
<1>1. IInv /\ [PublicationNext]_publicationVars => [Kept]_publicationVars
  <2> SUFFICES ASSUME IInv, PublicationNext, touches' = touches, round' = round,
                      NEW p \in Edited
               PROVE  OwnerEntries(p)' = OwnerEntries(p)
    OBVIOUS
  <2> USE DEF OwnerEntries, Is, IInv, PublicationTypeOK, custody, guards, history
  <2>1. CASE Publish
    <3>1. CASE TakeAside
      BY <3>1 DEF TakeAside, CurrentPath, GoOn, Stop, EntryKinds
    <3>2. CASE SettleOriginal
      BY <3>2 DEF SettleOriginal, CurrentPath, GoOn, Stop
    <3>3. CASE Link
      BY <3>3 DEF Link, CurrentPath, GoOn, Stop
    <3>4. CASE CaptureOriginal
      BY <3>4 DEF CaptureOriginal, CurrentPath, GoOn, Stop
    <3>5. CASE \/ Preflight \/ OpenJournal \/ SyncJournal \/ (\E f \in Edited : BeginPath(f))
               \/ CreateNext \/ ReplaceJournal \/ VerifyAfter \/ UnlinkJournal
      <4>1. UNCHANGED <<named, aside, undo>>
        BY <3>5 DEF Preflight, OpenJournal, SyncJournal, BeginPath, CreateNext,
            ReplaceJournal,
             VerifyAfter, UnlinkJournal
      <4>q. QED BY <4>1
    <3>q. QED BY <2>1, <3>1, <3>2, <3>3, <3>4, <3>5 DEF Publish
  <2>2. CASE Recover
    <3>1. CASE \E f \in Edited : Undo(f)
      BY <3>1 DEF Undo, Verdict, Stop
    <3>2. CASE TakeCandidate
      BY <3>2 DEF TakeCandidate, CurrentPath, GoOn, Stop, EntryKinds
    <3>3. CASE SettleCandidate
      BY <3>3 DEF SettleCandidate, CurrentPath, GoOn, Leave, Stop
    <3>4. CASE GiveOriginal
      BY <3>4 DEF GiveOriginal, CurrentPath, Leave, Stop
    <3>5. CASE Plan \/ Apply \/ VerifyUndone \/ SettleRow \/ CaptureJournal \/ FinishRetirement
      <4>1. UNCHANGED <<named, aside, undo>>
        BY <3>5 DEF Plan, Apply, VerifyUndone, SettleRow, CaptureJournal, FinishRetirement
      <4>q. QED BY <4>1
    <3>q. QED BY <2>2, <3>1, <3>2, <3>3, <3>4, <3>5 DEF Recover
  <2>3. CASE Again \/ (\E f \in Edited : OwnerActs(f))
    BY <2>3 DEF Again, OwnerActs
  <2>4. CASE GatewayDies \/ RecoveryDies
    BY <2>4 DEF GatewayDies, RecoveryDies
  <2>q. QED BY <2>1, <2>2, <2>3, <2>4 DEF PublicationNext
<1>q. QED BY Invariant, <1>1, PTL DEF PublicationSpec, OwnerWorkKept

-----------------------------------------------------------------------------
(* What stands behind a conflict or an interruption, and that nothing else    *)
(* does: publication and rollback followed file by file.                      *)

(* A candidate that can be seen was journaled first.                         *)
StagedFirst ==
  /\ \A p \in Edited : named[p] = "candidate" => p \in staged
  /\ doing \in {"capture", "take", "settle", "link"} => Op[cur] = "delete" \/ cur \in staged

(* A publication over paths the owner leaves alone: those done are at their
   new endpoint, those to come at the old one, the one in hand in between.   *)
OnCourse ==
  doing \in Publishing \ {"ready", "checked", "writing"} =>
    /\ doing \notin {"publish", "receipted"} => cur \in todo
    /\ \A p \in Edited \ (todo \cup touched) : Published(p)
    /\ \A p \in todo \ (touched \cup {cur}) : named[p] = Before(p)
    /\ cur \in Edited \ touched =>
         /\ doing \in {"record", "swap", "capture", "take"} => named[cur] = Before(cur)
         /\ doing \in {"settle", "link"} => named[cur] = "none"
         /\ doing \in {"note", "noted"} => Published(cur)

(* The same of a rollback, and of the plan it was reviewed by.               *)
RollingBack == {"undo", "undo_take", "undo_settle", "give"}
OnReturn ==
  /\ doing = "planned" => \A p \in Edited \ touched : plan[p] = Verdict(p)
  /\ doing \in RollingBack =>
       /\ doing # "undo" => cur \in todo
       /\ \A p \in Edited \ (todo \cup touched) : Verdict(p) = "baseline"
  /\ doing = "undo_settle" /\ cur \notin touched => undo[cur] = "candidate" /\ named[cur] = "none"
  /\ doing = "give" /\ cur \notin touched => aside[cur] = "original" /\ named[cur] = "none"
  /\ \A p \in Edited \ touched : undo[p] = "intent" =>
       (doing = "undo_take" /\ cur = p) \/ recoveryCrashes > 0

(* Where a replacement of the journal may come from, and an interruption
   nobody died of.                                                           *)
LeftOver ==
  /\ round >= 1 /\ (calm /\ round = 1 => publisherDeaths = 0)
  /\ next => doing \in {"swap", "noted"} \/ publisherDeaths > 0
  /\ calm /\ doing \in {"interrupted", "recovered"} \cup Recovering =>
       touched # {} \/ (next /\ publisherDeaths > 0)

CourseInv == IInv /\ StagedFirst /\ OnCourse /\ OnReturn /\ LeftOver

(* Between the intent and the rename of an undo capture the recovery died.   *)
Abandoned(p) == undo[p] = "intent" /\ ~(doing = "undo_take" /\ cur = p)

(* A conflict in a reviewed plan is the owner's work or an abandoned capture.   *)
ConflictHasCause ==
  doing = "planned" =>
    \A p \in Edited : plan[p] = "conflict" =>
      p \in touched \/ (Abandoned(p) /\ recoveryCrashes > 0)

(* An interruption in a transaction nobody died in is the owner's work or the
   replacement journal a publisher of an earlier one left (`_journal` creates it
   with O_EXCL).                                                              *)
InterruptionHasCause ==
  doing = "interrupted" /\ calm =>
    touched # {} \/ (next /\ publisherDeaths > 0 /\ round > 1)

(* The owner keeps away, and no undo capture is abandoned.                    *)
Unhindered == touched = {} /\ \A p \in Edited : ~Abandoned(p)

(* What each step of a rollback looks at is what it asks for.                 *)
RollbackAccepted ==
  Unhindered =>
    /\ doing = "interrupted" => \A p \in Edited : Verdict(p) # "conflict"
    /\ doing = "planned" => \A p \in Edited : plan[p] = Verdict(p) /\ plan[p] # "conflict"
    /\ doing = "undo" => IF todo = {} THEN \A p \in Edited : Verdict(p) = "baseline"
                                      ELSE \A p \in todo : Verdict(p) # "conflict"
    /\ doing = "undo_take" => named[cur] = "candidate"
    /\ doing = "undo_settle" => undo[cur] = "candidate" /\ named[cur] = "none"
    /\ doing = "give" => aside[cur] = "original" /\ named[cur] = "none"

(* How far a rollback still has to go: the stage, the files left to do, and the
   steps left on the file in hand.                                            *)
Stage(step) ==
  CASE step = "planned" -> 5 [] step \in RollingBack -> 4 [] step = "restored" -> 3
    [] step = "settled" -> 2 [] step = "retired" -> 1 [] OTHER -> 0
Left(step) ==
  CASE step = "undo" -> 3 [] step = "undo_take" -> 2 [] step = "undo_settle" -> 1 [] OTHER -> 0

Closer ==
  \/ Stage(doing') < Stage(doing)
  \/ /\ Stage(doing') = Stage(doing)
     /\ \/ todo' \subseteq todo /\ todo' # todo
        \/ todo' = todo /\ Left(doing') < Left(doing)

(* No step of an unhindered rollback stops, and each brings its end closer.    *)
RollbackStep ==
  doing \in Recovering /\ Unhindered /\ touched' = {} /\ recoveryCrashes' = recoveryCrashes
    => doing' # "interrupted" /\ Closer

RollbackAdvances == [][RollbackStep]_publicationVars

(* The first transaction is on course.                                       *)
LEMMA CourseBegins == PublicationInit => CourseInv
<1> SUFFICES ASSUME PublicationInit PROVE CourseInv
  OBVIOUS
<1>1. IInv
  BY InitHolds
<1>2. StagedFirst /\ OnCourse /\ OnReturn /\ LeftOver
  BY PublicationAssumption DEF PublicationInit, StagedFirst, OnCourse, OnReturn, LeftOver,
      Publishing, Recovering, RollingBack, Before
<1>q. QED BY <1>1, <1>2 DEF CourseInv

(* Publication keeps to this course ...                                      *)
LEMMA PublishOnCourse ==
  ASSUME CourseInv, Publish
  PROVE  CourseInv'
<1> USE PublicationAssumption DEF custody, guards, history
<1>0. IInv'
  BY PublishHolds DEF CourseInv
<1> USE DEF CourseInv, IInv, PublicationTypeOK, CurrentPath, GuardHeld, Waiting, Arranged,
           AtBefore, Taken, AtAfter, Publishing, Recovering, RollingBack
<1>1. CASE Preflight
  <2> USE <1>1 DEF Preflight, GoOn
  <2>1. StagedFirst'
    BY DEF StagedFirst, Before
  <2>2. OnCourse'
    BY DEF OnCourse, Published, After, Before
  <2>3. OnReturn'
    BY DEF OnReturn, Verdict, OriginalHeld, OriginalThere, Before
  <2>4. LeftOver'
    BY Bounds DEF LeftOver, OnCourse, Published, After, Before
  <2>q. QED BY <2>1, <2>2, <2>3, <2>4, <1>0 DEF CourseInv
<1>2. CASE OpenJournal
  <2> USE <1>2 DEF OpenJournal, GoOn
  <2>1. StagedFirst'
    BY DEF StagedFirst, Before
  <2>2. OnCourse'
    BY DEF OnCourse, Published, After, Before
  <2>3. OnReturn'
    BY DEF OnReturn, Verdict, OriginalHeld, OriginalThere, Before
  <2>4. LeftOver'
    BY Bounds DEF LeftOver, OnCourse, Published, After, Before
  <2>q. QED BY <2>1, <2>2, <2>3, <2>4, <1>0 DEF CourseInv
<1>3. CASE SyncJournal
  <2> USE <1>3 DEF SyncJournal
  <2>1. StagedFirst'
    BY DEF StagedFirst, Before
  <2>2. OnCourse'
    BY DEF OnCourse, Published, After, Before
  <2>3. OnReturn'
    BY DEF OnReturn, Verdict, OriginalHeld, OriginalThere, Before
  <2>4. LeftOver'
    BY Bounds DEF LeftOver, OnCourse, Published, After, Before
  <2>q. QED BY <2>1, <2>2, <2>3, <2>4, <1>0 DEF CourseInv
<1>4. ASSUME NEW p \in Edited, BeginPath(p) PROVE CourseInv'
  <2> USE <1>4 DEF BeginPath, Stop
  <2>1. StagedFirst'
    BY DEF StagedFirst, Before
  <2>2. OnCourse'
    BY DEF OnCourse, Published, After, Before
  <2>3. OnReturn'
    BY DEF OnReturn, Verdict, OriginalHeld, OriginalThere, Before
  <2>4. LeftOver'
    BY Bounds DEF LeftOver, OnCourse, Published, After, Before
  <2>q. QED BY <2>1, <2>2, <2>3, <2>4, <1>0 DEF CourseInv
<1>5. CASE CreateNext
  <2> USE <1>5 DEF CreateNext, GoOn, Stop
  <2>1. StagedFirst'
    BY DEF StagedFirst, Before
  <2>2. OnCourse'
    BY DEF OnCourse, Published, After, Before
  <2>3. OnReturn'
    BY DEF OnReturn, Verdict, OriginalHeld, OriginalThere, Before
  <2>4. LeftOver'
    BY Bounds DEF LeftOver, OnCourse, Published, After, Before
  <2>q. QED BY <2>1, <2>2, <2>3, <2>4, <1>0 DEF CourseInv
<1>6. CASE ReplaceJournal
  <2> USE <1>6 DEF ReplaceJournal, GoOn, Leave
  <2>1. StagedFirst'
    BY DEF StagedFirst, Before
  <2>2. OnCourse'
    BY DEF OnCourse, Published, After, Before
  <2>3. OnReturn'
    BY DEF OnReturn, Verdict, OriginalHeld, OriginalThere, Before
  <2>4. LeftOver'
    BY Bounds DEF LeftOver, OnCourse, Published, After, Before
  <2>q. QED BY <2>1, <2>2, <2>3, <2>4, <1>0 DEF CourseInv
<1>7. CASE CaptureOriginal
  <2> USE <1>7 DEF CaptureOriginal, GoOn, Stop
  <2>1. StagedFirst'
    BY DEF StagedFirst, Before
  <2>2. OnCourse'
    BY DEF OnCourse, Published, After, Before
  <2>3. OnReturn'
    BY DEF OnReturn, Verdict, OriginalHeld, OriginalThere, Before
  <2>4. LeftOver'
    BY Bounds DEF LeftOver, OnCourse, Published, After, Before
  <2>q. QED BY <2>1, <2>2, <2>3, <2>4, <1>0 DEF CourseInv
<1>8. CASE TakeAside
  <2> USE <1>8 DEF TakeAside, GoOn, Stop
  <2>1. StagedFirst'
    BY DEF StagedFirst, Before
  <2>2. OnCourse'
    BY DEF OnCourse, Published, After, Before
  <2>3. OnReturn'
    BY DEF OnReturn, Verdict, OriginalHeld, OriginalThere, Before
  <2>4. LeftOver'
    BY Bounds DEF LeftOver, OnCourse, Published, After, Before
  <2>q. QED BY <2>1, <2>2, <2>3, <2>4, <1>0 DEF CourseInv
<1>9. CASE SettleOriginal
  <2> USE <1>9 DEF SettleOriginal, GoOn, Stop
  <2>1. StagedFirst'
    BY DEF StagedFirst, Before
  <2>2. OnCourse'
    BY DEF OnCourse, Published, After, Before
  <2>3. OnReturn'
    BY DEF OnReturn, Verdict, OriginalHeld, OriginalThere, Before
  <2>4. LeftOver'
    BY Bounds DEF LeftOver, OnCourse, Published, After, Before
  <2>q. QED BY <2>1, <2>2, <2>3, <2>4, <1>0 DEF CourseInv
<1>10. CASE Link
  <2> USE <1>10 DEF Link, GoOn, Stop
  <2>1. StagedFirst'
    BY DEF StagedFirst, Before
  <2>2. OnCourse'
    BY DEF OnCourse, Published, After, Before
  <2>3. OnReturn'
    BY DEF OnReturn, Verdict, OriginalHeld, OriginalThere, Before
  <2>4. LeftOver'
    BY Bounds DEF LeftOver, OnCourse, Published, After, Before
  <2>q. QED BY <2>1, <2>2, <2>3, <2>4, <1>0 DEF CourseInv
<1>11. CASE VerifyAfter
  <2> USE <1>11 DEF VerifyAfter, GoOn, Stop
  <2>1. StagedFirst'
    BY DEF StagedFirst, Before
  <2>2. OnCourse'
    BY DEF OnCourse, Published, After, Before
  <2>3. OnReturn'
    BY DEF OnReturn, Verdict, OriginalHeld, OriginalThere, Before
  <2>4. LeftOver'
    BY Bounds DEF LeftOver, OnCourse, Published, After, Before
  <2>q. QED BY <2>1, <2>2, <2>3, <2>4, <1>0 DEF CourseInv
<1>12. CASE UnlinkJournal
  <2> USE <1>12 DEF UnlinkJournal, GoOn
  <2>1. StagedFirst'
    BY DEF StagedFirst, Before
  <2>2. OnCourse'
    BY DEF OnCourse, Published, After, Before
  <2>3. OnReturn'
    BY DEF OnReturn, Verdict, OriginalHeld, OriginalThere, Before
  <2>4. LeftOver'
    BY Bounds DEF LeftOver, OnCourse, Published, After, Before
  <2>q. QED BY <2>1, <2>2, <2>3, <2>4, <1>0 DEF CourseInv
<1>q. QED BY <1>1, <1>2, <1>3, <1>4, <1>5, <1>6, <1>7, <1>8, <1>9, <1>10, <1>11, <1>12 DEF Publish

(* ... rollback does ...                                                     *)
LEMMA RecoverOnCourse ==
  ASSUME CourseInv, Recover
  PROVE  CourseInv'
<1> USE PublicationAssumption DEF custody, guards, history
<1>0. IInv'
  BY RecoverHolds DEF CourseInv
<1> USE DEF CourseInv, IInv, PublicationTypeOK, CurrentPath, GuardHeld, Waiting, Arranged,
           AtBefore, Taken, AtAfter, Publishing, Recovering, RollingBack
<1>1. CASE Plan
  <2> USE <1>1 DEF Plan, GoOn
  <2>1. StagedFirst'
    BY DEF StagedFirst, Before
  <2>2. OnCourse'
    BY DEF OnCourse, Published, After, Before
  <2>3. OnReturn'
    BY DEF OnReturn, Verdict, OriginalHeld, OriginalThere, Before
  <2>4. LeftOver'
    BY Bounds DEF LeftOver, OnCourse, Published, After, Before
  <2>q. QED BY <2>1, <2>2, <2>3, <2>4, <1>0 DEF CourseInv
<1>2. CASE Apply
  <2> USE <1>2 DEF Apply, Stop
  <2>1. StagedFirst'
    BY DEF StagedFirst, Before
  <2>2. OnCourse'
    BY DEF OnCourse, Published, After, Before
  <2>3. OnReturn'
    BY DEF OnReturn, Verdict, OriginalHeld, OriginalThere, Before
  <2>4. LeftOver'
    BY Bounds DEF LeftOver, OnCourse, Published, After, Before
  <2>q. QED BY <2>1, <2>2, <2>3, <2>4, <1>0 DEF CourseInv
<1>3. ASSUME NEW p \in Edited, Undo(p) PROVE CourseInv'
  <2> USE <1>3 DEF Undo, Stop
  <2>1. StagedFirst'
    BY DEF StagedFirst, Before
  <2>2. OnCourse'
    BY DEF OnCourse, Published, After, Before
  <2>3. OnReturn'
    BY DEF OnReturn, Verdict, OriginalHeld, OriginalThere, Before
  <2>4. LeftOver'
    BY Bounds DEF LeftOver, OnCourse, Published, After, Before
  <2>q. QED BY <2>1, <2>2, <2>3, <2>4, <1>0 DEF CourseInv
<1>4. CASE TakeCandidate
  <2> USE <1>4 DEF TakeCandidate, GoOn, Stop
  <2>1. StagedFirst'
    BY DEF StagedFirst, Before
  <2>2. OnCourse'
    BY DEF OnCourse, Published, After, Before
  <2>3. OnReturn'
    BY DEF OnReturn, Verdict, OriginalHeld, OriginalThere, Before
  <2>4. LeftOver'
    BY Bounds DEF LeftOver, OnCourse, Published, After, Before
  <2>q. QED BY <2>1, <2>2, <2>3, <2>4, <1>0 DEF CourseInv
<1>5. CASE SettleCandidate
  <2> USE <1>5 DEF SettleCandidate, GoOn, Leave, Stop
  <2>1. StagedFirst'
    BY DEF StagedFirst, Before
  <2>2. OnCourse'
    BY DEF OnCourse, Published, After, Before
  <2>3. OnReturn'
    BY DEF OnReturn, Verdict, OriginalHeld, OriginalThere, Before
  <2>4. LeftOver'
    BY Bounds DEF LeftOver, OnCourse, Published, After, Before
  <2>q. QED BY <2>1, <2>2, <2>3, <2>4, <1>0 DEF CourseInv
<1>6. CASE GiveOriginal
  <2> USE <1>6 DEF GiveOriginal, Leave, Stop
  <2>1. StagedFirst'
    BY DEF StagedFirst, Before
  <2>2. OnCourse'
    BY DEF OnCourse, Published, After, Before
  <2>3. OnReturn'
    BY DEF OnReturn, Verdict, OriginalHeld, OriginalThere, Before
  <2>4. LeftOver'
    BY Bounds DEF LeftOver, OnCourse, Published, After, Before
  <2>q. QED BY <2>1, <2>2, <2>3, <2>4, <1>0 DEF CourseInv
<1>7. CASE VerifyUndone
  <2> USE <1>7 DEF VerifyUndone, GoOn, Stop
  <2>1. StagedFirst'
    BY DEF StagedFirst, Before
  <2>2. OnCourse'
    BY DEF OnCourse, Published, After, Before
  <2>3. OnReturn'
    BY DEF OnReturn, Verdict, OriginalHeld, OriginalThere, Before
  <2>4. LeftOver'
    BY Bounds DEF LeftOver, OnCourse, Published, After, Before
  <2>q. QED BY <2>1, <2>2, <2>3, <2>4, <1>0 DEF CourseInv
<1>8. CASE SettleRow
  <2> USE <1>8 DEF SettleRow, GoOn
  <2>1. StagedFirst'
    BY DEF StagedFirst, Before
  <2>2. OnCourse'
    BY DEF OnCourse, Published, After, Before
  <2>3. OnReturn'
    BY DEF OnReturn, Verdict, OriginalHeld, OriginalThere, Before
  <2>4. LeftOver'
    BY Bounds DEF LeftOver, OnCourse, Published, After, Before
  <2>q. QED BY <2>1, <2>2, <2>3, <2>4, <1>0 DEF CourseInv
<1>9. CASE CaptureJournal
  <2> USE <1>9 DEF CaptureJournal, GoOn
  <2>1. StagedFirst'
    BY DEF StagedFirst, Before
  <2>2. OnCourse'
    BY DEF OnCourse, Published, After, Before
  <2>3. OnReturn'
    BY DEF OnReturn, Verdict, OriginalHeld, OriginalThere, Before
  <2>4. LeftOver'
    BY Bounds DEF LeftOver, OnCourse, Published, After, Before
  <2>q. QED BY <2>1, <2>2, <2>3, <2>4, <1>0 DEF CourseInv
<1>10. CASE FinishRetirement
  <2> USE <1>10 DEF FinishRetirement, GoOn
  <2>1. StagedFirst'
    BY DEF StagedFirst, Before
  <2>2. OnCourse'
    BY DEF OnCourse, Published, After, Before
  <2>3. OnReturn'
    BY DEF OnReturn, Verdict, OriginalHeld, OriginalThere, Before
  <2>4. LeftOver'
    BY Bounds DEF LeftOver, OnCourse, Published, After, Before
  <2>q. QED BY <2>1, <2>2, <2>3, <2>4, <1>0 DEF CourseInv
<1>q. QED BY <1>1, <1>2, <1>3, <1>4, <1>5, <1>6, <1>7, <1>8, <1>9, <1>10 DEF Recover

(* ... and so do the next transaction, the owner and the deaths.             *)
LEMMA OthersOnCourse ==
  ASSUME CourseInv, Again \/ (\E p \in Edited : OwnerActs(p)) \/ GatewayDies \/ RecoveryDies
  PROVE  CourseInv'
<1> USE PublicationAssumption DEF custody, guards, history
<1>0. IInv'
  BY OthersHold DEF CourseInv
<1> USE DEF CourseInv, IInv, PublicationTypeOK, CurrentPath, GuardHeld, Waiting, Arranged,
           AtBefore, Taken, AtAfter, Publishing, Recovering, RollingBack
<1>1. CASE Again
  <2> USE <1>1 DEF Again
  <2>1. StagedFirst'
    BY DEF StagedFirst, Before
  <2>2. OnCourse'
    BY DEF OnCourse, Published, After, Before
  <2>3. OnReturn'
    BY DEF OnReturn, Verdict, OriginalHeld, OriginalThere, Before
  <2>4. LeftOver'
    BY Bounds DEF LeftOver, OnCourse, Published, After, Before
  <2>q. QED BY <2>1, <2>2, <2>3, <2>4, <1>0 DEF CourseInv
<1>2. ASSUME NEW p \in Edited, OwnerActs(p) PROVE CourseInv'
  <2> USE <1>2 DEF OwnerActs
  <2>1. StagedFirst'
    BY DEF StagedFirst, Before
  <2>2. OnCourse'
    BY DEF OnCourse, Published, After, Before
  <2>3. OnReturn'
    BY DEF OnReturn, Verdict, OriginalHeld, OriginalThere, Before
  <2>4. LeftOver'
    BY Bounds DEF LeftOver, OnCourse, Published, After, Before
  <2>q. QED BY <2>1, <2>2, <2>3, <2>4, <1>0 DEF CourseInv
<1>3. CASE GatewayDies
  <2> USE <1>3 DEF GatewayDies
  <2>1. StagedFirst'
    BY DEF StagedFirst, Before
  <2>2. OnCourse'
    BY DEF OnCourse, Published, After, Before
  <2>3. OnReturn'
    BY DEF OnReturn, Verdict, OriginalHeld, OriginalThere, Before
  <2>4. LeftOver'
    BY Bounds DEF LeftOver, OnCourse, Published, After, Before
  <2>q. QED BY <2>1, <2>2, <2>3, <2>4, <1>0 DEF CourseInv
<1>4. CASE RecoveryDies
  <2> USE <1>4 DEF RecoveryDies, Stop
  <2>1. StagedFirst'
    BY DEF StagedFirst, Before
  <2>2. OnCourse'
    BY DEF OnCourse, Published, After, Before
  <2>3. OnReturn'
    BY DEF OnReturn, Verdict, OriginalHeld, OriginalThere, Before
  <2>4. LeftOver'
    BY Bounds DEF LeftOver, OnCourse, Published, After, Before
  <2>q. QED BY <2>1, <2>2, <2>3, <2>4, <1>0 DEF CourseInv
<1>q. QED BY <1>1, <1>2, <1>3, <1>4

(* Every step stays on it, whoever takes it.                                 *)
LEMMA CourseSteps == CourseInv /\ [PublicationNext]_publicationVars => CourseInv'
<1> SUFFICES ASSUME CourseInv, [PublicationNext]_publicationVars PROVE CourseInv'
  OBVIOUS
<1>1. CASE PublicationNext
  BY <1>1, PublishOnCourse, RecoverOnCourse, OthersOnCourse DEF PublicationNext
<1>2. CASE UNCHANGED publicationVars
  <2>1. IInv'
    BY <1>2, StepHolds DEF CourseInv
  <2>2. StagedFirst' /\ OnCourse' /\ OnReturn' /\ LeftOver'
    BY <1>2 DEF publicationVars, CourseInv, StagedFirst, OnCourse, OnReturn, LeftOver,
        Published, Verdict, OriginalHeld, OriginalThere
  <2>q. QED BY <2>1, <2>2 DEF CourseInv
<1>q. QED BY <1>1, <1>2

(* So a publication and its rollback are on course in every state.           *)
LEMMA CourseKept == PublicationSpec => []CourseInv
BY CourseBegins, CourseSteps, PTL DEF PublicationSpec

(* On a path the owner left alone a rollback meets nothing it does not know, but
   for an undo capture that was abandoned.                                   *)
LEMMA UntouchedVerdict ==
  ASSUME CourseInv, NEW p \in Edited \ touched, ~Abandoned(p), doing # "undo_take" \/ cur # p
  PROVE  Verdict(p) # "conflict"
BY DEF CourseInv, IInv, Arranged, AtBefore, Taken, AtAfter, StagedFirst, Abandoned, Before,
    Verdict, OriginalHeld, OriginalThere

(* What a recovery plan calls a conflict is the owner's work, or an undo capture
   in which an earlier recovery died: `inspect` has no third cause.          *)
THEOREM ConflictsAreExplained == PublicationSpec => []ConflictHasCause
<1>1. CourseInv => ConflictHasCause
  <2> SUFFICES ASSUME CourseInv, doing = "planned", NEW p \in Edited \ touched,
                      plan[p] = "conflict"
               PROVE  Abandoned(p) /\ recoveryCrashes > 0
    BY DEF ConflictHasCause
  <2>1. Verdict(p) = "conflict"
    BY DEF CourseInv, OnReturn
  <2>2. Abandoned(p)
    BY <2>1, UntouchedVerdict
  <2>q. QED BY <2>2 DEF CourseInv, OnReturn, Abandoned
<1>q. QED BY CourseKept, <1>1, PTL

(* A publication that was interrupted without a death of its own met the owner's
   work, or the replacement journal a publisher of an earlier transaction left
   when it died.                                                             *)
THEOREM InterruptionsAreExplained == PublicationSpec => []InterruptionHasCause
<1>1. CourseInv => InterruptionHasCause
  BY Bounds DEF CourseInv, LeftOver, InterruptionHasCause, IInv, PublicationTypeOK
<1>q. QED BY CourseKept, <1>1, PTL

(* Where nobody stands in its way, every check of a rollback passes.          *)
LEMMA UnhinderedIsAccepted == CourseInv => RollbackAccepted
<1> SUFFICES ASSUME CourseInv, Unhindered PROVE RollbackAccepted
  BY DEF RollbackAccepted
<1>1. ASSUME NEW p \in Edited, doing # "undo_take" PROVE Verdict(p) # "conflict"
  BY <1>1, UntouchedVerdict DEF Unhindered
<1>2. doing = "planned" => \A p \in Edited : plan[p] = Verdict(p)
  BY DEF CourseInv, OnReturn, Unhindered
<1>3. doing = "undo" /\ todo = {} => \A p \in Edited : Verdict(p) = "baseline"
  BY DEF CourseInv, OnReturn, Unhindered, RollingBack
<1>4. todo \subseteq Edited
  BY DEF CourseInv, IInv, PublicationTypeOK
<1>5. doing = "undo_take" => named[cur] = "candidate"
  BY DEF CourseInv, IInv, CurrentPath, Arranged, AtBefore, Taken, AtAfter, Unhindered
<1>6. /\ doing = "undo_settle" => undo[cur] = "candidate" /\ named[cur] = "none"
      /\ doing = "give" => aside[cur] = "original" /\ named[cur] = "none"
  BY DEF CourseInv, OnReturn, Unhindered
<1>q. QED BY <1>1, <1>2, <1>3, <1>4, <1>5, <1>6 DEF RollbackAccepted

(* While the owner keeps away and no undo capture was abandoned, every check of
   a rollback passes: the plan has no conflict, --apply finds what was reviewed,
   each path is inspected as known, each capture takes the candidate, each
   return finds its original and a free path.                                *)
THEOREM RollbackNeverRefuses == PublicationSpec => []RollbackAccepted
BY CourseKept, UnhinderedIsAccepted, PTL

(* And every step of it leads on: to a later stage, to fewer files, or further
   within a file, so that over finitely many files it ends, and it ends in a
   recovered workspace.                                                      *)
THEOREM RollbackLeadsOn == PublicationSpec => RollbackAdvances
<1>1. CourseInv /\ CourseInv' /\ [PublicationNext]_publicationVars => [RollbackStep]_publicationVars
  <2> SUFFICES ASSUME CourseInv, CourseInv', PublicationNext, doing \in Recovering, Unhindered,
                      touched' = {}, recoveryCrashes' = recoveryCrashes
               PROVE  doing' # "interrupted" /\ Closer
    BY DEF RollbackStep
  <2>0. RollbackAccepted
    BY UnhinderedIsAccepted
  <2>1. cur \in todo \/ doing \notin RollingBack \ {"undo"}
    BY DEF CourseInv, OnReturn
  <2> USE <2>0, <2>1 DEF RollbackAccepted, Closer, Stage, Left, RollingBack, Recovering, CourseInv,
                         IInv, PublicationTypeOK
  <2>2. CASE Plan \/ Apply
    BY <2>2 DEF Plan, Apply, Stop
  <2>3. ASSUME NEW p \in Edited, Undo(p) PROVE doing' # "interrupted" /\ Closer
    BY <2>3 DEF Undo, Stop
  <2>4. CASE TakeCandidate
    BY <2>4 DEF TakeCandidate, Stop, GoOn
  <2>5. CASE SettleCandidate
    BY <2>5 DEF SettleCandidate, Stop, GoOn, Leave
  <2>6. CASE GiveOriginal
    BY <2>6 DEF GiveOriginal, Stop, Leave
  <2>7. CASE VerifyUndone \/ SettleRow \/ CaptureJournal \/ FinishRetirement
    BY <2>7 DEF VerifyUndone, SettleRow, CaptureJournal, FinishRetirement, Stop, GoOn
  <2>8. CASE Publish \/ Again \/ GatewayDies
    BY <2>8 DEF Publish, Again, GatewayDies, Publishing, Preflight, OpenJournal, SyncJournal,
        BeginPath, CreateNext, ReplaceJournal, CaptureOriginal, TakeAside, SettleOriginal, Link,
        VerifyAfter, UnlinkJournal
  <2>9. CASE RecoveryDies \/ \E p \in Edited : OwnerActs(p)
    BY <2>9 DEF RecoveryDies, OwnerActs
  <2>q. QED
    BY <2>2, <2>3, <2>4, <2>5, <2>6, <2>7, <2>8, <2>9 DEF PublicationNext, Recover
<1>q. QED BY CourseKept, <1>1, PTL DEF PublicationSpec, RollbackAdvances

-----------------------------------------------------------------------------
(* The import of a private Git history into the repository's metadata        *)
(* (NativeGit), which publishes by a guard, a journal and a rollback of its   *)
(* own: no definition above is used below.                                    *)
(* The steps of the import, and those at which it holds a native lock.       *)
HeadHeld == {"head_locked", "recheck", "stage_index", "index_staged", "prepare",
             "refs_prepared", "reverify", "commit", "refs_committed", "after_refs",
             "lock_stash", "stash_locked", "compare", "stage_stash", "stash_intent",
             "swap_stash", "index_intent", "swap_index", "stage_head", "head_intent",
             "swap_head", "verify"}
IndexHeld == {"index_locked", "lock_head"} \cup HeadHeld
Importing == {"begin", "lock_index"} \cup IndexHeld
BeforeSwapIndex == {"stage_index", "index_staged", "prepare", "refs_prepared", "reverify",
                    "commit", "refs_committed", "after_refs", "lock_stash", "stash_locked",
                    "compare", "stage_stash", "stash_intent", "swap_stash", "index_intent",
                    "swap_index"}
BeforeCommit == {"begin", "lock_index", "index_locked", "lock_head", "head_locked", "recheck",
                 "stage_index", "index_staged", "prepare", "refs_prepared", "reverify"}

(* A plan fits the branch: a new one is created, an old one stays or moves.  *)
PlanFits ==
  /\ fresh \in {{}, {"ref", "log"}}
  /\ change["ref"] \in {"same", "update", "create"}
  /\ at \notin {"plan", "refused", "done"}
       => /\ change["ref"] \in IF fresh = {} THEN {"same", "update"} ELSE {"create"}
          /\ change["stash"] \in {"same", "update", "drop", "clear"}

(* While the import runs every original is in custody.                       *)
OriginalsTaken ==
  /\ kept \cap fresh = {}
  /\ at \in {"plan", "guard", "guarded", "publish"} => kept = {}
  /\ at \in Importing => kept = Paths \ fresh

(* The locks the import holds at each step ...                               *)
LocksHeld ==
  /\ at \in IndexHeld => "index.lock" \in left
  /\ at \in HeadHeld => "HEAD.lock" \in left
  /\ at \in {"refs_prepared", "reverify"} => {"ref.lock", "stash.lock"} \subseteq left
  /\ at \in {"stash_locked", "compare", "stage_stash", "stash_intent", "swap_stash"}
       => "stash.lock" \in left

(* ... and what it saw under them is still there when it writes.             *)
SeenUnderLock ==
  /\ at \in BeforeSwapIndex => cell["index"] # "owner"
  /\ at \in {"stage_index", "stage_head", "head_intent", "swap_head"} \cup BeforeSwapIndex
       => cell["HEAD"] # "owner"
  /\ at = "commit" =>
       /\ "ref.lock" \in left => cell["ref"] # "owner"
       /\ "stash.lock" \in left => cell["stash"] # "owner" /\ cell["stashlog"] # "owner"
  /\ at \in {"stage_stash", "stash_intent", "swap_stash"} => cell["stashlog"] # "owner"

(* The reflog, which no inspection compares, ends as planned or is the owner's. *)
Copied(p) == IF p \in fresh THEN "none" ELSE "copy"
LogFollows ==
  /\ at = "copies" => \A p \in kept : cell[p] \in {"none", "copy", "owner"}
  /\ at \in {"plan", "guard", "guarded", "publish", "copies"} /\ "log" \in fresh
       => cell["log"] \in {"none", "owner"}
  /\ at \in BeforeCommit => cell["log"] \in {Copied("log"), "owner"}
  /\ at = "commit" => cell["log"] \in {Copied("log"), Planned("log"), "owner"}
  /\ at \in (Importing \ (BeforeCommit \cup {"commit"})) \/ (at = "commit" /\ "ref.lock" \notin left)
       => cell["log"] \in {Planned("log"), "owner"}
  /\ at \in {"retire", "finish"} => \A p \in Paths : cell[p] \in {Planned(p), "owner"}

(* The guard is retired by the last step of an import or of a rollback.      *)
EndsWhole ==
  /\ guard = "retired" <=> endpoint # "none"
  /\ guard = "retired" => at = "done"
  /\ at \in {"finish", "release"} => left = {}
  /\ at = "release" => kept = {} /\ \A p \in Paths : Baseline(p) \/ cell[p] = "owner"
  /\ NoMixedEndpoint

(* What is about to be installed is bound in the journal before.             *)
BoundAhead ==
  /\ at \in {"reverify", "commit"}
       => \A r \in Refs : Changing(r) /\ RefLock[r] \in left => r \in bound
  /\ at = "index_staged" => "index.tmp" \in left
  /\ at \in BeforeSwapIndex \ {"stage_index", "index_staged"} => "index" \in bound
  /\ at = "head_intent" => "HEAD.tmp" \in left
  /\ at = "swap_head" => "HEAD" \in bound
  /\ at = "stash_intent" => "stash.tmp" \in left
  /\ at = "swap_stash" => "stashlog" \in bound

(* Until the owner acts, each path is at its baseline or provably the import's. *)
Covered ==
  ownerActs = 0 => \A p \in Paths : \/ Baseline(p)
                                    \/ p \in kept /\ Proven(p)
                                    \/ p \in fresh /\ cell[p] = "ours" /\ p \in bound

NativeInv == /\ PlanFits /\ OriginalsTaken /\ LocksHeld /\ SeenUnderLock /\ OwnerMetadataKept
             /\ LogFollows /\ EndsWhole /\ BoundAhead /\ Covered

NativeIInv == NativeTypeOK /\ NativeInv

(* The tables of the import, row by row.                                     *)
LEMMA CreateAt ==
  \A s \in DOMAIN Creates :
    \/ s = "lock_index" /\ Creates[s] = "index.lock" /\ EventOf[s] = "index_locked"
    \/ s = "lock_head" /\ Creates[s] = "HEAD.lock" /\ EventOf[s] = "head_locked"
    \/ s = "stage_index" /\ Creates[s] = "index.tmp" /\ EventOf[s] = "index_staged"
    \/ s = "lock_stash" /\ Creates[s] = "stash.lock" /\ EventOf[s] = "stash_locked"
    \/ s = "stage_stash" /\ Creates[s] = "stash.tmp" /\ EventOf[s] = "stash_intent"
    \/ s = "stage_head" /\ Creates[s] = "HEAD.tmp" /\ EventOf[s] = "head_intent"
BY DEF Creates, EventOf

LEMMA EventAt ==
  \A s \in DOMAIN AfterEvent :
    \/ s = "index_locked" /\ AfterEvent[s] = "lock_head"
    \/ s = "head_locked" /\ AfterEvent[s] = "recheck"
    \/ s = "index_staged" /\ AfterEvent[s] = "prepare"
    \/ s = "refs_prepared" /\ AfterEvent[s] = "reverify"
    \/ s = "refs_committed" /\ AfterEvent[s] = "after_refs"
    \/ s = "stash_locked" /\ AfterEvent[s] = "compare"
    \/ s = "stash_intent" /\ AfterEvent[s] = "swap_stash"
    \/ s = "index_intent" /\ AfterEvent[s] = "swap_index"
    \/ s = "head_intent" /\ AfterEvent[s] = "swap_head"
BY DEF AfterEvent

LEMMA SwapAt ==
  \A s \in DOMAIN Installs :
    \/ s = "swap_stash" /\ Installs[s] = "stashlog" /\ AfterSwap[s] = "index_intent"
         /\ Staged[Installs[s]] = "stash.tmp"
    \/ s = "swap_index" /\ Installs[s] = "index" /\ AfterSwap[s] = "stage_head"
         /\ Staged[Installs[s]] = "index.tmp"
    \/ s = "swap_head" /\ Installs[s] = "HEAD" /\ AfterSwap[s] = "verify"
         /\ Staged[Installs[s]] = "HEAD.tmp"
BY DEF Installs, AfterSwap, Staged

LEMMA NamesAt ==
  /\ Refs = {"ref", "stash"}
  /\ RefLock["ref"] = "ref.lock" /\ RefLock["stash"] = "stash.lock"
  /\ Log["ref"] = "log" /\ Log["stash"] = "stashlog"
BY DEF Refs, RefLock, Log

LEMMA LockAt ==
  /\ LockOf["ref"] = "ref.lock" /\ LockOf["log"] = "ref.lock"
  /\ LockOf["stash"] = "stash.lock" /\ LockOf["stashlog"] = "stash.lock"
  /\ LockOf["index"] = "index.lock" /\ LockOf["HEAD"] = "HEAD.lock"
BY DEF LockOf, Paths

LEMMA PlannedLog ==
  Planned("log") = CASE change["ref"] = "same" -> "copy"
                     [] change["ref"] = "update" -> "grown"
                     [] change["ref"] = "create" -> "ours"
BY DEF Planned

(* What an event or a failure binds includes every name still held.          *)
LEMMA BindingsSay ==
  ASSUME NativeTypeOK
  PROVE  /\ Bindings \subseteq Locks \cup Temporaries \cup Paths
         /\ left \subseteq Bindings
         /\ "index.tmp" \in left => "index" \in Bindings
         /\ "HEAD.tmp" \in left => "HEAD" \in Bindings
         /\ "stash.tmp" \in left => "stashlog" \in Bindings
         /\ \A r \in Refs : Changing(r) /\ RefLock[r] \in left => r \in Bindings
<1>1. DOMAIN Staged = {"stashlog", "index", "HEAD"}
  BY DEF Staged
<1>2. Staged["stashlog"] = "stash.tmp" /\ Staged["index"] = "index.tmp" /\ Staged["HEAD"] = "HEAD.tmp"
  BY DEF Staged
<1>3. RefBindings \subseteq {"ref", "stash"}
  BY DEF RefBindings, Refs
<1>4. left \subseteq Locks \cup Temporaries
  BY DEF NativeTypeOK
<1>5. {p \in DOMAIN Staged : Staged[p] \in left} \subseteq Paths /\ {"ref", "stash"} \subseteq Paths
  BY <1>1 DEF Paths
<1>6. Bindings \subseteq Locks \cup Temporaries \cup Paths
  BY <1>3, <1>4, <1>5 DEF Bindings
<1>7. left \subseteq Bindings
  BY DEF Bindings
<1>8. /\ "index.tmp" \in left => "index" \in Bindings
      /\ "HEAD.tmp" \in left => "HEAD" \in Bindings
      /\ "stash.tmp" \in left => "stashlog" \in Bindings
  BY <1>1, <1>2 DEF Bindings
<1>9. \A r \in Refs : Changing(r) /\ RefLock[r] \in left => r \in Bindings
  BY DEF Bindings, RefBindings
<1>q. QED BY <1>6, <1>7, <1>8, <1>9

(* A failure of the import keeps the invariant wherever it happens.          *)
LEMMA RaiseHolds ==
  ASSUME NativeIInv, Raise,
         UNCHANGED <<fresh, change, cell, kept, guard, phase, endpoint, ownerState, dies>>,
         at \notin {"plan", "refused", "done"}
  PROVE  NativeIInv'
<1> USE DEF NativeIInv, NativeInv, ownerState
<1>1. /\ at' = "failed" /\ left' \subseteq left
      /\ bound \subseteq bound' /\ bound' \subseteq Locks \cup Temporaries \cup Paths
  BY BindingsSay DEF Raise, HeldLocks, Jump, NativeTypeOK
<1>2. NativeTypeOK'
  BY <1>1 DEF NativeTypeOK
<1>3. PlanFits' /\ OriginalsTaken'
  BY <1>1 DEF PlanFits, OriginalsTaken, Importing, IndexHeld, HeadHeld
<1>4. LocksHeld' /\ SeenUnderLock'
  BY <1>1 DEF LocksHeld, SeenUnderLock, IndexHeld, HeadHeld, BeforeSwapIndex
<1>5. OwnerMetadataKept'
  BY DEF OwnerMetadataKept
<1>6. LogFollows'
  BY <1>1 DEF LogFollows, Importing, IndexHeld, HeadHeld, BeforeCommit
<1>7. EndsWhole'
  BY <1>1 DEF EndsWhole, NoMixedEndpoint
<1>8. BoundAhead'
  BY <1>1 DEF BoundAhead, BeforeSwapIndex
<1>9. Covered'
  BY <1>1 DEF Covered, Baseline, Proven, Journalled
<1>q. QED BY <1>2, <1>3, <1>4, <1>5, <1>6, <1>7, <1>8, <1>9

(* The gateway's own steps keep the invariant ...                            *)
LEMMA HostHolds ==
  ASSUME NativeIInv, HostStep
  PROVE  NativeIInv'
<1> USE NativeAssumption DEF NativeIInv, NativeInv, journal, ownerState
<1>1. CASE PreparePlan
  <2> USE <1>1 DEF PreparePlan, Plans, Jump
  <2>1. NativeTypeOK'
    BY DEF NativeTypeOK, Refs, Paths, Inodes, Locks, Temporaries
  <2>2. PlanFits'
    BY DEF NativeTypeOK, PlanFits, Paths
  <2>3. OriginalsTaken'
    BY DEF NativeTypeOK, OriginalsTaken, Importing, IndexHeld, HeadHeld, Paths
  <2>4. LocksHeld'
    BY DEF NativeTypeOK, LocksHeld, IndexHeld, HeadHeld, Paths
  <2>5. SeenUnderLock'
    BY DEF NativeTypeOK, SeenUnderLock, BeforeSwapIndex, Paths
  <2>6. LogFollows'
    BY DEF NativeTypeOK, LogFollows, Importing, IndexHeld, HeadHeld, BeforeCommit,
        Copied, Planned, Paths
  <2>7. EndsWhole'
    BY DEF NativeTypeOK, EndsWhole, NoMixedEndpoint, Baseline, Planned, Paths
  <2>8. BoundAhead'
    BY DEF NativeTypeOK, BoundAhead, BeforeSwapIndex, Changing, RefLock, Refs, Paths
  <2>9. OwnerMetadataKept' /\ Covered'
    BY DEF OwnerMetadataKept, Covered, Baseline, Proven, Journalled
  <2>q. QED BY <2>1, <2>2, <2>3, <2>4, <2>5, <2>6, <2>7, <2>8, <2>9 DEF NativeIInv
<1>2. CASE WriteGuard
  <2> USE <1>2 DEF WriteGuard, Jump
  <2>0. \A x \in Paths : Planned(x)' = Planned(x)
    BY DEF Planned
  <2>1. NativeTypeOK'
    BY DEF NativeTypeOK, Refs, Paths, Inodes, Locks, Temporaries
  <2>2. PlanFits'
    BY DEF NativeTypeOK, PlanFits, Paths
  <2>3. OriginalsTaken'
    BY DEF NativeTypeOK, OriginalsTaken, Importing, IndexHeld, HeadHeld, Paths
  <2>4. LocksHeld'
    BY DEF NativeTypeOK, LocksHeld, IndexHeld, HeadHeld, Paths
  <2>5. SeenUnderLock'
    BY DEF NativeTypeOK, SeenUnderLock, BeforeSwapIndex, Paths
  <2>6. LogFollows'
    BY <2>0 DEF NativeTypeOK, LogFollows, Importing, IndexHeld, HeadHeld, BeforeCommit,
        Copied, Paths
  <2>7. EndsWhole'
    BY <2>0 DEF NativeTypeOK, EndsWhole, NoMixedEndpoint, Baseline, Paths
  <2>8. BoundAhead'
    BY DEF NativeTypeOK, BoundAhead, BeforeSwapIndex, Changing, RefLock, Refs, Paths
  <2>9. OwnerMetadataKept' /\ Covered'
    BY DEF OwnerMetadataKept, Covered, Baseline, Proven, Journalled
  <2>q. QED BY <2>1, <2>2, <2>3, <2>4, <2>5, <2>6, <2>7, <2>8, <2>9 DEF NativeIInv
<1>3. CASE RecordGuarded
  <2> USE <1>3 DEF RecordGuarded, Jump
  <2>0. \A x \in Paths : Planned(x)' = Planned(x)
    BY DEF Planned
  <2>1. NativeTypeOK'
    BY DEF NativeTypeOK, Refs, Paths, Inodes, Locks, Temporaries
  <2>2. PlanFits'
    BY DEF NativeTypeOK, PlanFits, Paths
  <2>3. OriginalsTaken'
    BY DEF NativeTypeOK, OriginalsTaken, Importing, IndexHeld, HeadHeld, Paths
  <2>4. LocksHeld'
    BY DEF NativeTypeOK, LocksHeld, IndexHeld, HeadHeld, Paths
  <2>5. SeenUnderLock'
    BY DEF NativeTypeOK, SeenUnderLock, BeforeSwapIndex, Paths
  <2>6. LogFollows'
    BY <2>0 DEF NativeTypeOK, LogFollows, Importing, IndexHeld, HeadHeld, BeforeCommit,
        Copied, Paths
  <2>7. EndsWhole'
    BY <2>0 DEF NativeTypeOK, EndsWhole, NoMixedEndpoint, Baseline, Paths
  <2>8. BoundAhead'
    BY DEF NativeTypeOK, BoundAhead, BeforeSwapIndex, Changing, RefLock, Refs, Paths
  <2>9. OwnerMetadataKept' /\ Covered'
    BY DEF OwnerMetadataKept, Covered, Baseline, Proven, Journalled
  <2>q. QED BY <2>1, <2>2, <2>3, <2>4, <2>5, <2>6, <2>7, <2>8, <2>9 DEF NativeIInv
<1>4. CASE ImportStarts
  <2> USE <1>4 DEF ImportStarts, Jump, Abandon
  <2>0. \A x \in Paths : Planned(x)' = Planned(x)
    BY DEF Planned
  <2>1. NativeTypeOK'
    BY DEF NativeTypeOK, Refs, Paths, Inodes, Locks, Temporaries
  <2>2. PlanFits'
    BY DEF NativeTypeOK, PlanFits, Paths
  <2>3. OriginalsTaken'
    BY DEF NativeTypeOK, OriginalsTaken, Importing, IndexHeld, HeadHeld, Paths
  <2>4. LocksHeld'
    BY DEF NativeTypeOK, LocksHeld, IndexHeld, HeadHeld, Paths
  <2>5. SeenUnderLock'
    BY DEF NativeTypeOK, SeenUnderLock, BeforeSwapIndex, Paths
  <2>6. LogFollows'
    BY <2>0 DEF NativeTypeOK, LogFollows, Importing, IndexHeld, HeadHeld, BeforeCommit,
        Copied, Paths, OriginalsTaken
  <2>7. EndsWhole'
    BY <2>0 DEF NativeTypeOK, EndsWhole, NoMixedEndpoint, Baseline, Paths
  <2>8. BoundAhead'
    BY DEF NativeTypeOK, BoundAhead, BeforeSwapIndex, Changing, RefLock, Refs, Paths
  <2>9. OwnerMetadataKept' /\ Covered'
    BY DEF OwnerMetadataKept, Covered, Baseline, Proven, Journalled
  <2>q. QED BY <2>1, <2>2, <2>3, <2>4, <2>5, <2>6, <2>7, <2>8, <2>9 DEF NativeIInv
<1>5. CASE RecordStarted
  <2> USE <1>5 DEF RecordStarted, Jump
  <2>0. \A x \in Paths : Planned(x)' = Planned(x)
    BY DEF Planned
  <2>1. NativeTypeOK'
    BY DEF NativeTypeOK, Refs, Paths, Inodes, Locks, Temporaries
  <2>2. PlanFits'
    BY DEF NativeTypeOK, PlanFits, Paths
  <2>3. OriginalsTaken'
    BY DEF NativeTypeOK, OriginalsTaken, Importing, IndexHeld, HeadHeld, Paths
  <2>4. LocksHeld'
    BY DEF NativeTypeOK, LocksHeld, IndexHeld, HeadHeld, Paths
  <2>5. SeenUnderLock'
    BY DEF NativeTypeOK, SeenUnderLock, BeforeSwapIndex, Paths
  <2>6. LogFollows'
    BY <2>0 DEF NativeTypeOK, LogFollows, Importing, IndexHeld, HeadHeld, BeforeCommit,
        Copied, Paths
  <2>7. EndsWhole'
    BY <2>0 DEF NativeTypeOK, EndsWhole, NoMixedEndpoint, Baseline, Paths
  <2>8. BoundAhead'
    BY DEF NativeTypeOK, BoundAhead, BeforeSwapIndex, Changing, RefLock, Refs, Paths
  <2>9. OwnerMetadataKept' /\ Covered'
    BY DEF OwnerMetadataKept, Covered, Baseline, Proven, Journalled
  <2>q. QED BY <2>1, <2>2, <2>3, <2>4, <2>5, <2>6, <2>7, <2>8, <2>9 DEF NativeIInv
<1>6. CASE RecordReturned
  <2> USE <1>6 DEF RecordReturned, Jump
  <2>0. \A x \in Paths : Planned(x)' = Planned(x)
    BY DEF Planned
  <2>1. NativeTypeOK'
    BY DEF NativeTypeOK, Refs, Paths, Inodes, Locks, Temporaries
  <2>2. PlanFits'
    BY DEF NativeTypeOK, PlanFits, Paths
  <2>3. OriginalsTaken'
    BY DEF NativeTypeOK, OriginalsTaken, Importing, IndexHeld, HeadHeld, Paths
  <2>4. LocksHeld'
    BY DEF NativeTypeOK, LocksHeld, IndexHeld, HeadHeld, Paths
  <2>5. SeenUnderLock'
    BY DEF NativeTypeOK, SeenUnderLock, BeforeSwapIndex, Paths
  <2>6. LogFollows'
    BY <2>0 DEF NativeTypeOK, LogFollows, Importing, IndexHeld, HeadHeld, BeforeCommit,
        Copied, Paths
  <2>7. EndsWhole'
    BY <2>0 DEF NativeTypeOK, EndsWhole, NoMixedEndpoint, Baseline, Paths
  <2>8. BoundAhead'
    BY DEF NativeTypeOK, BoundAhead, BeforeSwapIndex, Changing, RefLock, Refs, Paths
  <2>9. OwnerMetadataKept' /\ Covered'
    BY DEF OwnerMetadataKept, Covered, Baseline, Proven, Journalled
  <2>q. QED BY <2>1, <2>2, <2>3, <2>4, <2>5, <2>6, <2>7, <2>8, <2>9 DEF NativeIInv
<1>7. CASE RecordFailed
  <2> USE <1>7 DEF RecordFailed, Jump, Abandon
  <2>0. \A x \in Paths : Planned(x)' = Planned(x)
    BY DEF Planned
  <2>1. NativeTypeOK'
    BY DEF NativeTypeOK, Refs, Paths, Inodes, Locks, Temporaries
  <2>2. PlanFits'
    BY DEF NativeTypeOK, PlanFits, Paths
  <2>3. OriginalsTaken'
    BY DEF NativeTypeOK, OriginalsTaken, Importing, IndexHeld, HeadHeld, Paths
  <2>4. LocksHeld'
    BY DEF NativeTypeOK, LocksHeld, IndexHeld, HeadHeld, Paths
  <2>5. SeenUnderLock'
    BY DEF NativeTypeOK, SeenUnderLock, BeforeSwapIndex, Paths
  <2>6. LogFollows'
    BY <2>0 DEF NativeTypeOK, LogFollows, Importing, IndexHeld, HeadHeld, BeforeCommit,
        Copied, Paths
  <2>7. EndsWhole'
    BY <2>0 DEF NativeTypeOK, EndsWhole, NoMixedEndpoint, Baseline, Paths
  <2>8. BoundAhead'
    BY DEF NativeTypeOK, BoundAhead, BeforeSwapIndex, Changing, RefLock, Refs, Paths
  <2>9. OwnerMetadataKept' /\ Covered'
    BY DEF OwnerMetadataKept, Covered, Baseline, Proven, Journalled
  <2>q. QED BY <2>1, <2>2, <2>3, <2>4, <2>5, <2>6, <2>7, <2>8, <2>9 DEF NativeIInv
<1>8. CASE Finish
  <2> USE <1>8 DEF Finish, Jump, Abandon
  <2>0. \A x \in Paths : Planned(x)' = Planned(x)
    BY DEF Planned
  <2>1. NativeTypeOK'
    BY DEF NativeTypeOK, Refs, Paths, Inodes, Locks, Temporaries
  <2>2. PlanFits'
    BY DEF NativeTypeOK, PlanFits, Paths
  <2>3. OriginalsTaken'
    BY DEF NativeTypeOK, OriginalsTaken, Importing, IndexHeld, HeadHeld, Paths
  <2>4. LocksHeld'
    BY DEF NativeTypeOK, LocksHeld, IndexHeld, HeadHeld, Paths
  <2>5. SeenUnderLock'
    BY DEF NativeTypeOK, SeenUnderLock, BeforeSwapIndex, Paths
  <2>6. LogFollows'
    BY <2>0, PlannedLog DEF NativeTypeOK, LogFollows, Importing, IndexHeld, HeadHeld,
        BeforeCommit, Copied, Paths
  <2>7. EndsWhole'
    BY <2>0 DEF NativeTypeOK, EndsWhole, NoMixedEndpoint, Baseline, Paths, LogFollows
  <2>8. BoundAhead'
    BY DEF NativeTypeOK, BoundAhead, BeforeSwapIndex, Changing, RefLock, Refs, Paths
  <2>9. OwnerMetadataKept' /\ Covered'
    BY DEF OwnerMetadataKept, Covered, Baseline, Proven, Journalled
  <2>q. QED BY <2>1, <2>2, <2>3, <2>4, <2>5, <2>6, <2>7, <2>8, <2>9 DEF NativeIInv
<1>9. ASSUME NEW p \in Paths, TakeOriginal(p) PROVE NativeIInv'
  <2> USE <1>9 DEF TakeOriginal, Jump, Abandon
  <2>a. p \notin fresh /\ p \notin kept
    BY DEF First
  <2>0. \A x \in Paths : Planned(x)' = Planned(x)
    BY DEF Planned
  <2>1. NativeTypeOK'
    <3>1. cell' \in [Paths -> Inodes]
      BY DEF NativeTypeOK, Inodes
    <3>2. kept' \subseteq Paths
      BY DEF NativeTypeOK
    <3>q. QED BY <3>1, <3>2 DEF NativeTypeOK
  <2>2. PlanFits'
    BY <2>a DEF NativeTypeOK, PlanFits, Paths
  <2>3. OriginalsTaken'
    <3>1. kept' \cap fresh = {} /\ at' \in {"copies", "dead"} /\ UNCHANGED fresh
      BY <2>a DEF OriginalsTaken
    <3>q. QED BY <3>1 DEF OriginalsTaken, Importing, IndexHeld, HeadHeld
  <2>4. LocksHeld'
    BY <2>a DEF NativeTypeOK, LocksHeld, IndexHeld, HeadHeld, Paths
  <2>5. SeenUnderLock'
    BY <2>a DEF NativeTypeOK, SeenUnderLock, BeforeSwapIndex, Paths
  <2>6. OwnerMetadataKept'
    BY <2>a DEF NativeTypeOK, OwnerMetadataKept, Paths
  <2>7. LogFollows'
    BY <2>a, <2>0 DEF NativeTypeOK, LogFollows, Importing, IndexHeld, HeadHeld,
        BeforeCommit, Copied, Paths, PlanFits
  <2>8. EndsWhole'
    BY <2>a, <2>0 DEF NativeTypeOK, EndsWhole, NoMixedEndpoint, Baseline, Paths
  <2>9. BoundAhead'
    BY <2>a DEF NativeTypeOK, BoundAhead, BeforeSwapIndex, Changing, RefLock, Refs, Paths
  <2>10. Covered'
    BY <2>a DEF NativeTypeOK, Covered, Baseline, Proven, Journalled, Paths
  <2>q. QED BY <2>1, <2>2, <2>3, <2>4, <2>5, <2>6, <2>7, <2>8, <2>9, <2>10 DEF NativeIInv
<1>10. ASSUME NEW p \in Paths, LinkCopy(p) PROVE NativeIInv'
  <2> USE <1>10 DEF LinkCopy, Jump, Abandon
  <2>0. \A x \in Paths : Planned(x)' = Planned(x)
    BY DEF Planned
  <2>1. NativeTypeOK'
    BY DEF NativeTypeOK, Refs, Paths, Inodes, Locks, Temporaries
  <2>2. PlanFits'
    BY DEF NativeTypeOK, PlanFits, Paths
  <2>3. OriginalsTaken'
    BY DEF NativeTypeOK, OriginalsTaken, Importing, IndexHeld, HeadHeld, Paths
  <2>4. LocksHeld'
    BY DEF NativeTypeOK, LocksHeld, IndexHeld, HeadHeld, Paths
  <2>5. SeenUnderLock'
    BY DEF NativeTypeOK, SeenUnderLock, BeforeSwapIndex, Paths
  <2>6. OwnerMetadataKept'
    BY DEF NativeTypeOK, OwnerMetadataKept, Paths
  <2>7. LogFollows'
    BY <2>0 DEF NativeTypeOK, LogFollows, Importing, IndexHeld, HeadHeld, BeforeCommit,
        Copied, Paths, OriginalsTaken, PlanFits
  <2>8. EndsWhole'
    BY <2>0 DEF NativeTypeOK, EndsWhole, NoMixedEndpoint, Baseline, Paths
  <2>9. BoundAhead'
    BY DEF NativeTypeOK, BoundAhead, BeforeSwapIndex, Changing, RefLock, Refs, Paths
  <2>10. Covered'
    BY DEF NativeTypeOK, Covered, Baseline, Proven, Journalled, Paths
  <2>q. QED BY <2>1, <2>2, <2>3, <2>4, <2>5, <2>6, <2>7, <2>8, <2>9, <2>10 DEF NativeIInv
<1>11. ASSUME NEW n \in Locks \cup Temporaries, RetireLock(n) PROVE NativeIInv'
  <2> USE <1>11 DEF RetireLock
  <2>0. \A x \in Paths : Planned(x)' = Planned(x)
    BY DEF Planned
  <2>1. NativeTypeOK'
    BY DEF NativeTypeOK, Refs, Paths, Inodes, Locks, Temporaries
  <2>2. LocksHeld'
    BY DEF NativeTypeOK, LocksHeld, IndexHeld, HeadHeld, Paths
  <2>3. SeenUnderLock'
    BY DEF NativeTypeOK, SeenUnderLock, BeforeSwapIndex, Paths
  <2>4. LogFollows'
    BY <2>0 DEF NativeTypeOK, LogFollows, Importing, IndexHeld, HeadHeld, BeforeCommit,
        Copied, Paths
  <2>5. EndsWhole'
    BY <2>0 DEF NativeTypeOK, EndsWhole, NoMixedEndpoint, Baseline, Paths
  <2>6. BoundAhead'
    BY DEF NativeTypeOK, BoundAhead, BeforeSwapIndex, Changing, RefLock, Refs, Paths
  <2>7. PlanFits' /\ OriginalsTaken' /\ OwnerMetadataKept' /\ Covered'
    BY DEF PlanFits, OriginalsTaken, Importing, IndexHeld, HeadHeld, OwnerMetadataKept,
        Covered, Baseline, Proven, Journalled
  <2>q. QED BY <2>1, <2>2, <2>3, <2>4, <2>5, <2>6, <2>7 DEF NativeIInv
<1>q. QED BY <1>1, <1>2, <1>3, <1>4, <1>5, <1>6, <1>7, <1>8, <1>9, <1>10, <1>11 DEF HostStep

(* ... and so does every step of the import program ...                      *)
LEMMA ImportHolds ==
  ASSUME NativeIInv, ImportStep
  PROVE  NativeIInv'
<1> USE NativeAssumption DEF NativeIInv, NativeInv, journal, ownerState
<1>1. CASE ImportBegins
  <2> USE <1>1 DEF ImportBegins, Jump
  <2>0. \A x \in Paths : Planned(x)' = Planned(x)
    BY DEF Planned
  <2>1. NativeTypeOK'
    BY DEF NativeTypeOK, Refs, Paths, Inodes, Locks, Temporaries
  <2>2. PlanFits'
    BY DEF NativeTypeOK, PlanFits, Paths
  <2>3. OriginalsTaken'
    BY DEF NativeTypeOK, OriginalsTaken, Importing, IndexHeld, HeadHeld, Paths
  <2>4. LocksHeld'
    BY DEF NativeTypeOK, LocksHeld, IndexHeld, HeadHeld, Paths
  <2>5. SeenUnderLock'
    BY DEF NativeTypeOK, SeenUnderLock, BeforeSwapIndex, Paths
  <2>6. LogFollows'
    BY <2>0 DEF NativeTypeOK, LogFollows, Importing, IndexHeld, HeadHeld, BeforeCommit,
        Copied, Paths
  <2>7. EndsWhole'
    BY <2>0 DEF NativeTypeOK, EndsWhole, NoMixedEndpoint, Baseline, Paths
  <2>8. BoundAhead'
    BY DEF NativeTypeOK, BoundAhead, BeforeSwapIndex, Changing, RefLock, Refs, Paths
  <2>9. OwnerMetadataKept' /\ Covered'
    BY DEF OwnerMetadataKept, Covered, Baseline, Proven, Journalled
  <2>q. QED BY <2>1, <2>2, <2>3, <2>4, <2>5, <2>6, <2>7, <2>8, <2>9 DEF NativeIInv
<1>2. CASE Create
  <2>1. CASE Raise
    BY <1>2, <2>1, RaiseHolds, CreateAt DEF Create
  <2>2. CASE ~Raise
    <3> USE <1>2, <2>2 DEF Create, Jump
    <3>0. \A x \in Paths : Planned(x)' = Planned(x)
      BY DEF Planned
    <3>1. NativeTypeOK'
      BY CreateAt DEF NativeTypeOK, Refs, Paths, Inodes, Locks, Temporaries
    <3>2. PlanFits'
      BY CreateAt DEF NativeTypeOK, PlanFits, Paths
    <3>3. OriginalsTaken'
      BY CreateAt DEF NativeTypeOK, OriginalsTaken, Importing, IndexHeld, HeadHeld, Paths
    <3>4. LocksHeld'
      BY CreateAt DEF NativeTypeOK, LocksHeld, IndexHeld, HeadHeld, Paths
    <3>5. SeenUnderLock'
      BY CreateAt DEF NativeTypeOK, SeenUnderLock, BeforeSwapIndex, Paths
    <3>6. LogFollows'
      BY CreateAt, <3>0 DEF NativeTypeOK, LogFollows, Importing, IndexHeld, HeadHeld,
          BeforeCommit, Copied, Paths
    <3>7. EndsWhole'
      BY CreateAt, <3>0 DEF NativeTypeOK, EndsWhole, NoMixedEndpoint, Baseline, Paths
    <3>8. BoundAhead'
      BY CreateAt DEF NativeTypeOK, BoundAhead, BeforeSwapIndex, Changing, RefLock, Refs,
          Paths
    <3>9. OwnerMetadataKept' /\ Covered'
      BY DEF OwnerMetadataKept, Covered, Baseline, Proven, Journalled
    <3>q. QED BY <3>1, <3>2, <3>3, <3>4, <3>5, <3>6, <3>7, <3>8, <3>9 DEF NativeIInv
  <2>q. QED BY <2>1, <2>2
<1>3. CASE JournalEvent
  <2> USE <1>3 DEF JournalEvent, Jump
  <2>0. \A x \in Paths : Planned(x)' = Planned(x)
    BY DEF Planned
  <2>1. NativeTypeOK'
    BY EventAt, BindingsSay DEF NativeTypeOK, Refs, Paths, Inodes, Locks, Temporaries
  <2>2. PlanFits'
    BY EventAt, BindingsSay DEF NativeTypeOK, PlanFits, Paths
  <2>3. OriginalsTaken'
    BY EventAt, BindingsSay DEF NativeTypeOK, OriginalsTaken, Importing, IndexHeld,
        HeadHeld, Paths
  <2>4. LocksHeld'
    BY EventAt, BindingsSay DEF NativeTypeOK, LocksHeld, IndexHeld, HeadHeld, Paths
  <2>5. SeenUnderLock'
    BY EventAt, BindingsSay DEF NativeTypeOK, SeenUnderLock, BeforeSwapIndex, Paths
  <2>6. LogFollows'
    BY EventAt, BindingsSay, <2>0 DEF NativeTypeOK, LogFollows, Importing, IndexHeld,
        HeadHeld, BeforeCommit, Copied, Paths
  <2>7. EndsWhole'
    BY EventAt, BindingsSay, <2>0 DEF NativeTypeOK, EndsWhole, NoMixedEndpoint, Baseline,
        Paths
  <2>8. BoundAhead'
    BY EventAt, BindingsSay DEF NativeTypeOK, BoundAhead, BeforeSwapIndex, Changing,
        RefLock, Refs, Paths
  <2>9. Covered'
    BY EventAt, BindingsSay DEF NativeTypeOK, Covered, Baseline, Proven, Journalled, Paths
  <2>10. OwnerMetadataKept'
    BY DEF OwnerMetadataKept
  <2>q. QED BY <2>1, <2>2, <2>3, <2>4, <2>5, <2>6, <2>7, <2>8, <2>9, <2>10 DEF NativeIInv
<1>4. CASE Recheck
  <2>1. CASE Raise
    BY <1>4, <2>1, RaiseHolds DEF Recheck
  <2>2. CASE ~Raise
    <3> USE <1>4, <2>2 DEF Recheck, Jump
    <3>0. \A x \in Paths : Planned(x)' = Planned(x)
      BY DEF Planned
    <3>1. NativeTypeOK'
      BY DEF NativeTypeOK, Refs, Paths, Inodes, Locks, Temporaries
    <3>2. PlanFits'
      BY DEF NativeTypeOK, PlanFits, Paths
    <3>3. OriginalsTaken'
      BY DEF NativeTypeOK, OriginalsTaken, Importing, IndexHeld, HeadHeld, Paths
    <3>4. LocksHeld'
      BY DEF NativeTypeOK, LocksHeld, IndexHeld, HeadHeld, Paths
    <3>5. SeenUnderLock'
      BY DEF NativeTypeOK, SeenUnderLock, BeforeSwapIndex, Paths, LooksBefore, Visible,
          IsBefore
    <3>6. LogFollows'
      BY <3>0 DEF NativeTypeOK, LogFollows, Importing, IndexHeld, HeadHeld, BeforeCommit,
          Copied, Paths
    <3>7. EndsWhole'
      BY <3>0 DEF NativeTypeOK, EndsWhole, NoMixedEndpoint, Baseline, Paths
    <3>8. BoundAhead'
      BY DEF NativeTypeOK, BoundAhead, BeforeSwapIndex, Changing, RefLock, Refs, Paths
    <3>9. OwnerMetadataKept' /\ Covered'
      BY DEF OwnerMetadataKept, Covered, Baseline, Proven, Journalled
    <3>q. QED BY <3>1, <3>2, <3>3, <3>4, <3>5, <3>6, <3>7, <3>8, <3>9 DEF NativeIInv
  <2>q. QED BY <2>1, <2>2
<1>5. CASE Prepare
  <2>1. CASE Raise
    BY <1>5, <2>1, RaiseHolds DEF Prepare
  <2>2. CASE ~Raise
    <3> USE <1>5, <2>2 DEF Prepare, Jump
    <3>0. \A x \in Paths : Planned(x)' = Planned(x)
      BY DEF Planned
    <3>1. NativeTypeOK'
      BY NamesAt DEF NativeTypeOK, Refs, Paths, Inodes, Locks, Temporaries
    <3>2. PlanFits'
      BY NamesAt DEF NativeTypeOK, PlanFits, Paths
    <3>3. OriginalsTaken'
      BY NamesAt DEF NativeTypeOK, OriginalsTaken, Importing, IndexHeld, HeadHeld, Paths
    <3>4. LocksHeld'
      BY NamesAt DEF NativeTypeOK, LocksHeld, IndexHeld, HeadHeld, Paths
    <3>5. SeenUnderLock'
      BY NamesAt DEF NativeTypeOK, SeenUnderLock, BeforeSwapIndex, Paths
    <3>6. LogFollows'
      BY NamesAt, <3>0 DEF NativeTypeOK, LogFollows, Importing, IndexHeld, HeadHeld,
          BeforeCommit, Copied, Paths
    <3>7. EndsWhole'
      BY NamesAt, <3>0 DEF NativeTypeOK, EndsWhole, NoMixedEndpoint, Baseline, Paths
    <3>8. BoundAhead'
      BY NamesAt DEF NativeTypeOK, BoundAhead, BeforeSwapIndex, Changing, RefLock, Refs,
          Paths
    <3>9. OwnerMetadataKept' /\ Covered'
      BY DEF OwnerMetadataKept, Covered, Baseline, Proven, Journalled
    <3>q. QED BY <3>1, <3>2, <3>3, <3>4, <3>5, <3>6, <3>7, <3>8, <3>9 DEF NativeIInv
  <2>q. QED BY <2>1, <2>2
<1>6. CASE Reverify
  <2>1. CASE Raise
    BY <1>6, <2>1, RaiseHolds DEF Reverify
  <2>2. CASE ~Raise
    <3> USE <1>6, <2>2 DEF Reverify, Jump
    <3>0. \A x \in Paths : Planned(x)' = Planned(x)
      BY DEF Planned
    <3>1. NativeTypeOK'
      BY NamesAt DEF NativeTypeOK, Refs, Paths, Inodes, Locks, Temporaries
    <3>2. PlanFits'
      BY NamesAt DEF NativeTypeOK, PlanFits, Paths
    <3>3. OriginalsTaken'
      BY NamesAt DEF NativeTypeOK, OriginalsTaken, Importing, IndexHeld, HeadHeld, Paths
    <3>4. LocksHeld'
      BY NamesAt DEF NativeTypeOK, LocksHeld, IndexHeld, HeadHeld, Paths
    <3>5. SeenUnderLock'
      BY NamesAt DEF NativeTypeOK, SeenUnderLock, BeforeSwapIndex, Paths, LooksBefore,
          Visible, IsBefore, LocksHeld
    <3>6. LogFollows'
      BY NamesAt, <3>0, PlannedLog DEF NativeTypeOK, LogFollows, Importing, IndexHeld,
          HeadHeld, BeforeCommit, Copied, Paths, LocksHeld
    <3>7. EndsWhole'
      BY NamesAt, <3>0 DEF NativeTypeOK, EndsWhole, NoMixedEndpoint, Baseline, Paths
    <3>8. BoundAhead'
      BY NamesAt DEF NativeTypeOK, BoundAhead, BeforeSwapIndex, Changing, RefLock, Refs,
          Paths
    <3>9. OwnerMetadataKept' /\ Covered'
      BY DEF OwnerMetadataKept, Covered, Baseline, Proven, Journalled
    <3>q. QED BY <3>1, <3>2, <3>3, <3>4, <3>5, <3>6, <3>7, <3>8, <3>9 DEF NativeIInv
  <2>q. QED BY <2>1, <2>2
<1>7. CASE CommitEnds
  <2> USE <1>7 DEF CommitEnds, Jump
  <2>0. \A x \in Paths : Planned(x)' = Planned(x)
    BY DEF Planned
  <2>1. NativeTypeOK'
    BY NamesAt DEF NativeTypeOK, Refs, Paths, Inodes, Locks, Temporaries
  <2>2. PlanFits'
    BY NamesAt DEF NativeTypeOK, PlanFits, Paths
  <2>3. OriginalsTaken'
    BY NamesAt DEF NativeTypeOK, OriginalsTaken, Importing, IndexHeld, HeadHeld, Paths
  <2>4. LocksHeld'
    BY NamesAt DEF NativeTypeOK, LocksHeld, IndexHeld, HeadHeld, Paths
  <2>5. SeenUnderLock'
    BY NamesAt DEF NativeTypeOK, SeenUnderLock, BeforeSwapIndex, Paths
  <2>6. LogFollows'
    BY NamesAt, <2>0, PlannedLog DEF NativeTypeOK, LogFollows, Importing, IndexHeld,
        HeadHeld, BeforeCommit, Copied, Paths
  <2>7. EndsWhole'
    BY NamesAt, <2>0 DEF NativeTypeOK, EndsWhole, NoMixedEndpoint, Baseline, Paths
  <2>8. BoundAhead'
    BY NamesAt DEF NativeTypeOK, BoundAhead, BeforeSwapIndex, Changing, RefLock, Refs, Paths
  <2>9. OwnerMetadataKept' /\ Covered'
    BY DEF OwnerMetadataKept, Covered, Baseline, Proven, Journalled
  <2>q. QED BY <2>1, <2>2, <2>3, <2>4, <2>5, <2>6, <2>7, <2>8, <2>9 DEF NativeIInv
<1>8. CASE AfterRefs
  <2> USE <1>8 DEF AfterRefs, Jump
  <2>0. \A x \in Paths : Planned(x)' = Planned(x)
    BY DEF Planned
  <2>1. NativeTypeOK'
    BY DEF NativeTypeOK, Refs, Paths, Inodes, Locks, Temporaries
  <2>2. PlanFits'
    BY DEF NativeTypeOK, PlanFits, Paths
  <2>3. OriginalsTaken'
    BY DEF NativeTypeOK, OriginalsTaken, Importing, IndexHeld, HeadHeld, Paths
  <2>4. LocksHeld'
    BY DEF NativeTypeOK, LocksHeld, IndexHeld, HeadHeld, Paths
  <2>5. SeenUnderLock'
    BY DEF NativeTypeOK, SeenUnderLock, BeforeSwapIndex, Paths
  <2>6. LogFollows'
    BY <2>0 DEF NativeTypeOK, LogFollows, Importing, IndexHeld, HeadHeld, BeforeCommit,
        Copied, Paths
  <2>7. EndsWhole'
    BY <2>0 DEF NativeTypeOK, EndsWhole, NoMixedEndpoint, Baseline, Paths
  <2>8. BoundAhead'
    BY DEF NativeTypeOK, BoundAhead, BeforeSwapIndex, Changing, RefLock, Refs, Paths
  <2>9. OwnerMetadataKept' /\ Covered'
    BY DEF OwnerMetadataKept, Covered, Baseline, Proven, Journalled
  <2>q. QED BY <2>1, <2>2, <2>3, <2>4, <2>5, <2>6, <2>7, <2>8, <2>9 DEF NativeIInv
<1>9. CASE Compare
  <2>1. CASE Raise
    BY <1>9, <2>1, RaiseHolds DEF Compare
  <2>2. CASE ~Raise
    <3> USE <1>9, <2>2 DEF Compare, Jump, Intermediate
    <3>0. \A x \in Paths : Planned(x)' = Planned(x)
      BY DEF Planned
    <3>1. NativeTypeOK'
      BY DEF NativeTypeOK, Refs, Paths, Inodes, Locks, Temporaries
    <3>2. PlanFits'
      BY DEF NativeTypeOK, PlanFits, Paths
    <3>3. OriginalsTaken'
      BY DEF NativeTypeOK, OriginalsTaken, Importing, IndexHeld, HeadHeld, Paths
    <3>4. LocksHeld'
      BY DEF NativeTypeOK, LocksHeld, IndexHeld, HeadHeld, Paths
    <3>5. SeenUnderLock'
      BY DEF NativeTypeOK, SeenUnderLock, BeforeSwapIndex, Paths
    <3>6. LogFollows'
      BY <3>0 DEF NativeTypeOK, LogFollows, Importing, IndexHeld, HeadHeld, BeforeCommit,
          Copied, Paths
    <3>7. EndsWhole'
      BY <3>0 DEF NativeTypeOK, EndsWhole, NoMixedEndpoint, Baseline, Paths
    <3>8. BoundAhead'
      BY DEF NativeTypeOK, BoundAhead, BeforeSwapIndex, Changing, RefLock, Refs, Paths
    <3>9. OwnerMetadataKept' /\ Covered'
      BY DEF OwnerMetadataKept, Covered, Baseline, Proven, Journalled
    <3>q. QED BY <3>1, <3>2, <3>3, <3>4, <3>5, <3>6, <3>7, <3>8, <3>9 DEF NativeIInv
  <2>q. QED BY <2>1, <2>2
<1>10. CASE Swap
  <2> USE <1>10 DEF Swap, Jump
  <2>0. \A x \in Paths : Planned(x)' = Planned(x)
    BY DEF Planned
  <2>1. NativeTypeOK'
    BY SwapAt DEF NativeTypeOK, Refs, Paths, Inodes, Locks, Temporaries
  <2>2. PlanFits'
    BY SwapAt DEF NativeTypeOK, PlanFits, Paths
  <2>3. OriginalsTaken'
    BY SwapAt DEF NativeTypeOK, OriginalsTaken, Importing, IndexHeld, HeadHeld, Paths
  <2>4. LocksHeld'
    BY SwapAt DEF NativeTypeOK, LocksHeld, IndexHeld, HeadHeld, Paths
  <2>5. SeenUnderLock'
    BY SwapAt DEF NativeTypeOK, SeenUnderLock, BeforeSwapIndex, Paths
  <2>6. OwnerMetadataKept'
    BY SwapAt DEF NativeTypeOK, OwnerMetadataKept, Paths, SeenUnderLock, BeforeSwapIndex,
        OriginalsTaken, Importing, IndexHeld, HeadHeld
  <2>7. LogFollows'
    BY SwapAt, <2>0 DEF NativeTypeOK, LogFollows, Importing, IndexHeld, HeadHeld,
        BeforeCommit, Copied, Paths
  <2>8. EndsWhole'
    BY SwapAt, <2>0 DEF NativeTypeOK, EndsWhole, NoMixedEndpoint, Baseline, Paths
  <2>9. BoundAhead'
    BY SwapAt DEF NativeTypeOK, BoundAhead, BeforeSwapIndex, Changing, RefLock, Refs, Paths
  <2>10. Covered'
    BY SwapAt DEF NativeTypeOK, Covered, Baseline, Proven, Journalled, Paths, BoundAhead,
        BeforeSwapIndex, OriginalsTaken, Importing, IndexHeld, HeadHeld, PlanFits
  <2>q. QED BY <2>1, <2>2, <2>3, <2>4, <2>5, <2>6, <2>7, <2>8, <2>9, <2>10 DEF NativeIInv
<1>11. CASE Verify
  <2>1. CASE Raise
    BY <1>11, <2>1, RaiseHolds DEF Verify
  <2>2. CASE ~Raise
    <3> USE <1>11, <2>2 DEF Verify, Jump
    <3>0. \A x \in Paths : Planned(x)' = Planned(x)
      BY DEF Planned
    <3>1. NativeTypeOK'
      BY DEF NativeTypeOK, Refs, Paths, Inodes, Locks, Temporaries
    <3>2. PlanFits'
      BY DEF NativeTypeOK, PlanFits, Paths
    <3>3. OriginalsTaken'
      BY DEF NativeTypeOK, OriginalsTaken, Importing, IndexHeld, HeadHeld, Paths
    <3>4. LocksHeld'
      BY DEF NativeTypeOK, LocksHeld, IndexHeld, HeadHeld, Paths
    <3>5. SeenUnderLock'
      BY DEF NativeTypeOK, SeenUnderLock, BeforeSwapIndex, Paths
    <3>6. LogFollows'
      BY <3>0 DEF NativeTypeOK, LogFollows, Importing, IndexHeld, HeadHeld, BeforeCommit,
          Copied, Paths, Visible
    <3>7. EndsWhole'
      BY <3>0 DEF NativeTypeOK, EndsWhole, NoMixedEndpoint, Baseline, Paths
    <3>8. BoundAhead'
      BY DEF NativeTypeOK, BoundAhead, BeforeSwapIndex, Changing, RefLock, Refs, Paths
    <3>9. OwnerMetadataKept' /\ Covered'
      BY DEF OwnerMetadataKept, Covered, Baseline, Proven, Journalled
    <3>q. QED BY <3>1, <3>2, <3>3, <3>4, <3>5, <3>6, <3>7, <3>8, <3>9 DEF NativeIInv
  <2>q. QED BY <2>1, <2>2
<1>12. ASSUME NEW r \in Refs, CommitLog(r) PROVE NativeIInv'
  <2> USE <1>12 DEF CommitLog
  <2>0. \A x \in Paths : Planned(x)' = Planned(x)
    BY DEF Planned
  <2>1. NativeTypeOK'
    BY NamesAt DEF NativeTypeOK, Refs, Paths, Inodes, Locks, Temporaries
  <2>2. SeenUnderLock'
    BY NamesAt DEF NativeTypeOK, SeenUnderLock, BeforeSwapIndex, Paths
  <2>3. OwnerMetadataKept'
    BY NamesAt DEF NativeTypeOK, OwnerMetadataKept, Paths
  <2>4. LogFollows'
    <3>1. CASE r = "ref"
      <4>1. cell["log"] = Copied("log") /\ Changing("ref")
        BY <3>1, NamesAt, PlannedLog DEF LogFollows, Copied, Changing, PlanFits
      <4>2. cell'["log"] = Planned("log")
        BY <3>1, <4>1, NamesAt, PlannedLog DEF NativeTypeOK, PlanFits, Changing, Copied,
            Paths
      <4>q. QED BY <2>0, <4>2 DEF LogFollows, Importing, IndexHeld, HeadHeld,
          BeforeCommit, Paths
    <3>2. CASE r = "stash"
      <4>1. cell'["log"] = cell["log"]
        BY <3>2, NamesAt DEF NativeTypeOK, Paths
      <4>q. QED BY <2>0, <4>1
                DEF LogFollows, Importing, IndexHeld, HeadHeld, BeforeCommit, Copied, Paths
    <3>q. QED BY <3>1, <3>2, NamesAt
  <2>5. EndsWhole'
    BY NamesAt, <2>0 DEF NativeTypeOK, EndsWhole, NoMixedEndpoint, Baseline, Paths
  <2>6. BoundAhead'
    BY NamesAt DEF NativeTypeOK, BoundAhead, BeforeSwapIndex, Changing, RefLock, Refs, Paths
  <2>7. Covered'
    BY NamesAt DEF NativeTypeOK, Covered, Baseline, Proven, Journalled, Paths
  <2>8. PlanFits' /\ OriginalsTaken' /\ LocksHeld'
    BY DEF PlanFits, OriginalsTaken, Importing, IndexHeld, HeadHeld, LocksHeld
  <2>q. QED BY <2>1, <2>2, <2>3, <2>4, <2>5, <2>6, <2>7, <2>8 DEF NativeIInv
<1>13. ASSUME NEW r \in Refs, CommitRef(r) PROVE NativeIInv'
  <2> USE <1>13 DEF CommitRef
  <2>a. \/ cell' = cell
        \/ cell' = [cell EXCEPT ![r] = "ours"] /\ Changing(r)
        \/ r = "stash" /\ cell' = [cell EXCEPT !["stash"] = "none", !["stashlog"] = "none"]
    BY NamesAt DEF PlanFits
  <2>0. \A x \in Paths : Planned(x)' = Planned(x)
    BY DEF Planned
  <2>1. NativeTypeOK'
    <3>1. cell' \in [Paths -> Inodes]
      BY <2>a DEF NativeTypeOK, Inodes
    <3>2. left' \subseteq Locks \cup Temporaries /\ bound' \subseteq Locks \cup Temporaries \cup Paths
      BY DEF NativeTypeOK
    <3>q. QED BY <3>1, <3>2 DEF NativeTypeOK
  <2>2. LocksHeld'
    BY NamesAt DEF NativeTypeOK, LocksHeld, IndexHeld, HeadHeld, Paths
  <2>3. SeenUnderLock'
    BY NamesAt DEF NativeTypeOK, SeenUnderLock, BeforeSwapIndex, Paths
  <2>4. OwnerMetadataKept'
    <3>1. kept = Paths \ fresh
      BY DEF OriginalsTaken, Importing, IndexHeld, HeadHeld
    <3>2. r \notin owned /\ (r = "stash" => "stashlog" \notin owned)
      BY NamesAt DEF SeenUnderLock, OwnerMetadataKept, Paths
    <3>3. \A p \in owned : cell'[p] = cell[p]
      BY <2>a, <3>2 DEF NativeTypeOK
    <3>q. QED BY <3>1, <3>3 DEF OwnerMetadataKept
  <2>5. LogFollows'
    <3>1. cell'["log"] = cell["log"]
      BY <2>a, NamesAt DEF NativeTypeOK, Paths
    <3>2. r = "ref" => cell["log"] \in {Planned("log"), "owner"}
      BY NamesAt, PlannedLog DEF LogFollows, PlanFits, Changing, Copied
    <3>3. r = "stash" => ("ref.lock" \in left' <=> "ref.lock" \in left)
      BY NamesAt
    <3>q. QED BY <2>0, <3>1, <3>2, <3>3, NamesAt
              DEF LogFollows, Importing, IndexHeld, HeadHeld, BeforeCommit, Copied, Paths
  <2>6. EndsWhole'
    BY NamesAt, <2>0 DEF NativeTypeOK, EndsWhole, NoMixedEndpoint, Baseline, Paths
  <2>7. BoundAhead'
    BY NamesAt DEF NativeTypeOK, BoundAhead, BeforeSwapIndex, Changing, RefLock, Refs, Paths
  <2>8. Covered'
    <3> SUFFICES ASSUME ownerActs = 0, NEW p \in Paths
                 PROVE  (\/ Baseline(p)
                         \/ p \in kept /\ Proven(p)
                         \/ p \in fresh /\ cell[p] = "ours" /\ p \in bound)'
      BY DEF Covered
    <3>1. kept = Paths \ fresh
      BY DEF OriginalsTaken, Importing, IndexHeld, HeadHeld
    <3>2. p \in bound => p \in bound'
      BY NamesAt DEF Paths
    <3>3. CASE cell'[p] = cell[p]
      <4>1. \/ Baseline(p)
            \/ p \in kept /\ Proven(p)
            \/ p \in fresh /\ cell[p] = "ours" /\ p \in bound
        BY DEF Covered
      <4>2. Baseline(p) => Baseline(p)'
        BY <3>3 DEF Baseline
      <4>3. Proven(p) => Proven(p)'
        BY <3>2, <3>3 DEF Proven, Journalled
      <4>q. QED BY <3>2, <3>3, <4>1, <4>2, <4>3
    <3>4. CASE p = r /\ cell'[p] = "ours" /\ Changing(r)
      <4>1. p \in bound'
        BY <3>2, <3>4 DEF BoundAhead
      <4>q. QED BY <3>1, <3>4, <4>1 DEF Proven, Journalled
    <3>5. CASE p \in {"stash", "stashlog"} /\ cell'[p] = "none"
      BY <3>1, <3>5 DEF Proven, PlanFits
    <3>q. QED BY <2>a, <3>3, <3>4, <3>5 DEF NativeTypeOK
  <2>9. PlanFits' /\ OriginalsTaken'
    BY DEF PlanFits, OriginalsTaken, Importing, IndexHeld, HeadHeld
  <2>q. QED BY <2>1, <2>2, <2>3, <2>4, <2>5, <2>6, <2>7, <2>8, <2>9 DEF NativeIInv
<1>q. QED BY <1>1, <1>2, <1>3, <1>4, <1>5, <1>6, <1>7, <1>8, <1>9, <1>10, <1>11, <1>12,
    <1>13 DEF ImportStep

(* ... every step of the recovery ...                                        *)
LEMMA RecoveryHolds ==
  ASSUME NativeIInv, RecoveryStep
  PROVE  NativeIInv'
<1> USE NativeAssumption DEF NativeIInv, NativeInv, journal, ownerState
<1>1. CASE StartRecovery
  <2> USE <1>1 DEF StartRecovery, Jump
  <2>0. \A x \in Paths : Planned(x)' = Planned(x)
    BY DEF Planned
  <2>1. NativeTypeOK'
    BY DEF NativeTypeOK, Refs, Paths, Inodes, Locks, Temporaries
  <2>2. PlanFits'
    BY DEF NativeTypeOK, PlanFits, Paths
  <2>3. OriginalsTaken'
    BY DEF NativeTypeOK, OriginalsTaken, Importing, IndexHeld, HeadHeld, Paths
  <2>4. LocksHeld'
    BY DEF NativeTypeOK, LocksHeld, IndexHeld, HeadHeld, Paths
  <2>5. SeenUnderLock'
    BY DEF NativeTypeOK, SeenUnderLock, BeforeSwapIndex, Paths
  <2>6. LogFollows'
    BY <2>0 DEF NativeTypeOK, LogFollows, Importing, IndexHeld, HeadHeld, BeforeCommit,
        Copied, Paths
  <2>7. EndsWhole'
    BY <2>0 DEF NativeTypeOK, EndsWhole, NoMixedEndpoint, Baseline, Paths
  <2>8. BoundAhead'
    BY DEF NativeTypeOK, BoundAhead, BeforeSwapIndex, Changing, RefLock, Refs, Paths
  <2>9. OwnerMetadataKept' /\ Covered'
    BY DEF OwnerMetadataKept, Covered, Baseline, Proven, Journalled
  <2>q. QED BY <2>1, <2>2, <2>3, <2>4, <2>5, <2>6, <2>7, <2>8, <2>9 DEF NativeIInv
<1>2. CASE VerifyBefore
  <2> USE <1>2 DEF VerifyBefore, Jump, Abandon
  <2>0. \A x \in Paths : Planned(x)' = Planned(x)
    BY DEF Planned
  <2>1. NativeTypeOK'
    BY DEF NativeTypeOK, Refs, Paths, Inodes, Locks, Temporaries
  <2>2. PlanFits'
    BY DEF NativeTypeOK, PlanFits, Paths
  <2>3. OriginalsTaken'
    BY DEF NativeTypeOK, OriginalsTaken, Importing, IndexHeld, HeadHeld, Paths
  <2>4. LocksHeld'
    BY DEF NativeTypeOK, LocksHeld, IndexHeld, HeadHeld, Paths
  <2>5. SeenUnderLock'
    BY DEF NativeTypeOK, SeenUnderLock, BeforeSwapIndex, Paths
  <2>6. LogFollows'
    BY <2>0 DEF NativeTypeOK, LogFollows, Importing, IndexHeld, HeadHeld, BeforeCommit,
        Copied, Paths
  <2>7. EndsWhole'
    BY <2>0 DEF NativeTypeOK, EndsWhole, NoMixedEndpoint, Baseline, Paths, Captured
  <2>8. BoundAhead'
    BY DEF NativeTypeOK, BoundAhead, BeforeSwapIndex, Changing, RefLock, Refs, Paths
  <2>9. OwnerMetadataKept' /\ Covered'
    BY DEF OwnerMetadataKept, Covered, Baseline, Proven, Journalled
  <2>q. QED BY <2>1, <2>2, <2>3, <2>4, <2>5, <2>6, <2>7, <2>8, <2>9 DEF NativeIInv
<1>3. CASE Release
  <2> USE <1>3 DEF Release, Jump
  <2>0. \A x \in Paths : Planned(x)' = Planned(x)
    BY DEF Planned
  <2>1. NativeTypeOK'
    BY DEF NativeTypeOK, Refs, Paths, Inodes, Locks, Temporaries
  <2>2. PlanFits'
    BY DEF NativeTypeOK, PlanFits, Paths
  <2>3. OriginalsTaken'
    BY DEF NativeTypeOK, OriginalsTaken, Importing, IndexHeld, HeadHeld, Paths
  <2>4. LocksHeld'
    BY DEF NativeTypeOK, LocksHeld, IndexHeld, HeadHeld, Paths
  <2>5. SeenUnderLock'
    BY DEF NativeTypeOK, SeenUnderLock, BeforeSwapIndex, Paths
  <2>6. LogFollows'
    BY <2>0 DEF NativeTypeOK, LogFollows, Importing, IndexHeld, HeadHeld, BeforeCommit,
        Copied, Paths
  <2>7. EndsWhole'
    BY <2>0 DEF NativeTypeOK, EndsWhole, NoMixedEndpoint, Baseline, Paths
  <2>8. BoundAhead'
    BY DEF NativeTypeOK, BoundAhead, BeforeSwapIndex, Changing, RefLock, Refs, Paths
  <2>9. OwnerMetadataKept' /\ Covered'
    BY DEF OwnerMetadataKept, Covered, Baseline, Proven, Journalled
  <2>q. QED BY <2>1, <2>2, <2>3, <2>4, <2>5, <2>6, <2>7, <2>8, <2>9 DEF NativeIInv
<1>4. ASSUME NEW n \in Locks \cup Temporaries, CaptureMade(n) PROVE NativeIInv'
  <2> USE <1>4 DEF CaptureMade
  <2>0. \A x \in Paths : Planned(x)' = Planned(x)
    BY DEF Planned
  <2>1. NativeTypeOK'
    BY DEF NativeTypeOK, Refs, Paths, Inodes, Locks, Temporaries
  <2>2. LocksHeld'
    BY DEF NativeTypeOK, LocksHeld, IndexHeld, HeadHeld, Paths
  <2>3. SeenUnderLock'
    BY DEF NativeTypeOK, SeenUnderLock, BeforeSwapIndex, Paths
  <2>4. LogFollows'
    BY <2>0 DEF NativeTypeOK, LogFollows, Importing, IndexHeld, HeadHeld, BeforeCommit,
        Copied, Paths
  <2>5. EndsWhole'
    BY <2>0 DEF NativeTypeOK, EndsWhole, NoMixedEndpoint, Baseline, Paths
  <2>6. BoundAhead'
    BY DEF NativeTypeOK, BoundAhead, BeforeSwapIndex, Changing, RefLock, Refs, Paths
  <2>7. PlanFits' /\ OriginalsTaken' /\ OwnerMetadataKept' /\ Covered'
    BY DEF PlanFits, OriginalsTaken, Importing, IndexHeld, HeadHeld, OwnerMetadataKept,
        Covered, Baseline, Proven, Journalled
  <2>q. QED BY <2>1, <2>2, <2>3, <2>4, <2>5, <2>6, <2>7 DEF NativeIInv
<1>5. ASSUME NEW p \in Paths, CaptureFresh(p) PROVE NativeIInv'
  <2> USE <1>5 DEF CaptureFresh
  <2>0. \A x \in Paths : Planned(x)' = Planned(x)
    BY DEF Planned
  <2>1. NativeTypeOK'
    BY DEF NativeTypeOK, Refs, Paths, Inodes, Locks, Temporaries
  <2>2. SeenUnderLock'
    BY DEF NativeTypeOK, SeenUnderLock, BeforeSwapIndex, Paths
  <2>3. OwnerMetadataKept'
    BY DEF NativeTypeOK, OwnerMetadataKept, Paths
  <2>4. LogFollows'
    BY <2>0 DEF NativeTypeOK, LogFollows, Importing, IndexHeld, HeadHeld, BeforeCommit,
        Copied, Paths
  <2>5. EndsWhole'
    BY <2>0 DEF NativeTypeOK, EndsWhole, NoMixedEndpoint, Baseline, Paths
  <2>6. Covered'
    BY DEF NativeTypeOK, Covered, Baseline, Proven, Journalled, Paths
  <2>7. PlanFits' /\ OriginalsTaken' /\ LocksHeld' /\ BoundAhead'
    BY DEF PlanFits, OriginalsTaken, Importing, IndexHeld, HeadHeld, LocksHeld,
        BoundAhead, BeforeSwapIndex, Changing, RefLock, Refs
  <2>q. QED BY <2>1, <2>2, <2>3, <2>4, <2>5, <2>6, <2>7 DEF NativeIInv
<1>6. ASSUME NEW p \in Paths, Displace(p) PROVE NativeIInv'
  <2> USE <1>6 DEF Displace, Jump, Abandon
  <2>a. p \in kept
    BY DEF First
  <2>0. \A x \in Paths : Planned(x)' = Planned(x)
    BY DEF Planned
  <2>1. NativeTypeOK'
    BY <2>a DEF NativeTypeOK, Refs, Paths, Inodes, Locks, Temporaries
  <2>2. PlanFits'
    BY <2>a DEF NativeTypeOK, PlanFits, Paths
  <2>3. OriginalsTaken'
    BY <2>a DEF NativeTypeOK, OriginalsTaken, Importing, IndexHeld, HeadHeld, Paths
  <2>4. LocksHeld'
    BY <2>a DEF NativeTypeOK, LocksHeld, IndexHeld, HeadHeld, Paths
  <2>5. SeenUnderLock'
    BY <2>a DEF NativeTypeOK, SeenUnderLock, BeforeSwapIndex, Paths
  <2>6. OwnerMetadataKept'
    BY <2>a DEF NativeTypeOK, OwnerMetadataKept, Paths, Proven, Journalled
  <2>7. LogFollows'
    BY <2>a, <2>0 DEF NativeTypeOK, LogFollows, Importing, IndexHeld, HeadHeld,
        BeforeCommit, Copied, Paths
  <2>8. EndsWhole'
    BY <2>a, <2>0 DEF NativeTypeOK, EndsWhole, NoMixedEndpoint, Baseline, Paths
  <2>9. BoundAhead'
    BY <2>a DEF NativeTypeOK, BoundAhead, BeforeSwapIndex, Changing, RefLock, Refs, Paths
  <2>10. Covered'
    BY <2>a DEF NativeTypeOK, Covered, Baseline, Proven, Journalled, Paths, OriginalsTaken
  <2>q. QED BY <2>1, <2>2, <2>3, <2>4, <2>5, <2>6, <2>7, <2>8, <2>9, <2>10 DEF NativeIInv
<1>7. ASSUME NEW p \in Paths, Restore(p) PROVE NativeIInv'
  <2> USE <1>7 DEF Restore
  <2>a. p \in kept
    BY DEF First
  <2>0. \A x \in Paths : Planned(x)' = Planned(x)
    BY DEF Planned
  <2>1. NativeTypeOK'
    BY <2>a DEF NativeTypeOK, Refs, Paths, Inodes, Locks, Temporaries
  <2>2. OriginalsTaken'
    BY <2>a DEF NativeTypeOK, OriginalsTaken, Importing, IndexHeld, HeadHeld, Paths
  <2>3. SeenUnderLock'
    BY <2>a DEF NativeTypeOK, SeenUnderLock, BeforeSwapIndex, Paths
  <2>4. OwnerMetadataKept'
    BY <2>a DEF NativeTypeOK, OwnerMetadataKept, Paths
  <2>5. LogFollows'
    BY <2>a, <2>0 DEF NativeTypeOK, LogFollows, Importing, IndexHeld, HeadHeld,
        BeforeCommit, Copied, Paths
  <2>6. EndsWhole'
    BY <2>a, <2>0 DEF NativeTypeOK, EndsWhole, NoMixedEndpoint, Baseline, Paths
  <2>7. Covered'
    BY <2>a DEF NativeTypeOK, Covered, Baseline, Proven, Journalled, Paths, OriginalsTaken
  <2>8. PlanFits' /\ LocksHeld' /\ BoundAhead'
    BY DEF PlanFits, LocksHeld, IndexHeld, HeadHeld, BoundAhead, BeforeSwapIndex,
        Changing, RefLock, Refs
  <2>q. QED BY <2>1, <2>2, <2>3, <2>4, <2>5, <2>6, <2>7, <2>8 DEF NativeIInv
<1>q. QED BY <1>1, <1>2, <1>3, <1>4, <1>5, <1>6, <1>7 DEF RecoveryStep

(* ... and the owner's Git and every death.                                  *)
LEMMA OwnersHold ==
  ASSUME NativeIInv, OwnerGit \/ OwnerUnlocks \/ Die
  PROVE  NativeIInv'
<1> USE NativeAssumption DEF NativeIInv, NativeInv, journal, ownerState
<1>1. ASSUME NEW S \in SUBSET Paths, OwnerWrites(S) PROVE NativeIInv'
  <2> USE <1>1 DEF OwnerWrites
  <2>0. \A x \in Paths : Planned(x)' = Planned(x)
    BY DEF Planned
  <2>1. NativeTypeOK'
    <3>1. cell' \in [Paths -> Inodes]
      BY DEF NativeTypeOK, Inodes
    <3>2. owned' \subseteq Paths /\ gone' \subseteq Paths
      BY DEF NativeTypeOK
    <3>3. ownerActs' \in 0..MaxOwnerActs
      BY DEF NativeTypeOK
    <3>q. QED BY <3>1, <3>2, <3>3 DEF NativeTypeOK
  <2>2. SeenUnderLock'
    <3>1. /\ "index.lock" \in left => "index" \notin S
          /\ "HEAD.lock" \in left => "HEAD" \notin S
          /\ "ref.lock" \in left => "ref" \notin S
          /\ "stash.lock" \in left => "stash" \notin S /\ "stashlog" \notin S
      BY LockAt
    <3>2. \A p \in Paths \ S : cell'[p] = cell[p]
      OBVIOUS
    <3>3. /\ at \in BeforeSwapIndex => "index" \notin S
          /\ at \in {"stage_index", "stage_head", "head_intent", "swap_head"} \cup BeforeSwapIndex
               => "HEAD" \notin S
          /\ at \in {"stage_stash", "stash_intent", "swap_stash"} => "stashlog" \notin S
      BY <3>1 DEF LocksHeld, IndexHeld, HeadHeld, BeforeSwapIndex
    <3>q. QED BY <3>1, <3>2, <3>3 DEF SeenUnderLock, Paths
  <2>3. OwnerMetadataKept'
    BY LockAt DEF NativeTypeOK, OwnerMetadataKept, Paths
  <2>4. LogFollows'
    BY LockAt, <2>0 DEF NativeTypeOK, LogFollows, Importing, IndexHeld, HeadHeld,
        BeforeCommit, Copied, Paths
  <2>5. EndsWhole'
    BY LockAt, <2>0 DEF NativeTypeOK, EndsWhole, NoMixedEndpoint, Baseline, Paths
  <2>6. Covered'
    BY LockAt DEF NativeTypeOK, Covered, Baseline, Proven, Journalled, Paths
  <2>7. PlanFits' /\ OriginalsTaken' /\ LocksHeld' /\ BoundAhead'
    BY DEF PlanFits, OriginalsTaken, Importing, IndexHeld, HeadHeld, LocksHeld,
        BoundAhead, BeforeSwapIndex, Changing, RefLock, Refs
  <2>q. QED BY <2>1, <2>2, <2>3, <2>4, <2>5, <2>6, <2>7 DEF NativeIInv
<1>2. CASE OwnerUnlocks
  <2> USE <1>2 DEF OwnerUnlocks
  <2>0. \A x \in Paths : Planned(x)' = Planned(x)
    BY DEF Planned
  <2>1. NativeTypeOK'
    BY DEF NativeTypeOK, Refs, Paths, Inodes, Locks, Temporaries
  <2>2. LocksHeld'
    BY DEF NativeTypeOK, LocksHeld, IndexHeld, HeadHeld, Paths
  <2>3. SeenUnderLock'
    BY DEF NativeTypeOK, SeenUnderLock, BeforeSwapIndex, Paths
  <2>4. LogFollows'
    BY <2>0 DEF NativeTypeOK, LogFollows, Importing, IndexHeld, HeadHeld, BeforeCommit,
        Copied, Paths
  <2>5. EndsWhole'
    BY <2>0 DEF NativeTypeOK, EndsWhole, NoMixedEndpoint, Baseline, Paths
  <2>6. BoundAhead'
    BY DEF NativeTypeOK, BoundAhead, BeforeSwapIndex, Changing, RefLock, Refs, Paths
  <2>7. Covered'
    BY DEF NativeTypeOK, Covered, Baseline, Proven, Journalled, Paths
  <2>8. PlanFits' /\ OriginalsTaken' /\ OwnerMetadataKept'
    BY DEF PlanFits, OriginalsTaken, Importing, IndexHeld, HeadHeld, OwnerMetadataKept
  <2>q. QED BY <2>1, <2>2, <2>3, <2>4, <2>5, <2>6, <2>7, <2>8 DEF NativeIInv
<1>3. CASE Die
  <2> USE <1>3 DEF Die, Jump, Abandon
  <2>0. \A x \in Paths : Planned(x)' = Planned(x)
    BY DEF Planned
  <2>1. NativeTypeOK'
    BY DEF NativeTypeOK, Refs, Paths, Inodes, Locks, Temporaries
  <2>2. PlanFits'
    BY DEF NativeTypeOK, PlanFits, Paths
  <2>3. OriginalsTaken'
    BY DEF NativeTypeOK, OriginalsTaken, Importing, IndexHeld, HeadHeld, Paths
  <2>4. LocksHeld'
    BY DEF NativeTypeOK, LocksHeld, IndexHeld, HeadHeld, Paths
  <2>5. SeenUnderLock'
    BY DEF NativeTypeOK, SeenUnderLock, BeforeSwapIndex, Paths
  <2>6. LogFollows'
    BY <2>0 DEF NativeTypeOK, LogFollows, Importing, IndexHeld, HeadHeld, BeforeCommit,
        Copied, Paths
  <2>7. EndsWhole'
    BY <2>0 DEF NativeTypeOK, EndsWhole, NoMixedEndpoint, Baseline, Paths
  <2>8. BoundAhead'
    BY DEF NativeTypeOK, BoundAhead, BeforeSwapIndex, Changing, RefLock, Refs, Paths
  <2>9. OwnerMetadataKept' /\ Covered'
    BY DEF OwnerMetadataKept, Covered, Baseline, Proven, Journalled
  <2>q. QED BY <2>1, <2>2, <2>3, <2>4, <2>5, <2>6, <2>7, <2>8, <2>9 DEF NativeIInv
<1>q. QED BY <1>1, <1>2, <1>3 DEF OwnerGit, Paths

LEMMA NativeInvariant == NativeSpec => []NativeIInv
<1> USE NativeAssumption
<1>1. NativeInit => NativeIInv
  <2> SUFFICES ASSUME NativeInit PROVE NativeIInv
    OBVIOUS
  <2> USE DEF NativeInit
  <2>1. NativeTypeOK
    BY DEF NativeTypeOK, Paths, Refs, Inodes
  <2>2. PlanFits /\ OriginalsTaken /\ LocksHeld /\ SeenUnderLock
    BY DEF PlanFits, OriginalsTaken, LocksHeld, SeenUnderLock, Importing, IndexHeld,
        HeadHeld,
           BeforeSwapIndex, Refs
  <2>3. OwnerMetadataKept /\ Covered
    BY DEF OwnerMetadataKept, Covered, Baseline
  <2>4. LogFollows
    BY DEF LogFollows, Importing, IndexHeld, HeadHeld, BeforeCommit, Paths
  <2>5. EndsWhole /\ BoundAhead
    BY DEF EndsWhole, NoMixedEndpoint, BoundAhead, BeforeSwapIndex
  <2>q. QED BY <2>1, <2>2, <2>3, <2>4, <2>5 DEF NativeIInv, NativeInv
<1>2. NativeIInv /\ [NativeNext]_nativeVars => NativeIInv'
  <2> SUFFICES ASSUME NativeIInv, [NativeNext]_nativeVars PROVE NativeIInv'
    OBVIOUS
  <2>1. CASE UNCHANGED nativeVars
    <3> USE <2>1 DEF nativeVars, NativeIInv, NativeInv
    <3>1. NativeTypeOK'
      BY DEF NativeTypeOK
    <3>2. PlanFits' /\ OriginalsTaken' /\ LocksHeld' /\ SeenUnderLock' /\ OwnerMetadataKept'
      BY DEF PlanFits, OriginalsTaken, LocksHeld, SeenUnderLock, OwnerMetadataKept
    <3>3. LogFollows'
      BY DEF LogFollows, Copied, Planned
    <3>6. EndsWhole'
      BY DEF EndsWhole, NoMixedEndpoint, Planned, Copied, Baseline
    <3>4. BoundAhead'
      BY DEF BoundAhead, Changing, Journalled
    <3>5. Covered'
      BY DEF Covered, Baseline, Proven, Journalled
    <3>q. QED BY <3>1, <3>2, <3>3, <3>4, <3>5, <3>6
  <2>q. QED BY <2>1, HostHolds, ImportHolds, RecoveryHolds, OwnersHold DEF NativeNext
<1>q. QED BY <1>1, <1>2, PTL DEF NativeSpec

(* publish_before_copy, the import, its rollback and the owner's own Git share
   the metadata: what the owner wrote stays where it was written, and an
   original leaves its path only into custody or by the owner's hand.        *)
THEOREM OwnerMetadataSurvives == NativeSpec => []OwnerMetadataKept
BY NativeInvariant, PTL DEF NativeIInv, NativeInv

(* The guard of an import goes with everything in place as planned, or with
   every original back, and never with a lock or a temporary left behind.    *)
THEOREM EndpointsAreWhole == NativeSpec => []NoMixedEndpoint
BY NativeInvariant, PTL DEF NativeIInv, NativeInv, EndsWhole

(* Nothing is installed in the metadata before the journal binds it, so a dead
   import the owner did not touch is refused by inspect_git_reconciliation only
   over a name whose creation the journal had not recorded yet.              *)
THEOREM DeadImportsAreRecoverable == NativeSpec => []RecoveryBlockedHasCause
<1>1. NativeIInv => RecoveryBlockedHasCause
  BY NativeAssumption DEF NativeIInv, NativeInv, NativeTypeOK, Covered, SafeBefore,
      Journalled,
     RecoveryBlockedHasCause
<1>q. QED BY <1>1, NativeInvariant, PTL
=================================================================================
