-------------------------- MODULE WorkspaceCustody --------------------------
(***************************************************************************)
(* One custody directory of sandbox/workspace_custody.py: the gateway moves *)
(* one workspace entry into private storage (capture_workspace_entry) and,  *)
(* if publication is undone, renames the same inode back (restore_custody). *)
(* Every call may be repeated after the process died anywhere inside it.    *)
(* The caller holds the mutation lease, so the calls never overlap; the     *)
(* owner of the workspace holds no lock at all and may replace, remove or   *)
(* edit the entry between any two system calls, the captured inode through  *)
(* a descriptor opened earlier included.                                    *)
(*                                                                         *)
(* An inode is a model value. `edited` are the inodes whose content the     *)
(* owner changed in place. The intent binds the operation to the inode      *)
(* Original with the content it had then: this is _is_expected. A receipt   *)
(* is the pair written by _phase: the inode seen and whether it matched.    *)
(***************************************************************************)
EXTENDS Naturals, FiniteSets

CONSTANTS
  Original,      \* the inode the operation was prepared for
  OwnerFiles,    \* the inodes the owner may put in its place
  Absent,        \* no entry, no receipt
  MaxCrashes,    \* how often the gateway may die
  MaxActs        \* how often the owner may act

Files == OwnerFiles \cup {Original}
Entries == Files \cup {Absent}
Receipts == [file : Entries, expected : BOOLEAN]

ASSUME CustodyAssumption ==
  /\ Original \notin OwnerFiles
  /\ Absent \notin Files \cup Receipts
  /\ MaxCrashes \in Nat
  /\ MaxActs \in Nat

Held == {"captured_expected", "captured_owner", "captured_conflict"}
Returned == {"restored", "restored_owner"}
Sights == Held \cup Returned
            \cup {"uncaptured", "uncaptured_owner", "missing", "conflict", "error"}

VARIABLES
  source,     \* the inode at the workspace path
  held,       \* the inode at `captured` in the custody directory
  edited,     \* inodes the owner changed in place
  made,       \* inodes that were ever linked at either place
  dropped,    \* inodes the owner itself removed or replaced
  intent,     \* intent.json is there
  captured,   \* captured.json
  restored,   \* restored.json
  call,       \* "capture" or "restore" while a call runs
  pc,         \* its next system call
  seen,       \* what the last _inspect of the call returned
  result,     \* how the last call ended
  restoring,  \* the rollback has begun: no further capture is asked for
  acts, crashes

vars == <<source, held, edited, made, dropped, intent, captured, restored,
          call, pc, seen, result, restoring, acts, crashes>>
files == <<source, held, edited, made, dropped>>
records == <<intent, captured, restored>>
budget == <<acts, crashes>>

Nothing == [state |-> "missing", file |-> Absent, expected |-> FALSE]

\* _is_expected: the inode named by the intent, its content never changed.
IsExpected(f) == f = Original /\ f \notin edited

Init ==
  /\ source = Original /\ held = Absent /\ edited = {} /\ dropped = {}
  /\ made = {Original}
  /\ intent = FALSE /\ captured = Absent /\ restored = Absent
  /\ call = "none" /\ pc = "idle" /\ seen = Nothing /\ result = "none"
  /\ restoring = FALSE /\ acts = 0 /\ crashes = 0

-----------------------------------------------------------------------------
(* What _inspect makes of the two entries and the two receipts.             *)
Sight(state, f, e) == [state |-> state, file |-> f, expected |-> e]

InspectHeld ==
  IF restored # Absent THEN Sight("error", Absent, FALSE)
  ELSE IF captured # Absent /\ captured.file # held THEN Sight("error", Absent, FALSE)
  ELSE Sight(IF source # Absent THEN "captured_conflict"
             ELSE IF IsExpected(held) THEN "captured_expected"
             ELSE "captured_owner", held, IsExpected(held))

\* restored.json counts before captured.json.
Receipt == IF restored # Absent THEN restored ELSE captured

InspectReturned ==
  IF source # Absent /\ source = Receipt.file
    THEN Sight(IF IsExpected(source) THEN "restored" ELSE "restored_owner",
               source, IsExpected(source))
    ELSE Sight("conflict", Absent, FALSE)

InspectSource ==
  IF source = Absent THEN Nothing
  ELSE Sight(IF IsExpected(source) THEN "uncaptured" ELSE "uncaptured_owner",
             source, IsExpected(source))

Inspect ==
  IF held # Absent THEN InspectHeld
  ELSE IF Receipt # Absent THEN InspectReturned
  ELSE InspectSource

\* _phase: what a receipt says about the inode just inspected.
Phase(sight) == [file |-> sight.file, expected |-> sight.expected]

\* Fault: a record that exists is always refused.
AgreesOnce(record, value) == record = Absent

\* _write_record accepts its own earlier record and refuses any other.
Agrees(record, value) == record \in {Absent, value}

-----------------------------------------------------------------------------
Return(outcome) ==
  /\ call' = "none" /\ pc' = "idle" /\ result' = outcome
  /\ UNCHANGED seen

Goto(step) == pc' = step /\ UNCHANGED <<call, result>>

\* A refusal is a PermissionError or OSError out of the running call.
Refuse == Return("refused")

\* capture_workspace_entry records its intent before it looks at anything.
StartCapture ==
  /\ pc = "idle" /\ ~restoring
  /\ intent' = TRUE
  /\ call' = "capture" /\ pc' = "examine" /\ result' = "none"
  /\ UNCHANGED <<files, captured, restored, seen, restoring, budget>>

\* The inspection that decides what a capture does next.
Examine ==
  /\ pc = "examine"
  /\ LET now == Inspect IN
     \/ /\ now.state = "uncaptured"
        /\ seen' = now /\ Goto("take")
     \/ /\ now.state \in Held
        /\ seen' = now /\ Goto("receipt")
     \/ /\ now.state \notin Held \cup {"uncaptured"}
        /\ Refuse
  /\ UNCHANGED <<files, records, restoring, budget>>

\* renameat2(NOREPLACE) takes whatever is at the path by now.
Take ==
  /\ pc = "take"
  /\ \/ /\ source = Absent
        /\ Refuse
        /\ UNCHANGED <<source, held>>
     \/ /\ source # Absent
        /\ held' = source /\ source' = Absent
        /\ Goto("examine") /\ UNCHANGED seen
  /\ UNCHANGED <<edited, made, dropped, records, restoring, budget>>

\* captured.json: what the capture found in custody.
WriteCaptured ==
  /\ pc = "receipt"
  /\ \/ /\ Agrees(captured, Phase(seen))
        /\ captured' = Phase(seen)
        /\ Goto("confirm") /\ UNCHANGED seen
     \/ /\ ~Agrees(captured, Phase(seen))
        /\ Refuse /\ UNCHANGED captured
  /\ UNCHANGED <<files, intent, restored, restoring, budget>>

\* Fault: an owner's entry makes the capture look again.
ConfirmAgain ==
  /\ pc = "confirm"
  /\ LET now == Inspect IN
     \/ /\ now.state = "captured_expected"
        /\ Return("captured")
     \/ /\ now.state = "captured_owner"
        /\ Goto("examine") /\ UNCHANGED seen
     \/ /\ now.state \notin {"captured_expected", "captured_owner"}
        /\ Refuse
  /\ UNCHANGED <<files, records, restoring, budget>>

\* Only the exact original with a free path counts as captured; an owner's
\* entry goes back through restore_custody before the call refuses.
Confirm ==
  /\ pc = "confirm"
  /\ LET now == Inspect IN
     \/ /\ now.state = "captured_expected"
        /\ Return("captured")
     \/ /\ now.state = "captured_owner"
        /\ Goto("return") /\ UNCHANGED seen
     \/ /\ now.state \notin {"captured_expected", "captured_owner"}
        /\ Refuse
  /\ UNCHANGED <<files, records, restoring, budget>>

-----------------------------------------------------------------------------
(* restore_custody, called by the rollback or by a capture that refuses.    *)
StartRestore ==
  /\ pc = "idle" /\ intent
  /\ restoring' = TRUE
  /\ call' = "restore" /\ pc' = "return" /\ result' = "none"
  /\ UNCHANGED <<files, records, seen, budget>>

\* A capture that had to return an owner's entry still raises.
Outcome(done) == IF call = "capture" THEN "refused" ELSE done

\* The inspection that decides what a restoration does.
Survey ==
  /\ pc = "return"
  /\ LET now == Inspect IN
     \/ /\ now.state \in Returned
        /\ seen' = now /\ Goto("close")
     \/ /\ now.state = "uncaptured"
        /\ Return(Outcome("untouched"))
     \/ /\ now.state \in {"captured_expected", "captured_owner"}
        /\ seen' = now /\ Goto("rewrite")
     \/ /\ now.state \notin Returned \cup {"uncaptured", "captured_expected", "captured_owner"}
        /\ Refuse
  /\ UNCHANGED <<files, records, restoring, budget>>

\* captured.json is made durable before the inode leaves custody.
ConfirmCaptured ==
  /\ pc = "rewrite"
  /\ \/ /\ Agrees(captured, Phase(seen))
        /\ captured' = Phase(seen)
        /\ Goto("giveback") /\ UNCHANGED seen
     \/ /\ ~Agrees(captured, Phase(seen))
        /\ Refuse /\ UNCHANGED captured
  /\ UNCHANGED <<files, intent, restored, restoring, budget>>

\* Fault: a plain rename, which replaces what the owner put at the path.
GiveBackOver ==
  /\ pc = "giveback"
  /\ source' = held /\ held' = Absent
  /\ Goto("close")
  /\ UNCHANGED <<seen, edited, made, dropped, records, restoring, budget>>

\* renameat2(NOREPLACE) back: a later entry at the path is never replaced.
GiveBack ==
  /\ pc = "giveback"
  /\ \/ /\ source = Absent
        /\ source' = held /\ held' = Absent
        /\ Goto("close") /\ UNCHANGED seen
     \/ /\ source # Absent
        /\ Refuse
        /\ UNCHANGED <<source, held>>
  /\ UNCHANGED <<edited, made, dropped, records, restoring, budget>>

\* restored.json, from what the call saw before it moved anything.
WriteRestored ==
  /\ pc = "close"
  /\ \/ /\ Agrees(restored, Phase(seen))
        /\ restored' = Phase(seen)
        /\ Goto("check") /\ UNCHANGED seen
     \/ /\ ~Agrees(restored, Phase(seen))
        /\ Refuse /\ UNCHANGED restored
  /\ UNCHANGED <<files, intent, captured, restoring, budget>>

Check ==
  /\ pc = "check"
  /\ LET now == Inspect IN
     \/ /\ now.state \in Returned
        /\ Return(Outcome("restored"))
     \/ /\ now.state \notin Returned
        /\ Refuse
  /\ UNCHANGED <<files, records, restoring, budget>>

-----------------------------------------------------------------------------
(* The owner, at any moment and without any lock.                           *)
OwnerReplaces ==
  /\ acts < MaxActs
  /\ \E f \in OwnerFiles \ made :
       /\ source' = f /\ made' = made \cup {f}
  /\ dropped' = dropped \cup ({source} \ {Absent})
  /\ acts' = acts + 1
  /\ UNCHANGED <<held, edited, records, call, pc, seen, result, restoring, crashes>>

OwnerRemoves ==
  /\ acts < MaxActs /\ source # Absent
  /\ source' = Absent /\ dropped' = dropped \cup {source}
  /\ acts' = acts + 1
  /\ UNCHANGED <<held, edited, made, records, call, pc, seen, result, restoring, crashes>>

\* In place, through the path or a descriptor that was open at the capture.
OwnerEdits ==
  /\ acts < MaxActs
  /\ \E f \in {source, held} \ ({Absent} \cup edited) : edited' = edited \cup {f}
  /\ acts' = acts + 1
  /\ UNCHANGED <<source, held, made, dropped, records, call, pc, seen, result, restoring, crashes>>

\* The process dies; what it had renamed and linked stays.
Crash ==
  /\ crashes < MaxCrashes /\ pc # "idle"
  /\ call' = "none" /\ pc' = "idle" /\ result' = "none" /\ seen' = Nothing
  /\ crashes' = crashes + 1
  /\ UNCHANGED <<files, records, restoring, acts>>

Gateway ==
  \/ StartCapture \/ Examine \/ Take \/ WriteCaptured \/ Confirm
  \/ StartRestore \/ Survey \/ ConfirmCaptured \/ GiveBack \/ WriteRestored \/ Check

Owner == OwnerReplaces \/ OwnerRemoves \/ OwnerEdits

Next == Gateway \/ Owner \/ Crash

Spec == Init /\ [][Next]_vars

-----------------------------------------------------------------------------
(* Properties.                                                              *)
Steps == {"idle", "examine", "take", "receipt", "confirm",
          "return", "rewrite", "giveback", "close", "check"}
Results == {"none", "captured", "restored", "untouched", "refused"}

TypeOK ==
  /\ source \in Entries /\ held \in Entries
  /\ edited \subseteq Files /\ made \subseteq Files /\ dropped \subseteq Files
  /\ intent \in BOOLEAN
  /\ captured \in Receipts \cup {Absent} /\ restored \in Receipts \cup {Absent}
  /\ call \in {"none", "capture", "restore"} /\ pc \in Steps
  /\ seen \in [state : Sights, file : Entries, expected : BOOLEAN]
  /\ result \in Results /\ restoring \in BOOLEAN
  /\ acts \in 0..MaxActs /\ crashes \in 0..MaxCrashes

\* "No original-path unlink fallback exists": whatever is captured, returned or
\* refused, an inode that was ever linked stays at the path or in custody until
\* the owner itself removes it.
NothingLost == made \ dropped \subseteq {source, held}

\* The receipts never contradict what is in custody, however often the process
\* dies between a rename and its receipt: _inspect never meets an entry with a
\* restored receipt or a captured receipt of another inode.
ReceiptsAgree == Inspect.state # "error"

\* A capture succeeds only for the inode the caller prepared for, which is then
\* in custody with a receipt that it was unchanged; a restoration only with the
\* receipted inode at the path at that very step, and custody empty.
CaptureIsExact ==
  result = "captured" =>
    /\ held = Original
    /\ captured = [file |-> Original, expected |-> TRUE]
SuccessIsExact ==
  [][/\ CaptureIsExact'
     /\ pc = "check" /\ result' = "restored"
          => held = Absent /\ captured # Absent /\ source = captured.file]_vars

\* Retries are idempotent: after any number of deaths a call refuses only if
\* the owner interfered.
RefusalHasCause == result = "refused" => acts > 0
=============================================================================
