----------------------- MODULE WorkspaceCustodyProofs -----------------------
(***************************************************************************)
(* What custody guarantees for any set of owner files, any number of owner  *)
(* actions and any number of process deaths, and, in the second half, what  *)
(* the same custody of whole directories guarantees.                        *)
(***************************************************************************)
EXTENDS WorkspaceCustody, WorkspaceDirectories, FiniteSetTheorems, TLAPS

USE CustodyAssumption DEF Files, Entries, Receipts, Held, Returned, Sights,
    Steps, Results, files, records, budget

Sightings == [state : Sights, file : Entries, expected : BOOLEAN]

(* What an inspection returns is of its type, and tells which entry it saw.  *)
LEMMA NothingType == Nothing \in Sightings
BY DEF Nothing, Sightings

LEMMA SightType ==
  ASSUME NEW s \in Sights, NEW f \in Entries, NEW e \in BOOLEAN
  PROVE  /\ Sight(s, f, e) \in Sightings
         /\ Sight(s, f, e).state = s /\ Sight(s, f, e).file = f
         /\ Sight(s, f, e).expected = e
BY DEF Sight, Sightings

LEMMA InspectType == TypeOK => Inspect \in Sightings
<1> SUFFICES ASSUME TypeOK PROVE Inspect \in Sightings
  OBVIOUS
<1> USE SightType, NothingType
<1>1. \A f \in Files : IsExpected(f) \in BOOLEAN
  BY DEF IsExpected
<1>2. source \in Entries /\ held \in Entries /\ Absent \in Entries
  BY DEF TypeOK
<1>3. held # Absent => InspectHeld \in Sightings
  BY <1>1, <1>2 DEF InspectHeld
<1>4. Receipt # Absent => InspectReturned \in Sightings
  <2>q. QED BY <1>1, <1>2 DEF InspectReturned
<1>5. InspectSource \in Sightings
  BY <1>1, <1>2 DEF InspectSource
<1>q. QED BY <1>3, <1>4, <1>5 DEF Inspect

LEMMA InspectHeldSays ==
  ASSUME TypeOK, held # Absent
  PROVE  /\ Inspect.state \in Held \cup {"error"}
         /\ Inspect.state # "error" =>
              /\ Inspect.file = held
              /\ Inspect.expected = (held = Original /\ held \notin edited)
         /\ Inspect.state = "captured_expected" => held = Original /\ held \notin edited
         /\ Inspect.state = "error" <=>
              restored # Absent \/ (captured # Absent /\ captured.file # held)
<1> USE SightType
<1>1. Inspect = InspectHeld
  BY DEF Inspect
<1>2. IsExpected(held) \in BOOLEAN /\ IsExpected(held) = (held = Original /\ held \notin edited)
  BY DEF IsExpected
<1>3. held \in Entries /\ Absent \in Entries
  BY DEF TypeOK
<1>4. CASE restored # Absent \/ (captured # Absent /\ captured.file # held)
  <2>1. Inspect.state = "error"
    BY <1>1, <1>3, <1>4 DEF InspectHeld
  <2>q. QED BY <1>4, <2>1
<1>5. CASE ~(restored # Absent \/ (captured # Absent /\ captured.file # held))
  <2> DEFINE st == IF source # Absent THEN "captured_conflict"
                   ELSE IF IsExpected(held) THEN "captured_expected" ELSE "captured_owner"
  <2>1. st \in Held
    OBVIOUS
  <2>2. Inspect = Sight(st, held, IsExpected(held))
    BY <1>1, <1>5 DEF InspectHeld
  <2>3. st = "captured_expected" => IsExpected(held)
    OBVIOUS
  <2> HIDE DEF st
  <2>4. /\ Sight(st, held, IsExpected(held)).state = st
        /\ Sight(st, held, IsExpected(held)).file = held
        /\ Sight(st, held, IsExpected(held)).expected = IsExpected(held)
    <3>1. st \in Sights
      BY <2>1
    <3>2. IsExpected(held) \in BOOLEAN
      BY <1>2
    <3>q. QED BY <1>3, <3>1, <3>2, SightType
  <2>5. Inspect.state = st /\ Inspect.file = held /\ Inspect.expected = IsExpected(held)
    BY <2>2, <2>4, Zenon
  <2>q. QED BY <1>2, <1>5, <2>1, <2>3, <2>5
<1>q. QED BY <1>4, <1>5

LEMMA InspectFreeSays ==
  ASSUME TypeOK, held = Absent
  PROVE  /\ Inspect.state \notin Held \cup {"error"}
         /\ Inspect.state = "uncaptured" => captured = Absent /\ restored = Absent
         /\ Inspect.state \in Returned =>
              /\ Inspect.file = source /\ source # Absent
              /\ Receipt # Absent /\ Receipt.file = source
<1> USE SightType
<1>1. source \in Entries /\ Absent \in Entries
  BY DEF TypeOK
<1>2. \A f \in Files : IsExpected(f) \in BOOLEAN
  BY DEF IsExpected
<1>3. CASE Receipt # Absent
  <2>1. Inspect = InspectReturned
    BY <1>3 DEF Inspect
  <2>2. CASE source # Absent /\ source = Receipt.file
    <3> DEFINE st == IF IsExpected(source) THEN "restored" ELSE "restored_owner"
    <3>1. st \in Returned
      OBVIOUS
    <3>2. Inspect = Sight(st, source, IsExpected(source))
      BY <2>1, <2>2 DEF InspectReturned
    <3> HIDE DEF st
    <3>3. Inspect.state = st /\ Inspect.file = source
      BY <1>1, <1>2, <2>2, <3>1, <3>2
    <3>q. QED BY <1>3, <2>2, <3>1, <3>3
  <2>3. CASE ~(source # Absent /\ source = Receipt.file)
    <3>1. Inspect = Sight("conflict", Absent, FALSE)
      BY <2>1, <2>3 DEF InspectReturned
    <3>2. Inspect.state = "conflict"
      BY <1>1, <3>1
    <3>q. QED BY <3>2
  <2>q. QED BY <2>2, <2>3
<1>4. CASE Receipt = Absent
  <2>1. Inspect = InspectSource
    BY <1>4 DEF Inspect
  <2>2. Inspect.state \in {"missing", "uncaptured", "uncaptured_owner"}
    BY <1>1, <1>2, <2>1 DEF InspectSource, Nothing
  <2>3. captured = Absent /\ restored = Absent
    BY <1>4 DEF Receipt
  <2>q. QED BY <2>2, <2>3
<1>q. QED BY <1>3, <1>4

-----------------------------------------------------------------------------
(* A fresh custody directory has the documented types.                      *)
LEMMA TypeInit == Init => TypeOK
<1> SUFFICES ASSUME Init PROVE TypeOK
  OBVIOUS
<1>1. seen \in Sightings
  BY NothingType DEF Init
<1>2. acts \in 0..MaxActs /\ crashes \in 0..MaxCrashes
  BY DEF Init
<1>3. captured \in Receipts \cup {Absent} /\ restored \in Receipts \cup {Absent}
  BY DEF Init
<1>4. source \in Entries /\ held \in Entries
  BY DEF Init
<1>q. QED BY <1>1, <1>2, <1>3, <1>4 DEF Init, TypeOK, Sightings

(* Every system call and every act of the owner keeps them.                 *)
LEMMA TypeStep == TypeOK /\ [Next]_vars => TypeOK'
<1> SUFFICES ASSUME TypeOK, [Next]_vars PROVE TypeOK'
  OBVIOUS
<1>t. Inspect \in Sightings /\ seen \in Sightings
  BY InspectType DEF TypeOK, Sightings
<1> USE DEF TypeOK, Sightings
<1>1. CASE StartCapture
  BY <1>1 DEF StartCapture
<1>2. CASE Examine
  BY <1>2, <1>t DEF Examine, Return, Refuse, Goto
<1>3. CASE Take
  BY <1>3 DEF Take, Return, Refuse, Goto
<1>4. CASE WriteCaptured
  BY <1>4, <1>t DEF WriteCaptured, Return, Refuse, Goto, Agrees, Phase
<1>5. CASE Confirm
  BY <1>5, <1>t DEF Confirm, Return, Refuse, Goto
<1>6. CASE StartRestore
  BY <1>6 DEF StartRestore
<1>7. CASE Survey
  BY <1>7, <1>t DEF Survey, Return, Refuse, Goto, Outcome
<1>8. CASE ConfirmCaptured
  BY <1>8, <1>t DEF ConfirmCaptured, Return, Refuse, Goto, Agrees, Phase
<1>9. CASE GiveBack
  BY <1>9 DEF GiveBack, Return, Refuse, Goto
<1>10. CASE WriteRestored
  BY <1>10, <1>t DEF WriteRestored, Return, Refuse, Goto, Agrees, Phase
<1>11. CASE Check
  BY <1>11, <1>t DEF Check, Return, Refuse, Goto, Outcome
<1>12. CASE OwnerReplaces
  BY <1>12 DEF OwnerReplaces
<1>13. CASE OwnerRemoves
  BY <1>13 DEF OwnerRemoves
<1>14. CASE OwnerEdits
  BY <1>14 DEF OwnerEdits
<1>15. CASE Crash
  BY <1>15, NothingType DEF Crash
<1>16. CASE UNCHANGED vars
  BY <1>16 DEF vars
<1>q. QED BY <1>1, <1>2, <1>3, <1>4, <1>5, <1>6, <1>7, <1>8, <1>9, <1>10,
        <1>11, <1>12, <1>13, <1>14, <1>15, <1>16 DEF Next, Gateway, Owner

-----------------------------------------------------------------------------
Exact == [file |-> Original, expected |-> TRUE]

(* Where the two entries and the two receipts stand at each system call.    *)
\* The renames only move inodes that exist, into places that are free.
Linked ==
  /\ NothingLost
  /\ {source, held} \subseteq made \cup {Absent}
  /\ source # Absent => source # held
  /\ pc = "take" => held = Absent /\ captured = Absent /\ restored = Absent
  /\ pc \in {"receipt", "confirm", "rewrite", "giveback"} =>
       held # Absent /\ seen.file = held
  /\ pc \in {"close", "check"} => held = Absent

\* A receipt names the inode in custody, and denies only a changed original.
Receipted ==
  /\ held # Absent => restored = Absent
  /\ held # Absent /\ captured # Absent => captured.file = held
  /\ pc = "confirm" => captured # Absent
  /\ captured # Absent /\ captured.file = Original /\ ~captured.expected
       => Original \in edited
  /\ pc \in {"receipt", "rewrite"} /\ seen.file = Original /\ ~seen.expected
       => Original \in edited
  /\ result # "none" => pc = "idle"
  /\ CaptureIsExact

CustodyInv == Linked /\ Receipted

LEMMA CustodyInit == Init => CustodyInv
BY DEF Init, CustodyInv, Linked, Receipted, NothingLost, CaptureIsExact

(* The path, custody and the receipts keep agreeing across every step.      *)
LEMMA LinkedStep == TypeOK /\ Linked /\ [Next]_vars => Linked'
<1> SUFFICES ASSUME TypeOK, Linked, [Next]_vars PROVE Linked'
  OBVIOUS
<1> USE DEF TypeOK, Linked, NothingLost
<1>1. CASE StartCapture
  BY <1>1 DEF StartCapture
<1>2. CASE Examine
  BY <1>2, InspectHeldSays, InspectFreeSays DEF Examine, Return, Refuse, Goto
<1>3. CASE Take
  BY <1>3 DEF Take, Return, Refuse, Goto
<1>4. CASE WriteCaptured
  BY <1>4 DEF WriteCaptured, Return, Refuse, Goto, Agrees, Phase
<1>5. CASE Confirm
  BY <1>5, InspectHeldSays, InspectFreeSays DEF Confirm, Return, Refuse, Goto
<1>6. CASE StartRestore
  BY <1>6 DEF StartRestore
<1>7. CASE Survey
  BY <1>7, InspectHeldSays, InspectFreeSays DEF Survey, Return, Refuse, Goto, Outcome
<1>8. CASE ConfirmCaptured
  BY <1>8 DEF ConfirmCaptured, Return, Refuse, Goto, Agrees, Phase
<1>9. CASE GiveBack
  BY <1>9 DEF GiveBack, Return, Refuse, Goto
<1>10. CASE WriteRestored
  BY <1>10 DEF WriteRestored, Return, Refuse, Goto, Agrees, Phase
<1>11. CASE Check
  BY <1>11, InspectHeldSays, InspectFreeSays DEF Check, Return, Refuse, Goto, Outcome
<1>12. CASE OwnerReplaces
  BY <1>12 DEF OwnerReplaces
<1>13. CASE OwnerRemoves
  BY <1>13 DEF OwnerRemoves
<1>14. CASE OwnerEdits
  BY <1>14 DEF OwnerEdits
<1>15. CASE Crash
  BY <1>15 DEF Crash
<1>16. CASE UNCHANGED vars
  BY <1>16 DEF vars
<1>q. QED BY <1>1, <1>2, <1>3, <1>4, <1>5, <1>6, <1>7, <1>8, <1>9, <1>10,
        <1>11, <1>12, <1>13, <1>14, <1>15, <1>16 DEF Next, Gateway, Owner

LEMMA ReceiptedStep == TypeOK /\ CustodyInv /\ [Next]_vars => Receipted'
<1> SUFFICES ASSUME TypeOK, CustodyInv, [Next]_vars PROVE Receipted'
  OBVIOUS
<1> USE DEF TypeOK, CustodyInv, Linked, Receipted, CaptureIsExact
<1>1. CASE StartCapture
  BY <1>1 DEF StartCapture
<1>2. CASE Examine
  BY <1>2, InspectHeldSays, InspectFreeSays DEF Examine, Return, Refuse, Goto
<1>3. CASE Take
  BY <1>3 DEF Take, Return, Refuse, Goto
<1>4. CASE WriteCaptured
  <2>1. pc = "receipt" /\ held' = held /\ held # Absent /\ seen.file = held
        /\ edited' = edited /\ restored' = restored /\ result = "none"
    BY <1>4 DEF WriteCaptured
  <2>2. CASE captured' = Phase(seen) /\ pc' = "confirm" /\ result' = result
    <3>1. captured'.file = seen.file /\ captured'.expected = seen.expected
      BY <2>2 DEF Phase
    <3>3. Phase(seen) \in Receipts
      BY DEF Phase
    <3>4. captured' # Absent
      BY <2>2, <3>3
    <3>2. captured'.file = Original /\ ~captured'.expected => Original \in edited
      BY <2>1, <3>1
    <3>q. QED BY <2>1, <2>2, <3>1, <3>2, <3>4
  <2>3. CASE captured' = captured /\ pc' = "idle" /\ result' = "refused"
    BY <2>1, <2>3
  <2>q. QED BY <1>4, <2>2, <2>3 DEF WriteCaptured, Goto, Return, Refuse
<1>5. CASE Confirm
  BY <1>5, InspectHeldSays, InspectFreeSays DEF Confirm, Return, Refuse, Goto
<1>6. CASE StartRestore
  BY <1>6 DEF StartRestore
<1>7. CASE Survey
  BY <1>7, InspectHeldSays, InspectFreeSays DEF Survey, Return, Refuse, Goto, Outcome
<1>8. CASE ConfirmCaptured
  BY <1>8 DEF ConfirmCaptured, Return, Refuse, Goto, Agrees, Phase
<1>9. CASE GiveBack
  BY <1>9 DEF GiveBack, Return, Refuse, Goto
<1>10. CASE WriteRestored
  BY <1>10 DEF WriteRestored, Return, Refuse, Goto, Agrees, Phase
<1>11. CASE Check
  BY <1>11, InspectHeldSays, InspectFreeSays DEF Check, Return, Refuse, Goto, Outcome
<1>12. CASE OwnerReplaces
  BY <1>12 DEF OwnerReplaces
<1>13. CASE OwnerRemoves
  BY <1>13 DEF OwnerRemoves
<1>14. CASE OwnerEdits
  BY <1>14 DEF OwnerEdits
<1>15. CASE Crash
  BY <1>15 DEF Crash
<1>16. CASE UNCHANGED vars
  BY <1>16 DEF vars
<1>q. QED BY <1>1, <1>2, <1>3, <1>4, <1>5, <1>6, <1>7, <1>8, <1>9, <1>10,
        <1>11, <1>12, <1>13, <1>14, <1>15, <1>16 DEF Next, Gateway, Owner

\* What has returned from custody is receipted there first, then at the path.
Returning ==
  /\ pc = "giveback" => captured # Absent
  /\ pc = "close" => captured # Absent /\ seen.file = captured.file
  /\ pc = "check" => restored # Absent
  /\ restored # Absent => captured # Absent /\ restored.file = captured.file

LEMMA ReturningStep == TypeOK /\ CustodyInv /\ Returning /\ [Next]_vars => Returning'
<1> SUFFICES ASSUME TypeOK, CustodyInv, Returning, [Next]_vars PROVE Returning'
  OBVIOUS
<1>0. \A s \in Sightings : Phase(s) \in Receipts /\ Phase(s).file = s.file
  BY DEF Phase, Sightings
<1>s. seen \in Sightings
  BY DEF TypeOK, Sightings
<1> USE DEF TypeOK, CustodyInv, Linked, Receipted, Returning
<1>1. CASE StartCapture
  BY <1>1 DEF StartCapture
<1>2. CASE Examine
  BY <1>2, InspectHeldSays, InspectFreeSays DEF Examine, Return, Refuse, Goto
<1>3. CASE Take
  BY <1>3 DEF Take, Return, Refuse, Goto
<1>4. CASE WriteCaptured
  BY <1>4, <1>0, <1>s DEF WriteCaptured, Return, Refuse, Goto, Agrees, Phase
<1>5. CASE Confirm
  BY <1>5, InspectHeldSays, InspectFreeSays DEF Confirm, Return, Refuse, Goto
<1>6. CASE StartRestore
  BY <1>6 DEF StartRestore
<1>7. CASE Survey
  <2>1. captured' = captured /\ restored' = restored /\ pc = "return"
    BY <1>7 DEF Survey
  <2>2. CASE pc' = "close"
    <3>1. Inspect.state \in Returned /\ seen' = Inspect
      BY <1>7, <2>2 DEF Survey, Goto, Return, Refuse
    <3>2. held = Absent
      BY <3>1, InspectHeldSays
    <3>3. Receipt # Absent /\ Receipt.file = Inspect.file
      BY <3>1, <3>2, InspectFreeSays
    <3>4. captured # Absent /\ captured.file = seen'.file
      BY <3>1, <3>3 DEF Receipt
    <3>q. QED BY <2>1, <2>2, <3>4
  <2>3. CASE pc' # "close"
    <3>1. pc' \notin {"giveback", "check"}
      BY <1>7, <2>3 DEF Survey, Goto, Return, Refuse
    <3>q. QED BY <2>1, <2>3, <3>1
  <2>q. QED BY <2>2, <2>3
<1>8. CASE ConfirmCaptured
  BY <1>8, <1>0, <1>s DEF ConfirmCaptured, Return, Refuse, Goto, Agrees, Phase
<1>9. CASE GiveBack
  BY <1>9 DEF GiveBack, Return, Refuse, Goto
<1>10. CASE WriteRestored
  BY <1>10, <1>0, <1>s DEF WriteRestored, Return, Refuse, Goto, Agrees, Phase
<1>11. CASE Check
  BY <1>11, InspectHeldSays, InspectFreeSays DEF Check, Return, Refuse, Goto, Outcome
<1>12. CASE OwnerReplaces
  BY <1>12 DEF OwnerReplaces
<1>13. CASE OwnerRemoves
  BY <1>13 DEF OwnerRemoves
<1>14. CASE OwnerEdits
  BY <1>14 DEF OwnerEdits
<1>15. CASE Crash
  BY <1>15 DEF Crash
<1>16. CASE UNCHANGED vars
  BY <1>16 DEF vars
<1>q. QED BY <1>1, <1>2, <1>3, <1>4, <1>5, <1>6, <1>7, <1>8, <1>9, <1>10,
        <1>11, <1>12, <1>13, <1>14, <1>15, <1>16 DEF Next, Gateway, Owner

(* Nothing the owner did: the entry is the untouched original, and a receipt
   in custody says so.                                                       *)
Quiet ==
  acts = 0 =>
    /\ edited = {} /\ made = {Original} /\ result # "refused"
    /\ (source = Original /\ held = Absent) \/ (source = Absent /\ held = Original)
    /\ captured \in {Absent, Exact} /\ restored \in {Absent, Exact}
    /\ captured # Absent /\ source = Original => restoring
    /\ restored # Absent => source = Original /\ captured # Absent
    /\ pc \in {"examine", "take", "receipt", "confirm"} => ~restoring
    /\ pc \in {"return", "rewrite", "giveback", "close", "check"} => restoring /\ call = "restore"
    /\ pc = "take" => source = Original
    /\ pc \in {"receipt", "confirm", "rewrite", "giveback"} => held = Original
    /\ pc \in {"receipt", "rewrite", "giveback", "close"} => Phase(seen) = Exact
    /\ pc \in {"close", "check"} => source = Original
    /\ pc \in {"giveback", "close", "check"} => captured # Absent
    /\ pc = "check" => restored # Absent

(* An inspection nobody interfered with finds the original where it was put. *)
LEMMA QuietInspect ==
  ASSUME TypeOK, Quiet, acts = 0
  PROVE  /\ held = Original => Inspect.state = "captured_expected" /\ Phase(Inspect) = Exact
         /\ source = Original /\ captured # Absent =>
              Inspect.state = "restored" /\ Phase(Inspect) = Exact
         /\ source = Original /\ captured = Absent =>
              Inspect.state = "uncaptured" /\ Phase(Inspect) = Exact
<1>1. IsExpected(Original) = TRUE /\ Exact # Absent /\ Original # Absent
  <2>1. IsExpected(Original)
    BY DEF IsExpected, Quiet
  <2>2. Exact \in Receipts
    BY DEF Exact
  <2>3. IsExpected(Original) \in BOOLEAN
    BY DEF IsExpected
  <2>q. QED BY <2>1, <2>2, <2>3
<1>2. Exact.file = Original
  BY DEF Exact
<1>3. ASSUME NEW s \in Sights
      PROVE Phase(Sight(s, Original, TRUE)) = Exact /\ Sight(s, Original, TRUE).state = s
  BY DEF Phase, Sight, Exact
<1>4. CASE held = Original
  <2>1. Inspect = Sight("captured_expected", Original, TRUE)
    BY <1>1, <1>2, <1>4 DEF Quiet, Inspect, InspectHeld
  <2>q. QED BY <1>1, <1>3, <1>4, <2>1 DEF Quiet
<1>5. CASE source = Original
  <2>1. held = Absent
    BY <1>1, <1>5 DEF Quiet
  <2>2. CASE captured # Absent
    <3>1. Receipt # Absent /\ Receipt.file = Original
      BY <1>1, <1>2, <2>2 DEF Quiet, Receipt
    <3>2. Inspect = Sight("restored", Original, TRUE)
      BY <1>1, <1>5, <2>1, <3>1 DEF Inspect, InspectReturned
    <3>q. QED BY <1>1, <1>3, <2>1, <2>2, <3>2
  <2>3. CASE captured = Absent
    <3>1. Receipt = Absent
      BY <2>3 DEF Quiet, Receipt
    <3>2. Inspect = Sight("uncaptured", Original, TRUE)
      BY <1>1, <1>5, <2>1, <3>1 DEF Inspect, InspectSource
    <3>q. QED BY <1>1, <1>3, <2>1, <2>3, <3>2
  <2>q. QED BY <2>2, <2>3
<1>q. QED BY <1>4, <1>5 DEF Quiet

LEMMA QuietStep == TypeOK /\ Quiet /\ [Next]_vars => Quiet'
<1> SUFFICES ASSUME TypeOK, Quiet, [Next]_vars, acts' = 0 PROVE Quiet'
  BY DEF Quiet
<1>0. acts = 0
  BY DEF TypeOK, vars, Next, Gateway, Owner, StartCapture, Examine, Take,
     WriteCaptured, Confirm, StartRestore, Survey, ConfirmCaptured, GiveBack,
     WriteRestored, Check, OwnerReplaces, OwnerRemoves, OwnerEdits, Crash
<1>x. Exact # Absent /\ Original # Absent
  <2>1. Exact \in Receipts
    BY DEF Exact
  <2>q. QED BY <2>1
<1> USE <1>0, <1>x DEF TypeOK, Quiet
<1>1. CASE StartCapture
  BY <1>1 DEF StartCapture
<1>2. CASE Examine
  BY <1>2, QuietInspect DEF Examine, Return, Refuse, Goto
<1>3. CASE Take
  BY <1>3 DEF Take, Return, Refuse, Goto
<1>4. CASE WriteCaptured
  BY <1>4 DEF WriteCaptured, Return, Refuse, Goto, Agrees, Phase
<1>5. CASE Confirm
  BY <1>5, QuietInspect DEF Confirm, Return, Refuse, Goto
<1>6. CASE StartRestore
  BY <1>6 DEF StartRestore
<1>7. CASE Survey
  BY <1>7, QuietInspect DEF Survey, Return, Refuse, Goto, Outcome
<1>8. CASE ConfirmCaptured
  BY <1>8 DEF ConfirmCaptured, Return, Refuse, Goto, Agrees, Phase
<1>9. CASE GiveBack
  <2>1. pc = "giveback" /\ held = Original /\ source = Absent
    BY <1>9 DEF GiveBack
  <2>2. source' = Original /\ held' = Absent /\ pc' = "close"
    BY <1>9, <2>1 DEF GiveBack, Goto
  <2>3. /\ UNCHANGED <<seen, call, result, edited, made, dropped, intent, captured,
                        restored, restoring>>
    BY <1>9, <2>1 DEF GiveBack, Goto
  <2>4. Phase(seen)' = Phase(seen)
    BY <2>3 DEF Phase
  <2>5. captured # Absent
    BY <2>1
  <2>q. QED BY <2>1, <2>2, <2>3, <2>4, <2>5
<1>10. CASE WriteRestored
  BY <1>10 DEF WriteRestored, Return, Refuse, Goto, Agrees, Phase
<1>11. CASE Check
  BY <1>11, QuietInspect DEF Check, Return, Refuse, Goto, Outcome
<1>12. CASE OwnerReplaces
  BY <1>12 DEF OwnerReplaces
<1>13. CASE OwnerRemoves
  BY <1>13 DEF OwnerRemoves
<1>14. CASE OwnerEdits
  BY <1>14 DEF OwnerEdits
<1>15. CASE Crash
  BY <1>15 DEF Crash
<1>16. CASE UNCHANGED vars
  BY <1>16 DEF vars
<1>q. QED BY <1>1, <1>2, <1>3, <1>4, <1>5, <1>6, <1>7, <1>8, <1>9, <1>10,
        <1>11, <1>12, <1>13, <1>14, <1>15, <1>16 DEF Next, Gateway, Owner

-----------------------------------------------------------------------------
(* Every value a custody directory and its calls can hold is documented.    *)
THEOREM TypeCorrect == Spec => []TypeOK
<1>1. TypeOK /\ [Next]_vars => TypeOK'
  BY TypeStep
<1>q. QED BY TypeInit, <1>1, PTL DEF Spec

LEMMA CustodyInvariant == Spec => []CustodyInv
<1>1. TypeOK /\ CustodyInv /\ [Next]_vars => CustodyInv'
  BY LinkedStep, ReceiptedStep DEF CustodyInv
<1>q. QED BY CustodyInit, <1>1, TypeCorrect, PTL DEF Spec

(* An inode that was ever linked at the path stays there or in custody until
   the owner removes it: capture, return and refusal never lose one.         *)
THEOREM EntriesSurvive == Spec => []NothingLost
<1>1. CustodyInv => NothingLost
  BY DEF CustodyInv, Linked
<1>q. QED BY CustodyInvariant, <1>1, PTL

(* _inspect never meets receipts that contradict what custody holds, whatever
   call died before its receipt.                                             *)
THEOREM ReceiptsNeverContradict == Spec => []ReceiptsAgree
<1>1. TypeOK /\ CustodyInv => ReceiptsAgree
  BY InspectHeldSays, InspectFreeSays DEF TypeOK, CustodyInv, Receipted, ReceiptsAgree
<1>q. QED BY CustodyInvariant, TypeCorrect, <1>1, PTL

(* Without the owner's interference no call ever refuses: after any number of
   deaths a repeated capture or restoration finds its own traces acceptable. *)
THEOREM RetriesNeverRefuse == Spec => []RefusalHasCause
<1>1. Init => Quiet
  BY DEF Init, Quiet
<1>2. TypeOK /\ Quiet /\ [Next]_vars => Quiet'
  BY QuietStep
<1>3. TypeOK /\ Quiet => RefusalHasCause
  BY DEF TypeOK, Quiet, RefusalHasCause
<1>q. QED BY <1>1, <1>2, <1>3, TypeCorrect, PTL DEF Spec

(* A capture that returns holds the inode its caller prepared for, and a
   restoration that reports success has the receipted inode at the path.     *)
THEOREM SuccessesAreExact == Spec => SuccessIsExact
<1>1. Init => Returning
  BY DEF Init, Returning
<1>2. TypeOK /\ CustodyInv /\ Returning /\ [Next]_vars => Returning'
  BY ReturningStep
<1>3. TypeOK /\ CustodyInv /\ Returning /\ [Next]_vars
        => (pc = "check" /\ result' = "restored"
              => held = Absent /\ captured # Absent /\ source = captured.file) \/ UNCHANGED vars
  <2> SUFFICES ASSUME TypeOK, CustodyInv, Returning, [Next]_vars,
                      pc = "check", result' = "restored"
               PROVE  held = Absent /\ captured # Absent /\ source = captured.file
    OBVIOUS
  <2>1. result # "restored"
    BY DEF CustodyInv, Receipted
  <2>2. Check
    BY <2>1 DEF vars, Next, Gateway, Owner, StartCapture, Examine, Take, WriteCaptured,
       Confirm, StartRestore, Survey, ConfirmCaptured, GiveBack, WriteRestored,
       OwnerReplaces, OwnerRemoves, OwnerEdits, Crash
  <2>3. Inspect.state \in Returned
    BY <2>2 DEF Check, Refuse, Return
  <2>4. held = Absent /\ captured # Absent
    BY DEF CustodyInv, Linked, Returning
  <2>5. source = Receipt.file
    BY <2>3, <2>4, InspectFreeSays
  <2>q. QED BY <2>4, <2>5 DEF Returning, Receipt
<1>4. CustodyInv => CaptureIsExact
  BY DEF CustodyInv, Receipted
<1>q. QED BY <1>1, <1>2, <1>3, <1>4, TypeCorrect, CustodyInvariant, PTL DEF Spec, SuccessIsExact

-----------------------------------------------------------------------------
(* Directories (WorkspaceDirectories), whose places, calls and owner are     *)
(* their own: no definition above is used below.                             *)
LEMMA DirTyping == ASSUME DirTypeOK, [DirNext]_dirVars PROVE DirTypeOK'
<1> USE DirectoryAssumption
<1> USE DEF DirTypeOK, Dirs
<1>1. CASE StartPrepare
  BY <1>1 DEF StartPrepare, Begin, Ends, places, ownerSide
<1>2. CASE Copy
  BY <1>2 DEF Copy, Then
<1>3. CASE WriteManifest
  BY <1>3 DEF WriteManifest, Ends, places, ownerSide
<1>4. CASE StartPublish
  BY <1>4 DEF StartPublish, Begin, Ends, places, ownerSide
<1>5. CASE SetAside
  BY <1>5 DEF SetAside, Ends, Then, ownerSide
<1>6. CASE CheckAside
  BY <1>6 DEF CheckAside, Then, places, ownerSide
<1>7. CASE PutBack
  BY <1>7 DEF PutBack, Ends, ownerSide
<1>8. CASE Place
  BY <1>8 DEF Place, Ends, Then, ownerSide
<1>9. CASE VerifyPublished
  BY <1>9 DEF VerifyPublished, Ends, places, ownerSide
<1>10. CASE StartRollback
  BY <1>10 DEF StartRollback, Begin, Ends, places, ownerSide
<1>11. CASE TakeDown
  <2>1. early' \in BOOLEAN
    <3>1. CASE UNCHANGED early
      BY <3>1
    <3>2. CASE early' = (path \in stirred \cup deep)
      BY <3>2
    <3>q. QED BY <1>11, <3>1, <3>2 DEF TakeDown
  <2>2. path' \in Dirs \cup {NoDir} /\ taken' \in Dirs \cup {NoDir}
    BY <1>11 DEF TakeDown
  <2>3. step' \in {"idle", "inspect"} /\ op' \in {"none", op} /\ answer' \in {"refused", answer}
    BY <1>11 DEF TakeDown, Ends, Then
  <2>4. UNCHANGED <<replacing, prepared, original, stirred, deep, linked, removed, stirs,
                    manifest, undoing, deaths>>
    BY <1>11 DEF TakeDown, ownerSide
  <2>q. QED BY <2>1, <2>2, <2>3, <2>4
<1>12. CASE InspectTaken
  BY <1>12 DEF InspectTaken, Then, places, ownerSide
<1>13. CASE ReturnTaken
  BY <1>13 DEF ReturnTaken, Ends, ownerSide
<1>14. CASE Resume
  BY <1>14 DEF Resume, Ends, Then, places, ownerSide
<1>15. CASE GiveBackDir
  BY <1>15 DEF GiveBackDir, Ends, Then, ownerSide
<1>16. CASE ConfirmRollback
  BY <1>16 DEF ConfirmRollback, Ends, Then, places, ownerSide
<1>17. CASE Settle
  BY <1>17 DEF Settle, Ends, places, ownerSide
<1>18. CASE OwnerCreates
  BY <1>18 DEF OwnerCreates
<1>19. CASE OwnerRemovesDir
  BY <1>19 DEF OwnerRemovesDir
<1>20. CASE OwnerStirs
  BY <1>20 DEF OwnerStirs, places
<1>21. CASE DirDeath
  BY <1>21 DEF DirDeath, Ends, places, ownerSide
<1>22. CASE UNCHANGED dirVars
  BY <1>22 DEF dirVars, places
<1>q. QED BY <1>1, <1>2, <1>3, <1>4, <1>5, <1>6, <1>7, <1>8, <1>9, <1>10, <1>11, <1>12,
          <1>13, <1>14, <1>15, <1>16, <1>17, <1>18, <1>19, <1>20, <1>21, <1>22
       DEF DirNext, DirCall

(* The three places of a plain creation, and what naming one of them means. *)
Found == {p \in {<<path, "published">>, <<prepared, "prepared">>, <<taken, "rolled_back">>} :
            p[1] # NoDir}

LEMMA CreationSays ==
  ASSUME CreationState # "conflict"
  PROVE  /\ CreationState \in {"published", "prepared", "rolled_back"}
         /\ CreationState # "rolled_back" => taken = NoDir
<1>1. IsFiniteSet(Found)
  <2> DEFINE All == {<<path, "published">>, <<prepared, "prepared">>, <<taken, "rolled_back">>}
  <2>1. IsFiniteSet(All)
    <3>1. IsFiniteSet({<<path, "published">>})
      BY FS_Singleton
    <3>2. IsFiniteSet({<<path, "published">>} \cup {<<prepared, "prepared">>})
      BY <3>1, FS_AddElement
    <3>3. IsFiniteSet(({<<path, "published">>} \cup {<<prepared, "prepared">>})
                        \cup {<<taken, "rolled_back">>})
      BY <3>2, FS_AddElement
    <3>4. All = ({<<path, "published">>} \cup {<<prepared, "prepared">>})
                  \cup {<<taken, "rolled_back">>}
      OBVIOUS
    <3>q. QED BY <3>3, <3>4
  <2>2. Found \in SUBSET All
    BY DEF Found
  <2> HIDE DEF All
  <2>q. QED BY <2>1, <2>2, FS_Subset
<1>2. /\ Cardinality(Found) = 1
      /\ CreationState = (CHOOSE p \in Found : TRUE)[2]
  BY DEF CreationState, Found
<1>3. PICK x : Found = {x}
  BY <1>1, <1>2, FS_Singleton
<1>4. CreationState = x[2] /\ x \in Found
  BY <1>2, <1>3
<1>5. taken # NoDir => x = <<taken, "rolled_back">>
  BY <1>3 DEF Found
<1>q. QED BY <1>4, <1>5 DEF Found

LEMMA StateSays ==
  ASSUME DirTypeOK
  PROVE  /\ State \in {"conflict", "prepared", "original_captured", "published",
                       "candidate_captured", "rolled_back"}
         /\ State \in {"prepared", "original_captured", "published"} => taken = NoDir
         /\ State \in {"original_captured", "candidate_captured"} => replacing
         /\ replacing /\ State = "prepared" => original = NoDir
<1>1. CASE replacing
  BY <1>1 DEF State, ReplacementState, places, DirTypeOK
<1>2. CASE ~replacing
  BY <1>2, CreationSays DEF State, DirTypeOK
<1>q. QED BY <1>1, <1>2 DEF DirTypeOK

(* What inspect_directory accepts has the exact tree, wherever it lies.      *)
LEMMA ObservedSays ==
  ASSUME DirTypeOK, Observed # "conflict"
  PROVE  /\ Observed = State
         /\ State \in {"rolled_back", "candidate_captured"} => TreeMatches(taken)
<1>1. Observed = State
  BY DEF Observed
<1>2. ASSUME State \in {"rolled_back", "candidate_captured"} PROVE TreeMatches(taken)
  BY <1>2 DEF Observed
<1>q. QED BY <1>1, <1>2

(* Which call a step belongs to, and what may lie in private storage there. *)
CallOf ==
  /\ step = "idle" => op = "none"
  /\ step \in {"copy", "record"} => op = "prepare"
  /\ step \in {"set_aside", "aside", "put_back", "place", "verify"} => op = "publish"

TakenOnce ==
  /\ step = "set_aside" => original = NoDir
  /\ step = "take" => taken = NoDir
  /\ early /\ taken = Birth => Birth \in stirred \cup deep
  /\ step \in {"resume", "give_back", "confirm", "settle"}
       => taken = NoDir \/ (taken = Birth /\ ~early)

DirInv == CallOf /\ TakenOnce /\ DirectoryKept

LEMMA DirStep ==
  ASSUME DirTypeOK, DirInv, [DirNext]_dirVars
  PROVE  DirInv'
<1> USE DirectoryAssumption
<1> USE DEF DirInv
<1>1. CASE StartPrepare
  BY <1>1 DEF StartPrepare, Begin, Ends, places, ownerSide, CallOf, TakenOnce, DirectoryKept
<1>2. CASE Copy
  <2>1. CallOf'
    BY <1>2 DEF Copy, Then, CallOf
  <2>2. TakenOnce'
    BY <1>2 DEF Copy, Then, TakenOnce
  <2>3. DirectoryKept'
    BY <1>2 DEF Copy, DirectoryKept, DirTypeOK
  <2>q. QED BY <2>1, <2>2, <2>3
<1>3. CASE WriteManifest
  BY <1>3 DEF WriteManifest, Ends, places, ownerSide, CallOf, TakenOnce, DirectoryKept
<1>4. CASE StartPublish
  <2>1. CallOf'
    BY <1>4 DEF StartPublish, Begin, Ends, CallOf
  <2>2. TakenOnce'
    BY <1>4, StateSays DEF StartPublish, Begin, Ends, places, ownerSide, TakenOnce
  <2>3. DirectoryKept'
    BY <1>4 DEF StartPublish, places, ownerSide, DirectoryKept
  <2>q. QED BY <2>1, <2>2, <2>3
<1>5. CASE SetAside
  <2>1. CallOf'
    BY <1>5 DEF SetAside, Then, Ends, CallOf
  <2>2. TakenOnce'
    BY <1>5 DEF SetAside, Then, Ends, ownerSide, TakenOnce
  <2>3. DirectoryKept'
    BY <1>5 DEF SetAside, ownerSide, DirectoryKept, TakenOnce, DirTypeOK, Dirs
  <2>q. QED BY <2>1, <2>2, <2>3
<1>6. CASE CheckAside
  BY <1>6 DEF CheckAside, Then, places, ownerSide, CallOf, TakenOnce, DirectoryKept
<1>7. CASE PutBack
  <2>1. CallOf'
    BY <1>7 DEF PutBack, Ends, CallOf
  <2>2. TakenOnce'
    BY <1>7 DEF PutBack, Ends, ownerSide, TakenOnce
  <2>3. DirectoryKept'
    BY <1>7 DEF PutBack, ownerSide, DirectoryKept, DirTypeOK, Dirs
  <2>q. QED BY <2>1, <2>2, <2>3
<1>8. CASE Place
  <2>1. CallOf'
    BY <1>8 DEF Place, Then, Ends, CallOf
  <2>2. TakenOnce'
    BY <1>8 DEF Place, Then, Ends, ownerSide, TakenOnce
  <2>3. DirectoryKept'
    BY <1>8 DEF Place, ownerSide, DirectoryKept, DirTypeOK, Dirs
  <2>q. QED BY <2>1, <2>2, <2>3
<1>9. CASE VerifyPublished
  BY <1>9 DEF VerifyPublished, Ends, places, ownerSide, CallOf, TakenOnce, DirectoryKept
<1>10. CASE StartRollback
  <2>1. CallOf'
    BY <1>10 DEF StartRollback, Begin, Ends, CallOf
  <2>2. TakenOnce'
    <3>1. Observed = "published" => taken = NoDir
      BY StateSays, ObservedSays
    <3>2. Observed \in {"prepared", "original_captured"} => taken = NoDir
      BY StateSays, ObservedSays
    <3>3. Observed \in {"rolled_back", "candidate_captured"} => taken = Birth /\ ~early
      BY ObservedSays DEF TreeMatches, TakenOnce, DirTypeOK
    <3>q. QED BY <1>10, <3>1, <3>2, <3>3
              DEF StartRollback, Begin, Ends, places, ownerSide, TakenOnce
  <2>3. DirectoryKept'
    BY <1>10 DEF StartRollback, places, ownerSide, DirectoryKept
  <2>q. QED BY <2>1, <2>2, <2>3
<1>11. CASE TakeDown
  <2>1. CallOf'
    BY <1>11 DEF TakeDown, Then, Ends, CallOf
  <2>2. TakenOnce'
    <3>1. CASE taken' = path /\ early' = (path \in stirred \cup deep)
      <4>1. early' /\ taken' = Birth => Birth \in stirred \cup deep
        BY <3>1, Zenon
      <4>q. QED BY <1>11, <4>1 DEF TakeDown, Then, Ends, ownerSide, TakenOnce
    <3>2. CASE UNCHANGED <<taken, early>>
      BY <1>11, <3>2 DEF TakeDown, Then, Ends, ownerSide, TakenOnce
    <3>q. QED BY <1>11, <3>1, <3>2 DEF TakeDown
  <2>3. DirectoryKept'
    BY <1>11 DEF TakeDown, ownerSide, DirectoryKept, DirTypeOK, Dirs
  <2>q. QED BY <2>1, <2>2, <2>3
<1>12. CASE InspectTaken
  <2>1. CallOf'
    BY <1>12 DEF InspectTaken, Then, CallOf
  <2>2. TakenOnce'
    BY <1>12 DEF InspectTaken, Then, TreeMatches, places, ownerSide, TakenOnce, DirTypeOK
  <2>3. DirectoryKept'
    BY <1>12 DEF InspectTaken, places, ownerSide, DirectoryKept
  <2>q. QED BY <2>1, <2>2, <2>3
<1>13. CASE ReturnTaken
  <2>1. CallOf'
    BY <1>13 DEF ReturnTaken, Ends, CallOf
  <2>2. TakenOnce'
    BY <1>13 DEF ReturnTaken, Ends, ownerSide, TakenOnce, Dirs
  <2>3. DirectoryKept'
    BY <1>13 DEF ReturnTaken, ownerSide, DirectoryKept, DirTypeOK, Dirs
  <2>q. QED BY <2>1, <2>2, <2>3
<1>14. CASE Resume
  BY <1>14 DEF Resume, Then, Ends, places, ownerSide, CallOf, TakenOnce, DirectoryKept
<1>15. CASE GiveBackDir
  <2>1. CallOf'
    BY <1>15 DEF GiveBackDir, Then, Ends, CallOf
  <2>2. TakenOnce'
    BY <1>15 DEF GiveBackDir, Then, Ends, ownerSide, TakenOnce
  <2>3. DirectoryKept'
    BY <1>15 DEF GiveBackDir, ownerSide, DirectoryKept, DirTypeOK, Dirs
  <2>q. QED BY <2>1, <2>2, <2>3
<1>16. CASE ConfirmRollback
  BY <1>16 DEF ConfirmRollback, Then, Ends, places, ownerSide, CallOf, TakenOnce, DirectoryKept
<1>17. CASE Settle
  BY <1>17 DEF Settle, Ends, places, ownerSide, CallOf, TakenOnce, DirectoryKept
<1>18. CASE OwnerCreates
  <2>1. CallOf' /\ TakenOnce'
    BY <1>18 DEF OwnerCreates, CallOf, TakenOnce
  <2>2. DirectoryKept'
    BY <1>18 DEF OwnerCreates, DirectoryKept, DirTypeOK, Dirs
  <2>q. QED BY <2>1, <2>2
<1>19. CASE OwnerRemovesDir
  <2>1. CallOf' /\ TakenOnce'
    BY <1>19 DEF OwnerRemovesDir, CallOf, TakenOnce
  <2>2. DirectoryKept'
    BY <1>19 DEF OwnerRemovesDir, DirectoryKept
  <2>q. QED BY <2>1, <2>2
<1>20. CASE OwnerStirs
  BY <1>20 DEF OwnerStirs, places, CallOf, TakenOnce, DirectoryKept
<1>21. CASE DirDeath
  BY <1>21 DEF DirDeath, Ends, places, ownerSide, CallOf, TakenOnce, DirectoryKept
<1>22. CASE UNCHANGED dirVars
  BY <1>22 DEF dirVars, places, CallOf, TakenOnce, DirectoryKept
<1>q. QED BY <1>1, <1>2, <1>3, <1>4, <1>5, <1>6, <1>7, <1>8, <1>9, <1>10, <1>11, <1>12,
          <1>13, <1>14, <1>15, <1>16, <1>17, <1>18, <1>19, <1>20, <1>21, <1>22
       DEF DirNext, DirCall

LEMMA DirInvariant == DirSpec => [](DirTypeOK /\ DirInv)
<1> USE DirectoryAssumption
<1>1. DirInit => DirTypeOK /\ DirInv
  <2>1. DirInit => DirTypeOK
    <3> SUFFICES ASSUME DirInit PROVE DirTypeOK
      OBVIOUS
    <3>1. path \in Dirs \cup {NoDir}
      BY DEF DirInit, Dirs
    <3>2. linked \subseteq Dirs
      BY <3>1 DEF DirInit
    <3>3. stirs \in 0..MaxStirs /\ deaths \in 0..MaxDeaths
      BY DEF DirInit
    <3>q. QED BY <3>1, <3>2, <3>3 DEF DirInit, DirTypeOK
  <2>2. DirInit => CallOf /\ TakenOnce
    BY DEF DirInit, CallOf, TakenOnce
  <2>3. DirInit => DirectoryKept
    BY DEF DirInit, DirectoryKept
  <2>q. QED BY <2>1, <2>2, <2>3 DEF DirInv
<1>2. DirTypeOK /\ DirInv /\ [DirNext]_dirVars => (DirTypeOK /\ DirInv)'
  BY DirTyping, DirStep
<1>q. QED BY <1>1, <1>2, PTL DEF DirSpec

(* Whatever dies and whatever the owner does, a directory that was ever linked
   and that the owner did not remove is at the path or in private storage: the
   renames of workspace_directories.py never replace an entry.               *)
THEOREM DirectoriesSurvive == DirSpec => []DirectoryKept
BY DirInvariant, PTL DEF DirInv

(* rollback_directory hides no owner work: a created tree changed before it was
   moved is never part of a recovered endpoint, and a refusal leaves it in
   private storage only if the path was taken again.                         *)
THEOREM OwnerTreesSurface == DirSpec => OwnerWorkSurfaces
<1> DEFINE Surfaces ==
      op = "rollback" /\ op' = "none" /\ taken' # NoDir /\ (early' \/ taken' # Birth) =>
        /\ answer' # "recovered"
        /\ answer' = "refused" => path' # NoDir
<1>1. DirTypeOK /\ DirInv /\ [DirNext]_dirVars => Surfaces \/ UNCHANGED dirVars
  <2> SUFFICES ASSUME DirTypeOK, DirInv, DirNext,
                      op = "rollback", op' = "none", taken' # NoDir, early' \/ taken' # Birth
               PROVE  answer' # "recovered" /\ (answer' = "refused" => path' # NoDir)
    OBVIOUS
  <2> USE DEF DirInv
  <2>1. step # "idle" /\ step \notin {"copy", "record", "set_aside", "aside", "put_back",
                                      "place", "verify"}
    BY DEF CallOf
  <2>2. CASE TakeDown
    BY <2>2 DEF TakeDown, Ends, Then, TakenOnce
  <2>3. CASE InspectTaken
    BY <2>3 DEF InspectTaken, Then
  <2>4. CASE ReturnTaken
    BY <2>4 DEF ReturnTaken, Ends
  <2>5. CASE Resume
    BY <2>5 DEF Resume, Ends, Then, places, TakenOnce
  <2>6. CASE GiveBackDir
    BY <2>6 DEF GiveBackDir, Ends, Then, TakenOnce
  <2>7. CASE ConfirmRollback
    BY <2>7 DEF ConfirmRollback, Ends, Then, places, TakenOnce
  <2>8. CASE Settle
    BY <2>8 DEF Settle, places, TakenOnce
  <2>9. CASE OwnerCreates \/ OwnerRemovesDir \/ OwnerStirs
    BY <2>9 DEF OwnerCreates, OwnerRemovesDir, OwnerStirs
  <2>10. CASE DirDeath
    BY <2>10 DEF DirDeath, Ends
  <2>q. QED BY <2>1, <2>2, <2>3, <2>4, <2>5, <2>6, <2>7, <2>8, <2>9, <2>10
            DEF DirNext, DirCall, StartPrepare, StartPublish, StartRollback, Begin,
                Copy, WriteManifest, SetAside, CheckAside, PutBack, Place, VerifyPublished
<1>q. QED BY <1>1, DirInvariant, PTL DEF OwnerWorkSurfaces, DirSpec

-----------------------------------------------------------------------------
(* While the owner did nothing, the two directories lie in one of the known *)
(* arrangements, and each step of a call meets the one it expects.           *)
Layout(s) ==
  IF replacing
    THEN CASE s = "prepared" -> <<Empty, Birth, NoDir, NoDir>>
           [] s = "original_captured" -> <<NoDir, Birth, Empty, NoDir>>
           [] s = "published" -> <<Birth, NoDir, Empty, NoDir>>
           [] s = "candidate_captured" -> <<NoDir, NoDir, Empty, Birth>>
           [] OTHER -> <<Empty, NoDir, NoDir, Birth>>
    ELSE CASE s = "prepared" -> <<NoDir, Birth, NoDir, NoDir>>
           [] s = "published" -> <<Birth, NoDir, NoDir, NoDir>>
           [] OTHER -> <<NoDir, NoDir, NoDir, Birth>>

Names == {"prepared", "published", "rolled_back"} \cup
         (IF replacing THEN {"original_captured", "candidate_captured"} ELSE {})

Unprepared ==
  /\ places = IF replacing THEN <<Empty, NoDir, NoDir, NoDir>>
                           ELSE <<NoDir, NoDir, NoDir, NoDir>>
  /\ ~manifest /\ ~undoing /\ step \in {"idle", "copy"}

Arranged(s) ==
  /\ places = Layout(s)
  /\ CASE s = "prepared" ->
            /\ step \in {"idle", "record", "settle"}
                          \cup (IF replacing THEN {"set_aside", "confirm"} ELSE {"place"})
            /\ ~manifest => ~undoing /\ step \in {"idle", "record"}
       [] s = "original_captured" -> manifest /\ step \in {"idle", "aside", "place", "give_back"}
       [] s = "published" ->
            manifest /\ step \in {"idle", "verify", "take"} /\ (step = "take" => undoing)
       [] s = "candidate_captured" ->
            manifest /\ undoing /\ step \in {"idle", "inspect", "resume", "give_back"}
       [] OTHER ->
            /\ manifest /\ undoing
            /\ step \in {"idle", "confirm", "settle"}
                          \cup (IF replacing THEN {} ELSE {"inspect"})

Undisturbed ==
  /\ stirs = 0 => /\ stirred = {} /\ deep = {}
                  /\ Unprepared \/ \E s \in Names : Arranged(s)
  /\ DirectoryRefusalHasCause

LEMMA StateOf ==
  ASSUME DirTypeOK, stirred = {}, NEW s \in Names, places = Layout(s)
  PROVE  State = s
<1> USE DirectoryAssumption
<1>1. Birth # Empty /\ Birth # NoDir /\ Empty # NoDir
  BY DEF Dirs
<1>2. CASE replacing
  <2>1. s \in {"prepared", "original_captured", "published", "candidate_captured", "rolled_back"}
    BY DEF Names
  <2>2. {Birth, Empty} \cap stirred = {}
    OBVIOUS
  <2>3. State = ReplacementState
    BY <1>2 DEF State
  <2>4. CASE s = "prepared"
    BY <1>1, <1>2, <2>2, <2>3, <2>4 DEF ReplacementState, Layout, places
  <2>5. CASE s = "original_captured"
    BY <1>1, <1>2, <2>2, <2>3, <2>5 DEF ReplacementState, Layout, places
  <2>6. CASE s = "published"
    BY <1>1, <1>2, <2>2, <2>3, <2>6 DEF ReplacementState, Layout, places
  <2>7. CASE s = "candidate_captured"
    BY <1>1, <1>2, <2>2, <2>3, <2>7 DEF ReplacementState, Layout, places
  <2>8. CASE s = "rolled_back"
    BY <1>1, <1>2, <2>2, <2>3, <2>8 DEF ReplacementState, Layout, places
  <2>q. QED BY <2>1, <2>4, <2>5, <2>6, <2>7, <2>8
<1>3. CASE ~replacing
  <2>1. s \in {"prepared", "published", "rolled_back"}
    BY <1>3 DEF Names
  <2>2. Found = {<<Birth, s>>}
    <3>1. CASE s = "prepared"
      BY <1>1, <1>3, <3>1 DEF Found, Layout, places
    <3>2. CASE s = "published"
      BY <1>1, <1>3, <3>2 DEF Found, Layout, places
    <3>3. CASE s = "rolled_back"
      BY <1>1, <1>3, <3>3 DEF Found, Layout, places
    <3>q. QED BY <2>1, <3>1, <3>2, <3>3
  <2>3. Cardinality(Found) = 1 /\ \A p \in Found : Matches(p[1], Birth)
    <3>1. Cardinality({<<Birth, s>>}) = 1
      BY FS_Singleton
    <3>q. QED BY <2>2, <3>1 DEF Matches
  <2>4. CreationState = (CHOOSE p \in Found : TRUE)[2]
    BY <2>3 DEF CreationState, Found
  <2>5. (CHOOSE p \in Found : TRUE) = <<Birth, s>>
    BY <2>2
  <2>6. State = CreationState
    BY <1>3 DEF State
  <2>7. <<Birth, s>>[2] = s
    OBVIOUS
  <2>8. CreationState = <<Birth, s>>[2]
    BY <2>4, <2>5
  <2>q. QED BY <2>6, <2>7, <2>8
<1>q. QED BY <1>2, <1>3

LEMMA ObservedOf ==
  ASSUME DirTypeOK, stirred = {}, deep = {}, NEW s \in Names, places = Layout(s)
  PROVE  Observed = s
<1> USE DirectoryAssumption
<1>1. State = s
  BY StateOf
<1>2. TreeMatches(Birth)
  BY DEF TreeMatches
<1>3. s \in {"prepared", "original_captured", "published", "candidate_captured", "rolled_back"}
  BY DEF Names
<1>4. /\ s = "published" => path = Birth
      /\ s \in {"prepared", "original_captured"} => prepared = Birth
      /\ s \in {"rolled_back", "candidate_captured"} => taken = Birth
  BY DEF Layout, Names, places
<1>q. QED BY <1>1, <1>2, <1>3, <1>4 DEF Observed

LEMMA UndisturbedStep ==
  ASSUME DirTypeOK, Undisturbed, [DirNext]_dirVars
  PROVE  Undisturbed'
<1> USE DirectoryAssumption
<1> DEFINE Known == Unprepared \/ \E s \in Names : Arranged(s)
<1>1. ASSUME stirs = 0, DirNext \/ UNCHANGED dirVars, ~(OwnerCreates \/ OwnerRemovesDir \/ OwnerStirs)
      PROVE  /\ UNCHANGED <<stirs, stirred, deep, replacing>>
             /\ Known' /\ (answer' = "refused" => answer = "refused")
  <2>a. stirred = {} /\ deep = {} /\ Known
    BY <1>1 DEF Undisturbed
  <2>b. UNCHANGED <<stirs, stirred, deep, replacing>>
    BY <1>1 DEF DirNext, DirCall, StartPrepare, Copy, WriteManifest, StartPublish, SetAside,
       CheckAside, PutBack, Place, VerifyPublished, StartRollback, TakeDown, InspectTaken,
       ReturnTaken, Resume, GiveBackDir, ConfirmRollback, Settle, DirDeath, ownerSide, dirVars
  <2>c. TreeMatches(Birth) /\ Birth # Empty /\ Birth # NoDir /\ Empty # NoDir
    BY <2>a DEF TreeMatches, Dirs
  <2>d. \A s \in Names : Arranged(s) => State = s /\ Observed = s
    BY <2>a, StateOf, ObservedOf DEF Arranged
  <2>1. CASE Unprepared
    <3>1. CASE StartPrepare
      BY <2>1, <2>a, <2>b, <3>1 DEF StartPrepare, Begin, Ends, Unprepared, places
    <3>2. CASE Copy
      <4>1. Arranged("prepared")'
        BY <2>1, <2>b, <3>2 DEF Copy, Then, Unprepared, Arranged, Layout, places
      <4>q. QED BY <2>b, <3>2, <4>1 DEF Names, Copy, Then
    <3>3. CASE DirDeath
      BY <2>1, <2>b, <3>3 DEF DirDeath, Ends, Unprepared, places
    <3>4. CASE UNCHANGED dirVars
      BY <2>1, <2>b, <3>4 DEF dirVars, Unprepared, places
    <3>q. QED BY <1>1, <2>1, <3>1, <3>2, <3>3, <3>4
              DEF DirNext, DirCall, WriteManifest, StartPublish, SetAside, CheckAside,
                  PutBack, Place, VerifyPublished, StartRollback, TakeDown, InspectTaken,
                  ReturnTaken, Resume, GiveBackDir, ConfirmRollback, Settle, Unprepared
  <2>2. CASE Arranged("prepared")
    <3>0. "prepared" \in Names /\ State = "prepared" /\ Observed = "prepared"
      BY <2>2, <2>d DEF Names
    <3>1. CASE WriteManifest
      <4>1. Arranged("prepared")' /\ (answer' = "refused" => answer = "refused")
        BY <2>2, <2>b, <2>c, <3>0, <3>1 DEF WriteManifest, Ends, Arranged, Layout, places
      <4>q. QED BY <2>2, <2>b, <3>0, <3>1, <4>1 DEF WriteManifest, Ends, Names, Arranged
    <3>2. CASE StartPublish
      <4>1. Arranged("prepared")' /\ (answer' = "refused" => answer = "refused")
        BY <2>2, <2>b, <2>c, <3>0, <3>2 DEF StartPublish, Begin, Ends, Arranged, Layout, places
      <4>q. QED BY <2>2, <2>b, <3>0, <3>2, <4>1 DEF StartPublish, Begin, Ends, Names, Arranged
    <3>3. CASE StartRollback
      <4>1. Arranged("prepared")' /\ (answer' = "refused" => answer = "refused")
        BY <2>2, <2>b, <2>c, <3>0, <3>3 DEF StartRollback, Begin, Ends, Arranged, Layout, places
      <4>q. QED BY <2>2, <2>b, <3>0, <3>3, <4>1 DEF StartRollback, Begin, Ends, Names, Arranged
    <3>4. CASE SetAside
      <4>1. Arranged("original_captured")' /\ (answer' = "refused" => answer = "refused")
        BY <2>2, <2>b, <2>c, <3>0, <3>4 DEF SetAside, Ends, Then, Arranged, Layout, places
      <4>q. QED BY <2>2, <2>b, <3>0, <3>4, <4>1 DEF SetAside, Ends, Then, Names, Arranged
    <3>5. CASE Place
      <4>1. Arranged("published")' /\ (answer' = "refused" => answer = "refused")
        BY <2>2, <2>b, <2>c, <3>0, <3>5 DEF Place, Ends, Then, Arranged, Layout, places
      <4>q. QED BY <2>2, <2>b, <3>0, <3>5, <4>1 DEF Place, Ends, Then, Names, Arranged
    <3>6. CASE ConfirmRollback
      <4>1. Arranged("prepared")' /\ (answer' = "refused" => answer = "refused")
        BY <2>2, <2>b, <2>c, <3>0, <3>6 DEF ConfirmRollback, Ends, Then, Endpoints, Arranged,
           Layout, places
      <4>q. QED BY <2>2, <2>b, <3>0, <3>6, <4>1 DEF ConfirmRollback, Ends, Then, Endpoints,
          Names, Arranged
    <3>7. CASE Settle
      <4>1. Arranged("prepared")' /\ (answer' = "refused" => answer = "refused")
        BY <2>2, <2>b, <2>c, <3>0, <3>7 DEF Settle, Ends, Arranged, Layout, places
      <4>q. QED BY <2>2, <2>b, <3>0, <3>7, <4>1 DEF Settle, Ends, Names, Arranged
    <3>8. CASE DirDeath
      <4>1. Arranged("prepared")' /\ (answer' = "refused" => answer = "refused")
        BY <2>2, <2>b, <2>c, <3>0, <3>8 DEF DirDeath, Ends, Arranged, Layout, places
      <4>q. QED BY <2>2, <2>b, <3>0, <3>8, <4>1 DEF DirDeath, Ends, Names, Arranged
    <3>9. CASE UNCHANGED dirVars
      <4>1. Arranged("prepared")'
        BY <2>2, <2>b, <3>9 DEF dirVars, Arranged, Layout, places
      <4>q. QED BY <2>b, <3>0, <3>9, <4>1 DEF dirVars, Names
    <3>q. QED BY <1>1, <2>2, <2>c, <3>0, <3>1, <3>2, <3>3, <3>4, <3>5, <3>6, <3>7, <3>8, <3>9
              DEF DirNext, DirCall, Arranged, Layout, places, StartPrepare, Copy, CheckAside,
                  PutBack, VerifyPublished, TakeDown, InspectTaken, ReturnTaken, Resume,
                  GiveBackDir
  <2>3. CASE replacing /\ Arranged("original_captured")
    <3>0. "original_captured" \in Names /\ State = "original_captured" /\ Observed = "original_captured"
      BY <2>3, <2>d DEF Names
    <3>1. CASE StartPublish
      <4>1. Arranged("original_captured")' /\ (answer' = "refused" => answer = "refused")
        BY <2>3, <2>b, <2>c, <3>0, <3>1 DEF StartPublish, Begin, Ends, Arranged, Layout, places
      <4>q. QED BY <2>3, <2>b, <3>0, <3>1, <4>1 DEF StartPublish, Begin, Ends, Names, Arranged
    <3>2. CASE StartRollback
      <4>1. Arranged("original_captured")' /\ (answer' = "refused" => answer = "refused")
        BY <2>3, <2>b, <2>c, <3>0, <3>2 DEF StartRollback, Begin, Ends, Arranged, Layout, places
      <4>q. QED BY <2>3, <2>b, <3>0, <3>2, <4>1 DEF StartRollback, Begin, Ends, Names, Arranged
    <3>3. CASE CheckAside
      <4>1. Arranged("original_captured")' /\ (answer' = "refused" => answer = "refused")
        BY <2>3, <2>b, <2>c, <3>0, <3>3 DEF CheckAside, Then, Arranged, Layout, places
      <4>q. QED BY <2>3, <2>b, <3>0, <3>3, <4>1 DEF CheckAside, Then, Names, Arranged
    <3>4. CASE Place
      <4>1. Arranged("published")' /\ (answer' = "refused" => answer = "refused")
        BY <2>3, <2>b, <2>c, <3>0, <3>4 DEF Place, Ends, Then, Arranged, Layout, places
      <4>q. QED BY <2>3, <2>b, <3>0, <3>4, <4>1 DEF Place, Ends, Then, Names, Arranged
    <3>5. CASE GiveBackDir
      <4>1. Arranged("prepared")' /\ (answer' = "refused" => answer = "refused")
        BY <2>3, <2>b, <2>c, <3>0, <3>5 DEF GiveBackDir, Ends, Then, Arranged, Layout, places
      <4>q. QED BY <2>3, <2>b, <3>0, <3>5, <4>1 DEF GiveBackDir, Ends, Then, Names, Arranged
    <3>6. CASE DirDeath
      <4>1. Arranged("original_captured")' /\ (answer' = "refused" => answer = "refused")
        BY <2>3, <2>b, <2>c, <3>0, <3>6 DEF DirDeath, Ends, Arranged, Layout, places
      <4>q. QED BY <2>3, <2>b, <3>0, <3>6, <4>1 DEF DirDeath, Ends, Names, Arranged
    <3>7. CASE UNCHANGED dirVars
      <4>1. Arranged("original_captured")'
        BY <2>3, <2>b, <3>7 DEF dirVars, Arranged, Layout, places
      <4>q. QED BY <2>b, <3>0, <3>7, <4>1 DEF dirVars, Names
    <3>q. QED BY <1>1, <2>3, <2>c, <3>0, <3>1, <3>2, <3>3, <3>4, <3>5, <3>6, <3>7
              DEF DirNext, DirCall, Arranged, Layout, places, StartPrepare, Copy,
                  WriteManifest, SetAside, PutBack, VerifyPublished, TakeDown, InspectTaken,
                  ReturnTaken, Resume, ConfirmRollback, Settle
  <2>4. CASE Arranged("published")
    <3>0. "published" \in Names /\ State = "published" /\ Observed = "published"
      BY <2>4, <2>d DEF Names
    <3>1. CASE StartPublish
      <4>1. Arranged("published")' /\ (answer' = "refused" => answer = "refused")
        BY <2>4, <2>b, <2>c, <3>0, <3>1 DEF StartPublish, Begin, Ends, Arranged, Layout, places
      <4>q. QED BY <2>4, <2>b, <3>0, <3>1, <4>1 DEF StartPublish, Begin, Ends, Names, Arranged
    <3>2. CASE StartRollback
      <4>1. Arranged("published")' /\ (answer' = "refused" => answer = "refused")
        BY <2>4, <2>b, <2>c, <3>0, <3>2 DEF StartRollback, Begin, Ends, Arranged, Layout, places
      <4>q. QED BY <2>4, <2>b, <3>0, <3>2, <4>1 DEF StartRollback, Begin, Ends, Names, Arranged
    <3>3. CASE VerifyPublished
      <4>1. Arranged("published")' /\ (answer' = "refused" => answer = "refused")
        BY <2>4, <2>b, <2>c, <3>0, <3>3 DEF VerifyPublished, Ends, Arranged, Layout, places
      <4>q. QED BY <2>4, <2>b, <3>0, <3>3, <4>1 DEF VerifyPublished, Ends, Names, Arranged
    <3>4. CASE TakeDown
      <4>1. /\ taken' = Birth /\ path' = NoDir /\ step' = "inspect"
            /\ UNCHANGED <<prepared, original, manifest, undoing, answer>>
        BY <2>4, <2>c, <3>4 DEF TakeDown, Then, Arranged, Layout, places
      <4>2. undoing
        BY <2>4, <3>4 DEF TakeDown, Arranged
      <4>3. CASE replacing
        <5>1. Arranged("candidate_captured")'
          BY <2>4, <2>b, <2>c, <4>1, <4>2, <4>3 DEF Arranged, Layout, places
        <5>q. QED BY <2>b, <4>1, <4>3, <5>1 DEF Names
      <4>4. CASE ~replacing
        <5>1. Arranged("rolled_back")'
          BY <2>4, <2>b, <2>c, <4>1, <4>2, <4>4 DEF Arranged, Layout, places
        <5>q. QED BY <2>b, <4>1, <4>4, <5>1 DEF Names
      <4>q. QED BY <4>3, <4>4
    <3>5. CASE DirDeath
      <4>1. Arranged("published")' /\ (answer' = "refused" => answer = "refused")
        BY <2>4, <2>b, <2>c, <3>0, <3>5 DEF DirDeath, Ends, Arranged, Layout, places
      <4>q. QED BY <2>4, <2>b, <3>0, <3>5, <4>1 DEF DirDeath, Ends, Names, Arranged
    <3>6. CASE UNCHANGED dirVars
      <4>1. Arranged("published")'
        BY <2>4, <2>b, <3>6 DEF dirVars, Arranged, Layout, places
      <4>q. QED BY <2>b, <3>0, <3>6, <4>1 DEF dirVars, Names
    <3>q. QED BY <1>1, <2>4, <2>c, <3>0, <3>1, <3>2, <3>3, <3>4, <3>5, <3>6
              DEF DirNext, DirCall, Arranged, Layout, places, StartPrepare, Copy,
                  WriteManifest, SetAside, CheckAside, PutBack, Place, InspectTaken,
                  ReturnTaken, Resume, GiveBackDir, ConfirmRollback, Settle
  <2>5. CASE replacing /\ Arranged("candidate_captured")
    <3>0. "candidate_captured" \in Names /\ State = "candidate_captured" /\ Observed = "candidate_captured"
      BY <2>5, <2>d DEF Names
    <3>1. CASE StartRollback
      <4>1. Arranged("candidate_captured")' /\ (answer' = "refused" => answer = "refused")
        BY <2>5, <2>b, <2>c, <3>0, <3>1 DEF StartRollback, Begin, Ends, Arranged, Layout, places
      <4>q. QED BY <2>5, <2>b, <3>0, <3>1, <4>1 DEF StartRollback, Begin, Ends, Names, Arranged
    <3>2. CASE InspectTaken
      <4>1. Arranged("candidate_captured")' /\ (answer' = "refused" => answer = "refused")
        BY <2>5, <2>b, <2>c, <3>0, <3>2 DEF InspectTaken, Then, Arranged, Layout, places
      <4>q. QED BY <2>5, <2>b, <3>0, <3>2, <4>1 DEF InspectTaken, Then, Names, Arranged
    <3>3. CASE Resume
      <4>1. Arranged("candidate_captured")' /\ (answer' = "refused" => answer = "refused")
        BY <2>5, <2>b, <2>c, <3>0, <3>3 DEF Resume, Ends, Then, Arranged, Layout, places
      <4>q. QED BY <2>5, <2>b, <3>0, <3>3, <4>1 DEF Resume, Ends, Then, Names, Arranged
    <3>4. CASE GiveBackDir
      <4>1. Arranged("rolled_back")' /\ (answer' = "refused" => answer = "refused")
        BY <2>5, <2>b, <2>c, <3>0, <3>4 DEF GiveBackDir, Ends, Then, Arranged, Layout, places
      <4>q. QED BY <2>5, <2>b, <3>0, <3>4, <4>1 DEF GiveBackDir, Ends, Then, Names, Arranged
    <3>5. CASE DirDeath
      <4>1. Arranged("candidate_captured")' /\ (answer' = "refused" => answer = "refused")
        BY <2>5, <2>b, <2>c, <3>0, <3>5 DEF DirDeath, Ends, Arranged, Layout, places
      <4>q. QED BY <2>5, <2>b, <3>0, <3>5, <4>1 DEF DirDeath, Ends, Names, Arranged
    <3>6. CASE UNCHANGED dirVars
      <4>1. Arranged("candidate_captured")'
        BY <2>5, <2>b, <3>6 DEF dirVars, Arranged, Layout, places
      <4>q. QED BY <2>b, <3>0, <3>6, <4>1 DEF dirVars, Names
    <3>q. QED BY <1>1, <2>5, <2>c, <3>0, <3>1, <3>2, <3>3, <3>4, <3>5, <3>6
              DEF DirNext, DirCall, Arranged, Layout, places, StartPrepare, Copy,
                  WriteManifest, StartPublish, SetAside, CheckAside, PutBack, Place,
                  VerifyPublished, TakeDown, ReturnTaken, ConfirmRollback, Settle
  <2>6. CASE Arranged("rolled_back")
    <3>0. "rolled_back" \in Names /\ State = "rolled_back" /\ Observed = "rolled_back"
      BY <2>6, <2>d DEF Names
    <3>1. CASE StartRollback
      <4>1. Arranged("rolled_back")' /\ (answer' = "refused" => answer = "refused")
        BY <2>6, <2>b, <2>c, <3>0, <3>1 DEF StartRollback, Begin, Ends, Arranged, Layout, places
      <4>q. QED BY <2>6, <2>b, <3>0, <3>1, <4>1 DEF StartRollback, Begin, Ends, Names, Arranged
    <3>2. CASE InspectTaken
      <4>1. Arranged("rolled_back")' /\ (answer' = "refused" => answer = "refused")
        BY <2>6, <2>b, <2>c, <3>0, <3>2 DEF InspectTaken, Then, Arranged, Layout, places
      <4>q. QED BY <2>6, <2>b, <3>0, <3>2, <4>1 DEF InspectTaken, Then, Names, Arranged
    <3>3. CASE ConfirmRollback
      <4>1. Arranged("rolled_back")' /\ (answer' = "refused" => answer = "refused")
        BY <2>6, <2>b, <2>c, <3>0, <3>3 DEF ConfirmRollback, Ends, Then, Endpoints, Arranged,
           Layout, places
      <4>q. QED BY <2>6, <2>b, <3>0, <3>3, <4>1 DEF ConfirmRollback, Ends, Then, Endpoints,
          Names, Arranged
    <3>4. CASE Settle
      <4>1. Arranged("rolled_back")' /\ (answer' = "refused" => answer = "refused")
        BY <2>6, <2>b, <2>c, <3>0, <3>4 DEF Settle, Ends, Arranged, Layout, places
      <4>q. QED BY <2>6, <2>b, <3>0, <3>4, <4>1 DEF Settle, Ends, Names, Arranged
    <3>5. CASE DirDeath
      <4>1. Arranged("rolled_back")' /\ (answer' = "refused" => answer = "refused")
        BY <2>6, <2>b, <2>c, <3>0, <3>5 DEF DirDeath, Ends, Arranged, Layout, places
      <4>q. QED BY <2>6, <2>b, <3>0, <3>5, <4>1 DEF DirDeath, Ends, Names, Arranged
    <3>6. CASE UNCHANGED dirVars
      <4>1. Arranged("rolled_back")'
        BY <2>6, <2>b, <3>6 DEF dirVars, Arranged, Layout, places
      <4>q. QED BY <2>b, <3>0, <3>6, <4>1 DEF dirVars, Names
    <3>q. QED BY <1>1, <2>6, <2>c, <3>0, <3>1, <3>2, <3>3, <3>4, <3>5, <3>6
              DEF DirNext, DirCall, Arranged, Layout, places, StartPrepare, Copy,
                  WriteManifest, StartPublish, SetAside, CheckAside, PutBack, Place,
                  VerifyPublished, TakeDown, ReturnTaken, Resume, GiveBackDir
  <2>q. QED BY <2>a, <2>b, <2>1, <2>2, <2>3, <2>4, <2>5, <2>6 DEF Names
<1>2. ASSUME stirs = 0, OwnerCreates \/ OwnerRemovesDir \/ OwnerStirs PROVE stirs' > 0
  BY <1>2 DEF OwnerCreates, OwnerRemovesDir, OwnerStirs, DirTypeOK
<1>3. stirs' >= stirs /\ stirs' \in Nat /\ stirs \in Nat
  BY DirTyping DEF DirTypeOK, dirVars, DirNext, DirCall, StartPrepare, Copy, WriteManifest,
     StartPublish, SetAside, CheckAside, PutBack, Place, VerifyPublished, StartRollback,
     TakeDown, InspectTaken, ReturnTaken, Resume, GiveBackDir, ConfirmRollback, Settle,
     DirDeath, ownerSide, OwnerCreates, OwnerRemovesDir, OwnerStirs
<1>q. QED BY <1>1, <1>2, <1>3 DEF Undisturbed, DirectoryRefusalHasCause

(* A death inside any call of a directory operation leaves an arrangement the
   next call recognises: no call refuses unless the owner interfered.        *)
THEOREM DirectoryCallsNeverRefuse == DirSpec => []DirectoryRefusalHasCause
<1>1. DirInit => Undisturbed
  <2> SUFFICES ASSUME DirInit PROVE Undisturbed
    OBVIOUS
  <2>1. Unprepared
    BY DEF DirInit, Unprepared, places
  <2>q. QED BY <2>1 DEF DirInit, Undisturbed, DirectoryRefusalHasCause
<1>2. DirTypeOK /\ Undisturbed /\ [DirNext]_dirVars => Undisturbed'
  BY UndisturbedStep
<1>3. Undisturbed => DirectoryRefusalHasCause
  BY DEF Undisturbed
<1>q. QED BY <1>1, <1>2, <1>3, DirInvariant, PTL DEF DirSpec
=============================================================================
