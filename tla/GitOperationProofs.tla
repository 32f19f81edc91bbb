-------------------------- MODULE GitOperationProofs --------------------------
(***************************************************************************)
(* What the approved Git operations guarantee for any calls, receipts,      *)
(* histories and any number of deaths: an approval is spent once, on        *)
(* exactly what it approves, and an effect nobody has decided stays         *)
(* guarded, charged and linked.                                             *)
(***************************************************************************)
EXTENDS GitOperation, TLAPS

Early == {"idle", "guarding", "guarded", "bound", "ready"} \cup Unguarded
Leasing == {"leased", "inspected", "proposed", "verified", "claimed"}
Linked == {"bound", "ready", "waiting", "acked", "receipted"}

(* The call may have spent an approval that others can no longer use.       *)
Spending(c) == pc[c] \in Guarded \cup {"claimed"} \/ update[c] # "none"
Sounded(c) == pc[c] \in {"proposed", "verified"} \/ Spending(c)

(* Effects are started by a call that is ready, and by no other.            *)
NoEffectYet == \A c \in Calls : pc[c] \in Early => update[c] = "none"

(* From its proposal on the request of a call is what it was checked for,
   what the receipt approves, and what the ledger records.                  *)
RequestFixed ==
  \A c \in Calls :
    /\ (pc[c] = "inspected" \/ Sounded(c)) => req[c] \in Requests
    /\ (pc[c] \in Unguarded \/ Spending(c)) /\ c \notin Local => receipt[c] \in Receipts
    /\ Sounded(c) /\ Kind[c] = "push" => FastForward(req[c].old, req[c].new)
    /\ (pc[c] = "verified" \/ Spending(c)) /\ c \notin Local => signed[receipt[c]].req = req[c]
    /\ Spending(c) => claims[Nonce(c)] = req[c]

SpentApart ==
  \A c, d \in Calls : c # d /\ Spending(c) /\ Spending(d) => Nonce(c) # Nonce(d)

(* One call at a time is under the lease, and the guard is its own.         *)
GuardLeads ==
  /\ \A c \in Calls :
       /\ pc[c] \in Leasing => lease = c /\ guard = NoGuard
       /\ pc[c] \in Guarded => lease = c /\ guard.call = c
       /\ pc[c] \in Guarded \ {"guarding"} => guard.whole
       /\ guard.call = c => pc[c] \in Guarded \cup {"uncertain", "dead"}
  /\ guard.call = NoCall => ~guard.whole

LinkedHeld ==
  \A c \in Calls : pc[c] \in Linked => c \in slots /\ link[c] = "active"

(* A receipt is on disk before anything is resolved.                        *)
ReceiptFirst ==
  /\ \A c \in Calls : pc[c] \in {"receipted", "resolved"} => c \in receipted
  /\ rec \in {"receipted", "resolved"} => ~up /\ guard.call \in recovered

(* The owner acknowledges only what can no longer happen.                   *)
RecoveryAlone ==
  /\ ~up => \A c \in Calls : pc[c] \in Settled
  /\ \A c \in recovered : /\ pc[c] \in Settled \ {"idle"}
                          /\ Sandboxed(c) => update[c] # "running"

IInv == /\ TypeOK /\ NoEffectYet /\ RequestFixed /\ SpentApart /\ GuardLeads /\ LinkedHeld
        /\ ReceiptFirst /\ RecoveryAlone /\ UndecidedHeld

(* The types the steps below need.                                          *)
Typed ==
  /\ pc \in [Calls -> Phases] /\ receipt \in [Calls -> Receipts \cup {NoReceipt}]
  /\ req \in [Calls -> Asked] /\ claims \in [Receipts \cup Calls -> Asked]
  /\ signed \in [Receipts -> [req : Asked, at : 0..MaxClock]]
  /\ link \in [Calls -> Links] /\ update \in [Calls -> Effects]
  /\ guard \in [call : Calls \cup {NoCall}, whole : BOOLEAN]
  /\ recovered \subseteq Calls /\ NoCall \notin Calls /\ NoRequest \notin Requests

-----------------------------------------------------------------------------
(* What the steps below take from the type invariant.                       *)
LEMMA TypeGives == TypeOK => Typed
BY GitAssumption, NoRequestAssumption DEF TypeOK, Typed

(* A proposal is a request: its tips are commits or absent.                 *)
LEMMA ProposalIsRequest ==
  ASSUME TypeOK, NEW k \in Kinds, NEW h \in Tips
  PROVE  Proposal(k, h) \in Requests
<1>1. tip["push"] \in Tips /\ tip["fetch"] \in Tips /\ loaded \in 0..1
  BY DEF TypeOK, Kinds
<1>2. Child[h] \in Tips
  BY GitAssumption DEF Tips
<1>q. QED BY <1>1, <1>2 DEF Proposal, Requests, Kinds, Advertised, TrackingTip

(* A guard recovery can read names its call.                                *)
LEMMA WholeGuardHasCall ==
  ASSUME Typed, GuardLeads, GuardWhole PROVE guard.call \in Calls
BY DEF Typed, GuardLeads, GuardWhole

(* Initially nothing is asked, claimed, guarded or in effect.               *)
LEMMA InitHolds == Init => IInv
<1> SUFFICES ASSUME Init PROVE IInv
  OBVIOUS
<1>1. TypeOK
  <2>1. /\ signed \in [Receipts -> [req : Asked, at : 0..MaxClock]]
        /\ claims \in [Receipts \cup Calls -> Asked] /\ req \in [Calls -> Asked]
    BY GitAssumption DEF Init, Asked
  <2>2. /\ pc \in [Calls -> Phases] /\ link \in [Calls -> Links]
        /\ update \in [Calls -> Effects] /\ receipt \in [Calls -> Receipts \cup {NoReceipt}]
    BY DEF Init, Phases, Settled, Links, Effects
  <2>3. /\ guard \in [call : Calls \cup {NoCall}, whole : BOOLEAN]
        /\ plan \in [call : Calls \cup {NoCall}, tip : Tips, link : Links]
    BY DEF Init, NoGuard, NoPlan, Tips, Links
  <2>4. /\ clock \in 0..MaxClock /\ moves \in 0..MaxMoves /\ crashes \in 0..MaxCrashes
    BY GitAssumption DEF Init
  <2>q. QED BY <2>1, <2>2, <2>3, <2>4 DEF Init, TypeOK
<1>2. NoEffectYet /\ SpentApart /\ RequestFixed
  BY DEF Init, NoEffectYet, SpentApart, RequestFixed, Spending, Sounded, Guarded, Unguarded
<1>3. GuardLeads /\ LinkedHeld
  BY GitAssumption DEF Init, GuardLeads, LinkedHeld, NoGuard, Leasing, Guarded, Linked
<1>4. ReceiptFirst /\ RecoveryAlone /\ UndecidedHeld
  BY DEF Init, ReceiptFirst, RecoveryAlone, UndecidedHeld, Undecided
<1>q. QED BY <1>1, <1>2, <1>3, <1>4 DEF IInv

-----------------------------------------------------------------------------
(* The steps of a call up to the claim of its approval keep the invariant,   *)
LEMMA ProposingHolds ==
  ASSUME IInv, NEW u \in Calls,
         Admit(u) \/ Authorize(u) \/ Lease(u) \/ Inspect(u) \/ Stray(u) \/ Propose(u) \/ Verify(u) \/ Claim(u) \/ Fail(u)
  PROVE  IInv'
<1>t. Typed
  BY TypeGives DEF IInv
<1> USE DEF IInv, Become, world, call, capacity, outcome, recovery
<1>1. CASE Admit(u)
  <2> USE <1>1 DEF Admit
  <2>1. TypeOK'
    <3>1. receipt' \in [Calls -> Receipts \cup {NoReceipt}]
      BY <1>t DEF Typed
    <3>2. slots' \subseteq Calls
      BY DEF TypeOK
    <3>3. pc' \in [Calls -> Phases]
      BY <1>t DEF Typed, Phases, Unguarded, Guarded, Settled
    <3>q. QED BY <3>1, <3>2, <3>3 DEF TypeOK
  <2>2. NoEffectYet'
    BY <1>t DEF Typed, NoEffectYet, Early, Unguarded
  <2>3. RequestFixed'
    BY <1>t DEF Typed, RequestFixed, Sounded, Spending, Nonce, Unguarded, Guarded,
        NoEffectYet, Early
  <2>4. SpentApart'
    BY <1>t DEF Typed, SpentApart, Spending, Nonce, Guarded, RequestFixed, Sounded,
        NoEffectYet, Early, Unguarded
  <2>5. GuardLeads'
    BY <1>t DEF Typed, GuardLeads, Leasing, Guarded, NoGuard, RecoveryAlone, Settled
  <2>6. LinkedHeld'
    BY <1>t DEF Typed, LinkedHeld, Linked
  <2>7. ReceiptFirst'
    BY <1>t DEF Typed, ReceiptFirst, RecoveryAlone, Settled, GuardLeads, Guarded
  <2>8. RecoveryAlone'
    BY <1>t DEF Typed, RecoveryAlone, Settled, Sandboxed, GuardLeads, Guarded,
        NoEffectYet, Early, Unguarded
  <2>9. UndecidedHeld'
    BY <1>t DEF Typed, UndecidedHeld, Undecided, NoEffectYet, Early, Unguarded,
        GuardLeads, Leasing, Guarded, NoGuard, ReceiptFirst, LinkedHeld, Linked
  <2>q. QED BY <2>1, <2>2, <2>3, <2>4, <2>5, <2>6, <2>7, <2>8, <2>9 DEF IInv
<1>2. CASE Authorize(u)
  <2> USE <1>2 DEF Authorize, Refuse, Unlease
  <2>1. TypeOK'
    <3>1. pc' \in [Calls -> Phases]
      BY <1>t DEF Typed, Phases, Unguarded, Guarded, Settled
    <3>2. lease' \in Calls \cup {NoCall}
      BY DEF TypeOK
    <3>3. slots' \subseteq Calls
      BY DEF TypeOK
    <3>q. QED BY <3>1, <3>2, <3>3 DEF TypeOK
  <2>2. NoEffectYet'
    BY <1>t DEF Typed, NoEffectYet, Early, Unguarded
  <2>3. RequestFixed'
    BY <1>t DEF Typed, RequestFixed, Sounded, Spending, Nonce, Unguarded, Guarded,
        NoEffectYet, Early
  <2>4. SpentApart'
    BY <1>t DEF Typed, SpentApart, Spending, Nonce, Guarded, RequestFixed, Sounded,
        NoEffectYet, Early, Unguarded
  <2>5. GuardLeads'
    BY <1>t DEF Typed, GuardLeads, Leasing, Guarded, NoGuard, RecoveryAlone, Settled
  <2>6. LinkedHeld'
    BY <1>t DEF Typed, LinkedHeld, Linked
  <2>7. ReceiptFirst'
    BY <1>t DEF Typed, ReceiptFirst, RecoveryAlone, Settled, GuardLeads, Guarded
  <2>8. RecoveryAlone'
    <3>1. pc[u] \notin Settled /\ UNCHANGED <<up, recovered, update>>
      BY DEF Settled, Refuse, CleanupError
    <3>2. up /\ u \notin recovered
      BY <3>1 DEF RecoveryAlone
    <3>3. \A c \in Calls \ {u} : pc'[c] = pc[c]
      BY <1>t DEF Typed, Refuse, CleanupError
    <3>q. QED BY <1>t, <3>1, <3>2, <3>3 DEF Typed, RecoveryAlone, Sandboxed
  <2>9. UndecidedHeld'
    BY <1>t DEF Typed, UndecidedHeld, Undecided, NoEffectYet, Early, Unguarded,
        GuardLeads, Leasing, Guarded, NoGuard, ReceiptFirst, LinkedHeld, Linked
  <2>q. QED BY <2>1, <2>2, <2>3, <2>4, <2>5, <2>6, <2>7, <2>8, <2>9 DEF IInv
<1>3. CASE Lease(u)
  <2> USE <1>3 DEF Lease, Refuse, CleanupError, Unlease
  <2>1. TypeOK'
    <3>1. pc' \in [Calls -> Phases]
      BY <1>t DEF Typed, Phases, Unguarded, Guarded, Settled
    <3>2. lease' \in Calls \cup {NoCall}
      BY DEF TypeOK
    <3>3. slots' \subseteq Calls
      BY DEF TypeOK
    <3>q. QED BY <3>1, <3>2, <3>3 DEF TypeOK
  <2>2. NoEffectYet'
    BY <1>t DEF Typed, NoEffectYet, Early, Unguarded
  <2>3. RequestFixed'
    BY <1>t DEF Typed, RequestFixed, Sounded, Spending, Nonce, Unguarded, Guarded,
        NoEffectYet, Early
  <2>4. SpentApart'
    BY <1>t DEF Typed, SpentApart, Spending, Nonce, Guarded, RequestFixed, Sounded,
        NoEffectYet, Early, Unguarded
  <2>5. GuardLeads'
    BY <1>t DEF Typed, GuardLeads, Leasing, Guarded, NoGuard, RecoveryAlone, Settled
  <2>6. LinkedHeld'
    BY <1>t DEF Typed, LinkedHeld, Linked
  <2>7. ReceiptFirst'
    BY <1>t DEF Typed, ReceiptFirst, RecoveryAlone, Settled, GuardLeads, Guarded
  <2>8. RecoveryAlone'
    <3>1. pc[u] \notin Settled /\ UNCHANGED <<up, recovered, update>>
      BY DEF Settled, Refuse, CleanupError
    <3>2. up /\ u \notin recovered
      BY <3>1 DEF RecoveryAlone
    <3>3. \A c \in Calls \ {u} : pc'[c] = pc[c]
      BY <1>t DEF Typed, Refuse, CleanupError
    <3>q. QED BY <1>t, <3>1, <3>2, <3>3 DEF Typed, RecoveryAlone, Sandboxed
  <2>9. UndecidedHeld'
    BY <1>t DEF Typed, UndecidedHeld, Undecided, NoEffectYet, Early, Unguarded,
        GuardLeads, Leasing, Guarded, NoGuard, ReceiptFirst, LinkedHeld, Linked
  <2>q. QED BY <2>1, <2>2, <2>3, <2>4, <2>5, <2>6, <2>7, <2>8, <2>9 DEF IInv
<1>4. CASE Inspect(u)
  <2> USE <1>4 DEF Inspect
  <2>1. TypeOK'
    <3>1. req' \in [Calls -> Asked]
      <4>1. tip["commit"] \in Tips /\ Kind[u] \in Kinds
        BY GitAssumption DEF TypeOK, Kinds
      <4>2. Proposal(Kind[u], tip["commit"]) \in Requests
        BY <4>1, ProposalIsRequest
      <4>q. QED BY <1>t, <4>2 DEF Typed, Asked
    <3>2. pc' \in [Calls -> Phases]
      BY <1>t DEF Typed, Phases, Unguarded, Guarded, Settled
    <3>q. QED BY <3>1, <3>2 DEF TypeOK
  <2>2. NoEffectYet'
    BY <1>t DEF Typed, NoEffectYet, Early, Unguarded
  <2>3. RequestFixed'
    <3>1. req'[u] \in Requests
      <4>1. tip["commit"] \in Tips /\ Kind[u] \in Kinds
        BY GitAssumption DEF TypeOK, Kinds
      <4>q. QED BY <1>t, <4>1, ProposalIsRequest DEF Typed
    <3>2. ~Spending(u)' /\ ~Sounded(u)' /\ receipt[u] = receipt'[u]
      BY <1>t DEF Typed, NoEffectYet, Early, Unguarded, Spending, Sounded, Guarded
    <3>3. \A c \in Calls \ {u} : pc'[c] = pc[c] /\ req'[c] = req[c]
      BY <1>t DEF Typed
    <3>4. u \notin Local => receipt[u] \in Receipts
      BY DEF RequestFixed, Unguarded
    <3>q. QED BY <3>1, <3>2, <3>3, <3>4 DEF RequestFixed, Sounded, Spending, Nonce
  <2>4. SpentApart'
    BY <1>t DEF Typed, SpentApart, Spending, Nonce, Guarded, RequestFixed, Sounded,
        NoEffectYet, Early, Unguarded
  <2>5. GuardLeads'
    BY <1>t DEF Typed, GuardLeads, Leasing, Guarded, NoGuard, RecoveryAlone, Settled
  <2>6. LinkedHeld'
    BY <1>t DEF Typed, LinkedHeld, Linked
  <2>7. ReceiptFirst'
    BY <1>t DEF Typed, ReceiptFirst, RecoveryAlone, Settled, GuardLeads, Guarded
  <2>8. RecoveryAlone'
    BY <1>t DEF Typed, RecoveryAlone, Settled, Sandboxed, GuardLeads, Guarded,
        NoEffectYet, Early, Unguarded
  <2>9. UndecidedHeld'
    BY DEF UndecidedHeld, Undecided
  <2>q. QED BY <2>1, <2>2, <2>3, <2>4, <2>5, <2>6, <2>7, <2>8, <2>9 DEF IInv
<1>5. CASE Stray(u)
  <2> USE <1>5 DEF Stray, CleanupError, Unlease
  <2>1. TypeOK'
    <3>1. stray' \subseteq Calls
      BY DEF TypeOK
    <3>2. pc' \in [Calls -> Phases]
      BY <1>t DEF Typed, Phases, Unguarded, Guarded, Settled
    <3>3. lease' \in Calls \cup {NoCall}
      BY DEF TypeOK
    <3>4. slots' \subseteq Calls
      BY DEF TypeOK
    <3>q. QED BY <3>1, <3>2, <3>3, <3>4 DEF TypeOK
  <2>2. NoEffectYet'
    BY <1>t DEF Typed, NoEffectYet, Early, Unguarded
  <2>3. RequestFixed'
    BY <1>t DEF Typed, RequestFixed, Sounded, Spending, Nonce, Unguarded, Guarded,
        NoEffectYet, Early
  <2>4. SpentApart'
    BY <1>t DEF Typed, SpentApart, Spending, Nonce, Guarded, RequestFixed, Sounded,
        NoEffectYet, Early, Unguarded
  <2>5. GuardLeads'
    BY <1>t DEF Typed, GuardLeads, Leasing, Guarded, NoGuard, RecoveryAlone, Settled
  <2>6. LinkedHeld'
    BY <1>t DEF Typed, LinkedHeld, Linked
  <2>7. ReceiptFirst'
    BY <1>t DEF Typed, ReceiptFirst, RecoveryAlone, Settled, GuardLeads, Guarded
  <2>8. RecoveryAlone'
    BY <1>t DEF Typed, RecoveryAlone, Settled, Sandboxed, GuardLeads, Guarded,
        NoEffectYet, Early, Unguarded
  <2>9. UndecidedHeld'
    BY <1>t DEF Typed, UndecidedHeld, Undecided, NoEffectYet, Early, Unguarded,
        GuardLeads, Leasing, Guarded, NoGuard, ReceiptFirst, LinkedHeld, Linked
  <2>q. QED BY <2>1, <2>2, <2>3, <2>4, <2>5, <2>6, <2>7, <2>8, <2>9 DEF IInv
<1>6. CASE Propose(u)
  <2> USE <1>6 DEF Propose, Refuse, Unlease
  <2>1. TypeOK'
    <3>1. req' \in [Calls -> Asked]
      <4>1. req[u] \in Requests
        BY DEF RequestFixed
      <4>2. Proposal(Kind[u], req[u].head) \in Requests
        BY <4>1, GitAssumption, ProposalIsRequest DEF Requests
      <4>q. QED BY <1>t, <4>2 DEF Typed, Asked
    <3>2. pc' \in [Calls -> Phases]
      BY <1>t DEF Typed, Phases, Unguarded, Guarded, Settled
    <3>3. lease' \in Calls \cup {NoCall}
      BY DEF TypeOK
    <3>4. slots' \subseteq Calls
      BY DEF TypeOK
    <3>q. QED BY <3>1, <3>2, <3>3, <3>4 DEF TypeOK
  <2>2. NoEffectYet'
    BY <1>t DEF Typed, NoEffectYet, Early, Unguarded
  <2>3. RequestFixed'
    <3>1. req[u] \in Requests /\ (u \notin Local => receipt[u] \in Receipts)
      BY DEF RequestFixed, Unguarded
    <3>2. Proposal(Kind[u], req[u].head) \in Requests
      BY <3>1, GitAssumption, ProposalIsRequest DEF Requests
    <3>3. /\ \A c \in Calls \ {u} : pc'[c] = pc[c] /\ req'[c] = req[c]
          /\ UNCHANGED <<update, receipt, signed, claims>>
      BY <1>t DEF Typed, Refuse
    <3>4. update[u] = "none"
      BY DEF NoEffectYet, Early, Unguarded
    <3>5. CASE Refuse(u) /\ UNCHANGED req
      <4>1. pc'[u] = "refused" /\ ~Spending(u)' /\ ~Sounded(u)'
        BY <1>t, <3>3, <3>4, <3>5 DEF Typed, Refuse, Spending, Sounded, Guarded
      <4>q. QED BY <3>3, <3>5, <4>1 DEF RequestFixed, Sounded, Spending, Nonce, Unguarded
    <3>6. CASE pc' = [pc EXCEPT ![u] = "proposed"]
      <4>1. /\ req'[u] = Proposal(Kind[u], req[u].head)
            /\ Sound(req'[u], req'[u].head, u \notin Local)
        BY <1>t, <3>6 DEF Typed, Refuse
      <4>2. Kind[u] = "push" => FastForward(req'[u].old, req'[u].new)
        BY <4>1 DEF Sound, Proposal
      <4>3. pc'[u] = "proposed" /\ ~Spending(u)'
        BY <1>t, <3>3, <3>4, <3>6 DEF Typed, Spending, Guarded
      <4>q. QED BY <3>1, <3>2, <3>3, <4>1, <4>2, <4>3
                DEF RequestFixed, Sounded, Spending, Nonce, Unguarded
    <3>q. QED BY <3>5, <3>6
  <2>4. SpentApart'
    BY <1>t DEF Typed, SpentApart, Spending, Nonce, Guarded, RequestFixed, Sounded,
        NoEffectYet, Early, Unguarded
  <2>5. GuardLeads'
    BY <1>t DEF Typed, GuardLeads, Leasing, Guarded, NoGuard, RecoveryAlone, Settled
  <2>6. LinkedHeld'
    BY <1>t DEF Typed, LinkedHeld, Linked
  <2>7. ReceiptFirst'
    BY <1>t DEF Typed, ReceiptFirst, RecoveryAlone, Settled, GuardLeads, Guarded
  <2>8. RecoveryAlone'
    <3>1. pc[u] \notin Settled /\ UNCHANGED <<up, recovered, update>>
      BY DEF Settled, Refuse, CleanupError
    <3>2. up /\ u \notin recovered
      BY <3>1 DEF RecoveryAlone
    <3>3. \A c \in Calls \ {u} : pc'[c] = pc[c]
      BY <1>t DEF Typed, Refuse, CleanupError
    <3>q. QED BY <1>t, <3>1, <3>2, <3>3 DEF Typed, RecoveryAlone, Sandboxed
  <2>9. UndecidedHeld'
    BY <1>t DEF Typed, UndecidedHeld, Undecided, NoEffectYet, Early, Unguarded,
        GuardLeads, Leasing, Guarded, NoGuard, ReceiptFirst, LinkedHeld, Linked
  <2>q. QED BY <2>1, <2>2, <2>3, <2>4, <2>5, <2>6, <2>7, <2>8, <2>9 DEF IInv
<1>7. CASE Verify(u)
  <2> USE <1>7 DEF Verify, Refuse, Unlease, Approved
  <2>1. TypeOK'
    <3>1. pc' \in [Calls -> Phases]
      BY <1>t DEF Typed, Phases, Unguarded, Guarded, Settled
    <3>2. lease' \in Calls \cup {NoCall}
      BY DEF TypeOK
    <3>3. slots' \subseteq Calls
      BY DEF TypeOK
    <3>q. QED BY <3>1, <3>2, <3>3 DEF TypeOK
  <2>2. NoEffectYet'
    BY <1>t DEF Typed, NoEffectYet, Early, Unguarded
  <2>3. RequestFixed'
    BY <1>t DEF Typed, RequestFixed, Sounded, Spending, Nonce, Unguarded, Guarded,
        NoEffectYet, Early
  <2>4. SpentApart'
    BY <1>t DEF Typed, SpentApart, Spending, Nonce, Guarded, RequestFixed, Sounded,
        NoEffectYet, Early, Unguarded
  <2>5. GuardLeads'
    BY <1>t DEF Typed, GuardLeads, Leasing, Guarded, NoGuard, RecoveryAlone, Settled
  <2>6. LinkedHeld'
    BY <1>t DEF Typed, LinkedHeld, Linked
  <2>7. ReceiptFirst'
    BY <1>t DEF Typed, ReceiptFirst, RecoveryAlone, Settled, GuardLeads, Guarded
  <2>8. RecoveryAlone'
    <3>1. pc[u] \notin Settled /\ UNCHANGED <<up, recovered, update>>
      BY DEF Settled, Refuse, CleanupError
    <3>2. up /\ u \notin recovered
      BY <3>1 DEF RecoveryAlone
    <3>3. \A c \in Calls \ {u} : pc'[c] = pc[c]
      BY <1>t DEF Typed, Refuse, CleanupError
    <3>q. QED BY <1>t, <3>1, <3>2, <3>3 DEF Typed, RecoveryAlone, Sandboxed
  <2>9. UndecidedHeld'
    BY <1>t DEF Typed, UndecidedHeld, Undecided, NoEffectYet, Early, Unguarded,
        GuardLeads, Leasing, Guarded, NoGuard, ReceiptFirst, LinkedHeld, Linked
  <2>q. QED BY <2>1, <2>2, <2>3, <2>4, <2>5, <2>6, <2>7, <2>8, <2>9 DEF IInv
<1>8. CASE Claim(u)
  <2> USE <1>8 DEF Claim, Refuse, Unlease
  <2>1. TypeOK'
    <3>1. claims' \in [Receipts \cup Calls -> Asked]
      BY <1>t DEF Typed, Asked
    <3>2. pc' \in [Calls -> Phases]
      BY <1>t DEF Typed, Phases, Unguarded, Guarded, Settled
    <3>3. lease' \in Calls \cup {NoCall}
      BY DEF TypeOK
    <3>4. slots' \subseteq Calls
      BY DEF TypeOK
    <3>q. QED BY <3>1, <3>2, <3>3, <3>4 DEF TypeOK
  <2>2. NoEffectYet'
    BY <1>t DEF Typed, NoEffectYet, Early, Unguarded
  <2>3. RequestFixed'
    BY <1>t DEF Typed, RequestFixed, Sounded, Spending, Nonce, Unguarded, Guarded,
        NoEffectYet, Early
  <2>4. SpentApart'
    BY <1>t DEF Typed, SpentApart, Spending, Nonce, Guarded, RequestFixed, Sounded,
        NoEffectYet, Early, Unguarded
  <2>5. GuardLeads'
    BY <1>t DEF Typed, GuardLeads, Leasing, Guarded, NoGuard, RecoveryAlone, Settled
  <2>6. LinkedHeld'
    BY <1>t DEF Typed, LinkedHeld, Linked
  <2>7. ReceiptFirst'
    BY <1>t DEF Typed, ReceiptFirst, RecoveryAlone, Settled, GuardLeads, Guarded
  <2>8. RecoveryAlone'
    <3>1. pc[u] \notin Settled /\ UNCHANGED <<up, recovered, update>>
      BY DEF Settled, Refuse, CleanupError
    <3>2. up /\ u \notin recovered
      BY <3>1 DEF RecoveryAlone
    <3>3. \A c \in Calls \ {u} : pc'[c] = pc[c]
      BY <1>t DEF Typed, Refuse, CleanupError
    <3>q. QED BY <1>t, <3>1, <3>2, <3>3 DEF Typed, RecoveryAlone, Sandboxed
  <2>9. UndecidedHeld'
    BY <1>t DEF Typed, UndecidedHeld, Undecided, NoEffectYet, Early, Unguarded,
        GuardLeads, Leasing, Guarded, NoGuard, ReceiptFirst, LinkedHeld, Linked
  <2>q. QED BY <2>1, <2>2, <2>3, <2>4, <2>5, <2>6, <2>7, <2>8, <2>9 DEF IInv
<1>9. CASE Fail(u)
  <2> USE <1>9 DEF Fail, Refuse, Unlease
  <2>1. TypeOK'
    <3>1. pc' \in [Calls -> Phases]
      BY <1>t DEF Typed, Phases, Unguarded, Guarded, Settled
    <3>2. lease' \in Calls \cup {NoCall}
      BY DEF TypeOK
    <3>3. slots' \subseteq Calls
      BY DEF TypeOK
    <3>q. QED BY <3>1, <3>2, <3>3 DEF TypeOK
  <2>2. NoEffectYet'
    BY <1>t DEF Typed, NoEffectYet, Early, Unguarded
  <2>3. RequestFixed'
    BY <1>t DEF Typed, RequestFixed, Sounded, Spending, Nonce, Unguarded, Guarded,
        NoEffectYet, Early
  <2>4. SpentApart'
    BY <1>t DEF Typed, SpentApart, Spending, Nonce, Guarded, RequestFixed, Sounded,
        NoEffectYet, Early, Unguarded
  <2>5. GuardLeads'
    <3>1. /\ guard.call # u /\ guard' = guard
          /\ \A c \in Calls \ {u} : pc'[c] = pc[c] /\ (lease = c => lease' = c)
      BY <1>t DEF Typed, GuardLeads, Unguarded, Guarded
    <3>2. pc'[u] \in {"refused", "uncertain"}
      BY <1>t DEF Typed
    <3>q. QED BY <3>1, <3>2 DEF GuardLeads, Leasing, Guarded
  <2>6. LinkedHeld'
    BY <1>t DEF Typed, LinkedHeld, Linked
  <2>7. ReceiptFirst'
    BY <1>t DEF Typed, ReceiptFirst, RecoveryAlone, Settled, GuardLeads, Guarded
  <2>8. RecoveryAlone'
    <3>1. pc[u] \notin Settled /\ UNCHANGED <<up, recovered, update>>
      BY DEF Settled, Refuse, CleanupError, Unguarded
    <3>2. up /\ u \notin recovered
      BY <3>1 DEF RecoveryAlone
    <3>3. \A c \in Calls \ {u} : pc'[c] = pc[c]
      BY <1>t DEF Typed, Refuse, CleanupError
    <3>q. QED BY <1>t, <3>1, <3>2, <3>3 DEF Typed, RecoveryAlone, Sandboxed
  <2>9. UndecidedHeld'
    BY <1>t DEF Typed, UndecidedHeld, Undecided, NoEffectYet, Early, Unguarded,
        GuardLeads, Leasing, Guarded, NoGuard, ReceiptFirst, LinkedHeld, Linked
  <2>q. QED BY <2>1, <2>2, <2>3, <2>4, <2>5, <2>6, <2>7, <2>8, <2>9 DEF IInv
<1>q. QED BY <1>1, <1>2, <1>3, <1>4, <1>5, <1>6, <1>7, <1>8, <1>9

(* ... so do its steps behind the claim and the effect itself,              *)
LEMMA EffectHolds ==
  ASSUME IInv, NEW u \in Calls,
         OpenGuard(u) \/ SyncGuard(u) \/ Bind(u) \/ Reauthorize(u) \/ Launch(u) \/ Acknowledge(u) \/ WriteReceipt(u) \/ Resolve(u) \/ RemoveGuard(u) \/ Interrupt(u) \/ UpdateApplies(u) \/ UpdateFails(u)
  PROVE  IInv'
<1>t. Typed
  BY TypeGives DEF IInv
<1> USE DEF IInv, Become, world, call, capacity, outcome, recovery
<1>1. CASE OpenGuard(u)
  <2> USE <1>1 DEF OpenGuard
  <2>1. TypeOK'
    <3>1. guard' \in [call : Calls \cup {NoCall}, whole : BOOLEAN]
      BY <1>t DEF Typed
    <3>2. pc' \in [Calls -> Phases]
      BY <1>t DEF Typed, Phases, Unguarded, Guarded, Settled
    <3>q. QED BY <3>1, <3>2 DEF TypeOK
  <2>2. NoEffectYet'
    BY <1>t DEF Typed, NoEffectYet, Early, Unguarded
  <2>3. RequestFixed'
    BY <1>t DEF Typed, RequestFixed, Sounded, Spending, Nonce, Unguarded, Guarded,
        NoEffectYet, Early
  <2>4. SpentApart'
    BY <1>t DEF Typed, SpentApart, Spending, Nonce, Guarded, RequestFixed, Sounded,
        NoEffectYet, Early, Unguarded
  <2>5. GuardLeads'
    BY <1>t DEF Typed, GuardLeads, Leasing, Guarded, NoGuard, RecoveryAlone, Settled
  <2>6. LinkedHeld'
    BY <1>t DEF Typed, LinkedHeld, Linked
  <2>7. ReceiptFirst'
    BY <1>t DEF Typed, ReceiptFirst, RecoveryAlone, Settled, GuardLeads, Guarded
  <2>8. RecoveryAlone'
    BY <1>t DEF Typed, RecoveryAlone, Settled, Sandboxed, GuardLeads, Guarded,
        NoEffectYet, Early, Unguarded
  <2>9. UndecidedHeld'
    BY <1>t DEF Typed, UndecidedHeld, Undecided, NoEffectYet, Early, Unguarded,
        GuardLeads, Leasing, Guarded, NoGuard, ReceiptFirst, LinkedHeld, Linked
  <2>q. QED BY <2>1, <2>2, <2>3, <2>4, <2>5, <2>6, <2>7, <2>8, <2>9 DEF IInv
<1>2. CASE SyncGuard(u)
  <2> USE <1>2 DEF SyncGuard
  <2>1. TypeOK'
    <3>1. guard' \in [call : Calls \cup {NoCall}, whole : BOOLEAN]
      BY <1>t DEF Typed
    <3>2. pc' \in [Calls -> Phases]
      BY <1>t DEF Typed, Phases, Unguarded, Guarded, Settled
    <3>q. QED BY <3>1, <3>2 DEF TypeOK
  <2>2. NoEffectYet'
    BY <1>t DEF Typed, NoEffectYet, Early, Unguarded
  <2>3. RequestFixed'
    BY <1>t DEF Typed, RequestFixed, Sounded, Spending, Nonce, Unguarded, Guarded,
        NoEffectYet, Early
  <2>4. SpentApart'
    BY <1>t DEF Typed, SpentApart, Spending, Nonce, Guarded, RequestFixed, Sounded,
        NoEffectYet, Early, Unguarded
  <2>5. GuardLeads'
    BY <1>t DEF Typed, GuardLeads, Leasing, Guarded, NoGuard, RecoveryAlone, Settled
  <2>6. LinkedHeld'
    BY <1>t DEF Typed, LinkedHeld, Linked
  <2>7. ReceiptFirst'
    BY <1>t DEF Typed, ReceiptFirst, RecoveryAlone, Settled, GuardLeads, Guarded
  <2>8. RecoveryAlone'
    BY <1>t DEF Typed, RecoveryAlone, Settled, Sandboxed, GuardLeads, Guarded,
        NoEffectYet, Early, Unguarded
  <2>9. UndecidedHeld'
    BY <1>t DEF Typed, UndecidedHeld, Undecided, NoEffectYet, Early, Unguarded,
        GuardLeads, Leasing, Guarded, NoGuard, ReceiptFirst, LinkedHeld, Linked
  <2>q. QED BY <2>1, <2>2, <2>3, <2>4, <2>5, <2>6, <2>7, <2>8, <2>9 DEF IInv
<1>3. CASE Bind(u)
  <2> USE <1>3 DEF Bind
  <2>1. TypeOK'
    <3>1. link' \in [Calls -> Links]
      BY <1>t DEF Typed, Links
    <3>2. pc' \in [Calls -> Phases]
      BY <1>t DEF Typed, Phases, Unguarded, Guarded, Settled
    <3>q. QED BY <3>1, <3>2 DEF TypeOK
  <2>2. NoEffectYet'
    BY <1>t DEF Typed, NoEffectYet, Early, Unguarded
  <2>3. RequestFixed'
    BY <1>t DEF Typed, RequestFixed, Sounded, Spending, Nonce, Unguarded, Guarded,
        NoEffectYet, Early
  <2>4. SpentApart'
    BY <1>t DEF Typed, SpentApart, Spending, Nonce, Guarded, RequestFixed, Sounded,
        NoEffectYet, Early, Unguarded
  <2>5. GuardLeads'
    BY <1>t DEF Typed, GuardLeads, Leasing, Guarded, NoGuard, RecoveryAlone, Settled
  <2>6. LinkedHeld'
    BY <1>t DEF Typed, LinkedHeld, Linked
  <2>7. ReceiptFirst'
    BY <1>t DEF Typed, ReceiptFirst, RecoveryAlone, Settled, GuardLeads, Guarded
  <2>8. RecoveryAlone'
    BY <1>t DEF Typed, RecoveryAlone, Settled, Sandboxed, GuardLeads, Guarded,
        NoEffectYet, Early, Unguarded
  <2>9. UndecidedHeld'
    BY <1>t DEF Typed, UndecidedHeld, Undecided, NoEffectYet, Early, Unguarded,
        GuardLeads, Leasing, Guarded, NoGuard, ReceiptFirst, LinkedHeld, Linked
  <2>q. QED BY <2>1, <2>2, <2>3, <2>4, <2>5, <2>6, <2>7, <2>8, <2>9 DEF IInv
<1>4. CASE Reauthorize(u)
  <2> USE <1>4 DEF Reauthorize
  <2>1. TypeOK'
    <3>1. pc' \in [Calls -> Phases]
      BY <1>t DEF Typed, Phases, Unguarded, Guarded, Settled
    <3>q. QED BY <3>1 DEF TypeOK
  <2>2. NoEffectYet'
    BY <1>t DEF Typed, NoEffectYet, Early, Unguarded
  <2>3. RequestFixed'
    BY <1>t DEF Typed, RequestFixed, Sounded, Spending, Nonce, Unguarded, Guarded,
        NoEffectYet, Early
  <2>4. SpentApart'
    BY <1>t DEF Typed, SpentApart, Spending, Nonce, Guarded, RequestFixed, Sounded,
        NoEffectYet, Early, Unguarded
  <2>5. GuardLeads'
    BY <1>t DEF Typed, GuardLeads, Leasing, Guarded, NoGuard, RecoveryAlone, Settled
  <2>6. LinkedHeld'
    BY <1>t DEF Typed, LinkedHeld, Linked
  <2>7. ReceiptFirst'
    BY <1>t DEF Typed, ReceiptFirst, RecoveryAlone, Settled, GuardLeads, Guarded
  <2>8. RecoveryAlone'
    BY <1>t DEF Typed, RecoveryAlone, Settled, Sandboxed, GuardLeads, Guarded,
        NoEffectYet, Early, Unguarded
  <2>9. UndecidedHeld'
    BY DEF UndecidedHeld, Undecided
  <2>q. QED BY <2>1, <2>2, <2>3, <2>4, <2>5, <2>6, <2>7, <2>8, <2>9 DEF IInv
<1>5. CASE Launch(u)
  <2> USE <1>5 DEF Launch
  <2>1. TypeOK'
    <3>1. update' \in [Calls -> Effects]
      BY <1>t DEF Typed, Effects
    <3>2. pc' \in [Calls -> Phases]
      BY <1>t DEF Typed, Phases, Unguarded, Guarded, Settled
    <3>q. QED BY <3>1, <3>2 DEF TypeOK
  <2>2. NoEffectYet'
    BY <1>t DEF Typed, NoEffectYet, Early, Unguarded
  <2>3. RequestFixed'
    BY <1>t DEF Typed, RequestFixed, Sounded, Spending, Nonce, Unguarded, Guarded,
        NoEffectYet, Early
  <2>4. SpentApart'
    BY <1>t DEF Typed, SpentApart, Spending, Nonce, Guarded, RequestFixed, Sounded,
        NoEffectYet, Early, Unguarded
  <2>5. GuardLeads'
    BY <1>t DEF Typed, GuardLeads, Leasing, Guarded, NoGuard, RecoveryAlone, Settled
  <2>6. LinkedHeld'
    BY <1>t DEF Typed, LinkedHeld, Linked
  <2>7. ReceiptFirst'
    BY <1>t DEF Typed, ReceiptFirst, RecoveryAlone, Settled, GuardLeads, Guarded
  <2>8. RecoveryAlone'
    BY <1>t DEF Typed, RecoveryAlone, Settled, Sandboxed, GuardLeads, Guarded,
        NoEffectYet, Early, Unguarded
  <2>9. UndecidedHeld'
    BY <1>t DEF Typed, UndecidedHeld, Undecided, NoEffectYet, Early, Unguarded,
        GuardLeads, Leasing, Guarded, NoGuard, ReceiptFirst, LinkedHeld, Linked
  <2>q. QED BY <2>1, <2>2, <2>3, <2>4, <2>5, <2>6, <2>7, <2>8, <2>9 DEF IInv
<1>6. CASE Acknowledge(u)
  <2> USE <1>6 DEF Acknowledge
  <2>1. TypeOK'
    <3>1. pc' \in [Calls -> Phases]
      BY <1>t DEF Typed, Phases, Unguarded, Guarded, Settled
    <3>q. QED BY <3>1 DEF TypeOK
  <2>2. NoEffectYet'
    BY <1>t DEF Typed, NoEffectYet, Early, Unguarded
  <2>3. RequestFixed'
    BY <1>t DEF Typed, RequestFixed, Sounded, Spending, Nonce, Unguarded, Guarded,
        NoEffectYet, Early
  <2>4. SpentApart'
    BY <1>t DEF Typed, SpentApart, Spending, Nonce, Guarded, RequestFixed, Sounded,
        NoEffectYet, Early, Unguarded
  <2>5. GuardLeads'
    BY <1>t DEF Typed, GuardLeads, Leasing, Guarded, NoGuard, RecoveryAlone, Settled
  <2>6. LinkedHeld'
    BY <1>t DEF Typed, LinkedHeld, Linked
  <2>7. ReceiptFirst'
    BY <1>t DEF Typed, ReceiptFirst, RecoveryAlone, Settled, GuardLeads, Guarded
  <2>8. RecoveryAlone'
    BY <1>t DEF Typed, RecoveryAlone, Settled, Sandboxed, GuardLeads, Guarded,
        NoEffectYet, Early, Unguarded
  <2>9. UndecidedHeld'
    BY DEF UndecidedHeld, Undecided
  <2>q. QED BY <2>1, <2>2, <2>3, <2>4, <2>5, <2>6, <2>7, <2>8, <2>9 DEF IInv
<1>7. CASE WriteReceipt(u)
  <2> USE <1>7 DEF WriteReceipt
  <2>1. TypeOK'
    <3>1. receipted' \subseteq Calls
      BY DEF TypeOK
    <3>2. pc' \in [Calls -> Phases]
      BY <1>t DEF Typed, Phases, Unguarded, Guarded, Settled
    <3>q. QED BY <3>1, <3>2 DEF TypeOK
  <2>2. NoEffectYet'
    BY <1>t DEF Typed, NoEffectYet, Early, Unguarded
  <2>3. RequestFixed'
    BY <1>t DEF Typed, RequestFixed, Sounded, Spending, Nonce, Unguarded, Guarded,
        NoEffectYet, Early
  <2>4. SpentApart'
    BY <1>t DEF Typed, SpentApart, Spending, Nonce, Guarded, RequestFixed, Sounded,
        NoEffectYet, Early, Unguarded
  <2>5. GuardLeads'
    BY <1>t DEF Typed, GuardLeads, Leasing, Guarded, NoGuard, RecoveryAlone, Settled
  <2>6. LinkedHeld'
    BY <1>t DEF Typed, LinkedHeld, Linked
  <2>7. ReceiptFirst'
    BY <1>t DEF Typed, ReceiptFirst, RecoveryAlone, Settled, GuardLeads, Guarded
  <2>8. RecoveryAlone'
    BY <1>t DEF Typed, RecoveryAlone, Settled, Sandboxed, GuardLeads, Guarded,
        NoEffectYet, Early, Unguarded
  <2>9. UndecidedHeld'
    BY <1>t DEF Typed, UndecidedHeld, Undecided, NoEffectYet, Early, Unguarded,
        GuardLeads, Leasing, Guarded, NoGuard, ReceiptFirst, LinkedHeld, Linked
  <2>q. QED BY <2>1, <2>2, <2>3, <2>4, <2>5, <2>6, <2>7, <2>8, <2>9 DEF IInv
<1>8. CASE Resolve(u)
  <2> USE <1>8 DEF Resolve
  <2>1. TypeOK'
    <3>1. link' \in [Calls -> Links]
      BY <1>t DEF Typed, Links
    <3>2. slots' \subseteq Calls
      BY DEF TypeOK
    <3>3. pc' \in [Calls -> Phases]
      BY <1>t DEF Typed, Phases, Unguarded, Guarded, Settled
    <3>q. QED BY <3>1, <3>2, <3>3 DEF TypeOK
  <2>2. NoEffectYet'
    BY <1>t DEF Typed, NoEffectYet, Early, Unguarded
  <2>3. RequestFixed'
    BY <1>t DEF Typed, RequestFixed, Sounded, Spending, Nonce, Unguarded, Guarded,
        NoEffectYet, Early
  <2>4. SpentApart'
    BY <1>t DEF Typed, SpentApart, Spending, Nonce, Guarded, RequestFixed, Sounded,
        NoEffectYet, Early, Unguarded
  <2>5. GuardLeads'
    BY <1>t DEF Typed, GuardLeads, Leasing, Guarded, NoGuard, RecoveryAlone, Settled
  <2>6. LinkedHeld'
    BY <1>t DEF Typed, LinkedHeld, Linked
  <2>7. ReceiptFirst'
    BY <1>t DEF Typed, ReceiptFirst, RecoveryAlone, Settled, GuardLeads, Guarded
  <2>8. RecoveryAlone'
    BY <1>t DEF Typed, RecoveryAlone, Settled, Sandboxed, GuardLeads, Guarded,
        NoEffectYet, Early, Unguarded
  <2>9. UndecidedHeld'
    BY <1>t DEF Typed, UndecidedHeld, Undecided, NoEffectYet, Early, Unguarded,
        GuardLeads, Leasing, Guarded, NoGuard, ReceiptFirst, LinkedHeld, Linked
  <2>q. QED BY <2>1, <2>2, <2>3, <2>4, <2>5, <2>6, <2>7, <2>8, <2>9 DEF IInv
<1>9. CASE RemoveGuard(u)
  <2> USE <1>9 DEF RemoveGuard, Unlease, NoGuard
  <2>1. TypeOK'
    <3>1. guard' \in [call : Calls \cup {NoCall}, whole : BOOLEAN]
      BY <1>t DEF Typed
    <3>2. lease' \in Calls \cup {NoCall}
      BY DEF TypeOK
    <3>3. pc' \in [Calls -> Phases]
      BY <1>t DEF Typed, Phases, Unguarded, Guarded, Settled
    <3>q. QED BY <3>1, <3>2, <3>3 DEF TypeOK
  <2>2. NoEffectYet'
    BY <1>t DEF Typed, NoEffectYet, Early, Unguarded
  <2>3. RequestFixed'
    BY <1>t DEF Typed, RequestFixed, Sounded, Spending, Nonce, Unguarded, Guarded,
        NoEffectYet, Early
  <2>4. SpentApart'
    BY <1>t DEF Typed, SpentApart, Spending, Nonce, Guarded, RequestFixed, Sounded,
        NoEffectYet, Early, Unguarded
  <2>5. GuardLeads'
    BY <1>t DEF Typed, GuardLeads, Leasing, Guarded, NoGuard, RecoveryAlone, Settled
  <2>6. LinkedHeld'
    BY <1>t DEF Typed, LinkedHeld, Linked
  <2>7. ReceiptFirst'
    BY <1>t DEF Typed, ReceiptFirst, RecoveryAlone, Settled, GuardLeads, Guarded
  <2>8. RecoveryAlone'
    BY <1>t DEF Typed, RecoveryAlone, Settled, Sandboxed, GuardLeads, Guarded,
        NoEffectYet, Early, Unguarded
  <2>9. UndecidedHeld'
    BY <1>t DEF Typed, UndecidedHeld, Undecided, NoEffectYet, Early, Unguarded,
        GuardLeads, Leasing, Guarded, NoGuard, ReceiptFirst, LinkedHeld, Linked
  <2>q. QED BY <2>1, <2>2, <2>3, <2>4, <2>5, <2>6, <2>7, <2>8, <2>9 DEF IInv
<1>10. CASE Interrupt(u)
  <2> USE <1>10 DEF Interrupt, Unlease
  <2>1. TypeOK'
    <3>1. pc' \in [Calls -> Phases]
      BY <1>t DEF Typed, Phases, Unguarded, Guarded, Settled
    <3>2. lease' \in Calls \cup {NoCall}
      BY DEF TypeOK
    <3>3. guard' \in [call : Calls \cup {NoCall}, whole : BOOLEAN]
      BY <1>t DEF Typed
    <3>q. QED BY <3>1, <3>2, <3>3 DEF TypeOK
  <2>2. NoEffectYet'
    BY <1>t DEF Typed, NoEffectYet, Early, Unguarded
  <2>3. RequestFixed'
    BY <1>t DEF Typed, RequestFixed, Sounded, Spending, Nonce, Unguarded, Guarded,
        NoEffectYet, Early
  <2>4. SpentApart'
    BY <1>t DEF Typed, SpentApart, Spending, Nonce, Guarded, RequestFixed, Sounded,
        NoEffectYet, Early, Unguarded
  <2>5. GuardLeads'
    BY <1>t DEF Typed, GuardLeads, Leasing, Guarded, NoGuard, RecoveryAlone, Settled
  <2>6. LinkedHeld'
    BY <1>t DEF Typed, LinkedHeld, Linked
  <2>7. ReceiptFirst'
    BY <1>t DEF Typed, ReceiptFirst, RecoveryAlone, Settled, GuardLeads, Guarded
  <2>8. RecoveryAlone'
    BY <1>t DEF Typed, RecoveryAlone, Settled, Sandboxed, GuardLeads, Guarded,
        NoEffectYet, Early, Unguarded
  <2>9. UndecidedHeld'
    <3>1. ASSUME NEW c \in Calls, guard = [call |-> c, whole |-> TRUE]
          PROVE  guard' = [call |-> c, whole |-> TRUE]
      <4>1. guard.call = c /\ guard.whole = TRUE
        BY <3>1
      <4>2. guard'.call = c /\ guard'.whole = TRUE
        BY <1>t, <4>1 DEF Typed
      <4>3. guard' \in [call : Calls \cup {NoCall}, whole : BOOLEAN]
        BY <1>t DEF Typed
      <4>q. QED BY <4>2, <4>3
    <3>q. QED BY <3>1 DEF UndecidedHeld, Undecided
  <2>q. QED BY <2>1, <2>2, <2>3, <2>4, <2>5, <2>6, <2>7, <2>8, <2>9 DEF IInv
<1>11. CASE UpdateApplies(u)
  <2> USE <1>11 DEF UpdateApplies
  <2>1. TypeOK'
    <3>1. tip' \in [Kinds -> Tips]
      <4>1. req[u] \in Requests
        BY DEF RequestFixed, Sounded, Spending
      <4>q. QED BY <4>1 DEF TypeOK, Requests
    <3>2. update' \in [Calls -> Effects]
      BY <1>t DEF Typed, Effects
    <3>q. QED BY <3>1, <3>2 DEF TypeOK
  <2>2. NoEffectYet'
    BY <1>t DEF Typed, NoEffectYet, Early, Unguarded
  <2>3. RequestFixed'
    BY <1>t DEF Typed, RequestFixed, Sounded, Spending, Nonce, Unguarded, Guarded,
        NoEffectYet, Early
  <2>4. SpentApart'
    BY <1>t DEF Typed, SpentApart, Spending, Nonce, Guarded, RequestFixed, Sounded,
        NoEffectYet, Early, Unguarded
  <2>5. RecoveryAlone'
    BY <1>t DEF Typed, RecoveryAlone, Settled, Sandboxed, GuardLeads, Guarded,
        NoEffectYet, Early, Unguarded
  <2>6. UndecidedHeld'
    BY <1>t DEF Typed, UndecidedHeld, Undecided, NoEffectYet, Early, Unguarded,
        GuardLeads, Leasing, Guarded, NoGuard, ReceiptFirst, LinkedHeld, Linked
  <2>7. GuardLeads' /\ LinkedHeld' /\ ReceiptFirst'
    BY DEF GuardLeads, Leasing, Guarded, NoGuard, LinkedHeld, Linked, ReceiptFirst
  <2>q. QED BY <2>1, <2>2, <2>3, <2>4, <2>5, <2>6, <2>7 DEF IInv
<1>12. CASE UpdateFails(u)
  <2> USE <1>12 DEF UpdateFails
  <2>1. TypeOK'
    <3>1. update' \in [Calls -> Effects]
      BY <1>t DEF Typed, Effects
    <3>q. QED BY <3>1 DEF TypeOK
  <2>2. NoEffectYet'
    BY <1>t DEF Typed, NoEffectYet, Early, Unguarded
  <2>3. RequestFixed'
    BY <1>t DEF Typed, RequestFixed, Sounded, Spending, Nonce, Unguarded, Guarded,
        NoEffectYet, Early
  <2>4. SpentApart'
    BY <1>t DEF Typed, SpentApart, Spending, Nonce, Guarded, RequestFixed, Sounded,
        NoEffectYet, Early, Unguarded
  <2>5. RecoveryAlone'
    BY <1>t DEF Typed, RecoveryAlone, Settled, Sandboxed, GuardLeads, Guarded,
        NoEffectYet, Early, Unguarded
  <2>6. UndecidedHeld'
    BY <1>t DEF Typed, UndecidedHeld, Undecided, NoEffectYet, Early, Unguarded,
        GuardLeads, Leasing, Guarded, NoGuard, ReceiptFirst, LinkedHeld, Linked
  <2>7. GuardLeads' /\ LinkedHeld' /\ ReceiptFirst'
    BY DEF GuardLeads, Leasing, Guarded, NoGuard, LinkedHeld, Linked, ReceiptFirst
  <2>q. QED BY <2>1, <2>2, <2>3, <2>4, <2>5, <2>6, <2>7 DEF IInv
<1>q. QED BY <1>1, <1>2, <1>3, <1>4, <1>5, <1>6, <1>7, <1>8, <1>9, <1>10, <1>11, <1>12

(* ... and so do the gateway, the owner, recovery and everybody else.       *)
LEMMA OthersHold ==
  ASSUME IInv,
         (\E r \in Receipts : Sign(r)) \/ GatewayDies \/ StopService \/ Start \/ Recover
           \/ RecoveryDies \/ Tick \/ EditPolicy \/ (\E k \in Kinds, t \in Commits : MoveTip(k, t))
  PROVE  IInv'
<1>t. Typed
  BY TypeGives DEF IInv
<1> USE DEF IInv, world, call, capacity, outcome, recovery
<1>1. ASSUME NEW r \in Receipts, Sign(r) PROVE IInv'
  <2> USE <1>1 DEF Sign, Issue
  <2>1. TypeOK'
    <3>1. signed' \in [Receipts -> [req : Asked, at : 0..MaxClock]]
      <4>1. PICK k \in {Kind[c] : c \in Calls \ Local} : Issue(r, Proposal(k, tip["commit"]))
        OBVIOUS
      <4>2. k \in Kinds /\ tip["commit"] \in Tips
        BY GitAssumption DEF TypeOK, Kinds
      <4>3. Proposal(k, tip["commit"]) \in Asked
        BY <4>2, ProposalIsRequest DEF Asked
      <4>4. clock \in 0..MaxClock
        BY DEF TypeOK
      <4>q. QED BY <1>t, <4>1, <4>3, <4>4 DEF Typed
    <3>q. QED BY <3>1 DEF TypeOK
  <2>2. RequestFixed'
    BY <1>t DEF Typed, RequestFixed, Sounded, Spending, Nonce, Unguarded, Guarded,
        NoEffectYet, Early
  <2>3. NoEffectYet' /\ SpentApart' /\ GuardLeads' /\ LinkedHeld' /\ ReceiptFirst'
        /\ RecoveryAlone' /\ UndecidedHeld'
    BY DEF NoEffectYet, Early, Unguarded, SpentApart, Spending, Nonce, Guarded,
        GuardLeads, Leasing, NoGuard, LinkedHeld, Linked, ReceiptFirst, RecoveryAlone,
        Settled, Sandboxed, UndecidedHeld, Undecided
  <2>q. QED BY <2>1, <2>2, <2>3 DEF IInv
<1>2. CASE GatewayDies
  <2> USE <1>2 DEF GatewayDies, Down
  <2>1. TypeOK'
    <3>1. up' \in BOOLEAN
      OBVIOUS
    <3>2. lease' \in Calls \cup {NoCall}
      BY DEF TypeOK
    <3>3. pc' \in [Calls -> Phases]
      BY <1>t DEF Typed, Phases, Unguarded, Guarded, Settled
    <3>4. crashes' \in 0..MaxCrashes
      BY GitAssumption DEF TypeOK
    <3>q. QED BY <3>1, <3>2, <3>3, <3>4 DEF TypeOK
  <2>2. NoEffectYet'
    BY <1>t DEF Typed, NoEffectYet, Early, Unguarded
  <2>3. RequestFixed'
    BY <1>t DEF Typed, RequestFixed, Sounded, Spending, Nonce, Unguarded, Guarded,
        NoEffectYet, Early
  <2>4. SpentApart'
    BY <1>t DEF Typed, SpentApart, Spending, Nonce, Guarded, RequestFixed, Sounded,
        NoEffectYet, Early, Unguarded
  <2>5. GuardLeads'
    BY <1>t DEF Typed, GuardLeads, Leasing, Guarded, NoGuard, RecoveryAlone, Settled
  <2>6. LinkedHeld'
    BY <1>t DEF Typed, LinkedHeld, Linked
  <2>7. ReceiptFirst'
    BY <1>t DEF Typed, ReceiptFirst, RecoveryAlone, Settled, GuardLeads, Guarded
  <2>8. RecoveryAlone'
    BY <1>t DEF Typed, RecoveryAlone, Settled, Sandboxed
  <2>9. UndecidedHeld'
    BY DEF UndecidedHeld, Undecided
  <2>q. QED BY <2>1, <2>2, <2>3, <2>4, <2>5, <2>6, <2>7, <2>8, <2>9 DEF IInv
<1>3. CASE StopService
  <2> USE <1>3 DEF StopService, Down
  <2>1. TypeOK'
    <3>1. up' \in BOOLEAN
      OBVIOUS
    <3>2. lease' \in Calls \cup {NoCall}
      BY DEF TypeOK
    <3>3. pc' \in [Calls -> Phases]
      BY <1>t DEF Typed, Phases, Unguarded, Guarded, Settled
    <3>q. QED BY <3>1, <3>2, <3>3 DEF TypeOK
  <2>2. NoEffectYet'
    BY <1>t DEF Typed, NoEffectYet, Early, Unguarded
  <2>3. RequestFixed'
    BY <1>t DEF Typed, RequestFixed, Sounded, Spending, Nonce, Unguarded, Guarded,
        NoEffectYet, Early
  <2>4. SpentApart'
    BY <1>t DEF Typed, SpentApart, Spending, Nonce, Guarded, RequestFixed, Sounded,
        NoEffectYet, Early, Unguarded
  <2>5. GuardLeads'
    BY <1>t DEF Typed, GuardLeads, Leasing, Guarded, NoGuard, RecoveryAlone, Settled
  <2>6. LinkedHeld'
    BY <1>t DEF Typed, LinkedHeld, Linked
  <2>7. ReceiptFirst'
    BY <1>t DEF Typed, ReceiptFirst, RecoveryAlone, Settled, GuardLeads, Guarded
  <2>8. RecoveryAlone'
    BY <1>t DEF Typed, RecoveryAlone, Settled, Sandboxed
  <2>9. UndecidedHeld'
    BY DEF UndecidedHeld, Undecided
  <2>q. QED BY <2>1, <2>2, <2>3, <2>4, <2>5, <2>6, <2>7, <2>8, <2>9 DEF IInv
<1>4. CASE Start
  <2> USE <1>4 DEF Start, LoadPolicy
  <2>1. TypeOK'
    <3>1. up' \in BOOLEAN
      OBVIOUS
    <3>2. loaded' \in 0..1
      BY DEF TypeOK
    <3>3. update' \in [Calls -> Effects]
      BY <1>t DEF Typed, Effects
    <3>4. stray' \subseteq Calls
      BY DEF TypeOK
    <3>5. slots' \subseteq Calls
      BY DEF TypeOK
    <3>q. QED BY <3>1, <3>2, <3>3, <3>4, <3>5 DEF TypeOK
  <2>2. NoEffectYet'
    BY <1>t DEF Typed, NoEffectYet, Early, Unguarded
  <2>3. RequestFixed'
    BY <1>t DEF Typed, RequestFixed, Sounded, Spending, Nonce, Unguarded, Guarded,
        NoEffectYet, Early
  <2>4. SpentApart'
    BY <1>t DEF Typed, SpentApart, Spending, Nonce, Guarded, RequestFixed, Sounded,
        NoEffectYet, Early, Unguarded
  <2>5. LinkedHeld'
    BY <1>t DEF Typed, LinkedHeld, Linked
  <2>6. ReceiptFirst'
    BY <1>t DEF Typed, ReceiptFirst, RecoveryAlone, Settled, GuardLeads, Guarded
  <2>7. RecoveryAlone'
    BY <1>t DEF Typed, RecoveryAlone, Sandboxed
  <2>8. UndecidedHeld'
    BY <1>t DEF Typed, UndecidedHeld, Undecided, NoEffectYet, Early, Unguarded,
        GuardLeads, Leasing, Guarded, NoGuard, ReceiptFirst, LinkedHeld, Linked
  <2>9. GuardLeads'
    BY DEF GuardLeads, Leasing, Guarded, NoGuard
  <2>q. QED BY <2>1, <2>2, <2>3, <2>4, <2>5, <2>6, <2>7, <2>8, <2>9 DEF IInv
<1>5. CASE Plan
  <2> USE <1>5 DEF Plan, Recoverable, GuardWhole, Observed
  <2>1. TypeOK'
    <3>1. plan' \in [call : Calls \cup {NoCall}, tip : Tips, link : Links]
      <4>1. guard.call \in Calls
        BY <1>t, WholeGuardHasCall
      <4>2. tip[Kind[guard.call]] \in Tips /\ link[guard.call] \in Links
        BY <1>t, <4>1, GitAssumption DEF Typed, TypeOK
      <4>q. QED BY <4>1, <4>2
    <3>2. rec' \in {"idle", "planned", "receipted", "resolved"}
      OBVIOUS
    <3>q. QED BY <3>1, <3>2 DEF TypeOK
  <2>2. ReceiptFirst'
    BY <1>t DEF Typed, ReceiptFirst, RecoveryAlone, Settled, GuardLeads, Guarded
  <2>3. NoEffectYet' /\ RequestFixed' /\ SpentApart' /\ GuardLeads' /\ LinkedHeld'
        /\ RecoveryAlone' /\ UndecidedHeld'
    BY DEF NoEffectYet, Early, Unguarded, RequestFixed, Sounded, Spending, Nonce,
        Guarded, SpentApart, GuardLeads, Leasing, NoGuard, LinkedHeld, Linked,
        RecoveryAlone, Settled, Sandboxed, UndecidedHeld, Undecided
  <2>q. QED BY <2>1, <2>2, <2>3 DEF IInv
<1>6. CASE Apply
  <2> USE <1>6 DEF Apply, Quiescent, Recoverable, GuardWhole
  <2>1. TypeOK'
    <3>1. recovered' \subseteq Calls
      BY <1>t, WholeGuardHasCall DEF Typed
    <3>2. rec' \in {"idle", "planned", "receipted", "resolved"}
      OBVIOUS
    <3>q. QED BY <3>1, <3>2 DEF TypeOK
  <2>2. ReceiptFirst'
    BY <1>t DEF Typed, ReceiptFirst, RecoveryAlone, Settled, GuardLeads, Guarded
  <2>3. RecoveryAlone'
    BY <1>t DEF Typed, RecoveryAlone, Settled, Sandboxed, GuardLeads, Guarded,
        NoEffectYet, Early, Unguarded
  <2>4. UndecidedHeld'
    BY <1>t DEF Typed, UndecidedHeld, Undecided, NoEffectYet, Early, Unguarded,
        GuardLeads, Leasing, Guarded, NoGuard, ReceiptFirst, LinkedHeld, Linked
  <2>5. NoEffectYet' /\ RequestFixed' /\ SpentApart' /\ GuardLeads' /\ LinkedHeld'
    BY DEF NoEffectYet, Early, Unguarded, RequestFixed, Sounded, Spending, Nonce,
        Guarded, SpentApart, GuardLeads, Leasing, NoGuard, LinkedHeld, Linked
  <2>q. QED BY <2>1, <2>2, <2>3, <2>4, <2>5 DEF IInv
<1>7. CASE ResolveRecovered
  <2> USE <1>7 DEF ResolveRecovered
  <2>1. TypeOK'
    <3>1. link' \in [Calls -> Links]
      BY <1>t DEF Typed, Links
    <3>2. slots' \subseteq Calls
      BY DEF TypeOK
    <3>3. rec' \in {"idle", "planned", "receipted", "resolved"}
      OBVIOUS
    <3>q. QED BY <3>1, <3>2, <3>3 DEF TypeOK
  <2>2. LinkedHeld'
    BY DEF LinkedHeld, Linked, ReceiptFirst, RecoveryAlone, Settled
  <2>3. ReceiptFirst'
    BY <1>t DEF Typed, ReceiptFirst, RecoveryAlone, Settled, GuardLeads, Guarded
  <2>4. UndecidedHeld'
    BY <1>t DEF Typed, UndecidedHeld, Undecided, NoEffectYet, Early, Unguarded,
        GuardLeads, Leasing, Guarded, NoGuard, ReceiptFirst, LinkedHeld, Linked
  <2>5. NoEffectYet' /\ RequestFixed' /\ SpentApart' /\ GuardLeads' /\ RecoveryAlone'
    BY DEF NoEffectYet, Early, Unguarded, RequestFixed, Sounded, Spending, Nonce,
        Guarded, SpentApart, GuardLeads, Leasing, NoGuard, RecoveryAlone, Settled, Sandboxed
  <2>q. QED BY <2>1, <2>2, <2>3, <2>4, <2>5 DEF IInv
<1>8. CASE RemoveRecovered
  <2> USE <1>8 DEF RemoveRecovered, NoGuard, NoPlan
  <2>1. TypeOK'
    <3>1. guard' \in [call : Calls \cup {NoCall}, whole : BOOLEAN]
      BY <1>t DEF Typed
    <3>2. rec' \in {"idle", "planned", "receipted", "resolved"}
      OBVIOUS
    <3>3. plan' \in [call : Calls \cup {NoCall}, tip : Tips, link : Links]
      BY DEF TypeOK, Tips, Links
    <3>q. QED BY <3>1, <3>2, <3>3 DEF TypeOK
  <2>2. GuardLeads'
    BY <1>t DEF Typed, GuardLeads, Leasing, Guarded, ReceiptFirst, RecoveryAlone, Settled
  <2>3. ReceiptFirst'
    BY <1>t DEF Typed, ReceiptFirst, RecoveryAlone, Settled, GuardLeads, Guarded
  <2>4. UndecidedHeld'
    BY <1>t DEF Typed, UndecidedHeld, Undecided, NoEffectYet, Early, Unguarded,
        GuardLeads, Leasing, Guarded, NoGuard, ReceiptFirst, LinkedHeld, Linked
  <2>5. NoEffectYet' /\ RequestFixed' /\ SpentApart' /\ LinkedHeld' /\ RecoveryAlone'
    BY DEF NoEffectYet, Early, Unguarded, RequestFixed, Sounded, Spending, Nonce,
        Guarded, SpentApart, LinkedHeld, Linked, RecoveryAlone, Settled, Sandboxed
  <2>q. QED BY <2>1, <2>2, <2>3, <2>4, <2>5 DEF IInv
<1>9. CASE RecoveryDies
  <2> USE <1>9 DEF RecoveryDies, NoPlan
  <2>1. TypeOK'
    <3>1. rec' \in {"idle", "planned", "receipted", "resolved"}
      OBVIOUS
    <3>2. plan' \in [call : Calls \cup {NoCall}, tip : Tips, link : Links]
      BY DEF TypeOK, Tips, Links
    <3>3. crashes' \in 0..MaxCrashes
      BY GitAssumption DEF TypeOK
    <3>q. QED BY <3>1, <3>2, <3>3 DEF TypeOK
  <2>2. ReceiptFirst'
    BY <1>t DEF Typed, ReceiptFirst, RecoveryAlone, Settled, GuardLeads, Guarded
  <2>3. NoEffectYet' /\ RequestFixed' /\ SpentApart' /\ GuardLeads' /\ LinkedHeld'
        /\ RecoveryAlone' /\ UndecidedHeld'
    BY DEF NoEffectYet, Early, Unguarded, RequestFixed, Sounded, Spending, Nonce,
        Guarded, SpentApart, GuardLeads, Leasing, NoGuard, LinkedHeld, Linked,
        RecoveryAlone, Settled, Sandboxed, UndecidedHeld, Undecided
  <2>q. QED BY <2>1, <2>2, <2>3 DEF IInv
<1>10. CASE Tick
  <2> USE <1>10 DEF Tick
  <2>1. TypeOK'
    <3>1. clock' \in 0..MaxClock
      BY GitAssumption DEF TypeOK
    <3>q. QED BY <3>1 DEF TypeOK
  <2>2. NoEffectYet' /\ RequestFixed' /\ SpentApart' /\ GuardLeads' /\ LinkedHeld'
        /\ ReceiptFirst' /\ RecoveryAlone' /\ UndecidedHeld'
    BY DEF NoEffectYet, Early, Unguarded, RequestFixed, Sounded, Spending, Nonce,
        Guarded, SpentApart, GuardLeads, Leasing, NoGuard, LinkedHeld, Linked,
        ReceiptFirst, RecoveryAlone, Settled, Sandboxed, UndecidedHeld, Undecided
  <2>q. QED BY <2>1, <2>2 DEF IInv
<1>11. CASE EditPolicy
  <2> USE <1>11 DEF EditPolicy
  <2>1. TypeOK'
    <3>1. policy' \in 0..1
      BY DEF TypeOK
    <3>2. moves' \in 0..MaxMoves
      BY GitAssumption DEF TypeOK
    <3>q. QED BY <3>1, <3>2 DEF TypeOK
  <2>2. NoEffectYet' /\ RequestFixed' /\ SpentApart' /\ GuardLeads' /\ LinkedHeld'
        /\ ReceiptFirst' /\ RecoveryAlone' /\ UndecidedHeld'
    BY DEF NoEffectYet, Early, Unguarded, RequestFixed, Sounded, Spending, Nonce,
        Guarded, SpentApart, GuardLeads, Leasing, NoGuard, LinkedHeld, Linked,
        ReceiptFirst, RecoveryAlone, Settled, Sandboxed, UndecidedHeld, Undecided
  <2>q. QED BY <2>1, <2>2 DEF IInv
<1>12. ASSUME NEW k \in Kinds, NEW t \in Commits, MoveTip(k, t) PROVE IInv'
  <2> USE <1>12 DEF MoveTip
  <2>1. TypeOK'
    <3>1. tip' \in [Kinds -> Tips]
      BY DEF TypeOK, Tips
    <3>2. moves' \in 0..MaxMoves
      BY GitAssumption DEF TypeOK
    <3>q. QED BY <3>1, <3>2 DEF TypeOK
  <2>2. NoEffectYet' /\ RequestFixed' /\ SpentApart' /\ GuardLeads' /\ LinkedHeld'
        /\ ReceiptFirst' /\ RecoveryAlone' /\ UndecidedHeld'
    BY DEF NoEffectYet, Early, Unguarded, RequestFixed, Sounded, Spending, Nonce,
        Guarded, SpentApart, GuardLeads, Leasing, NoGuard, LinkedHeld, Linked,
        ReceiptFirst, RecoveryAlone, Settled, Sandboxed, UndecidedHeld, Undecided
  <2>q. QED BY <2>1, <2>2 DEF IInv
<1>q. QED BY <1>1, <1>2, <1>3, <1>4, <1>5, <1>6, <1>7, <1>8, <1>9, <1>10, <1>11,
    <1>12 DEF Recover

(* Every step keeps the invariant.                                          *)
LEMMA NextHolds == IInv /\ [Next]_vars => IInv'
<1> SUFFICES ASSUME IInv, [Next]_vars PROVE IInv'
  OBVIOUS
<1>1. CASE UNCHANGED vars
  BY <1>1 DEF vars, IInv, TypeOK, NoEffectYet, RequestFixed, Spending, Sounded, Nonce,
      SpentApart,
      GuardLeads, LinkedHeld, ReceiptFirst, RecoveryAlone, UndecidedHeld, Undecided
<1>q. QED BY <1>1, ProposingHolds, EffectHolds, OthersHold DEF Next, Step

(* The strengthening the safety theorems below rest on is invariant.        *)
THEOREM InvariantHolds == Spec => []IInv
BY InitHolds, NextHolds, PTL DEF Spec

-----------------------------------------------------------------------------
(* The state keeps its documented form.                                     *)
THEOREM TypeCorrect == Spec => []TypeOK
<1>1. IInv => TypeOK
  BY DEF IInv
<1>q. QED BY <1>1, InvariantHolds, PTL

(* Two calls never both start an effect on one approval, whatever the order
   of claims, errors, deaths and restarts (git_approvals.py).               *)
THEOREM SingleUse == Spec => []ApprovalsSpentOnce
<1>1. IInv => ApprovalsSpentOnce
  BY DEF IInv, SpentApart, Spending, ApprovalsSpentOnce
<1>q. QED BY <1>1, InvariantHolds, PTL

(* An effect nobody has decided keeps its guard readable on disk, its slot and
   the link between them.                                                   *)
THEOREM UncertainStaysHeld == Spec => []UndecidedHeld
<1>1. IInv => UndecidedHeld
  BY DEF IInv
<1>q. QED BY <1>1, InvariantHolds, PTL

(* The steps of one call leave the references, and only Claim the ledger.   *)
LEMMA CallKeeps ==
  ASSUME NEW c \in Calls, Step(c)
  PROVE  UNCHANGED <<tip, moves>> /\ (Claim(c) \/ UNCHANGED claims)
<1> USE DEF world
<1>1. CASE Admit(c) \/ Authorize(c) \/ Lease(c) \/ Inspect(c) \/ Stray(c) \/ Propose(c)
  BY <1>1 DEF Admit, Authorize, Lease, Inspect, Stray, Propose
<1>2. CASE Verify(c) \/ Claim(c) \/ Fail(c) \/ OpenGuard(c) \/ SyncGuard(c) \/ Bind(c)
  BY <1>2 DEF Verify, Claim, Fail, OpenGuard, SyncGuard, Bind
<1>3. CASE \/ Reauthorize(c) \/ Launch(c) \/ Acknowledge(c) \/ WriteReceipt(c) \/ Resolve(c)
           \/ RemoveGuard(c) \/ Interrupt(c)
  BY <1>3 DEF Reauthorize, Launch, Acknowledge, WriteReceipt, Resolve, RemoveGuard,
      Interrupt
<1>q. QED BY <1>1, <1>2, <1>3 DEF Step

(* Everybody else moves a reference only as another writer, and no nonce.   *)
LEMMA OthersKeep ==
  ASSUME TypeOK, NEW k \in Kinds,
         \/ \E r \in Receipts : Sign(r)
         \/ GatewayDies \/ StopService \/ Start \/ Recover \/ RecoveryDies \/ Tick \/ EditPolicy
         \/ \E j \in Kinds, t \in Commits : MoveTip(j, t)
         \/ UNCHANGED vars
  PROVE  (UNCHANGED tip \/ moves' # moves) /\ UNCHANGED claims
<1> USE DEF world
<1>1. CASE (\E r \in Receipts : Sign(r)) \/ Tick \/ EditPolicy \/ UNCHANGED vars
  BY <1>1 DEF Sign, Tick, EditPolicy, vars
<1>2. CASE GatewayDies \/ StopService \/ Start \/ RecoveryDies \/ Recover
  BY <1>2 DEF GatewayDies, StopService, Down, Start, RecoveryDies, Recover, Plan, Apply,
      ResolveRecovered, RemoveRecovered
<1>3. CASE \E j \in Kinds, t \in Commits : MoveTip(j, t)
  BY <1>3 DEF MoveTip, TypeOK
<1>q. QED BY <1>1, <1>2, <1>3

(* A step that moves a reference or spends a nonce does so as approved.     *)
LEMMA StepApproved == IInv /\ [Next]_vars => EffectApproved
<1> SUFFICES ASSUME IInv, [Next]_vars PROVE EffectApproved
  OBVIOUS
<1>t. Typed /\ TypeOK
  BY TypeGives DEF IInv
<1>1. ASSUME NEW k \in Kinds, tip'[k] # tip[k], moves' = moves
      PROVE  \E c \in Calls :
               /\ Kind[c] = k /\ update[c] = "running" /\ claims[Nonce(c)] = req[c]
               /\ tip[k] = req[c].old /\ tip'[k] = req[c].new
               /\ k = "push" => FastForward(tip[k], tip'[k])
               /\ c \notin Local => signed[receipt[c]].req = req[c]
  <2>1. PICK c \in Calls : UpdateApplies(c)
    BY <1>t, <1>1, CallKeeps, OthersKeep DEF Next, UpdateFails, world
  <2>2. k = Kind[c] /\ tip[k] = req[c].old /\ tip'[k] = req[c].new /\ update[c] = "running"
    BY <1>t, <1>1, <2>1 DEF UpdateApplies, TypeOK
  <2>3. /\ claims[Nonce(c)] = req[c] /\ (c \notin Local => signed[receipt[c]].req = req[c])
        /\ Kind[c] = "push" => FastForward(req[c].old, req[c].new)
    BY <2>2 DEF IInv, RequestFixed, Sounded, Spending
  <2>q. QED BY <2>2, <2>3
<1>2. ASSUME NEW r \in Receipts, claims[r] = NoRequest, claims'[r] # NoRequest
      PROVE  Unexpired(r)
  <2>1. PICK c \in Calls : Claim(c)
    <3>1. \A c \in Calls : UpdateApplies(c) \/ UpdateFails(c) => UNCHANGED claims
      BY DEF UpdateApplies, UpdateFails
    <3>2. "push" \in Kinds
      BY DEF Kinds
    <3>q. QED BY <1>t, <1>2, <3>1, <3>2, CallKeeps, OthersKeep DEF Next
  <2>2. r = Nonce(c) /\ StillApproved(c)
    BY <1>t, <1>2, <2>1 DEF Claim, Typed
  <2>3. c \notin Local
    BY <2>2, GitAssumption DEF Nonce
  <2>q. QED BY <2>2, <2>3 DEF Nonce, StillApproved
<1>q. QED BY <1>1, <1>2 DEF EffectApproved

(* The references move only as a claimed request says, a push only forward,
   a receipt's request only as it was signed and while it had not expired
   (send_push and claim of git_pushes.py and git_approvals.py).             *)
THEOREM ExactlyAsApproved == Spec => EffectsAsApproved
BY InvariantHolds, StepApproved, PTL DEF Spec, EffectsAsApproved

(* No step applies an effect the owner has acknowledged.                    *)
LEMMA StepIsNotLate == IInv /\ [Next]_vars => NoLateEffect
<1> SUFFICES ASSUME IInv, [Next]_vars, NEW c \in recovered, Sandboxed(c)
             PROVE  update'[c] = update[c] \/ update'[c] = "failed"
  BY DEF NoLateEffect
<1>t. Typed
  BY TypeGives DEF IInv
<1>1. c \in Calls /\ pc[c] \in Settled /\ update[c] # "running"
  BY <1>t DEF Typed, IInv, RecoveryAlone
<1>2. ASSUME NEW u \in Calls, Step(u) PROVE update'[c] = update[c]
  <2>1. CASE Launch(u)
    BY <1>t, <1>1, <2>1 DEF Launch, Typed, Settled
  <2>2. CASE Admit(u) \/ Authorize(u) \/ Lease(u) \/ Inspect(u) \/ Stray(u) \/ Propose(u)
    BY <2>2 DEF Admit, Authorize, Lease, Inspect, Stray, Propose
  <2>3. CASE Verify(u) \/ Claim(u) \/ Fail(u) \/ OpenGuard(u) \/ SyncGuard(u) \/ Bind(u)
    BY <2>3 DEF Verify, Claim, Fail, OpenGuard, SyncGuard, Bind
  <2>4. CASE \/ Reauthorize(u) \/ Acknowledge(u) \/ WriteReceipt(u) \/ Resolve(u)
             \/ RemoveGuard(u) \/ Interrupt(u)
    BY <2>4 DEF Reauthorize, Acknowledge, WriteReceipt, Resolve, RemoveGuard, Interrupt
  <2>q. QED BY <1>2, <2>1, <2>2, <2>3, <2>4 DEF Step
<1>3. ASSUME NEW u \in Calls, UpdateApplies(u) \/ UpdateFails(u)
      PROVE  update'[c] = update[c] \/ update'[c] = "failed"
  BY <1>t, <1>1, <1>3 DEF UpdateApplies, UpdateFails, Typed
<1>4. CASE Start
  BY <1>1, <1>4 DEF Start
<1>5. CASE (\E r \in Receipts : Sign(r)) \/ Tick \/ EditPolicy \/ UNCHANGED vars
           \/ (\E k \in Kinds, t \in Commits : MoveTip(k, t))
  BY <1>5 DEF Sign, Tick, EditPolicy, MoveTip, vars
<1>6. CASE GatewayDies \/ StopService \/ RecoveryDies \/ Recover
  BY <1>6 DEF GatewayDies, StopService, Down, RecoveryDies, Recover, Plan, Apply,
      ResolveRecovered, RemoveRecovered
<1>q. QED BY <1>2, <1>3, <1>4, <1>5, <1>6 DEF Next

(* An acknowledged fetch or commit takes no effect afterwards (the owner's
   recovery commands of git_fetch_recovery.py and git_commit_recovery.py).  *)
THEOREM AcknowledgedStays == Spec => AcknowledgedIsFinal
BY InvariantHolds, StepIsNotLate, PTL DEF Spec, AcknowledgedIsFinal

-----------------------------------------------------------------------------
(* What is answered, and the contract of an approval.                        *)
(* A receipt, and every answer on the way to one, is about an effect that took
   place.                                                                    *)
AnswerTrue ==
  \A c \in Calls :
    pc[c] \in {"acked", "receipted", "resolved", "done"} \/ c \in receipted => update[c] = "applied"

(* No admission link before the guard is on disk.                            *)
LinkedBehindGuard ==
  \A c \in Calls : pc[c] \in Unguarded \cup {"idle", "guarding", "guarded"} => link[c] = "none"

(* A guard that recovery cannot read is left by a death inside its write, or by
   an error there unless it is a fetch's; nothing was linked, started or
   answered under it.                                                        *)
TornGuardIsEmpty ==
  guard # NoGuard /\ ~guard.whole =>
    LET c == guard.call IN
    /\ update[c] = "none" /\ link[c] = "none" /\ c \notin receipted \cup recovered
    /\ \/ pc[c] = "guarding"
       \/ pc[c] = "dead" /\ crashes > 0
       \/ pc[c] = "uncertain" /\ Kind[c] # "fetch"

Answers == AnswerTrue /\ LinkedBehindGuard /\ TornGuardIsEmpty

(* The strengthening: what was answered and what is on disk agree.          *)
AnswerInv == IInv /\ Answers

(* The steps of a call keep this.                                            *)
LEMMA CallsAnswer ==
  ASSUME AnswerInv, NEW u \in Calls, Step(u)
  PROVE  Answers'
<1>t. Typed
  BY TypeGives DEF AnswerInv, IInv
<1>n. crashes \in Nat
  BY GitAssumption DEF AnswerInv, IInv, TypeOK
<1> USE <1>t, <1>n DEF AnswerInv, IInv, Typed, Answers, AnswerTrue, LinkedBehindGuard,
    TornGuardIsEmpty, NoEffectYet, Early, Unguarded, GuardLeads, Guarded, NoGuard, RecoveryAlone,
    ReceiptFirst, Settled, Become, world, call, capacity, outcome, recovery
<1>1. CASE Admit(u)
  BY <1>1 DEF Admit
<1>2. CASE Authorize(u)
  BY <1>2 DEF Authorize, Refuse, Unlease
<1>3. CASE Lease(u)
  BY <1>3 DEF Lease, Refuse, CleanupError, Unlease
<1>4. CASE Inspect(u)
  BY <1>4 DEF Inspect
<1>5. CASE Stray(u)
  BY <1>5 DEF Stray, CleanupError, Unlease
<1>6. CASE Propose(u)
  BY <1>6 DEF Propose, Refuse, Unlease
<1>7. CASE Verify(u)
  BY <1>7 DEF Verify, Refuse, Unlease
<1>8. CASE Claim(u)
  BY <1>8 DEF Claim, Refuse, Unlease
<1>9. CASE Fail(u)
  BY <1>9 DEF Fail, Refuse, Unlease
<1>10. CASE OpenGuard(u)
  BY <1>10 DEF OpenGuard
<1>11. CASE SyncGuard(u)
  BY <1>11 DEF SyncGuard
<1>12. CASE Bind(u)
  BY <1>12 DEF Bind
<1>13. CASE Reauthorize(u)
  BY <1>13 DEF Reauthorize
<1>14. CASE Launch(u)
  BY <1>14 DEF Launch
<1>15. CASE Acknowledge(u)
  BY <1>15 DEF Acknowledge
<1>16. CASE WriteReceipt(u)
  BY <1>16 DEF WriteReceipt
<1>17. CASE Resolve(u)
  BY <1>17 DEF Resolve
<1>18. CASE RemoveGuard(u)
  BY <1>18 DEF RemoveGuard, Unlease
<1>19. CASE Interrupt(u)
  BY <1>19 DEF Interrupt, Unlease
<1>q. QED
  BY <1>1, <1>2, <1>3, <1>4, <1>5, <1>6, <1>7, <1>8, <1>9, <1>10, <1>11, <1>12, <1>13, <1>14,
     <1>15, <1>16, <1>17, <1>18, <1>19 DEF Step

(* ... and so does everybody else.                                           *)
LEMMA AnswersKept ==
  ASSUME AnswerInv, [Next]_vars
  PROVE  Answers'
<1>t. Typed
  BY TypeGives DEF AnswerInv, IInv
<1>n. crashes \in Nat
  BY GitAssumption DEF AnswerInv, IInv, TypeOK
<1> USE <1>t, <1>n DEF AnswerInv, IInv, Typed, Answers, AnswerTrue, LinkedBehindGuard,
    TornGuardIsEmpty, NoEffectYet, Early, Unguarded, GuardLeads, Guarded, NoGuard, RecoveryAlone,
    ReceiptFirst, Settled, Become, world, call, capacity, outcome, recovery
<1>1. ASSUME NEW u \in Calls, Step(u) PROVE Answers'
  BY ONLY AnswerInv, <1>1, CallsAnswer
<1>2. ASSUME NEW u \in Calls, UpdateApplies(u) \/ UpdateFails(u) PROVE Answers'
  BY <1>2 DEF UpdateApplies, UpdateFails
<1>3. ASSUME NEW r \in Receipts, Sign(r) PROVE Answers'
  BY <1>3 DEF Sign
<1>4. CASE GatewayDies
  BY <1>4 DEF GatewayDies, Down
<1>5. CASE StopService
  BY <1>5 DEF StopService, Down
<1>6. CASE Start
  BY <1>6 DEF Start
<1>7. CASE Plan
  BY <1>7 DEF Plan
<1>8. CASE Apply
  BY <1>8 DEF Apply, Recoverable, GuardWhole
<1>9. CASE ResolveRecovered
  BY <1>9 DEF ResolveRecovered
<1>10. CASE RemoveRecovered
  BY <1>10 DEF RemoveRecovered
<1>11. CASE RecoveryDies
  BY <1>11 DEF RecoveryDies
<1>12. CASE Tick \/ EditPolicy
  BY <1>12 DEF Tick, EditPolicy
<1>13. ASSUME NEW k \in Kinds, NEW t \in Commits, MoveTip(k, t) PROVE Answers'
  BY <1>13 DEF MoveTip
<1>14. CASE UNCHANGED vars
  BY <1>14 DEF vars
<1>q. QED
  BY ONLY [Next]_vars, <1>1, <1>2, <1>3, <1>4, <1>5, <1>6, <1>7, <1>8, <1>9, <1>10, <1>11,
     <1>12, <1>13, <1>14 DEF Next, Recover

(* Initially nothing was answered, and every step keeps the two in agreement. *)
LEMMA AnswersHold == Spec => []AnswerInv
<1>1. Init => AnswerInv
  BY InitHolds DEF Init, AnswerInv, Answers, AnswerTrue, LinkedBehindGuard, TornGuardIsEmpty
<1>2. AnswerInv /\ [Next]_vars => AnswerInv'
  <2> SUFFICES ASSUME AnswerInv, [Next]_vars PROVE AnswerInv'
    OBVIOUS
  <2>q. QED BY NextHolds, AnswersKept DEF AnswerInv
<1>q. QED BY <1>1, <1>2, PTL DEF Spec

(* A guard nobody can read hides nothing: an effect is started, linked and
   answered for only behind a complete one; and a fetch's, which is linked
   whole under its name, is unreadable only after a death between that link
   and the unlink of its temporary name.                                     *)
THEOREM TornGuardsHideNothing == Spec => []TornGuardIsEmpty
<1>1. AnswerInv => TornGuardIsEmpty
  BY DEF AnswerInv, Answers
<1>q. QED BY AnswersHold, <1>1, PTL

-----------------------------------------------------------------------------
(* The contract of an approval.                                              *)
(* One call's part of it, stated over the variables of the protocol.         *)
Kept(c) == update[c] # "none" => req'[c] = req[c] /\ Nonce(c)' = Nonce(c)
Started(c) ==
  /\ update[c] = "none" /\ update'[c] = "running" /\ pc[c] \notin Settled \ {"idle"}
  /\ c \notin receipted \cup recovered
  /\ \A d \in Calls \ {c} : update[d] = "none" \/ d \in receipted \cup recovered
  /\ claims[Nonce(c)] = req[c] /\ claims[Nonce(c)] # NoRequest
  /\ \A d \in Calls \ {c} : update[d] # "none" => Nonce(d) # Nonce(c)
Ended(c) ==
  /\ update[c] = "running" /\ update'[c] \in {"applied", "failed"}
  /\ update'[c] = "applied" => ~(c \in recovered /\ Sandboxed(c))
Moved(c) ==
  /\ Kept(c)
  /\ update'[c] # update[c] => Started(c) \/ Ended(c)
  /\ pc'[c] # pc[c] =>
       /\ pc[c] \notin Settled \ {"idle"}
       /\ pc'[c] = "refused" => update[c] = "none"
       /\ pc'[c] = "done" => c \in receipted
Settles(c) ==
  /\ c \in receipted \cup recovered => c \in receipted' \cup recovered'
  /\ c \in receipted' \ receipted => update[c] = "applied"
  /\ c \in recovered' \ recovered =>
       pc[c] \in {"uncertain", "dead"} /\ ~(Sandboxed(c) /\ update[c] = "running")
LedgerGrows == \A n \in Receipts \cup Calls : claims'[n] # claims[n] => claims[n] = NoRequest

(* Steps that move every call and the ledger like this are the contract's.   *)
LEMMA MovesHonour ==
  ASSUME Typed, Typed', LedgerGrows, \A c \in Calls : Moved(c) /\ Settles(c)
  PROVE  Approvals!Next
<1>1. DOMAIN claims = Receipts \cup Calls
  BY DEF Typed
<1>2. \A n \in DOMAIN claims : Approvals!Entry(n)
  BY <1>1 DEF LedgerGrows, Approvals!Entry
<1>3. ASSUME NEW c \in Calls PROVE Approvals!Effect(c) /\ Approvals!Answer(c) /\ Approvals!Decision(c)
  <2>1. Moved(c) /\ Settles(c)
    OBVIOUS
  <2>2. /\ Told(c) = "nothing" <=> pc[c] \notin Settled \ {"idle"}
        /\ Told(c) = "uncertain" <=> pc[c] \in {"uncertain", "dead"}
    BY DEF Told, Settled
  <2>3. /\ Told(c)' = "refused" => pc'[c] = "refused"
        /\ Told(c)' = "done" => pc'[c] = "done"
        /\ Told(c)' # Told(c) => pc'[c] # pc[c]
    BY DEF Told
  <2>4. Approvals!Effect(c)
    <3>1. ASSUME Started(c) PROVE Approvals!Begin(c)
      BY <2>2, <3>1 DEF Started, Approvals!Begin, Approvals!NothingInDoubt, Approvals!Decided
    <3>2. ASSUME Ended(c) PROVE Approvals!End(c)
      BY <3>2 DEF Ended, Approvals!End
    <3>q. QED BY <2>1, <3>1, <3>2 DEF Moved, Kept, Approvals!Effect
  <2>5. Approvals!Answer(c)
    BY <2>1, <2>2, <2>3 DEF Moved, Approvals!Answer
  <2>6. Approvals!Decision(c)
    BY <2>1, <2>2 DEF Settles, Approvals!Decision, Approvals!Decided
  <2>q. QED BY <2>4, <2>5, <2>6
<1>q. QED BY <1>2, <1>3 DEF Approvals!Next

(* What a step does to the ledger and to every call is the contract's.       *)
Honoured == LedgerGrows /\ \A c \in Calls : Moved(c) /\ Settles(c)

(* The steps of a call honour the contract.                                  *)
LEMMA CallsHonour ==
  ASSUME AnswerInv, NEW u \in Calls, Step(u)
  PROVE  Honoured
<1>t. Typed
  BY TypeGives DEF AnswerInv, IInv
<1> USE <1>t DEF AnswerInv, IInv, Typed, Answers, AnswerTrue, NoEffectYet, RequestFixed, SpentApart,
    Spending, UndecidedHeld, Undecided, Early, Unguarded, GuardLeads, Guarded, NoGuard, RecoveryAlone,
    ReceiptFirst, Settled, Become, world, call, capacity, outcome, recovery,
    Honoured, LedgerGrows, Kept, Started, Ended, Moved, Settles, Nonce, Sandboxed
<1>1. CASE Admit(u)
  BY <1>1 DEF Admit
<1>2. CASE Authorize(u)
  BY <1>2 DEF Authorize, Refuse, Unlease
<1>3. CASE Lease(u)
  BY <1>3 DEF Lease, Refuse, CleanupError, Unlease
<1>4. CASE Inspect(u)
  BY <1>4 DEF Inspect
<1>5. CASE Stray(u)
  BY <1>5 DEF Stray, CleanupError, Unlease
<1>6. CASE Propose(u)
  BY <1>6 DEF Propose, Refuse, Unlease
<1>7. CASE Verify(u)
  BY <1>7 DEF Verify, Refuse, Unlease
<1>8. CASE Claim(u)
  BY <1>8 DEF Claim, Refuse, Unlease
<1>9. CASE Fail(u)
  BY <1>9 DEF Fail, Refuse, Unlease
<1>10. CASE OpenGuard(u)
  BY <1>10 DEF OpenGuard
<1>11. CASE SyncGuard(u)
  BY <1>11 DEF SyncGuard
<1>12. CASE Bind(u)
  BY <1>12 DEF Bind
<1>13. CASE Reauthorize(u)
  BY <1>13 DEF Reauthorize
<1>14. CASE Launch(u)
  <2>1. /\ UNCHANGED <<receipt, req, claims, receipted, recovered>>
        /\ \A c \in Calls \ {u} : pc'[c] = pc[c] /\ update'[c] = update[c]
        /\ pc[u] = "ready" /\ pc'[u] = "waiting" /\ update'[u] = "running"
    BY <1>14 DEF Launch
  <2>2. update[u] = "none" /\ guard.call = u /\ claims[Nonce(u)] = req[u] /\ req[u] \in Requests
    BY <2>1 DEF Sounded
  <2>3. u \notin receipted \cup recovered
    BY <2>1, <2>2
  <2>4. \A d \in Calls \ {u} : update[d] = "none" \/ d \in receipted \cup recovered
    BY <2>2
  <2>5. \A d \in Calls \ {u} : update[d] # "none" => Nonce(d) # Nonce(u)
    BY <2>1
  <2>6. Started(u)
    BY <2>1, <2>2, <2>3, <2>4, <2>5
  <2>q. QED BY <2>1, <2>2, <2>6
<1>15. CASE Acknowledge(u)
  BY <1>15 DEF Acknowledge
<1>16. CASE WriteReceipt(u)
  BY <1>16 DEF WriteReceipt
<1>17. CASE Resolve(u)
  BY <1>17 DEF Resolve
<1>18. CASE RemoveGuard(u)
  BY <1>18 DEF RemoveGuard, Unlease
<1>19. CASE Interrupt(u)
  BY <1>19 DEF Interrupt, Unlease
<1>q. QED
  BY <1>1, <1>2, <1>3, <1>4, <1>5, <1>6, <1>7, <1>8, <1>9, <1>10, <1>11, <1>12, <1>13, <1>14,
     <1>15, <1>16, <1>17, <1>18, <1>19 DEF Step

(* ... and so does everybody else.                                           *)
LEMMA StepsHonour ==
  ASSUME AnswerInv, [Next]_vars
  PROVE  Honoured
<1>t. Typed
  BY TypeGives DEF AnswerInv, IInv
<1> USE <1>t DEF AnswerInv, IInv, Typed, Answers, AnswerTrue, NoEffectYet, RequestFixed, SpentApart,
    Spending, UndecidedHeld, Undecided, Early, Unguarded, GuardLeads, Guarded, NoGuard, RecoveryAlone,
    ReceiptFirst, Settled, Become, world, call, capacity, outcome, recovery,
    Honoured, LedgerGrows, Kept, Started, Ended, Moved, Settles, Nonce, Sandboxed
<1>1. ASSUME NEW u \in Calls, Step(u) PROVE Honoured
  BY ONLY AnswerInv, <1>1, CallsHonour
<1>2. ASSUME NEW u \in Calls, UpdateApplies(u) \/ UpdateFails(u) PROVE Honoured
  BY <1>2 DEF UpdateApplies, UpdateFails
<1>3. ASSUME NEW r \in Receipts, Sign(r) PROVE Honoured
  BY <1>3 DEF Sign
<1>4. CASE GatewayDies
  BY <1>4 DEF GatewayDies, Down
<1>5. CASE StopService
  BY <1>5 DEF StopService, Down
<1>6. CASE Start
  BY <1>6 DEF Start
<1>7. CASE Plan
  BY <1>7 DEF Plan
<1>8. CASE Apply
  BY <1>8 DEF Apply, Recoverable, GuardWhole, Quiescent
<1>9. CASE ResolveRecovered
  BY <1>9 DEF ResolveRecovered
<1>10. CASE RemoveRecovered
  BY <1>10 DEF RemoveRecovered
<1>11. CASE RecoveryDies
  BY <1>11 DEF RecoveryDies
<1>12. CASE Tick \/ EditPolicy
  BY <1>12 DEF Tick, EditPolicy
<1>13. ASSUME NEW k \in Kinds, NEW t \in Commits, MoveTip(k, t) PROVE Honoured
  BY <1>13 DEF MoveTip
<1>14. CASE UNCHANGED vars
  BY <1>14 DEF vars
<1>q. QED
  BY ONLY [Next]_vars, <1>1, <1>2, <1>3, <1>4, <1>5, <1>6, <1>7, <1>8, <1>9, <1>10, <1>11,
     <1>12, <1>13, <1>14 DEF Next, Recover

(* Push, fetch and commit, with their errors, deaths, restarts and recovery,
   keep the contract of an approval, for any calls, receipts and histories.  *)
THEOREM OperationsHonourApprovals == Spec => HonoursApprovals
<1>1. Init => Approvals!Init
  BY DEF Init, Approvals!Init, Told
<1>2. AnswerInv /\ AnswerInv' /\ [Next]_vars => [Approvals!Next]_(Approvals!vars)
  <2> SUFFICES ASSUME AnswerInv, AnswerInv', [Next]_vars PROVE Approvals!Next
    OBVIOUS
  <2>1. Typed /\ Typed'
    BY GitAssumption, NoRequestAssumption DEF AnswerInv, IInv, TypeOK, Typed
  <2>q. QED BY <2>1, StepsHonour, MovesHonour DEF Honoured
<1>q. QED BY <1>1, <1>2, AnswersHold, PTL DEF Spec, HonoursApprovals, Approvals!Spec
===============================================================================
