----------------------------- MODULE GitOperation -----------------------------
(***************************************************************************)
(* Approved Git operations on one repository: push (git_pushes.py), fetch   *)
(* (git_fetches.py) and commit (git_commits.py), the claim of an approval   *)
(* (git_approvals.py, git_authorizations.py) and the owner's recovery       *)
(* (git_push_recovery.py, git_fetch_recovery.py, git_commit_recovery.py).   *)
(*                                                                         *)
(* The three share one protocol, capacity, lease, proposal, claim, durable  *)
(* guard, admission link, effect, receipt, and differ in the reference they *)
(* move, in how the guard is written, and in what an early failure gives    *)
(* back. A commit is an opaque tip; a repository is its three references:   *)
(* the remote branch a push moves, the tracking ref a fetch moves, and the  *)
(* local branch a commit moves. Other writers move any of them at any time. *)
(***************************************************************************)
EXTENDS Naturals, FiniteSets

CONSTANTS
  Calls,          \* calls of the three tools
  Kind,           \* [Calls -> Kinds]
  Local,          \* calls claimed by a nonce of the server, without a receipt
  Receipts,       \* what the owner may sign
  Commits, Absent,
  Ancestry,       \* pairs of a commit and a descendant of it
  Child,          \* [Commits \cup {Absent} -> Commits]: the approved commit on a parent
  NoCall, NoReceipt, NoRequest,
  MaxActive,      \* max_active_jobs
  Lifetime,       \* of a receipt
  MaxClock, MaxMoves, MaxCrashes

Kinds == {"push", "fetch", "commit"}
Tips == Commits \cup {Absent}

ASSUME GitAssumption ==
  /\ Kind \in [Calls -> Kinds]
  /\ Local \subseteq Calls /\ \A c \in Local : Kind[c] # "push"
  /\ Absent \notin Commits /\ Ancestry \subseteq Commits \X Commits
  /\ Child \in [Tips -> Commits]
  /\ NoCall \notin Calls /\ NoReceipt \notin Receipts /\ Receipts \cap Calls = {}
  /\ {MaxActive, Lifetime, MaxClock, MaxMoves, MaxCrashes} \subseteq Nat

VARIABLES
  tip,        \* [Kinds -> Tips]: the reference each kind moves
  policy,     \* the owner's remote policy on disk
  loaded,     \* the one the gateway started with
  signed,     \* what each receipt approves, and when it was issued
  claims,     \* the ledger: [nonce -> request]
  clock,
  up,         \* the gateway runs
  pc, receipt, req,
  lease,      \* holder of the workspace's mutation lease
  slots,      \* calls with a row in job_admissions
  link,       \* git_admissions
  guard,      \* <key>.git-pending.json: its call and whether recovery can read it
  update,     \* what became of the effect the call started
  stray,      \* calls whose sandboxed inspector could not be proved gone
  receipted,  \* calls with a success receipt
  recovered,  \* calls the owner acknowledged
  rec, plan,  \* the recovery command
  moves, crashes

vars == <<tip, policy, loaded, signed, claims, clock, up, pc, receipt, req, lease, slots, link,
          guard, update, stray, receipted, recovered, rec, plan, moves, crashes>>
world == <<tip, policy, loaded, signed, clock, up, moves, crashes>>
call == <<receipt, req>>
capacity == <<slots, link, stray>>
outcome == <<receipted, recovered>>
recovery == <<rec, plan>>

Requests == [kind : Kinds, old : Tips, new : Tips, head : Tips, policy : 0..1]
NoGuard == [call |-> NoCall, whole |-> FALSE]
NoPlan == [call |-> NoCall, tip |-> Absent, link |-> "none"]

ASSUME NoRequestAssumption == NoRequest \notin Requests

\* Before the guard an error is a refusal; behind it everything is retained.
Unguarded == {"admitted", "authorized", "leased", "inspected", "proposed", "verified", "claimed"}
Guarded == {"guarding", "guarded", "bound", "ready", "waiting", "acked", "receipted", "resolved"}
Settled == {"idle", "refused", "uncertain", "dead", "done"}

Nonce(c) == IF c \in Local THEN c ELSE receipt[c]
FastForward(old, new) == old = Absent \/ <<old, new>> \in Ancestry
\* Effects that run in a supervised process tree of the gateway's service.
Sandboxed(c) == Kind[c] # "push"

Init ==
  /\ tip \in [Kinds -> Tips]
  /\ policy = 0 /\ loaded = 0 /\ clock = 0 /\ up = TRUE
  /\ signed = [r \in Receipts |-> [req |-> NoRequest, at |-> 0]]
  /\ claims = [n \in Receipts \cup Calls |-> NoRequest]
  /\ pc = [c \in Calls |-> "idle"]
  /\ receipt = [c \in Calls |-> NoReceipt] /\ req = [c \in Calls |-> NoRequest]
  /\ lease = NoCall /\ slots = {} /\ link = [c \in Calls |-> "none"]
  /\ guard = NoGuard /\ update = [c \in Calls |-> "none"] /\ stray = {}
  /\ receipted = {} /\ recovered = {} /\ rec = "idle" /\ plan = NoPlan
  /\ moves = 0 /\ crashes = 0

-----------------------------------------------------------------------------
\* What the remote advertises for the branch, and what the sandboxed inspector
\* reads at the tracking ref.
Advertised == tip["push"]
TrackingTip == tip["fetch"]

(* What a proposal asks for, given the head its inspection saw.             *)
Proposal(kind, head) ==
  [kind |-> kind, head |-> head, policy |-> loaded,
   old |-> CASE kind = "push" -> Advertised
             [] kind = "fetch" -> TrackingTip
             [] kind = "commit" -> head,
   new |-> CASE kind = "push" -> head
             [] kind = "fetch" -> Advertised
             [] kind = "commit" -> Child[head]]

\* Packing re-checks the local state and the ancestry; a fetch needs a remote
\* branch, and news on it when a receipt is at stake.
Sound(q, head, receipted_) ==
  CASE q.kind = "push" -> /\ q.new # q.old /\ tip["commit"] = head
                          /\ q.new # Absent /\ FastForward(q.old, q.new)
    [] q.kind = "fetch" -> q.new # Absent /\ (receipted_ => q.old # q.new)
    [] q.kind = "commit" -> TRUE

\* issue_git_approval: the owner's key signs one request, from now on.
Issue(r, q) == signed' = [signed EXCEPT ![r] = [req |-> q, at |-> clock]]

\* prepare() under the lease, then the owner's signature on what it returned.
Sign(r) ==
  /\ up /\ lease = NoCall /\ guard = NoGuard /\ signed[r].req = NoRequest
  /\ \E k \in {Kind[c] : c \in Calls \ Local} :
       LET q == Proposal(k, tip["commit"]) IN
       /\ k # "commit" => policy = loaded
       /\ Sound(q, q.head, TRUE)
       /\ Issue(r, q)
  /\ UNCHANGED <<tip, policy, loaded, claims, clock, up, pc, call, lease, capacity, guard,
                 update, outcome, recovery, moves, crashes>>

-----------------------------------------------------------------------------
(* One call.                                                                *)
Become(c, step) == pc' = [pc EXCEPT ![c] = step]
Unlease(c) == lease' = IF lease = c THEN NoCall ELSE lease

\* An ordinary error before the guard gives the slot back.
Refuse(c) ==
  /\ Become(c, "refused") /\ Unlease(c)
  /\ slots' = slots \ {c} /\ UNCHANGED <<link, stray>>

\* ResourceCleanupError before the guard: push and commit keep the slot, a
\* fetch resolves it whatever the error.
CleanupError(c) ==
  /\ Become(c, "refused") /\ Unlease(c)
  /\ slots' = IF Kind[c] = "fetch" THEN slots \ {c} ELSE slots
  /\ UNCHANGED link

Admit(c) ==
  /\ up /\ pc[c] = "idle" /\ Cardinality(slots) < MaxActive
  /\ IF c \in Local THEN UNCHANGED receipt
     ELSE \E r \in Receipts : /\ signed[r].req # NoRequest
                              /\ receipt' = [receipt EXCEPT ![c] = r]
  /\ slots' = slots \cup {c} /\ Become(c, "admitted")
  /\ UNCHANGED <<world, claims, req, lease, link, stray, guard, update, outcome, recovery>>

\* authorize(): the policy on disk is still the one the gateway loaded.
Authorized(c) == Kind[c] = "commit" \/ policy = loaded

Authorize(c) ==
  /\ pc[c] = "admitted"
  /\ \/ Authorized(c) /\ Become(c, "authorized") /\ UNCHANGED <<lease, capacity>>
     \/ ~Authorized(c) /\ Refuse(c)
  /\ UNCHANGED <<world, claims, call, guard, update, outcome, recovery>>

\* mutation_lease: a second mutation is refused, a pending guard is an error
\* that asks for owner recovery.
Lease(c) ==
  /\ pc[c] = "authorized"
  /\ \/ /\ lease = NoCall /\ guard = NoGuard
        /\ lease' = c /\ Become(c, "leased") /\ UNCHANGED capacity
     \/ lease # NoCall /\ Refuse(c)
     \/ lease = NoCall /\ guard # NoGuard /\ CleanupError(c) /\ UNCHANGED stray
  /\ UNCHANGED <<world, claims, call, guard, update, outcome, recovery>>

\* The sandboxed inspector sees the head.
Inspect(c) ==
  /\ pc[c] = "leased"
  /\ req' = [req EXCEPT ![c] = Proposal(Kind[c], tip["commit"])] /\ Become(c, "inspected")
  /\ UNCHANGED <<world, claims, receipt, lease, capacity, guard, update, outcome, recovery>>

\* The process tree of a sandboxed inspection resists clean-up.
Stray(c) ==
  /\ pc[c] = "leased" \/ (pc[c] = "inspected" /\ Kind[c] # "commit")
  /\ stray' = stray \cup {c} /\ CleanupError(c)
  /\ UNCHANGED <<world, claims, call, guard, update, outcome, recovery>>

\* Anything else that goes wrong before the guard. A push counts its guard as
\* written from the moment it tries.
Fail(c) ==
  /\ pc[c] \in Unguarded
  /\ \/ ~(Kind[c] = "push" /\ pc[c] = "claimed") /\ Refuse(c)
     \/ /\ Kind[c] = "push" /\ pc[c] = "claimed"
        /\ Become(c, "uncertain") /\ Unlease(c) /\ UNCHANGED capacity
  /\ UNCHANGED <<world, claims, call, guard, update, outcome, recovery>>

\* The tips are read only now, after the head.
Propose(c) ==
  /\ pc[c] = "inspected"
  /\ LET q == Proposal(Kind[c], req[c].head) IN
     \/ /\ Sound(q, q.head, c \notin Local)
        /\ req' = [req EXCEPT ![c] = q]
        /\ Become(c, "proposed") /\ UNCHANGED <<lease, capacity>>
     \/ /\ ~Sound(q, q.head, c \notin Local)
        /\ Refuse(c) /\ UNCHANGED req
  /\ UNCHANGED <<world, claims, receipt, guard, update, outcome, recovery>>

\* The receipt approves exactly this request, now. A local call is approved by
\* the protected policy, which is read again for it.
Unexpired(r) == clock < signed[r].at + Lifetime
StillApproved(c) == IF c \in Local THEN Authorized(c) ELSE Unexpired(receipt[c])
Approved(c) == StillApproved(c) /\ (c \notin Local => signed[receipt[c]].req = req[c])

\* Fault: the signature is checked, what it was given for is not.
VerifyAnything(c) ==
  /\ pc[c] = "proposed"
  /\ Become(c, "verified")
  /\ UNCHANGED <<world, claims, call, lease, capacity, guard, update, outcome, recovery>>

Verify(c) ==
  /\ pc[c] = "proposed"
  /\ \/ Approved(c) /\ Become(c, "verified") /\ UNCHANGED <<lease, capacity>>
     \/ ~Approved(c) /\ Refuse(c)
  /\ UNCHANGED <<world, claims, call, guard, update, outcome, recovery>>

\* Fault: a spent nonce is no obstacle.
ClaimAgain(c) ==
  /\ pc[c] = "verified"
  /\ \/ /\ StillApproved(c)
        /\ claims' = [claims EXCEPT ![Nonce(c)] = req[c]]
        /\ Become(c, "claimed") /\ UNCHANGED <<lease, capacity>>
     \/ /\ ~StillApproved(c)
        /\ Refuse(c) /\ UNCHANGED claims
  /\ UNCHANGED <<world, call, guard, update, outcome, recovery>>

\* The INSERT under the ledger's write lock, which may have been waited for.
Claim(c) ==
  /\ pc[c] = "verified"
  /\ \/ /\ claims[Nonce(c)] = NoRequest /\ StillApproved(c)
        /\ claims' = [claims EXCEPT ![Nonce(c)] = req[c]]
        /\ Become(c, "claimed") /\ UNCHANGED <<lease, capacity>>
     \/ /\ claims[Nonce(c)] # NoRequest \/ ~StillApproved(c)
        /\ Refuse(c) /\ UNCHANGED claims
  /\ UNCHANGED <<world, call, guard, update, outcome, recovery>>

\* Push and commit create the guard and write into it; a fetch links a complete
\* file under the guard's name and then unlinks its temporary name. Recovery
\* reads neither a torn guard nor one with two links.
OpenGuard(c) ==
  /\ pc[c] = "claimed"
  /\ guard' = [call |-> c, whole |-> FALSE] /\ Become(c, "guarding")
  /\ UNCHANGED <<world, claims, call, lease, capacity, update, outcome, recovery>>

SyncGuard(c) ==
  /\ pc[c] = "guarding"
  /\ guard' = [guard EXCEPT !.whole = TRUE] /\ Become(c, "guarded")
  /\ UNCHANGED <<world, claims, call, lease, capacity, update, outcome, recovery>>

\* Fault: the effect is started before the admission names its guard.
BindLater(c) ==
  /\ pc[c] = "guarded"
  /\ Become(c, "bound")
  /\ UNCHANGED <<world, claims, call, lease, capacity, guard, update, outcome, recovery>>

Bind(c) ==
  /\ pc[c] = "guarded" /\ c \in slots /\ link[c] = "none"
  /\ link' = [link EXCEPT ![c] = "active"] /\ Become(c, "bound")
  /\ UNCHANGED <<world, claims, call, lease, slots, stray, guard, update, outcome, recovery>>

\* Authority is looked up again before credentials or metadata are used.
Reauthorize(c) ==
  /\ pc[c] = "bound" /\ Authorized(c)
  /\ Become(c, "ready")
  /\ UNCHANGED <<world, claims, call, lease, capacity, guard, update, outcome, recovery>>

\* send_push discovers once more; the sandboxed scripts check in the sandbox.
Launch(c) ==
  /\ pc[c] = "ready"
  /\ Kind[c] = "push" => Advertised = req[c].old
  /\ update' = [update EXCEPT ![c] = "running"] /\ Become(c, "waiting")
  /\ UNCHANGED <<world, claims, call, lease, capacity, guard, outcome, recovery>>

Acknowledge(c) ==
  /\ pc[c] = "waiting" /\ update[c] = "applied"
  /\ Become(c, "acked")
  /\ UNCHANGED <<world, claims, call, lease, capacity, guard, update, outcome, recovery>>

WriteReceipt(c) ==
  /\ pc[c] = "acked"
  /\ receipted' = receipted \cup {c} /\ Become(c, "receipted")
  /\ UNCHANGED <<world, claims, call, lease, capacity, guard, update, recovered, recovery>>

Resolve(c) ==
  /\ pc[c] = "receipted"
  /\ link' = [link EXCEPT ![c] = "resolved"] /\ slots' = slots \ {c}
  /\ Become(c, "resolved")
  /\ UNCHANGED <<world, claims, call, lease, stray, guard, update, outcome, recovery>>

RemoveGuard(c) ==
  /\ pc[c] = "resolved"
  /\ guard' = NoGuard /\ Unlease(c) /\ Become(c, "done")
  /\ UNCHANGED <<world, claims, call, capacity, update, outcome, recovery>>

\* Any error behind the guard: policy changed, tips changed, no answer, an
\* unexpected answer, a full disk. A fetch's half-linked guard is completed on
\* the way out.
Interrupt(c) ==
  /\ pc[c] \in Guarded
  /\ Become(c, "uncertain") /\ Unlease(c)
  /\ guard' = IF Kind[c] = "fetch" THEN [guard EXCEPT !.whole = TRUE] ELSE guard
  /\ UNCHANGED <<world, claims, call, capacity, update, outcome, recovery>>

-----------------------------------------------------------------------------
(* The effect: the remote, or Git in the sandbox, compares and swaps. It is *)
(* not the call's own step: the answer may be lost, and a push on the wire  *)
(* outlives the gateway.                                                    *)

UpdateApplies(c) ==
  /\ update[c] = "running"
  /\ tip[Kind[c]] = req[c].old
  /\ Sandboxed(c) => tip["commit"] = req[c].head
  /\ tip' = [tip EXCEPT ![Kind[c]] = req[c].new]
  /\ update' = [update EXCEPT ![c] = "applied"]
  /\ UNCHANGED <<policy, loaded, signed, claims, clock, up, pc, call, lease, capacity, guard,
                 outcome, recovery, moves, crashes>>

\* Refused, lost on the way, or killed in its sandbox.
UpdateFails(c) ==
  /\ update[c] = "running"
  /\ update' = [update EXCEPT ![c] = "failed"]
  /\ UNCHANGED <<world, claims, pc, call, lease, capacity, guard, outcome, recovery>>

-----------------------------------------------------------------------------
(* The gateway's life.                                                      *)
Down ==
  /\ up' = FALSE /\ lease' = NoCall
  /\ pc' = [c \in Calls |-> IF pc[c] \in Settled THEN pc[c] ELSE "dead"]
  /\ UNCHANGED <<tip, policy, loaded, signed, claims, clock, call, capacity, guard, update,
                 outcome, recovery, moves>>

GatewayDies == up /\ crashes < MaxCrashes /\ crashes' = crashes + 1 /\ Down

\* The owner stops the service to recover.
StopService ==
  /\ up /\ guard # NoGuard /\ \A c \in Calls : pc[c] \in Settled
  /\ UNCHANGED crashes /\ Down

\* load_owner_git_remotes: the policy is read once, when the gateway starts.
LoadPolicy == loaded' = policy

\* configure_resources: the trees of the last run are killed, admissions are
\* kept for active links only.
Start ==
  /\ ~up /\ rec \in {"idle", "planned"}
  /\ up' = TRUE /\ LoadPolicy
  /\ update' = [c \in Calls |-> IF Sandboxed(c) /\ update[c] = "running" THEN "failed" ELSE update[c]]
  /\ stray' = {} /\ slots' = {c \in slots : link[c] = "active"}
  /\ UNCHANGED <<tip, policy, signed, claims, clock, pc, call, lease, link, guard, outcome,
                 recovery, moves, crashes>>

-----------------------------------------------------------------------------
(* The owner's recovery. The service must be stopped, its process tree gone;*)
(* it observes and never sends.                                             *)
\* Fault: a stopped service is taken for a quiet one.
StoppedOnly == ~up

Quiescent == ~up /\ stray = {} /\ \A c \in Calls : Sandboxed(c) => update[c] # "running"

\* The plan names the guard, the observed tip and the admission's status.
Observed == [call |-> guard.call, tip |-> tip[Kind[guard.call]], link |-> link[guard.call]]
\* _read_guard: a private regular file with one name, complete and consistent.
GuardWhole == guard # NoGuard /\ guard.whole
Recoverable ==
  /\ GuardWhole
  /\ Kind[guard.call] = "commit" \/ policy = req[guard.call].policy
Conflict == tip[Kind[guard.call]] \notin {req[guard.call].old, req[guard.call].new}

Plan ==
  /\ Quiescent /\ Recoverable /\ rec \in {"idle", "planned"}
  /\ plan' = Observed /\ rec' = "planned"
  /\ UNCHANGED <<world, claims, pc, call, lease, capacity, guard, update, outcome>>

\* Only the exact plan the owner reviewed; the recovery receipt comes first.
Apply ==
  /\ Quiescent /\ Recoverable /\ rec = "planned"
  /\ plan = Observed /\ ~Conflict
  /\ recovered' = recovered \cup {guard.call} /\ rec' = "receipted"
  /\ UNCHANGED <<world, claims, pc, call, lease, capacity, guard, update, receipted, plan>>

\* Fault: a guard whose death came before its admission link is not expected.
ResolveBound ==
  /\ rec = "receipted" /\ link[guard.call] = "active"
  /\ link' = [link EXCEPT ![guard.call] = "resolved"] /\ slots' = slots \ {guard.call}
  /\ rec' = "resolved"
  /\ UNCHANGED <<world, claims, pc, call, lease, stray, guard, update, outcome, plan>>

ResolveRecovered ==
  /\ rec = "receipted"
  /\ link' = [link EXCEPT ![guard.call] = "resolved"] /\ slots' = slots \ {guard.call}
  /\ rec' = "resolved"
  /\ UNCHANGED <<world, claims, pc, call, lease, stray, guard, update, outcome, plan>>

RemoveRecovered ==
  /\ rec = "resolved"
  /\ guard' = NoGuard /\ rec' = "idle" /\ plan' = NoPlan
  /\ UNCHANGED <<world, claims, pc, call, lease, capacity, update, outcome>>

RecoveryDies ==
  /\ rec \in {"receipted", "resolved"} /\ crashes < MaxCrashes /\ crashes' = crashes + 1
  /\ rec' = "idle" /\ plan' = NoPlan
  /\ UNCHANGED <<tip, policy, loaded, signed, claims, clock, up, pc, call, lease, capacity,
                 guard, update, outcome, moves>>

-----------------------------------------------------------------------------
(* Everyone else.                                                           *)
Tick ==
  /\ clock < MaxClock /\ clock' = clock + 1
  /\ UNCHANGED <<tip, policy, loaded, signed, claims, up, pc, call, lease, capacity, guard,
                 update, outcome, recovery, moves, crashes>>

\* Another writer moves a reference.
MoveTip(k, t) ==
  /\ moves < MaxMoves /\ moves' = moves + 1
  /\ t # tip[k] /\ tip' = [tip EXCEPT ![k] = t]
  /\ UNCHANGED <<policy, loaded, signed, claims, clock, up, pc, call, lease, capacity, guard,
                 update, outcome, recovery, crashes>>

EditPolicy ==
  /\ moves < MaxMoves /\ moves' = moves + 1
  /\ policy' = 1 - policy
  /\ UNCHANGED <<tip, loaded, signed, claims, clock, up, pc, call, lease, capacity, guard,
                 update, outcome, recovery, crashes>>

Step(c) ==
  \/ Admit(c) \/ Authorize(c) \/ Lease(c) \/ Inspect(c) \/ Stray(c) \/ Propose(c)
  \/ Verify(c) \/ Claim(c) \/ Fail(c)
  \/ OpenGuard(c) \/ SyncGuard(c) \/ Bind(c) \/ Reauthorize(c) \/ Launch(c) \/ Acknowledge(c)
  \/ WriteReceipt(c) \/ Resolve(c) \/ RemoveGuard(c) \/ Interrupt(c)

Recover == Plan \/ Apply \/ ResolveRecovered \/ RemoveRecovered

Next ==
  \/ \E c \in Calls : Step(c) \/ UpdateApplies(c) \/ UpdateFails(c)
  \/ \E r \in Receipts : Sign(r)
  \/ GatewayDies \/ StopService \/ Start \/ Recover \/ RecoveryDies
  \/ Tick \/ EditPolicy \/ \E k \in Kinds, t \in Commits : MoveTip(k, t)

Spec == Init /\ [][Next]_vars

\* A running call goes on, an effect ends one way or the other; a gateway that is
\* down is started again in the end (which also kills what the last run left),
\* and an owner told to reconcile stops it and keeps running the recovery.
FairSpec ==
  /\ Spec
  /\ \A c \in Calls : WF_vars(Step(c)) /\ WF_vars(UpdateApplies(c) \/ UpdateFails(c))
  /\ WF_vars(Start) /\ WF_vars(StopService) /\ SF_vars(Plan) /\ SF_vars(Apply)
  /\ WF_vars(ResolveRecovered \/ RemoveRecovered)

-----------------------------------------------------------------------------
(* Properties.                                                              *)
Phases == Unguarded \cup Guarded \cup Settled
Asked == Requests \cup {NoRequest}
Links == {"none", "active", "resolved"}
Effects == {"none", "running", "applied", "failed"}

TypeOK ==
  /\ tip \in [Kinds -> Tips] /\ policy \in 0..1 /\ loaded \in 0..1
  /\ signed \in [Receipts -> [req : Asked, at : 0..MaxClock]]
  /\ claims \in [Receipts \cup Calls -> Asked]
  /\ clock \in 0..MaxClock /\ up \in BOOLEAN
  /\ pc \in [Calls -> Phases]
  /\ receipt \in [Calls -> Receipts \cup {NoReceipt}] /\ req \in [Calls -> Asked]
  /\ lease \in Calls \cup {NoCall} /\ slots \subseteq Calls /\ stray \subseteq Calls
  /\ link \in [Calls -> Links]
  /\ guard \in [call : Calls \cup {NoCall}, whole : BOOLEAN]
  /\ update \in [Calls -> Effects]
  /\ receipted \subseteq Calls /\ recovered \subseteq Calls
  /\ rec \in {"idle", "planned", "receipted", "resolved"}
  /\ plan \in [call : Calls \cup {NoCall}, tip : Tips, link : Links]
  /\ moves \in 0..MaxMoves /\ crashes \in 0..MaxCrashes

\* A call's effect is undecided for the owner until a receipt, of success or
\* of recovery, is on disk.
Undecided(c) == update[c] # "none" /\ c \notin receipted \cup recovered

\* "Any failure after durable intent retains capacity and workspace guard":
\* while the outcome of an effect is undecided its guard is on disk and
\* readable, its slot is held and the link between them is active, through
\* errors, deaths and restarts. In particular no second effect can start.
UndecidedHeld ==
  \A c \in Calls : Undecided(c) =>
    guard = [call |-> c, whole |-> TRUE] /\ c \in slots /\ link[c] = "active"

\* "Single-use": two calls never both start an effect on one approval.
ApprovalsSpentOnce ==
  \A c, d \in Calls :
    c # d /\ update[c] # "none" /\ update[d] # "none" => Nonce(c) # Nonce(d)

\* References are moved by the gateway only as a claimed request says, exactly
\* from its old tip to its new one; a push only forward; and behind a receipt
\* the request is the one the owner signed, whatever changed since. "Expiry is
\* enforced at the actual claim, not only before waiting."
EffectApproved ==
  /\ \A k \in Kinds : tip'[k] # tip[k] /\ moves' = moves =>
       \E c \in Calls :
         /\ Kind[c] = k /\ update[c] = "running" /\ claims[Nonce(c)] = req[c]
         /\ tip[k] = req[c].old /\ tip'[k] = req[c].new
         /\ k = "push" => FastForward(tip[k], tip'[k])
         /\ c \notin Local => signed[receipt[c]].req = req[c]
  /\ \A r \in Receipts : claims[r] = NoRequest /\ claims'[r] # NoRequest => Unexpired(r)

EffectsAsApproved == [][EffectApproved]_vars

\* An acknowledged fetch or commit takes no effect afterwards. (A push may: it
\* can still be on the wire, and the report says it is an observation.)
NoLateEffect ==
  \A c \in recovered : Sandboxed(c) => update'[c] = update[c] \/ update'[c] = "failed"

AcknowledgedIsFinal == [][NoLateEffect]_vars

\* The protocol above, errors, deaths, restarts and recovery included, implements
\* the contract of an approval.
Told(c) ==
  CASE pc[c] = "refused" -> "refused"
    [] pc[c] = "done" -> "done"
    [] pc[c] \in {"uncertain", "dead"} -> "uncertain"
    [] OTHER -> "nothing"

Approvals == INSTANCE ApprovalContract WITH
  Contained <- {c \in Calls : Sandboxed(c)}, Unspent <- NoRequest,
  ledger <- claims, nonce <- [c \in Calls |-> Nonce(c)], asked <- req,
  effect <- update, told <- [c \in Calls |-> Told(c)],
  proven <- receipted, confirmed <- recovered

HonoursApprovals == Approvals!Spec

\* A readable guard is given up in the end, unless the reference went
\* elsewhere or the policy is not the one the request was approved under.
GuardsRetire ==
  \A c \in Calls :
    guard = [call |-> c, whole |-> TRUE] ~>
      \/ guard.call # c
      \/ tip[Kind[c]] \notin {req[c].old, req[c].new}
      \/ Kind[c] # "commit" /\ policy # req[c].policy

\* git_fetches.py:133: "Publish a complete durable guard atomically".
FetchGuardComplete ==
  guard # NoGuard /\ Kind[guard.call] = "fetch" /\ ~up => guard.whole
=============================================================================
