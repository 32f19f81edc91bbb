--------------------------- MODULE DelegationRelay ---------------------------
(***************************************************************************)
(* Delegation to the isolated worker gateway: ProductionDelegationClient of *)
(* agents/production_relay.py, the /internal/delegation/v1 handler of       *)
(* server.py and the RelayLedger each side keeps.  The client draws a fresh *)
(* request id, posts it at most twice, and tells its caller the outcome is  *)
(* uncertain if neither answer arrives; the receiver launches a worker only *)
(* for the request that created the ledger row.  Later lookups tell the     *)
(* client what became of the request.                                       *)
(*                                                                         *)
(* A ledger row is Absent, Uncertain (no remote id, active), NotLaunched    *)
(* (no remote id, active = 0) or the job registered for it.  A job is the   *)
(* pair of its request and the number of the launch; the job table and the  *)
(* process trees stand for JobManager.                                      *)
(***************************************************************************)
EXTENDS Naturals, FiniteSets

CONSTANTS
  Requests,      \* the request ids drawn by the client
  Receivers,     \* worker gateway processes on one state directory
  Absent, Uncertain, NotLaunched, Refused, Idle,
  MaxActive,     \* max_active of reserve
  MaxCrashes     \* deaths of a receiver or of the client's gateway

Attempts == 1..2
Posts == Requests \X Attempts
Jobs == Requests \X Attempts

ASSUME RelayAssumption ==
  /\ IsFiniteSet(Requests)
  /\ {Absent, Uncertain, NotLaunched, Refused, Idle} \cap Jobs = {}
  /\ Absent # Uncertain /\ Absent # NotLaunched /\ Uncertain # NotLaunched
  /\ Idle \notin Receivers
  /\ MaxActive \in Nat /\ MaxCrashes \in Nat

Rows == {Absent, Uncertain, NotLaunched} \cup Jobs
Settled == {NotLaunched} \cup Jobs

VARIABLES
  supervised,  \* job_resources is configured: one receiver holds the state directory
  sender,      \* the client's call of dispatch_agent
  client,      \* the client's ledger
  verdict,     \* the answer to a lookup, on its way to the client
  posts,       \* dispatches on their way to a receiver
  answer,      \* the answer waiting in the client's connection
  at,          \* where a receiver's handler is
  serving,     \* the dispatch it serves under relay_dispatch_lock
  row,         \* the receiver's ledger, shared by every receiver
  finished,    \* jobs whose row has active = 0
  status,      \* the job table
  runner,      \* the receiver process that watches the job
  tree,        \* jobs with live processes
  crashes

clientside == <<sender, client, verdict>>
wire       == <<posts, answer>>
ledger     == <<row, finished>>
jobtable   == <<status, runner, tree>>
vars == <<supervised, clientside, wire, at, serving, ledger, jobtable, crashes>>

JobsOf(r) == {j \in Jobs : j[1] = r}
Launched(r) == {j \in JobsOf(r) : status[j] # "none"}
Charged(r) == row[r] = Uncertain \/ row[r] \in Jobs \ finished
Up(s) == at[s] # "down"
Awaited(r, k) == sender[r] = IF k = 1 THEN "first" ELSE "second"

Init ==
  /\ supervised \in BOOLEAN
  /\ sender = [r \in Requests |-> "idle"]
  /\ client = [r \in Requests |-> Absent]
  /\ verdict = [r \in Requests |-> Absent]
  /\ posts = {} /\ answer = [r \in Requests |-> Absent]
  /\ \E s \in Receivers : at = [x \in Receivers |-> IF x = s THEN "ready" ELSE "down"]
  /\ serving = [s \in Receivers |-> Idle]
  /\ row = [r \in Requests |-> Absent] /\ finished = {}
  /\ status = [j \in Jobs |-> "none"] /\ runner = [j \in Jobs |-> Idle]
  /\ tree = {} /\ crashes = 0

-----------------------------------------------------------------------------
(* RelayLedger.                                                             *)

\* register: the first remote id stays, another one is a collision.
Register(rows, r, j) == [rows EXCEPT ![r] = IF @ \in Jobs THEN @ ELSE j]

\* mark_no_launch: only where no remote id was registered.
MarkNoLaunch(rows, r) == [rows EXCEPT ![r] = IF @ \in Jobs THEN @ ELSE NotLaunched]

-----------------------------------------------------------------------------
(* The client: ProductionDelegationClient.call.                             *)

\* A post reaches the listening socket, or the connection is refused.
Send(r, k) == posts' = IF \E s \in Receivers : Up(s) THEN posts \cup {<<r, k>>} ELSE posts

Dispatch(r) ==
  /\ sender[r] = "idle"
  /\ client' = [client EXCEPT ![r] = Uncertain]
  /\ sender' = [sender EXCEPT ![r] = "first"]
  /\ Send(r, 1)
  /\ UNCHANGED <<supervised, verdict, answer, at, serving, ledger, jobtable, crashes>>

\* A timeout, a transport error or any answer but 200: the second attempt.
TryAgain(r) ==
  /\ sender[r] = "first" /\ answer[r] \in {Absent, Refused}
  /\ sender' = [sender EXCEPT ![r] = "second"]
  /\ answer' = [answer EXCEPT ![r] = Absent]
  /\ Send(r, 2)
  /\ UNCHANGED <<supervised, client, verdict, at, serving, ledger, jobtable, crashes>>

\* After it the caller is told "delivery_uncertain", with the public id.
GiveUp(r) ==
  /\ sender[r] = "second" /\ answer[r] \in {Absent, Refused}
  /\ sender' = [sender EXCEPT ![r] = "returned"]
  /\ answer' = [answer EXCEPT ![r] = Absent]
  /\ UNCHANGED <<supervised, client, verdict, posts, at, serving, ledger, jobtable, crashes>>

Accept(r) ==
  /\ sender[r] \in {"first", "second"} /\ answer[r] \in Jobs
  /\ client' = Register(client, r, answer[r])
  /\ sender' = [sender EXCEPT ![r] = "returned"]
  /\ answer' = [answer EXCEPT ![r] = Absent]
  /\ UNCHANGED <<supervised, verdict, posts, at, serving, ledger, jobtable, crashes>>

\* job_status and its kin on a request without remote id ask the receiver,
\* whose event loop answers between dispatches.
LookupHidingRefusals(r) ==            \* Fault: a refusal is not reported
  IF row[r] \in Jobs THEN row[r] ELSE Uncertain
Lookup(r) == IF row[r] \in Settled THEN row[r] ELSE Uncertain

Ask(r) ==
  /\ sender[r] = "returned" /\ client[r] = Uncertain /\ verdict[r] = Absent
  /\ \E s \in Receivers : at[s] = "ready"
  /\ verdict' = [verdict EXCEPT ![r] = Lookup(r)]
  /\ UNCHANGED <<supervised, sender, client, wire, at, serving, ledger, jobtable, crashes>>

Learn(r) ==
  /\ verdict[r] # Absent
  /\ client' = CASE verdict[r] = NotLaunched -> MarkNoLaunch(client, r)
                 [] verdict[r] \in Jobs -> Register(client, r, verdict[r])
                 [] OTHER -> client
  /\ verdict' = [verdict EXCEPT ![r] = Absent]
  /\ UNCHANGED <<supervised, sender, wire, at, serving, ledger, jobtable, crashes>>

\* On a known job the receiver answers and marks a terminal row inactive.
Poll(r) ==
  /\ sender[r] = "returned" /\ client[r] \in Jobs
  /\ \E s \in Receivers : at[s] = "ready"
  /\ status[client[r]] = "ended"
  /\ finished' = finished \cup {client[r]}
  /\ UNCHANGED <<supervised, clientside, wire, at, serving, row, jobtable, crashes>>

-----------------------------------------------------------------------------
(* The receiver: the dispatch_agent branch of internal_delegation.          *)

Reply(s, x) ==
  LET r == serving[s][1]
      k == serving[s][2]
  IN /\ at' = [at EXCEPT ![s] = "ready"]
     /\ serving' = [serving EXCEPT ![s] = Idle]
     /\ answer' = IF Awaited(r, k) THEN [answer EXCEPT ![r] = x] ELSE answer

\* Denied before the ledger is touched: scope, policy, production egress.
Deny(r, k) ==
  /\ <<r, k>> \in posts /\ posts' = posts \ {<<r, k>>}
  /\ \E s \in Receivers : at[s] = "ready"
  /\ answer' = IF Awaited(r, k) THEN [answer EXCEPT ![r] = Refused] ELSE answer
  /\ UNCHANGED <<supervised, clientside, at, serving, ledger, jobtable, crashes>>

Completions(s) == {j \in Jobs : row[j[1]] = j /\ status[j] = "ended"}

Receive(s, r, k) ==
  /\ at[s] = "ready" /\ <<r, k>> \in posts
  /\ posts' = posts \ {<<r, k>>}
  /\ at' = [at EXCEPT ![s] = "reserve"]
  /\ serving' = [serving EXCEPT ![s] = <<r, k>>]
  /\ finished' = finished \cup Completions(s)
  /\ UNCHANGED <<supervised, clientside, answer, row, jobtable, crashes>>

\* The request that creates the row below the limit may launch.
Reserves(r) ==
  /\ row[r] = Absent
  /\ Cardinality({q \in Requests : Charged(q)}) < MaxActive

ReserveAgain(s) ==                    \* Fault: an uncertain request is launched again
  /\ at[s] = "reserve"
  /\ LET r == serving[s][1] IN
     \/ /\ row[r] \in Jobs
        /\ Reply(s, row[r]) /\ UNCHANGED row
     \/ /\ Reserves(r) \/ row[r] = Uncertain
        /\ row' = [row EXCEPT ![r] = Uncertain]
        /\ at' = [at EXCEPT ![s] = "launch"]
        /\ UNCHANGED <<serving, answer>>
  /\ UNCHANGED <<supervised, clientside, posts, finished, jobtable, crashes>>

Reserve(s) ==
  /\ at[s] = "reserve"
  /\ LET r == serving[s][1] IN
     \/ /\ row[r] \in Jobs
        /\ Reply(s, row[r]) /\ UNCHANGED row
     \/ /\ row[r] \notin Jobs /\ ~Reserves(r)
        /\ Reply(s, Refused) /\ UNCHANGED row
     \/ /\ Reserves(r)
        /\ row' = [row EXCEPT ![r] = Uncertain]
        /\ at' = [at EXCEPT ![s] = "launch"]
        /\ UNCHANGED <<serving, answer>>
  /\ UNCHANGED <<supervised, clientside, posts, finished, jobtable, crashes>>

NextJob(r) == <<r, Cardinality(Launched(r)) + 1>>

\* tools["dispatch_agent"] raises PermissionError, ValueError or
\* JobCapacityError: no worker is left and the place is free again.
Reject(s) ==
  /\ at[s] = "launch"
  /\ row' = MarkNoLaunch(row, serving[s][1])
  /\ Reply(s, Refused)
  /\ UNCHANGED <<supervised, clientside, posts, finished, jobtable, crashes>>

FailAsRejected(s) ==                  \* Fault: every exception is a refusal
  /\ at[s] = "launch"
  /\ row' = MarkNoLaunch(row, serving[s][1])
  /\ Reply(s, Refused)
  /\ LET j == NextJob(serving[s][1]) IN
     /\ j \in Jobs
     /\ \/ UNCHANGED jobtable
        \/ /\ status' = [status EXCEPT ![j] = "stuck"]
           /\ tree' = tree \cup {j}
           /\ UNCHANGED runner
  /\ UNCHANGED <<supervised, clientside, posts, finished, crashes>>

\* Any other exception, such as ResourceCleanupError, says nothing of the
\* worker: the answer is 500 and the row stays as it is.
Fail(s) ==
  /\ at[s] = "launch"
  /\ Reply(s, Refused)
  /\ LET j == NextJob(serving[s][1]) IN
     /\ j \in Jobs
     /\ \/ UNCHANGED jobtable
        \/ /\ status' = [status EXCEPT ![j] = "stuck"]
           /\ tree' = tree \cup {j}
           /\ UNCHANGED runner
  /\ UNCHANGED <<supervised, clientside, posts, ledger, crashes>>

Launch(s) ==
  /\ at[s] = "launch"
  /\ LET j == NextJob(serving[s][1]) IN
     /\ j \in Jobs
     /\ status' = [status EXCEPT ![j] = "running"]
     /\ runner' = [runner EXCEPT ![j] = s]
     /\ tree' = tree \cup {j}
  /\ at' = [at EXCEPT ![s] = "register"]
  /\ UNCHANGED <<supervised, clientside, wire, serving, ledger, crashes>>

\* register commits, or the ledger stays locked for its three seconds.
Record(s) ==
  /\ at[s] = "register"
  /\ LET r == serving[s][1]
         j == <<r, Cardinality(Launched(r))>>
     IN \/ row' = Register(row, r, j) /\ Reply(s, j)
        \/ UNCHANGED row /\ Reply(s, Refused)
  /\ UNCHANGED <<supervised, clientside, posts, finished, jobtable, crashes>>

-----------------------------------------------------------------------------
(* Jobs, deaths and restarts.                                               *)

\* The monitor settles the job, or leaves it cleanup_failed.
JobEnds(j) ==
  /\ status[j] = "running" /\ runner[j] \in Receivers /\ Up(runner[j])
  /\ \/ status' = [status EXCEPT ![j] = "ended"] /\ tree' = tree \ {j}
     \/ status' = [status EXCEPT ![j] = "stuck"] /\ tree' \in {tree, tree \ {j}}
  /\ UNCHANGED <<supervised, clientside, wire, at, serving, ledger, runner, crashes>>

\* What the socket of the last process held is lost with it.
ReceiverDies(s) ==
  /\ Up(s) /\ crashes < MaxCrashes
  /\ crashes' = crashes + 1
  /\ at' = [at EXCEPT ![s] = "down"]
  /\ serving' = [serving EXCEPT ![s] = Idle]
  /\ posts' = IF \E x \in Receivers \ {s} : Up(x) THEN posts ELSE {}
  /\ tree' \in {tree, {j \in tree : runner[j] # s}}
  /\ runner' = [j \in Jobs |-> IF runner[j] = s THEN Idle ELSE runner[j]]
  /\ UNCHANGED <<supervised, clientside, answer, ledger, status>>

\* configure_resources, where it is configured, takes the supervisor lock,
\* kills what a dead process left and interrupts its jobs.
Restart(s) ==
  /\ ~Up(s)
  /\ supervised => \A x \in Receivers : ~Up(x)
  /\ at' = [at EXCEPT ![s] = "ready"]
  /\ IF supervised
     THEN /\ tree' = {}
          /\ \E kept \in SUBSET Jobs :     \* cleanup_failed with a transaction
               status' = [j \in Jobs |->
                 IF status[j] = "none" \/ (status[j] = "stuck" /\ j \in kept)
                 THEN status[j] ELSE "ended"]
     ELSE UNCHANGED <<status, tree>>
  /\ UNCHANGED <<supervised, clientside, wire, serving, ledger, runner, crashes>>

\* The recovery command, run while the service is stopped.
Recover(j) ==
  /\ \A s \in Receivers : ~Up(s)
  /\ status[j] = "stuck" /\ j \notin tree
  /\ status' = [status EXCEPT ![j] = "ended"]
  /\ UNCHANGED <<supervised, clientside, wire, at, serving, ledger, runner, tree, crashes>>

\* The caller of an unfinished dispatch never learns its public id.
ClientDies ==
  /\ crashes < MaxCrashes
  /\ crashes' = crashes + 1
  /\ sender' = [r \in Requests |-> IF sender[r] \in {"first", "second"} THEN "gone" ELSE sender[r]]
  /\ verdict' = [r \in Requests |-> Absent]
  /\ answer' = [r \in Requests |-> Absent]
  /\ UNCHANGED <<supervised, client, posts, at, serving, ledger, jobtable>>

-----------------------------------------------------------------------------
Calling(r) == Dispatch(r) \/ TryAgain(r) \/ GiveUp(r) \/ Accept(r)
Handle(s) == Reserve(s) \/ Reject(s) \/ Fail(s) \/ Launch(s) \/ Record(s)

Next ==
  \/ \E r \in Requests : Calling(r) \/ Ask(r) \/ Learn(r) \/ Poll(r)
  \/ \E r \in Requests, k \in Attempts :
       Deny(r, k) \/ \E s \in Receivers : Receive(s, r, k)
  \/ \E s \in Receivers : Handle(s) \/ ReceiverDies(s) \/ Restart(s)
  \/ \E j \in Jobs : JobEnds(j) \/ Recover(j)
  \/ ClientDies

Spec == Init /\ [][Next]_vars

\* A handler that started returns, the service manager restarts a receiver,
\* and a caller that was given a public id keeps asking for its status.
FairSpec ==
  /\ Spec
  /\ \A s \in Receivers : WF_vars(Handle(s)) /\ WF_vars(Restart(s))
  /\ \A r \in Requests : WF_vars(Ask(r)) /\ WF_vars(Learn(r))

-----------------------------------------------------------------------------
(* Properties.                                                              *)
TypeOK ==
  /\ supervised \in BOOLEAN
  /\ sender \in [Requests -> {"idle", "first", "second", "returned", "gone"}]
  /\ client \in [Requests -> Rows] /\ verdict \in [Requests -> Rows]
  /\ posts \subseteq Posts /\ answer \in [Requests -> {Absent, Refused} \cup Jobs]
  /\ at \in [Receivers -> {"down", "ready", "reserve", "launch", "register"}]
  /\ serving \in [Receivers -> Posts \cup {Idle}]
  /\ row \in [Requests -> Rows] /\ finished \subseteq Jobs
  /\ status \in [Jobs -> {"none", "running", "stuck", "ended"}]
  /\ runner \in [Jobs -> Receivers \cup {Idle}] /\ tree \subseteq Jobs
  /\ crashes \in 0..MaxCrashes

(* A request launches at most one worker, whatever is sent twice, answered
   late, interrupted between reserve and register, or served by two receivers
   at once (reserve and the handler's refusal to repeat an uncertain launch). *)
OneWorkerPerRequest ==
  \A r \in Requests : Cardinality(Launched(r)) <= 1

(* What either ledger, or a lookup on its way, calls "not_launched" has no
   worker, and since it holds in every state never gets one: the client
   reports dispatch_rejected_before_launch as final.                         *)
NotLaunchedIsTrue ==
  \A r \in Requests :
    NotLaunched \in {row[r], client[r], verdict[r]} => Launched(r) = {}

(* Retries, late answers, lookups, two receivers and deaths included, the relay
   keeps the contract of a dispatch: what either side has put down about a
   request is not taken back (production_relay.py:122-151, server.py:851-884). *)
Dispatching == INSTANCE DispatchContract WITH
  workers <- [r \in Requests |-> Launched(r)], record <- row, heard <- client

HonoursDispatch == Dispatching!Spec

(* Live workers of the relay never exceed max_active, although each receiver
   knows only its own processes, a receiver may die with its workers alive,
   and a launch may fail without saying whether a worker is left.            *)
LiveWorkersWithinLimit == Cardinality(tree) <= MaxActive

(* A caller that was told "delivery_uncertain" and keeps asking learns the
   outcome once the receiving ledger has one.                                *)
OutcomeReported ==
  \A r \in Requests :
    (sender[r] = "returned" /\ row[r] \in Settled) ~> (client[r] \in Settled)
=============================================================================
