------------------------------ MODULE WorkerGit ------------------------------
(***************************************************************************)
(* The Git service of one live job: WorkerGitRPC (worker_git_rpc.py), whose *)
(* store of prepared requests decides what may take effect, WorkerGitService*)
(* (worker_git_service.py), which serializes the backend and is closed by   *)
(* the job's monitor, and the socket of worker_git_transport.py.            *)
(*                                                                         *)
(* Connections are threads of the socket, of which _serial lets one through *)
(* to the RPC; Owners are threads that come through owner_request.  A scope *)
(* stands for a remote, a reference and a mode or branch of one repository  *)
(* of the catalog; a digest for one proposal the backend may make for it.   *)
(***************************************************************************)
EXTENDS Naturals, FiniteSets

CONSTANTS
  Connections, Owners,
  Scopes, Kind, Place,   \* "pull", "clone" or "fetch", and the repository
  Digests, Proposes,     \* the scope a digest is a proposal for
  None, Nobody, Closer,
  MaxPrepared,           \* MAX_PREPARED_PER_JOB
  TTL, WaitTime,         \* prepared_ttl and the 30 seconds of _wait
  Expiry,                \* expires_at of the grant
  MaxTime                \* bound of the clock

Callers == Connections \cup Owners
Routes == {"pull", "clone", "fetch"}
Places == {Place[s] : s \in Scopes}
Records == [at : 0..MaxTime, dispatched : BOOLEAN]

ASSUME WorkerGitAssumption ==
  /\ Connections \cap Owners = {} /\ {Nobody, Closer} \cap Callers = {}
  /\ Nobody # Closer
  /\ Kind \in [Scopes -> Routes] /\ Proposes \in [Digests -> Scopes]
  /\ None \notin Digests \cup Scopes \cup Places \cup Records
  /\ {MaxPrepared, TTL, WaitTime, Expiry, MaxTime} \subseteq Nat

VARIABLES
  now,
  signedOnly,   \* requires_receipt of the backend
  alive,      \* the job's row is running and its process is owned and alive
  granted,    \* the job is in _grants
  selected,   \* _selected_repositories of the job
  store,      \* _prepared: a record, or None
  holder,     \* of _operation
  closer,     \* where close() of the service is
  turn, call,   \* where each caller is, with its request; at is its "now"
  launched    \* digest by digest, how many times the backend took effect

request == <<turn, call>>
service == <<holder, closer, alive>>
ledger     == <<granted, selected, store>>
serviceVars    == <<now, signedOnly, launched, request, service, ledger>>

\* woken: the event of the record it waits for is set.
Calls == [op : {"none", "prepare", "run", "wait"}, scope : Scopes \cup {None},
          digest : Digests \cup {None}, at : 0..MaxTime, woken : BOOLEAN]
NoCall == [op |-> "none", scope |-> None, digest |-> None, at |-> 0, woken |-> FALSE]
Undispatched == {d \in Digests : store[d] # None /\ ~store[d].dispatched}
Held == {d \in Digests : store[d] # None}
Op(c) == call[c].op
Scope(c) == call[c].scope
Digest(c) == call[c].digest
Busy(c) == turn[c] # "idle"
Closed == closer # "open"
IsLive == ~Closed /\ alive
Active == granted /\ now < Expiry /\ IsLive

ServiceInit ==
  /\ now = 0 /\ signedOnly \in BOOLEAN /\ alive = TRUE /\ granted = TRUE
  /\ selected = None /\ store = [d \in Digests |-> None]
  /\ holder = Nobody /\ closer = "open"
  /\ turn = [c \in Callers |-> "idle"] /\ call = [c \in Callers |-> NoCall]
  /\ launched = [d \in Digests |-> 0]

MoveTo(c, l) == turn' = [turn EXCEPT ![c] = l]
\* An answer: a denial, a proposal or an outcome.
Answer(c) == MoveTo(c, "idle") /\ call' = [call EXCEPT ![c] = NoCall]
Proceed(c, l) == MoveTo(c, l) /\ UNCHANGED call

-----------------------------------------------------------------------------
(* _admit_and_run.                                                          *)

\* Which requests the fields of the two routes allow.  Without receipts a run
\* may leave the digest to a preparation of its own; a fetch always does.
Allowed(c, o, s, d) ==
  /\ o = "prepare" => d = None
  /\ o = "wait" => d # None /\ c \in Connections
  /\ o = "run" /\ signedOnly => d # None
  /\ Kind[s] = "fetch" => o = "run" /\ d = None /\ ~signedOnly /\ c \in Connections

\* A request is admitted, with the clock read once for all of it; what is
\* denied here leaves no trace.
Admit(c) ==
  /\ turn[c] = "idle" /\ Active
  /\ c \in Connections => \A x \in Connections : ~Busy(x)
  /\ \E o \in {"prepare", "run", "wait"}, s \in Scopes, d \in Digests \cup {None} :
       /\ Allowed(c, o, s, d)
       /\ call' = [call EXCEPT ![c] =
            [op |-> o, scope |-> s, digest |-> d, at |-> now, woken |-> FALSE]]
  /\ MoveTo(c, "admitted")
  /\ UNCHANGED <<now, signedOnly, launched, service, ledger>>

\* The first admitted request of a job binds it to a repository.
Onward(c) ==
  CASE Op(c) = "wait" -> "looking"
    [] Digest(c) # None -> "dispatching"
    [] OTHER -> "preparing"

Select(c) ==
  /\ turn[c] = "admitted"
  /\ selected' = IF selected = None THEN Place[Scope(c)] ELSE selected
  /\ IF selected' = Place[Scope(c)] THEN Proceed(c, Onward(c)) ELSE Answer(c)
  /\ UNCHANGED <<now, signedOnly, launched, service, granted, store>>

-----------------------------------------------------------------------------
(* _prepare, _prepare_clone and _make_room.                                 *)

Stale(c, d) == call[c].at >= store[d].at + TTL
Refreshed(c, d) ==
  IF store[d].dispatched THEN store[d] ELSE [store[d] EXCEPT !.at = call[c].at]
Prepared(c, d) ==
  IF Op(c) = "prepare" THEN Answer(c)
  ELSE MoveTo(c, "dispatching") /\ call' = [call EXCEPT ![c].digest = d]

Known(c) == {d \in Held : Proposes[d] = Scope(c)}

\* A clone proposal that is still fresh is given again, dispatched or not.
ReuseClone(c) ==
  /\ turn[c] = "preparing" /\ Kind[Scope(c)] = "clone" /\ granted
  /\ \E d \in Known(c) :
       /\ ~Stale(c, d)
       /\ store' = [store EXCEPT ![d] = Refreshed(c, d)]
       /\ Prepared(c, d)
  /\ UNCHANGED <<now, signedOnly, launched, service, granted, selected>>

\* _prepare_clone looks at the first record of its scope only.
Reusable(c) ==
  /\ Kind[Scope(c)] = "clone" /\ granted /\ Known(c) # {}
  /\ \A d \in Known(c) : ~Stale(c, d)

\* _bound, _bound_clone and _bound_fetch, under _operation: a proposal, or a
\* refusal for reasons of the backend's own.
AskBackend(c) ==
  /\ turn[c] = "preparing" /\ holder = Nobody /\ ~Reusable(c)
  /\ \/ /\ IsLive
        /\ \E d \in Digests :
             Proposes[d] = Scope(c) /\ call' = [call EXCEPT ![c].digest = d]
        /\ MoveTo(c, "storing")
     \/ Answer(c)
  /\ UNCHANGED <<now, signedOnly, launched, service, ledger>>

\* Room for one more record: the stale ones go and, at the limit, the oldest of
\* those that were never dispatched.
RoomFromAll(c, gone) ==               \* Fault: dispatched records go as well
  \/ gone = {} /\ Cardinality(Held) < MaxPrepared
  \/ Cardinality(Held) >= MaxPrepared /\ \E d \in Held :
       gone = {d} /\ \A e \in Held : store[d].at <= store[e].at

Room(c, gone) ==
  LET stale == {d \in Undispatched : Stale(c, d)}
      left == Held \ stale
  IN IF Cardinality(left) < MaxPrepared
     THEN gone = stale
     ELSE \E d \in Undispatched \ stale :
            /\ \A e \in Undispatched \ stale : store[d].at <= store[e].at
            /\ gone = stale \cup {d}

KeepOrRefresh(c) ==
  /\ turn[c] = "storing" /\ granted /\ Digest(c) \in Held
  /\ store' = [store EXCEPT ![Digest(c)] = Refreshed(c, Digest(c))]
  /\ Prepared(c, Digest(c))
  /\ UNCHANGED <<now, signedOnly, launched, service, granted, selected>>

\* A waiter on a record that went sleeps on an event nobody will set.
Store(c) ==
  /\ turn[c] = "storing" /\ granted /\ Digest(c) \notin Held
  /\ \E gone \in SUBSET Held :
       /\ Room(c, gone)
       /\ store' = [d \in Digests |->
            IF d = Digest(c) THEN [at |-> call[c].at, dispatched |-> FALSE]
            ELSE IF d \in gone THEN None ELSE store[d]]
       /\ call' = [x \in Callers |->
            IF x = c /\ Op(c) = "prepare" THEN NoCall
            ELSE IF turn[x] = "waiting" /\ Digest(x) \in gone THEN [call[x] EXCEPT !.digest = None]
            ELSE call[x]]
  /\ MoveTo(c, IF Op(c) = "prepare" THEN "idle" ELSE "dispatching")
  /\ UNCHANGED <<now, signedOnly, launched, service, granted, selected>>

\* "prepared_full" and "grant_revoked".
RefuseAnswer(c) ==
  /\ turn[c] = "storing"
  /\ granted => Digest(c) \notin Held /\ ~\E gone \in SUBSET Held : Room(c, gone)
  /\ Answer(c)
  /\ UNCHANGED <<now, signedOnly, launched, service, ledger>>

-----------------------------------------------------------------------------
(* _pull: the record is claimed, then the backend is called.                *)

Claimable(c) ==
  LET d == Digest(c)
  IN /\ granted /\ d \in Held
     /\ Proposes[d] = Scope(c) /\ ~store[d].dispatched /\ ~Stale(c, d)

Claim(c) ==
  /\ turn[c] = "dispatching"
  /\ \/ /\ Claimable(c)
        /\ store' = [store EXCEPT ![Digest(c)].dispatched = TRUE]
        /\ MoveTo(c, "dispatched") /\ call' = [call EXCEPT ![c].at = 0]
     \/ \* "receipt_mismatch", "receipt_stale", "replay", "prepared_stale", ...
        /\ ~Claimable(c) \/ signedOnly
        /\ Answer(c) /\ UNCHANGED store
  /\ UNCHANGED <<now, signedOnly, launched, service, granted, selected>>

\* The backend refuses, or sets out under _operation if the service lives.
BackendDenies(c) ==
  /\ turn[c] = "dispatched" /\ holder = Nobody
  /\ Proceed(c, "answering")
  /\ UNCHANGED <<now, signedOnly, launched, service, ledger>>

Enter(c) ==
  /\ turn[c] = "dispatched" /\ holder = Nobody /\ IsLive
  /\ holder' = c
  /\ launched' = [launched EXCEPT ![Digest(c)] = @ + 1]
  /\ Proceed(c, "running")
  /\ UNCHANGED <<now, signedOnly, closer, alive, ledger>>

Leave(c) ==
  /\ turn[c] = "running"
  /\ holder' = Nobody /\ Proceed(c, "answering")
  /\ UNCHANGED <<now, signedOnly, launched, closer, alive, ledger>>

Waits(x, d) == turn[x] = "waiting" /\ Digest(x) = d

\* The outcome is kept in the record and its waiters wake.
Conclude(c) ==
  /\ turn[c] = "answering"
  /\ MoveTo(c, "idle")
  /\ call' = [x \in Callers |->
       IF x = c THEN NoCall ELSE [call[x] EXCEPT !.woken = @ \/ Waits(x, Digest(c))]]
  /\ UNCHANGED <<now, signedOnly, launched, service, ledger>>

-----------------------------------------------------------------------------
(* _wait.                                                                   *)

Look(c) ==
  /\ turn[c] = "looking"
  /\ IF Digest(c) \in Held /\ Proposes[Digest(c)] = Scope(c)
     THEN MoveTo(c, "waiting") /\ call' = [call EXCEPT ![c].at = now] ELSE Answer(c)
  /\ UNCHANGED <<now, signedOnly, launched, service, ledger>>

Wake(c) ==
  /\ turn[c] = "waiting" /\ (call[c].woken \/ now >= call[c].at + WaitTime \/ now >= Expiry)
  /\ Answer(c)
  /\ UNCHANGED <<now, signedOnly, launched, service, ledger>>

-----------------------------------------------------------------------------
(* The job ends and its monitor closes the service.                         *)

Dies ==
  /\ alive /\ alive' = FALSE
  /\ UNCHANGED <<now, signedOnly, launched, request, holder, closer, ledger>>

Close ==
  /\ closer = "open" /\ ~alive /\ closer' = "closing"
  /\ UNCHANGED <<now, signedOnly, launched, request, holder, alive, ledger>>

Revoke ==
  /\ closer = "closing" /\ closer' = "revoked"
  /\ granted' = FALSE /\ selected' = None /\ store' = [d \in Digests |-> None]
  /\ call' = [c \in Callers |->
       [call[c] EXCEPT !.woken = @ \/ (turn[c] = "waiting" /\ Digest(c) # None)]]
  /\ UNCHANGED <<turn, now, signedOnly, launched,
                 holder, alive>>

DrainBriefly ==                       \* Fault: the admitted operation is not awaited
  /\ closer = "revoked" /\ closer' = "drained"
  /\ holder' = Closer
  /\ UNCHANGED <<now, signedOnly, launched, request, alive, ledger>>

Drain ==
  /\ closer = "revoked" /\ holder = Nobody /\ closer' = "drained"
  /\ holder' = Closer
  /\ UNCHANGED <<now, signedOnly, launched, request, alive, ledger>>

CloseAndJoin ==                       \* Fault: the threads are joined without a time-out
  /\ closer = "drained" /\ closer' = "closed" /\ \A c \in Connections : ~Busy(c)
  /\ holder' = Nobody
  /\ UNCHANGED <<now, signedOnly, launched, request, alive, ledger>>

\* The connection threads are joined for a second each; they may live on.
CloseTransport ==
  /\ closer = "drained" /\ closer' = "closed"
  /\ holder' = Nobody
  /\ UNCHANGED <<now, signedOnly, launched, request, alive, ledger>>

Tick ==
  /\ now < MaxTime /\ now' = now + 1
  /\ UNCHANGED <<signedOnly, launched, request, service, ledger>>

-----------------------------------------------------------------------------
Handles(c) ==
  \/ Select(c) \/ ReuseClone(c) \/ AskBackend(c) \/ KeepOrRefresh(c) \/ Store(c) \/ RefuseAnswer(c)
  \/ Claim(c) \/ BackendDenies(c) \/ Enter(c) \/ Leave(c) \/ Conclude(c)
  \/ Look(c) \/ Wake(c)
Closes == Close \/ Revoke \/ Drain \/ CloseTransport

ServiceStep ==
  \/ \E c \in Callers : Admit(c) \/ Handles(c)
  \/ Closes \/ Dies \/ Tick

ServiceSpec == ServiceInit /\ [][ServiceStep]_serviceVars

\* The handlers and the monitor are threads that go on, backend calls end by
\* their own time-outs, and the clock advances.
ServiceFairSpec ==
  /\ ServiceSpec /\ WF_serviceVars(Tick)
  /\ \A c \in Callers : WF_serviceVars(Handles(c))
  /\ WF_serviceVars(Closes)

-----------------------------------------------------------------------------
ServiceTypeOK ==
  /\ now \in 0..MaxTime /\ signedOnly \in BOOLEAN /\ alive \in BOOLEAN
  /\ granted \in BOOLEAN /\ selected \in Places \cup {None}
  /\ store \in [Digests -> Records \cup {None}]
  /\ holder \in Callers \cup {Nobody, Closer}
  /\ closer \in {"open", "closing", "revoked", "drained", "closed"}
  /\ turn \in [Callers -> {"idle", "admitted", "looking", "waiting", "preparing",
                         "storing", "dispatching", "dispatched", "running", "answering"}]
  /\ call \in [Callers -> Calls]
  /\ launched \in [Digests -> Nat]

\* "Claimed at dispatch and never reset": with workspace authority the ledger
\* gives every call a fresh nonce, so the store alone keeps one proposal from
\* taking effect twice, through re-preparation, eviction and concurrent runs;
\* and a job's effects stay in the repository it was bound to first.
EffectsBound ==
  \A d, e \in Digests :
    /\ launched[d] <= 1
    /\ launched[d] > 0 /\ launched[e] > 0 => Place[Proposes[d]] = Place[Proposes[e]]

\* "Revoke first, then drain any admitted backend operation": when the monitor
\* goes on to publish the job's transaction, no Git operation works on it, and
\* none that was claimed before the revocation sets out afterwards.
QuietAfterClose ==
  closer = "closed" => \A c \in Callers : turn[c] # "running"

\* Every request is answered and close returns, although handlers, the monitor
\* and the backend wait for each other's locks.
CallsEnd ==
  /\ \A c \in Callers : Busy(c) ~> ~Busy(c)
  /\ Closed ~> closer = "closed"
=============================================================================
