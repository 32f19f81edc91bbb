----------------------- MODULE DelegationRelayProofs -----------------------
(***************************************************************************)
(* What the relay guarantees for any number of requests, receivers and      *)
(* deaths and for any limit.                                                *)
(***************************************************************************)
EXTENDS DelegationRelay, FiniteSetTheorems, TLAPS

Busy == {"launch", "register"}
ChargedRequests == {r \in Requests : Charged(r)}

(* A launch belongs to the request whose row the receiver reserved, and no
   two receivers launch for one request.                                     *)
LaunchIsReserved ==
  \A s \in Receivers :
    /\ at[s] \in {"reserve", "launch", "register"} => serving[s] \in Posts
    /\ at[s] = "launch" => /\ row[serving[s][1]] = Uncertain
                           /\ status[<<serving[s][1], 1>>] = "none"
    /\ at[s] = "register" => /\ row[serving[s][1]] = Uncertain
                             /\ status[<<serving[s][1], 1>>] # "none"
    /\ \A t \in Receivers :
         at[s] \in Busy /\ at[t] \in Busy /\ serving[s][1] = serving[t][1] => s = t

(* What was launched is recorded, or not yet and then uncertain.             *)
LaunchIsRecorded ==
  \A r \in Requests :
    /\ status[<<r, 2>>] = "none"
    /\ status[<<r, 1>>] # "none" => row[r] \in {Uncertain, <<r, 1>>}
    /\ row[r] \in Jobs => row[r] = <<r, 1>>

(* The client hears of a refusal only from the receiving ledger.             *)
RefusalIsRecorded ==
  \A r \in Requests : NotLaunched \in {client[r], verdict[r]} => row[r] = NotLaunched

IInv == TypeOK /\ LaunchIsReserved /\ LaunchIsRecorded /\ RefusalIsRecorded

(* A live worker's place is not given away.                                  *)
PlaceHeld ==
  /\ \A j \in tree : status[j] \in {"running", "stuck"}
  /\ \A j \in finished : status[j] = "ended"
  /\ Cardinality(ChargedRequests) <= MaxActive

USE RelayAssumption DEF Rows, Settled, Attempts, Posts, Jobs, Busy

-----------------------------------------------------------------------------
(* What the helpers return where at most one worker was launched.            *)
LEMMA LaunchedIs ==
  ASSUME NEW r \in Requests, status[<<r, 2>>] = "none"
  PROVE  /\ status[<<r, 1>>] = "none" => Launched(r) = {}
         /\ status[<<r, 1>>] # "none" => Launched(r) = {<<r, 1>>}
         /\ Cardinality(Launched(r)) = IF status[<<r, 1>>] = "none" THEN 0 ELSE 1
<1>1. Launched(r) \subseteq {<<r, 1>>}
  BY DEF Launched, JobsOf
<1>2. <<r, 1>> \in Launched(r) <=> status[<<r, 1>>] # "none"
  BY DEF Launched, JobsOf
<1>3. Cardinality({}) = 0 /\ Cardinality({<<r, 1>>}) = 1
  BY FS_EmptySet, FS_Singleton
<1>4. CASE status[<<r, 1>>] = "none"
  BY <1>1, <1>2, <1>3, <1>4
<1>5. CASE status[<<r, 1>>] # "none"
  <2>1. Launched(r) = {<<r, 1>>}
    BY <1>1, <1>2, <1>5
  <2>q. QED BY <2>1, <1>3, <1>5
<1>q. QED BY <1>4, <1>5

LEMMA NextJobIs ==
  ASSUME NEW r \in Requests, status[<<r, 2>>] = "none", status[<<r, 1>>] = "none"
  PROVE  NextJob(r) = <<r, 1>> /\ NextJob(r) \in Jobs
BY LaunchedIs DEF NextJob

LEMMA InitHolds == Init => IInv
<1> SUFFICES ASSUME Init PROVE IInv
  OBVIOUS
<1> USE DEF Init
<1>1. TypeOK
  BY DEF TypeOK
<1>2. LaunchIsReserved
  BY DEF LaunchIsReserved
<1>3. LaunchIsRecorded /\ RefusalIsRecorded
  BY DEF LaunchIsRecorded, RefusalIsRecorded
<1>q. QED BY <1>1, <1>2, <1>3 DEF IInv

-----------------------------------------------------------------------------
(* The steps of the client.                                                  *)
LEMMA CallingKeeps ==
  ASSUME IInv, NEW r \in Requests, Calling(r)
  PROVE  IInv'
<1> USE DEF IInv
<1>1. TypeOK'
  <2>1. CASE Dispatch(r)
    BY <2>1 DEF Dispatch, Send, TypeOK, ledger, jobtable
  <2>2. CASE TryAgain(r)
    BY <2>2 DEF TryAgain, Send, TypeOK, ledger, jobtable
  <2>3. CASE GiveUp(r)
    BY <2>3 DEF GiveUp, TypeOK, ledger, jobtable
  <2>4. CASE Accept(r)
    <3>1. Register(client, r, answer[r]) \in [Requests -> Rows]
      BY <2>4 DEF Accept, Register, TypeOK
    <3>q. QED BY <2>4, <3>1 DEF Accept, TypeOK, ledger, jobtable
  <2>q. QED BY <2>1, <2>2, <2>3, <2>4 DEF Calling
<1>2. UNCHANGED <<at, serving, row, status, verdict>>
  BY DEF Calling, Dispatch, TryAgain, GiveUp, Accept, ledger, jobtable
<1>3. \A q \in Requests : client'[q] = NotLaunched => client[q] = NotLaunched
  BY DEF Calling, Dispatch, TryAgain, GiveUp, Accept, Register, TypeOK
<1>4. LaunchIsReserved' /\ LaunchIsRecorded'
  BY <1>2 DEF LaunchIsReserved, LaunchIsRecorded
<1>5. RefusalIsRecorded'
  BY <1>2, <1>3 DEF RefusalIsRecorded
<1>q. QED BY <1>1, <1>4, <1>5

LEMMA AskingKeeps ==
  ASSUME IInv, NEW r \in Requests, Ask(r) \/ Learn(r) \/ Poll(r)
  PROVE  IInv'
<1> USE DEF IInv
<1>1. Lookup(r) \in Rows /\ (Lookup(r) = NotLaunched => row[r] = NotLaunched)
  BY DEF Lookup, TypeOK
<1>2. Learn(r) =>
        /\ client' \in [Requests -> Rows]
        /\ \A q \in Requests : client'[q] = NotLaunched =>
             NotLaunched \in {client[q], verdict[q]}
  <2> SUFFICES ASSUME Learn(r)
               PROVE  /\ client' \in [Requests -> Rows]
                      /\ \A q \in Requests : client'[q] = NotLaunched =>
                           NotLaunched \in {client[q], verdict[q]}
    OBVIOUS
  <2> USE DEF Learn, TypeOK
  <2>1. CASE verdict[r] = NotLaunched
    BY <2>1 DEF MarkNoLaunch
  <2>2. CASE verdict[r] \in Jobs
    <3>1. client' = Register(client, r, verdict[r])
      BY <2>2
    <3>q. QED BY <2>2, <3>1 DEF Register
  <2>3. CASE verdict[r] \notin Jobs \cup {NotLaunched}
    BY <2>3
  <2>q. QED BY <2>1, <2>2, <2>3
<1>3. TypeOK'
  <2>1. CASE Ask(r)
    BY <1>1, <2>1 DEF Ask, TypeOK, wire, ledger, jobtable
  <2>2. CASE Learn(r)
    BY <1>2, <2>2 DEF Learn, TypeOK, wire, ledger, jobtable
  <2>3. CASE Poll(r)
    BY <2>3 DEF Poll, TypeOK, clientside, wire, jobtable
  <2>q. QED BY <2>1, <2>2, <2>3
<1>4. UNCHANGED <<at, serving, row, status>>
  BY DEF Ask, Learn, Poll, wire, ledger, jobtable
<1>5. LaunchIsReserved' /\ LaunchIsRecorded'
  BY <1>4 DEF LaunchIsReserved, LaunchIsRecorded
<1>6. RefusalIsRecorded'
  <2>1. CASE Ask(r)
    BY <1>1, <1>4, <2>1 DEF Ask, TypeOK, RefusalIsRecorded
  <2>2. CASE Learn(r)
    <3>1. \A q \in Requests : verdict'[q] = NotLaunched => verdict[q] = NotLaunched
      BY <2>2 DEF Learn, TypeOK
    <3>q. QED BY <1>2, <1>4, <2>2, <3>1 DEF RefusalIsRecorded
  <2>3. CASE Poll(r)
    BY <1>4, <2>3 DEF Poll, clientside, RefusalIsRecorded
  <2>q. QED BY <2>1, <2>2, <2>3
<1>q. QED BY <1>3, <1>5, <1>6

-----------------------------------------------------------------------------
(* The steps of a receiver.                                                  *)
LEMMA DenyKeeps ==
  ASSUME IInv, NEW r \in Requests, NEW k \in Attempts, Deny(r, k)
  PROVE  IInv'
<1> USE DEF IInv, Deny, clientside, ledger, jobtable
<1>1. TypeOK'
  BY DEF TypeOK
<1>2. LaunchIsReserved' /\ LaunchIsRecorded' /\ RefusalIsRecorded'
  BY DEF LaunchIsReserved, LaunchIsRecorded, RefusalIsRecorded
<1>q. QED BY <1>1, <1>2

LEMMA ReceiveKeeps ==
  ASSUME IInv, NEW s \in Receivers, NEW r \in Requests, NEW k \in Attempts, Receive(s, r, k)
  PROVE  IInv'
<1> USE DEF IInv, Receive, clientside, jobtable
<1>1. TypeOK'
  BY DEF TypeOK, Completions
<1>2. at' = [at EXCEPT ![s] = "reserve"] /\ serving' = [serving EXCEPT ![s] = <<r, k>>]
  OBVIOUS
<1>3. LaunchIsReserved'
  BY <1>2 DEF LaunchIsReserved, TypeOK
<1>4. LaunchIsRecorded' /\ RefusalIsRecorded'
  BY DEF LaunchIsRecorded, RefusalIsRecorded
<1>q. QED BY <1>1, <1>3, <1>4

\* An answer changes the receiver's place and the client's connection only.
LEMMA ReplyIs ==
  ASSUME TypeOK, NEW s \in Receivers, NEW x \in {Refused} \cup Jobs,
         serving[s] \in Posts, Reply(s, x)
  PROVE  /\ at' = [at EXCEPT ![s] = "ready"]
         /\ serving' = [serving EXCEPT ![s] = Idle]
         /\ answer' \in [Requests -> {Absent, Refused} \cup Jobs]
BY DEF Reply, TypeOK

LEMMA HandleKeeps ==
  ASSUME IInv, NEW s \in Receivers, Handle(s)
  PROVE  IInv'
<1> DEFINE r == serving[s][1]
<1> USE DEF IInv
<1>1. serving[s] \in Posts /\ r \in Requests
  BY DEF Handle, Reserve, Reject, Fail, Launch, Record, LaunchIsReserved
<1>2. CASE Reserve(s)
  <2> USE <1>2 DEF Reserve
  <2>1. CASE /\ row[r] \in Jobs \/ ~Reserves(r)
             /\ UNCHANGED row
             /\ \E x \in {Refused} \cup Jobs : Reply(s, x)
    <3>1. /\ at' = [at EXCEPT ![s] = "ready"] /\ serving' = [serving EXCEPT ![s] = Idle]
          /\ answer' \in [Requests -> {Absent, Refused} \cup Jobs]
      BY <1>1, <2>1, ReplyIs
    <3>2. TypeOK'
      BY <2>1, <3>1 DEF TypeOK, clientside, jobtable
    <3>3. LaunchIsReserved'
      BY <2>1, <3>1 DEF LaunchIsReserved, TypeOK, jobtable
    <3>4. LaunchIsRecorded' /\ RefusalIsRecorded'
      BY <2>1 DEF LaunchIsRecorded, RefusalIsRecorded, clientside, jobtable
    <3>q. QED BY <3>2, <3>3, <3>4
  <2>2. CASE /\ Reserves(r) /\ row' = [row EXCEPT ![r] = Uncertain]
             /\ at' = [at EXCEPT ![s] = "launch"] /\ UNCHANGED <<serving, answer>>
    <3>1. row[r] = Absent
      BY <2>2 DEF Reserves
    <3>2. TypeOK'
      BY <2>2 DEF TypeOK, clientside, jobtable
    <3>3. status[<<r, 1>>] = "none"
      <4>1. <<r, 1>> \in Jobs /\ Absent \notin Jobs
        BY <1>1
      <4>2. row[r] \notin {Uncertain, <<r, 1>>}
        BY <3>1, <4>1
      <4>q. QED BY <1>1, <4>2 DEF LaunchIsRecorded
    <3>4. \A t \in Receivers : at[t] \in Busy => serving[t] \in Posts /\ serving[t][1] # r
      BY <3>1 DEF LaunchIsReserved
    <3>5. LaunchIsReserved'
      BY <1>1, <2>2, <3>3, <3>4 DEF LaunchIsReserved, TypeOK, jobtable
    <3>6. LaunchIsRecorded' /\ RefusalIsRecorded'
      BY <1>1, <2>2, <3>1, <3>3 DEF LaunchIsRecorded, RefusalIsRecorded, TypeOK,
         clientside, jobtable
    <3>q. QED BY <3>2, <3>5, <3>6
  <2>q. QED BY <2>1, <2>2
<1>3. CASE Reject(s) \/ Fail(s)
  <2>1. at[s] = "launch" /\ row[r] = Uncertain /\ status[<<r, 1>>] = "none"
        /\ status[<<r, 2>>] = "none"
    BY <1>1, <1>3 DEF Reject, Fail, LaunchIsReserved, LaunchIsRecorded
  <2>2. /\ at' = [at EXCEPT ![s] = "ready"] /\ serving' = [serving EXCEPT ![s] = Idle]
        /\ answer' \in [Requests -> {Absent, Refused} \cup Jobs]
    BY <1>1, <1>3, ReplyIs DEF Reject, Fail
  <2>3. \A t \in Receivers : t # s /\ at[t] \in Busy => serving[t] \in Posts /\ serving[t][1] # r
    BY <2>1 DEF LaunchIsReserved
  <2>4. CASE Reject(s)
    <3>1. row' = [row EXCEPT ![r] = NotLaunched]
      BY <1>1, <2>1, <2>4 DEF Reject, MarkNoLaunch, TypeOK
    <3>2. TypeOK'
      BY <2>2, <2>4, <3>1 DEF Reject, TypeOK, clientside, jobtable
    <3>3. LaunchIsReserved'
      BY <2>2, <2>3, <2>4, <3>1 DEF Reject, LaunchIsReserved, TypeOK, jobtable
    <3>4. LaunchIsRecorded' /\ RefusalIsRecorded'
      BY <1>1, <2>1, <2>4, <3>1 DEF Reject, LaunchIsRecorded, RefusalIsRecorded, TypeOK,
         clientside, jobtable
    <3>q. QED BY <3>2, <3>3, <3>4
  <2>5. CASE Fail(s)
    <3>1. NextJob(r) = <<r, 1>>
      BY <1>1, <2>1, NextJobIs
    <3>2. /\ tree' \subseteq Jobs /\ runner' = runner
          /\ \/ status' = status
             \/ status' = [status EXCEPT ![<<r, 1>>] = "stuck"]
      BY <1>1, <2>5, <3>1 DEF Fail, TypeOK, jobtable
    <3>3. TypeOK'
      BY <2>2, <2>5, <3>2 DEF Fail, TypeOK, clientside, ledger
    <3>4. LaunchIsReserved'
      BY <2>2, <2>3, <2>5, <3>2 DEF Fail, LaunchIsReserved, TypeOK, ledger
    <3>5. LaunchIsRecorded' /\ RefusalIsRecorded'
      BY <1>1, <2>1, <2>5, <3>2 DEF Fail, LaunchIsRecorded, RefusalIsRecorded, TypeOK,
         clientside, ledger
    <3>q. QED BY <3>3, <3>4, <3>5
  <2>q. QED BY <1>3, <2>4, <2>5
<1>4. CASE Launch(s)
  <2>1. at[s] = "launch" /\ row[r] = Uncertain /\ status[<<r, 1>>] = "none"
        /\ status[<<r, 2>>] = "none"
    BY <1>1, <1>4 DEF Launch, LaunchIsReserved, LaunchIsRecorded
  <2>2. NextJob(r) = <<r, 1>>
    BY <1>1, <2>1, NextJobIs
  <2>3. /\ status' = [status EXCEPT ![<<r, 1>>] = "running"]
        /\ runner' = [runner EXCEPT ![<<r, 1>>] = s] /\ tree' = tree \cup {<<r, 1>>}
        /\ at' = [at EXCEPT ![s] = "register"]
    BY <1>4, <2>2 DEF Launch
  <2>4. \A t \in Receivers : t # s /\ at[t] \in Busy => serving[t] \in Posts /\ serving[t][1] # r
    BY <2>1 DEF LaunchIsReserved
  <2>5. TypeOK'
    BY <1>1, <1>4, <2>3 DEF Launch, TypeOK, clientside, wire, ledger
  <2>6. LaunchIsReserved'
    BY <1>1, <1>4, <2>1, <2>3, <2>4 DEF Launch, LaunchIsReserved, TypeOK, ledger
  <2>7. LaunchIsRecorded' /\ RefusalIsRecorded'
    BY <1>1, <1>4, <2>1, <2>3 DEF Launch, LaunchIsRecorded, RefusalIsRecorded, TypeOK,
       clientside, ledger
  <2>q. QED BY <2>5, <2>6, <2>7
<1>5. CASE Record(s)
  <2>1. at[s] = "register" /\ row[r] = Uncertain /\ status[<<r, 1>>] # "none"
        /\ status[<<r, 2>>] = "none"
    BY <1>1, <1>5 DEF Record, LaunchIsReserved, LaunchIsRecorded
  <2>2. <<r, Cardinality(Launched(r))>> = <<r, 1>> /\ <<r, 1>> \in Jobs
    BY <1>1, <2>1, LaunchedIs
  <2>3. \/ row' = Register(row, r, <<r, 1>>) /\ Reply(s, <<r, 1>>)
        \/ row' = row /\ Reply(s, Refused)
    BY <1>5, <2>2 DEF Record
  <2>4. row' = row \/ row' = [row EXCEPT ![r] = <<r, 1>>]
    BY <1>1, <2>1, <2>3 DEF Register, TypeOK
  <2>5. /\ at' = [at EXCEPT ![s] = "ready"] /\ serving' = [serving EXCEPT ![s] = Idle]
        /\ answer' \in [Requests -> {Absent, Refused} \cup Jobs]
    BY <1>1, <2>2, <2>3, ReplyIs
  <2>6. \A t \in Receivers : t # s /\ at[t] \in Busy => serving[t] \in Posts /\ serving[t][1] # r
    BY <2>1 DEF LaunchIsReserved
  <2>7. TypeOK'
    BY <1>1, <1>5, <2>2, <2>4, <2>5 DEF Record, TypeOK, clientside, jobtable
  <2>8. LaunchIsReserved'
    BY <1>5, <2>4, <2>5, <2>6 DEF Record, LaunchIsReserved, TypeOK, jobtable
  <2>9. LaunchIsRecorded' /\ RefusalIsRecorded'
    BY <1>1, <1>5, <2>1, <2>2, <2>4 DEF Record, LaunchIsRecorded, RefusalIsRecorded, TypeOK,
       clientside, jobtable
  <2>q. QED BY <2>7, <2>8, <2>9
<1>q. QED BY <1>2, <1>3, <1>4, <1>5 DEF Handle

(* Jobs, deaths and restarts.                                                *)
LEMMA JobKeeps ==
  ASSUME IInv, NEW j \in Jobs, JobEnds(j) \/ Recover(j)
  PROVE  IInv'
<1> USE DEF IInv
<1>1. /\ status[j] # "none" /\ tree' \subseteq Jobs
      /\ \E x \in {"ended", "stuck"} : status' = [status EXCEPT ![j] = x]
      /\ UNCHANGED <<supervised, clientside, wire, at, serving, ledger, runner, crashes>>
  BY DEF JobEnds, Recover, TypeOK
<1>2. TypeOK'
  BY <1>1 DEF TypeOK, clientside, wire, ledger
<1>3. \A i \in Jobs : status'[i] = "none" <=> status[i] = "none"
  BY <1>1 DEF TypeOK
<1>4. LaunchIsReserved'
  BY <1>1, <1>3 DEF LaunchIsReserved, ledger
<1>5. LaunchIsRecorded' /\ RefusalIsRecorded'
  BY <1>1, <1>3 DEF LaunchIsRecorded, RefusalIsRecorded, clientside, ledger
<1>q. QED BY <1>2, <1>4, <1>5

LEMMA DeathKeeps ==
  ASSUME IInv, NEW s \in Receivers, ReceiverDies(s) \/ Restart(s)
  PROVE  IInv'
<1> USE DEF IInv
<1>1. /\ \E x \in {"down", "ready"} : at' = [at EXCEPT ![s] = x]
      /\ serving' \in {serving, [serving EXCEPT ![s] = Idle]}
      /\ UNCHANGED <<supervised, clientside, answer, ledger>>
  BY DEF ReceiverDies, Restart, wire
<1>2. \A i \in Jobs : status'[i] = "none" <=> status[i] = "none"
  BY DEF ReceiverDies, Restart, TypeOK
<1>3. TypeOK'
  <2>1. CASE ReceiverDies(s)
    BY <1>1, <2>1 DEF ReceiverDies, TypeOK, clientside, ledger
  <2>2. CASE Restart(s)
    BY <1>1, <2>2 DEF Restart, TypeOK, clientside, wire, ledger
  <2>q. QED BY <2>1, <2>2
<1>4. LaunchIsReserved'
  BY <1>1, <1>2 DEF LaunchIsReserved, TypeOK, ledger
<1>5. LaunchIsRecorded' /\ RefusalIsRecorded'
  BY <1>1, <1>2 DEF LaunchIsRecorded, RefusalIsRecorded, clientside, ledger
<1>q. QED BY <1>3, <1>4, <1>5

LEMMA ClientDeathKeeps ==
  ASSUME IInv, ClientDies
  PROVE  IInv'
<1> USE DEF IInv, ClientDies
<1>1. TypeOK'
  BY DEF TypeOK, ledger, jobtable
<1>2. LaunchIsReserved' /\ LaunchIsRecorded'
  BY DEF LaunchIsReserved, LaunchIsRecorded, ledger, jobtable
<1>3. RefusalIsRecorded'
  BY DEF RefusalIsRecorded, ledger
<1>q. QED BY <1>1, <1>2, <1>3

LEMMA StepKeeps == IInv /\ [Next]_vars => IInv'
<1> SUFFICES ASSUME IInv, [Next]_vars PROVE IInv'
  OBVIOUS
<1>1. CASE UNCHANGED vars
  <2> USE <1>1 DEF IInv, vars, clientside, wire, ledger, jobtable
  <2>1. TypeOK'
    BY DEF TypeOK
  <2>2. LaunchIsReserved' /\ LaunchIsRecorded' /\ RefusalIsRecorded'
    BY DEF LaunchIsReserved, LaunchIsRecorded, RefusalIsRecorded
  <2>q. QED BY <2>1, <2>2
<1>2. CASE Next
  BY <1>2, CallingKeeps, AskingKeeps, DenyKeeps, ReceiveKeeps, HandleKeeps, DeathKeeps,
     JobKeeps, ClientDeathKeeps DEF Next
<1>q. QED BY <1>1, <1>2

LEMMA Always == Spec => []IInv
BY InitHolds, StepKeeps, PTL DEF Spec

-----------------------------------------------------------------------------
(* The receiver's ledger counts every live worker.                           *)
LEMMA FewerCharged ==
  ASSUME PlaceHeld, ChargedRequests' \subseteq ChargedRequests
  PROVE  Cardinality(ChargedRequests') <= MaxActive
<1>1. IsFiniteSet(ChargedRequests)
  BY FS_Subset DEF ChargedRequests
<1>2. /\ Cardinality(ChargedRequests') <= Cardinality(ChargedRequests)
      /\ Cardinality(ChargedRequests) \in Nat
  BY <1>1, FS_Subset, FS_CardinalityType
<1>3. IsFiniteSet(ChargedRequests') /\ Cardinality(ChargedRequests') \in Nat
  BY <1>1, FS_Subset, FS_CardinalityType
<1>q. QED BY <1>2, <1>3 DEF PlaceHeld

LEMMA PlaceInit == Init => PlaceHeld
<1> SUFFICES ASSUME Init PROVE PlaceHeld
  OBVIOUS
<1>1. ChargedRequests = {}
  BY DEF Init, ChargedRequests, Charged
<1>2. Cardinality(ChargedRequests) <= MaxActive
  BY <1>1, FS_EmptySet
<1>q. QED BY <1>2 DEF Init, PlaceHeld

\* Most steps leave the receiver's ledger alone, or mark ended jobs in it.
LEMMA PlaceIfRowKept ==
  ASSUME TypeOK, PlaceHeld, row' = row, finished \subseteq finished',
         \A j \in tree' : status'[j] \in {"running", "stuck"},
         \A j \in finished' : status'[j] = "ended"
  PROVE  PlaceHeld'
<1>1. ChargedRequests' \subseteq ChargedRequests
  BY DEF ChargedRequests, Charged
<1>q. QED BY <1>1, FewerCharged DEF PlaceHeld

LEMMA PlaceHandle ==
  ASSUME IInv, PlaceHeld, NEW s \in Receivers, Handle(s)
  PROVE  PlaceHeld'
<1> DEFINE r == serving[s][1]
<1> USE DEF IInv
<1>1. serving[s] \in Posts /\ r \in Requests
  BY DEF Handle, Reserve, Reject, Fail, Launch, Record, LaunchIsReserved
<1>2. CASE Reserve(s) /\ row' # row
  <2>1. Reserves(r) /\ row' = [row EXCEPT ![r] = Uncertain]
    BY <1>2 DEF Reserve
  <2>2. ChargedRequests' = ChargedRequests \cup {r} /\ UNCHANGED <<finished, status, tree>>
    <3>1. UNCHANGED <<finished, status, tree>>
      BY <1>2 DEF Reserve, jobtable
    <3>2. \A q \in Requests : Charged(q)' <=> q = r \/ Charged(q)
      BY <1>1, <2>1, <3>1 DEF Charged, TypeOK
    <3>q. QED BY <1>1, <3>1, <3>2 DEF ChargedRequests
  <2>3. Cardinality(ChargedRequests) < MaxActive
    BY <2>1 DEF Reserves, ChargedRequests
  <2>4. IsFiniteSet(ChargedRequests)
    BY FS_Subset DEF ChargedRequests
  <2>5. Cardinality(ChargedRequests) \in Nat
    BY <2>4, FS_CardinalityType
  <2>6. Cardinality(ChargedRequests') <= Cardinality(ChargedRequests) + 1
    <3>1. Cardinality(ChargedRequests \cup {r})
            = IF r \in ChargedRequests THEN Cardinality(ChargedRequests)
              ELSE Cardinality(ChargedRequests) + 1
      BY <2>4, FS_AddElement
    <3>q. QED BY <2>2, <2>5, <3>1
  <2>7. Cardinality(ChargedRequests') \in Nat
    BY <2>2, <2>4, FS_AddElement, FS_CardinalityType
  <2>8. Cardinality(ChargedRequests') <= MaxActive
    BY <2>3, <2>5, <2>6, <2>7
  <2>q. QED BY <2>2, <2>8 DEF PlaceHeld
<1>3. CASE Reserve(s) /\ row' = row
  BY <1>3, PlaceIfRowKept DEF Reserve, PlaceHeld, jobtable
<1>4. CASE Reject(s)
  <2>1. UNCHANGED <<finished, status, tree>>
    BY <1>4 DEF Reject, jobtable
  <2>2. \A q \in Requests : row'[q] = row[q] \/ row'[q] = NotLaunched
    BY <1>4 DEF Reject, MarkNoLaunch, TypeOK
  <2>3. NotLaunched # Uncertain /\ NotLaunched \notin Jobs
    OBVIOUS
  <2>4. ChargedRequests' \subseteq ChargedRequests
    BY <2>1, <2>2, <2>3 DEF ChargedRequests, Charged
  <2>q. QED BY <2>1, <2>4, FewerCharged DEF PlaceHeld
<1>5. CASE Fail(s) \/ Launch(s)
  <2>1. at[s] = "launch" /\ status[<<r, 1>>] = "none" /\ status[<<r, 2>>] = "none"
    BY <1>1, <1>5 DEF Fail, Launch, LaunchIsReserved, LaunchIsRecorded
  <2>2. NextJob(r) = <<r, 1>>
    BY <1>1, <2>1, NextJobIs
  <2>3. \/ UNCHANGED <<status, tree>>
        \/ /\ \E x \in {"running", "stuck"} : status' = [status EXCEPT ![<<r, 1>>] = x]
           /\ tree' = tree \cup {<<r, 1>>}
    BY <1>5, <2>2 DEF Fail, Launch, jobtable
  <2>4. UNCHANGED <<row, finished>>
    BY <1>5 DEF Fail, Launch, ledger
  <2>5. \A j \in tree' : status'[j] \in {"running", "stuck"}
    <3> SUFFICES ASSUME NEW j \in tree' PROVE status'[j] \in {"running", "stuck"}
      OBVIOUS
    <3>1. CASE UNCHANGED <<status, tree>>
      BY <3>1 DEF PlaceHeld
    <3>2. CASE /\ \E x \in {"running", "stuck"} : status' = [status EXCEPT ![<<r, 1>>] = x]
               /\ tree' = tree \cup {<<r, 1>>}
      <4>1. <<r, 1>> \in Jobs
        BY <1>1
      <4>2. j = <<r, 1>> \/ (j \in tree /\ j \in Jobs)
        BY <3>2 DEF TypeOK
      <4>q. QED BY <3>2, <4>1, <4>2 DEF PlaceHeld, TypeOK
    <3>q. QED BY <2>3, <3>1, <3>2
  <2>6. \A j \in finished' : status'[j] = "ended"
    BY <1>1, <2>1, <2>3, <2>4 DEF PlaceHeld, TypeOK
  <2>q. QED BY <2>4, <2>5, <2>6, PlaceIfRowKept
<1>6. CASE Record(s)
  <2>1. at[s] = "register" /\ row[r] = Uncertain
    BY <1>1, <1>6 DEF Record, LaunchIsReserved
  <2>2. UNCHANGED <<finished, status, tree>>
    BY <1>6 DEF Record, jobtable
  <2>3. \A q \in Requests : q # r => row'[q] = row[q]
    BY <1>6 DEF Record, Register, TypeOK
  <2>4. ChargedRequests' \subseteq ChargedRequests
    BY <2>1, <2>2, <2>3 DEF ChargedRequests, Charged
  <2>q. QED BY <2>2, <2>4, FewerCharged DEF PlaceHeld
<1>q. QED BY <1>2, <1>3, <1>4, <1>5, <1>6 DEF Handle

LEMMA PlaceKept == IInv /\ PlaceHeld /\ [Next]_vars => PlaceHeld'
<1> SUFFICES ASSUME IInv, PlaceHeld, [Next]_vars PROVE PlaceHeld'
  OBVIOUS
<1> USE DEF IInv
<1>1. CASE UNCHANGED <<row, status, tree>> /\ finished \subseteq finished'
           /\ \A j \in finished' \ finished : status[j] = "ended"
  BY <1>1, PlaceIfRowKept DEF PlaceHeld
<1>2. ASSUME NEW r \in Requests, Calling(r) \/ Ask(r) \/ Learn(r) \/ Poll(r)
      PROVE  PlaceHeld'
  BY <1>1, <1>2 DEF Calling, Dispatch, TryAgain, GiveUp, Accept, Ask, Learn, Poll,
     ledger, jobtable
<1>3. ASSUME NEW r \in Requests, NEW k \in Attempts,
             Deny(r, k) \/ \E s \in Receivers : Receive(s, r, k)
      PROVE  PlaceHeld'
  BY <1>1, <1>3 DEF Deny, Receive, Completions, ledger, jobtable
<1>4. ASSUME NEW j \in Jobs, JobEnds(j) \/ Recover(j)
      PROVE  PlaceHeld'
  <2>1. /\ \A i \in tree' : status'[i] \in {"running", "stuck"}
        /\ \A i \in finished' : status'[i] = "ended"
        /\ UNCHANGED <<row, finished>>
    BY <1>4 DEF JobEnds, Recover, PlaceHeld, TypeOK, ledger
  <2>q. QED BY <2>1, PlaceIfRowKept
<1>5. ASSUME NEW s \in Receivers, ReceiverDies(s) \/ Restart(s)
      PROVE  PlaceHeld'
  <2>1. /\ \A i \in tree' : status'[i] \in {"running", "stuck"}
        /\ \A i \in finished' : status'[i] = "ended"
        /\ UNCHANGED <<row, finished>>
    BY <1>5 DEF ReceiverDies, Restart, PlaceHeld, TypeOK, ledger
  <2>q. QED BY <2>1, PlaceIfRowKept
<1>6. CASE ClientDies \/ UNCHANGED vars
  BY <1>1, <1>6 DEF ClientDies, vars, ledger, jobtable
<1>7. ASSUME NEW s \in Receivers, Handle(s)
      PROVE  PlaceHeld'
  BY <1>7, PlaceHandle
<1>q. QED BY <1>2, <1>3, <1>4, <1>5, <1>6, <1>7 DEF Next

LEMMA AlwaysPlaced == Spec => []PlaceHeld
BY PlaceInit, PlaceKept, Always, PTL DEF Spec

-----------------------------------------------------------------------------
(* The state of DelegationRelay is of its types.                             *)
THEOREM TypeCorrect == Spec => []TypeOK
<1>1. IInv => TypeOK
  BY DEF IInv
<1>q. QED BY <1>1, Always, PTL

(* However often a dispatch is sent and wherever a receiver dies, a request
   launches at most one worker (RelayLedger.reserve and the handler).        *)
THEOREM NoSecondWorker == Spec => []OneWorkerPerRequest
<1>1. IInv => OneWorkerPerRequest
  <2> SUFFICES ASSUME IInv, NEW r \in Requests PROVE Cardinality(Launched(r)) <= 1
    BY DEF OneWorkerPerRequest
  <2>1. status[<<r, 2>>] = "none"
    BY DEF IInv, LaunchIsRecorded
  <2>2. Cardinality(Launched(r)) = IF status[<<r, 1>>] = "none" THEN 0 ELSE 1
    BY <2>1, LaunchedIs
  <2>q. QED BY <2>2
<1>q. QED BY <1>1, Always, PTL

(* A request that a ledger or a lookup calls not launched has no worker and
   never gets one (mark_no_launch and lookup_dispatch).                      *)
THEOREM RefusalIsFinal == Spec => []NotLaunchedIsTrue
<1>1. IInv => NotLaunchedIsTrue
  <2> SUFFICES ASSUME IInv, NEW r \in Requests,
                      NotLaunched \in {row[r], client[r], verdict[r]}
               PROVE  Launched(r) = {}
    BY DEF NotLaunchedIsTrue
  <2>1. row[r] = NotLaunched
    BY DEF IInv, RefusalIsRecorded
  <2>2. NotLaunched # Uncertain /\ NotLaunched # <<r, 1>>
    BY <<r, 1>> \in Jobs
  <2>3. status[<<r, 1>>] = "none" /\ status[<<r, 2>>] = "none"
    BY <2>1, <2>2 DEF IInv, LaunchIsRecorded
  <2>q. QED BY <2>3, LaunchedIs
<1>q. QED BY <1>1, Always, PTL

(* The relay's live workers stay within max_active (the active rows the
   receiver's reserve counts).                                               *)
THEOREM WorkersWithinLimit == Spec => []LiveWorkersWithinLimit
<1>1. IInv /\ PlaceHeld => LiveWorkersWithinLimit
  <2> SUFFICES ASSUME IInv, PlaceHeld PROVE LiveWorkersWithinLimit
    OBVIOUS
  <2>1. \A j \in tree : j[1] \in ChargedRequests /\ j = <<j[1], 1>>
    <3> SUFFICES ASSUME NEW j \in tree
                 PROVE  j[1] \in ChargedRequests /\ j = <<j[1], 1>>
      OBVIOUS
    <3>1. j \in Jobs /\ status[j] \in {"running", "stuck"} /\ j \notin finished
      BY DEF IInv, TypeOK, PlaceHeld
    <3>2. j[1] \in Requests /\ j = <<j[1], j[2]>> /\ j[2] \in {1, 2}
      BY <3>1
    <3>3. j = <<j[1], 1>>
      BY <3>1, <3>2 DEF IInv, LaunchIsRecorded
    <3>4. row[j[1]] \in {Uncertain, j}
      BY <3>1, <3>2, <3>3 DEF IInv, LaunchIsRecorded
    <3>q. QED BY <3>1, <3>2, <3>3, <3>4 DEF ChargedRequests, Charged
  <2> DEFINE request == [j \in tree |-> j[1]]
  <2>2. request \in Injection(tree, ChargedRequests)
    BY <2>1 DEF Injection, IsInjective
  <2>3. IsFiniteSet(ChargedRequests)
    BY FS_Subset DEF ChargedRequests
  <2>4. IsFiniteSet(tree) /\ Cardinality(tree) <= Cardinality(ChargedRequests)
    BY <2>2, <2>3, FS_Injection
  <2>5. Cardinality(tree) \in Nat /\ Cardinality(ChargedRequests) \in Nat
    BY <2>3, <2>4, FS_CardinalityType
  <2>q. QED BY <2>4, <2>5 DEF PlaceHeld, LiveWorkersWithinLimit
<1>q. QED BY <1>1, Always, AlwaysPlaced, PTL
-----------------------------------------------------------------------------
(* The relay keeps the contract of a dispatch.                               *)
HIDE RelayAssumption DEF Rows, Settled, Attempts, Posts, Jobs, Busy

\* What is on its way, served or recorded was put down by the client first.
Requested ==
  \A r \in Requests :
    /\ sender[r] = "idle" <=> client[r] = Absent
    /\ client[r] = Absent => row[r] = Absent /\ verdict[r] = Absent
PostsRequested == \A p \in posts : client[p[1]] # Absent
ServesRequested ==
  \A s \in Receivers :
    at[s] \in {"reserve", "launch", "register"} => client[serving[s][1]] # Absent

\* A job that the client has, or is being told, is the one on record.
ToldIsRecorded ==
  \A r \in Requests :
    /\ answer[r] \in Jobs => row[r] = answer[r]
    /\ verdict[r] \in Jobs => row[r] = verdict[r]
    /\ client[r] \in Jobs => row[r] = client[r]

HonourInv == Requested /\ PostsRequested /\ ServesRequested /\ ToldIsRecorded

\* What a step may do to a request, in the relay's own terms.
Moves ==
  \A r \in Requests :
  /\ status[<<r, 1>>] # "none" => status'[<<r, 1>>] # "none"
  /\ status[<<r, 1>>] = "none" /\ status'[<<r, 1>>] # "none" =>
       client[r] # Absent /\ row[r] = Uncertain /\ row'[r] = Uncertain
  /\ row'[r] # row[r] =>
       \/ row[r] = Absent /\ row'[r] = Uncertain /\ client[r] # Absent
       \/ row[r] = Uncertain /\ row'[r] = NotLaunched /\ status[<<r, 1>>] = "none"
       \/ row[r] = Uncertain /\ row'[r] = <<r, 1>> /\ status[<<r, 1>>] # "none"
  /\ client'[r] # client[r] =>
       \/ client[r] = Absent /\ client'[r] = Uncertain
       \/ client[r] = Uncertain /\ client'[r] = row[r] /\ row[r] # Absent

(* The names of the two ledgers, the posts and the jobs do not meet.         *)
LEMMA Names ==
  /\ {Absent, Uncertain, NotLaunched, Refused} \cap Jobs = {}
  /\ Absent # Uncertain /\ Absent # NotLaunched /\ Uncertain # NotLaunched
  /\ Rows = {Absent, Uncertain, NotLaunched} \cup Jobs /\ Settled = {NotLaunched} \cup Jobs
  /\ \A r \in Requests : \A k \in Attempts : <<r, k>> \in Jobs /\ <<r, k>> \in Posts
  /\ \A p \in Posts : p[1] \in Requests /\ p[2] \in Attempts /\ p = <<p[1], p[2]>>
  /\ 1 \in Attempts /\ 2 \in Attempts
BY RelayAssumption DEF Rows, Settled, Attempts, Posts, Jobs

(* Nothing was asked for at first.                                           *)
LEMMA HonourInit ==
  ASSUME Init
  PROVE  HonourInv
<1> USE Names DEF Init
<1>1. Requested /\ PostsRequested
  BY DEF Requested, PostsRequested
<1>2. ServesRequested
  BY DEF ServesRequested
<1>3. ToldIsRecorded
  BY DEF ToldIsRecorded
<1>q. QED BY <1>1, <1>2, <1>3 DEF HonourInv

(* The client's dispatches and lookups ...                                   *)
LEMMA CallingHonours ==
  ASSUME IInv, HonourInv, NEW q \in Requests,
         Calling(q) \/ Ask(q) \/ Learn(q) \/ Poll(q) \/ \E k \in Attempts : Deny(q, k)
  PROVE  HonourInv' /\ Moves
<1> USE Names DEF IInv, TypeOK, HonourInv, ledger, jobtable, clientside, wire
<1>1. CASE Dispatch(q)
  <2> USE <1>1 DEF Dispatch, Send
  <2>1. Requested'
    BY DEF Requested
  <2>2. PostsRequested'
    BY DEF PostsRequested, Requested
  <2>3. ServesRequested'
    BY DEF ServesRequested
  <2>4. ToldIsRecorded'
    BY DEF ToldIsRecorded, Requested, RefusalIsRecorded
  <2>5. Moves
    BY DEF Moves, Requested, ToldIsRecorded, RefusalIsRecorded
  <2>q. QED BY ONLY <2>1, <2>2, <2>3, <2>4, <2>5 DEF HonourInv
<1>2. CASE TryAgain(q)
  <2> USE <1>2 DEF TryAgain, Send
  <2>1. Requested'
    BY DEF Requested
  <2>2. PostsRequested'
    BY DEF PostsRequested, Requested
  <2>3. ServesRequested'
    BY DEF ServesRequested
  <2>4. ToldIsRecorded'
    BY DEF ToldIsRecorded, Requested, RefusalIsRecorded
  <2>5. Moves
    BY DEF Moves, Requested, ToldIsRecorded, RefusalIsRecorded
  <2>q. QED BY ONLY <2>1, <2>2, <2>3, <2>4, <2>5 DEF HonourInv
<1>3. CASE GiveUp(q)
  <2> USE <1>3 DEF GiveUp
  <2>1. Requested'
    BY DEF Requested
  <2>2. PostsRequested'
    BY DEF PostsRequested, Requested
  <2>3. ServesRequested'
    BY DEF ServesRequested
  <2>4. ToldIsRecorded'
    BY DEF ToldIsRecorded, Requested, RefusalIsRecorded
  <2>5. Moves
    BY DEF Moves, Requested, ToldIsRecorded, RefusalIsRecorded
  <2>q. QED BY ONLY <2>1, <2>2, <2>3, <2>4, <2>5 DEF HonourInv
<1>4. CASE Accept(q)
  <2> USE <1>4 DEF Accept, Register
  <2>1. Requested'
    BY DEF Requested
  <2>2. PostsRequested'
    BY DEF PostsRequested, Requested
  <2>3. ServesRequested'
    BY DEF ServesRequested
  <2>4. ToldIsRecorded'
    BY DEF ToldIsRecorded, Requested, RefusalIsRecorded
  <2>5. Moves
    BY DEF Moves, Requested, ToldIsRecorded, RefusalIsRecorded
  <2>q. QED BY ONLY <2>1, <2>2, <2>3, <2>4, <2>5 DEF HonourInv
<1>5. CASE Ask(q)
  <2> USE <1>5 DEF Ask, Lookup
  <2>1. Requested'
    BY DEF Requested
  <2>2. PostsRequested'
    BY DEF PostsRequested, Requested
  <2>3. ServesRequested'
    BY DEF ServesRequested
  <2>4. ToldIsRecorded'
    BY DEF ToldIsRecorded, Requested, RefusalIsRecorded
  <2>5. Moves
    BY DEF Moves, Requested, ToldIsRecorded, RefusalIsRecorded
  <2>q. QED BY ONLY <2>1, <2>2, <2>3, <2>4, <2>5 DEF HonourInv
<1>6. CASE Learn(q)
  <2> USE <1>6 DEF Learn, Register, MarkNoLaunch
  <2>1. Requested'
    BY DEF Requested
  <2>2. PostsRequested'
    BY DEF PostsRequested, Requested
  <2>3. ServesRequested'
    BY DEF ServesRequested
  <2>4. ToldIsRecorded'
    BY DEF ToldIsRecorded, Requested, RefusalIsRecorded
  <2>5. Moves
    BY DEF Moves, Requested, ToldIsRecorded, RefusalIsRecorded
  <2>q. QED BY ONLY <2>1, <2>2, <2>3, <2>4, <2>5 DEF HonourInv
<1>7. CASE Poll(q)
  <2> USE <1>7 DEF Poll
  <2>1. Requested'
    BY DEF Requested
  <2>2. PostsRequested'
    BY DEF PostsRequested, Requested
  <2>3. ServesRequested'
    BY DEF ServesRequested
  <2>4. ToldIsRecorded'
    BY DEF ToldIsRecorded, Requested, RefusalIsRecorded
  <2>5. Moves
    BY DEF Moves, Requested, ToldIsRecorded, RefusalIsRecorded
  <2>q. QED BY ONLY <2>1, <2>2, <2>3, <2>4, <2>5 DEF HonourInv
<1>8. CASE \E k \in Attempts : Deny(q, k)
  <2> USE <1>8 DEF Deny
  <2>1. Requested'
    BY DEF Requested
  <2>2. PostsRequested'
    BY DEF PostsRequested, Requested
  <2>3. ServesRequested'
    BY DEF ServesRequested
  <2>4. ToldIsRecorded'
    BY DEF ToldIsRecorded, Requested, RefusalIsRecorded
  <2>5. Moves
    BY DEF Moves, Requested, ToldIsRecorded, RefusalIsRecorded
  <2>q. QED BY ONLY <2>1, <2>2, <2>3, <2>4, <2>5 DEF HonourInv
<1>q. QED BY <1>1, <1>2, <1>3, <1>4, <1>5, <1>6, <1>7, <1>8 DEF Calling

(* ... the receivers' handlers ...                                           *)
LEMMA ReceiverHonours ==
  ASSUME IInv, HonourInv, NEW s \in Receivers,
         Handle(s) \/ \E q \in Requests, k \in Attempts : Receive(s, q, k)
  PROVE  HonourInv' /\ Moves
<1> USE Names DEF IInv, TypeOK, HonourInv, ledger, jobtable, clientside, wire
<1>1. CASE \E q \in Requests, k \in Attempts : Receive(s, q, k)
  <2> USE <1>1 DEF Receive
  <2>1. Requested'
    BY DEF Requested, ServesRequested, LaunchIsReserved
  <2>2. PostsRequested'
    BY DEF PostsRequested
  <2>3. ServesRequested'
    BY DEF ServesRequested, PostsRequested
  <2>4. ToldIsRecorded'
    BY DEF ToldIsRecorded, LaunchIsReserved, LaunchIsRecorded
  <2>5. Moves
    BY DEF Moves, ServesRequested, LaunchIsReserved, LaunchIsRecorded
  <2>q. QED BY ONLY <2>1, <2>2, <2>3, <2>4, <2>5 DEF HonourInv
<1>2. CASE Reserve(s)
  <2> USE <1>2 DEF Reserve, Reserves, Reply
  <2>1. Requested'
    BY DEF Requested, ServesRequested, LaunchIsReserved
  <2>2. PostsRequested'
    BY DEF PostsRequested
  <2>3. ServesRequested'
    BY DEF ServesRequested, PostsRequested
  <2>4. ToldIsRecorded'
    BY DEF ToldIsRecorded, LaunchIsReserved, LaunchIsRecorded
  <2>5. Moves
    BY DEF Moves, ServesRequested, LaunchIsReserved, LaunchIsRecorded
  <2>q. QED BY ONLY <2>1, <2>2, <2>3, <2>4, <2>5 DEF HonourInv
<1>3. CASE Reject(s)
  <2> USE <1>3 DEF Reject, Reply, MarkNoLaunch
  <2>1. Requested'
    BY DEF Requested, ServesRequested, LaunchIsReserved
  <2>2. PostsRequested'
    BY DEF PostsRequested
  <2>3. ServesRequested'
    BY DEF ServesRequested, PostsRequested
  <2>4. ToldIsRecorded'
    BY DEF ToldIsRecorded, LaunchIsReserved, LaunchIsRecorded
  <2>5. Moves
    BY DEF Moves, ServesRequested, LaunchIsReserved, LaunchIsRecorded
  <2>q. QED BY ONLY <2>1, <2>2, <2>3, <2>4, <2>5 DEF HonourInv
<1>4. CASE Fail(s)
  <2> USE <1>4, NextJobIs DEF Fail, Reply
  <2>1. Requested'
    BY DEF Requested, ServesRequested, LaunchIsReserved
  <2>2. PostsRequested'
    BY DEF PostsRequested
  <2>3. ServesRequested'
    BY DEF ServesRequested, PostsRequested
  <2>4. ToldIsRecorded'
    BY DEF ToldIsRecorded, LaunchIsReserved, LaunchIsRecorded
  <2>5. Moves
    <3> DEFINE r == serving[s][1]
    <3>1. r \in Requests /\ row[r] = Uncertain /\ client[r] # Absent
      BY DEF LaunchIsReserved, ServesRequested
    <3>2. status[<<r, 1>>] = "none" /\ status[<<r, 2>>] = "none"
      BY <3>1 DEF LaunchIsReserved, LaunchIsRecorded
    <3>3. NextJob(r) = <<r, 1>>
      BY <3>1, <3>2, NextJobIs
    <3>4. \A p \in Requests : p # r => status'[<<p, 1>>] = status[<<p, 1>>]
      BY <3>1, <3>3
    <3>q. QED BY <3>1, <3>2, <3>4 DEF Moves
  <2>q. QED BY ONLY <2>1, <2>2, <2>3, <2>4, <2>5 DEF HonourInv
<1>5. CASE Launch(s)
  <2> USE <1>5, NextJobIs DEF Launch
  <2>1. Requested'
    BY DEF Requested, ServesRequested, LaunchIsReserved
  <2>2. PostsRequested'
    BY DEF PostsRequested
  <2>3. ServesRequested'
    BY DEF ServesRequested, PostsRequested
  <2>4. ToldIsRecorded'
    BY DEF ToldIsRecorded, LaunchIsReserved, LaunchIsRecorded
  <2>5. Moves
    <3> DEFINE r == serving[s][1]
    <3>1. r \in Requests /\ row[r] = Uncertain /\ client[r] # Absent
      BY DEF LaunchIsReserved, ServesRequested
    <3>2. status[<<r, 1>>] = "none" /\ status[<<r, 2>>] = "none"
      BY <3>1 DEF LaunchIsReserved, LaunchIsRecorded
    <3>3. NextJob(r) = <<r, 1>>
      BY <3>1, <3>2, NextJobIs
    <3>4. \A p \in Requests : p # r => status'[<<p, 1>>] = status[<<p, 1>>]
      BY <3>1, <3>3
    <3>5. UNCHANGED <<row, client>>
      OBVIOUS
    <3>q. QED BY <3>1, <3>2, <3>4, <3>5 DEF Moves
  <2>q. QED BY ONLY <2>1, <2>2, <2>3, <2>4, <2>5 DEF HonourInv
<1>6. CASE Record(s)
  <2> USE <1>6, LaunchedIs DEF Record, Reply, Register
  <2>1. Requested'
    BY DEF Requested, ServesRequested, LaunchIsReserved
  <2>2. PostsRequested'
    BY DEF PostsRequested
  <2>3. ServesRequested'
    BY DEF ServesRequested, PostsRequested
  <2>4. ToldIsRecorded'
    <3> DEFINE r == serving[s][1]
    <3>1. r \in Requests /\ row[r] = Uncertain /\ client[r] # Absent
      BY DEF LaunchIsReserved, ServesRequested
    <3>2. status[<<r, 1>>] # "none" /\ status[<<r, 2>>] = "none"
      BY <3>1 DEF LaunchIsReserved, LaunchIsRecorded
    <3>3. Cardinality(Launched(r)) = 1
      BY <3>1, <3>2, LaunchedIs
    <3>4. /\ UNCHANGED <<status, client, verdict>>
          /\ \/ row' = row /\ answer' \in {answer, [answer EXCEPT ![r] = Refused]}
             \/ /\ row' = [row EXCEPT ![r] = <<r, 1>>]
                /\ answer' \in {answer, [answer EXCEPT ![r] = <<r, 1>>]}
      BY <3>1, <3>3 DEF Record
    <3> HIDE DEF r
    <3>q. QED BY <3>1, <3>4 DEF ToldIsRecorded
  <2>5. Moves
    <3> DEFINE r == serving[s][1]
    <3>1. r \in Requests /\ row[r] = Uncertain /\ client[r] # Absent
      BY DEF LaunchIsReserved, ServesRequested
    <3>2. status[<<r, 1>>] # "none" /\ status[<<r, 2>>] = "none"
      BY <3>1 DEF LaunchIsReserved, LaunchIsRecorded
    <3>3. Cardinality(Launched(r)) = 1
      BY <3>1, <3>2, LaunchedIs
    <3>4. /\ UNCHANGED <<status, client, verdict>>
          /\ \/ row' = row /\ answer' \in {answer, [answer EXCEPT ![r] = Refused]}
             \/ /\ row' = [row EXCEPT ![r] = <<r, 1>>]
                /\ answer' \in {answer, [answer EXCEPT ![r] = <<r, 1>>]}
      BY <3>1, <3>3 DEF Record
    <3>5. row \in [Requests -> Rows]
      OBVIOUS
    <3> HIDE DEF r
    <3>q. QED BY ONLY <3>1, <3>2, <3>4, <3>5 DEF Moves
  <2>q. QED BY ONLY <2>1, <2>2, <2>3, <2>4, <2>5 DEF HonourInv
<1>q. QED BY <1>1, <1>2, <1>3, <1>4, <1>5, <1>6 DEF Handle

(* ... deaths, restarts, and the ends of jobs put down only what is so.      *)
LEMMA OthersHonour ==
  ASSUME IInv, HonourInv,
         \/ \E s \in Receivers : ReceiverDies(s) \/ Restart(s)
         \/ \E j \in Jobs : JobEnds(j) \/ Recover(j)
         \/ ClientDies
  PROVE  HonourInv' /\ Moves
<1> USE Names DEF IInv, TypeOK, HonourInv, ledger, jobtable, clientside, wire
<1>1. CASE \E s \in Receivers : ReceiverDies(s)
  <2> USE <1>1 DEF ReceiverDies
  <2>1. Requested'
    BY DEF Requested
  <2>2. PostsRequested'
    BY DEF PostsRequested
  <2>3. ServesRequested'
    BY DEF ServesRequested
  <2>4. ToldIsRecorded'
    BY DEF ToldIsRecorded
  <2>5. Moves
    BY DEF Moves
  <2>q. QED BY ONLY <2>1, <2>2, <2>3, <2>4, <2>5 DEF HonourInv
<1>2. CASE \E s \in Receivers : Restart(s)
  <2> USE <1>2 DEF Restart
  <2>1. Requested'
    BY DEF Requested
  <2>2. PostsRequested'
    BY DEF PostsRequested
  <2>3. ServesRequested'
    BY DEF ServesRequested
  <2>4. ToldIsRecorded'
    BY DEF ToldIsRecorded
  <2>5. Moves
    BY DEF Moves
  <2>q. QED BY ONLY <2>1, <2>2, <2>3, <2>4, <2>5 DEF HonourInv
<1>3. CASE \E j \in Jobs : JobEnds(j)
  <2> USE <1>3 DEF JobEnds
  <2>1. Requested'
    BY DEF Requested
  <2>2. PostsRequested'
    BY DEF PostsRequested
  <2>3. ServesRequested'
    BY DEF ServesRequested
  <2>4. ToldIsRecorded'
    BY DEF ToldIsRecorded
  <2>5. Moves
    BY DEF Moves
  <2>q. QED BY ONLY <2>1, <2>2, <2>3, <2>4, <2>5 DEF HonourInv
<1>4. CASE \E j \in Jobs : Recover(j)
  <2> USE <1>4 DEF Recover
  <2>1. Requested'
    BY DEF Requested
  <2>2. PostsRequested'
    BY DEF PostsRequested
  <2>3. ServesRequested'
    BY DEF ServesRequested
  <2>4. ToldIsRecorded'
    BY DEF ToldIsRecorded
  <2>5. Moves
    BY DEF Moves
  <2>q. QED BY ONLY <2>1, <2>2, <2>3, <2>4, <2>5 DEF HonourInv
<1>5. CASE ClientDies
  <2> USE <1>5 DEF ClientDies
  <2>1. Requested'
    BY DEF Requested
  <2>2. PostsRequested'
    BY DEF PostsRequested
  <2>3. ServesRequested'
    BY DEF ServesRequested
  <2>4. ToldIsRecorded'
    BY DEF ToldIsRecorded
  <2>5. Moves
    BY DEF Moves
  <2>q. QED BY ONLY <2>1, <2>2, <2>3, <2>4, <2>5 DEF HonourInv
<1>q. QED BY <1>1, <1>2, <1>3, <1>4, <1>5

(* Such a move is one that the contract allows.                              *)
LEMMA MovesHonour ==
  ASSUME IInv, IInv', Moves
  PROVE  Dispatching!Next
<1>1. SUFFICES ASSUME NEW r \in Requests
               PROVE  Dispatching!Worker(r) /\ Dispatching!Record(r) /\ Dispatching!Heard(r)
  BY DEF Dispatching!Next
<1>2. status[<<r, 2>>] = "none" /\ status'[<<r, 2>>] = "none"
  BY DEF IInv, LaunchIsRecorded
<1>3. /\ status[<<r, 1>>] = "none" => Launched(r) = {}
      /\ status[<<r, 1>>] # "none" => Launched(r) = {<<r, 1>>}
  BY <1>2, LaunchedIs
<1>4. /\ status'[<<r, 1>>] = "none" => Launched(r)' = {}
      /\ status'[<<r, 1>>] # "none" => Launched(r)' = {<<r, 1>>}
  <2>1. Launched(r)' = {j \in JobsOf(r) : status'[j] # "none"}
    BY DEF Launched
  <2>2. JobsOf(r) = {<<r, 1>>, <<r, 2>>}
    BY DEF JobsOf, Jobs, Attempts
  <2>q. QED BY <1>2, <2>1, <2>2
<1>5. <<r, 1>> \in Jobs
  BY Names
<1> DEFINE W == [q \in Requests |-> Launched(q)]
<1>6. W[r] = Launched(r) /\ W'[r] = Launched(r)'
  OBVIOUS
<1>7. Dispatching!Worker(r)
  <2>1. SUFFICES ASSUME Launched(r)' # Launched(r)
                 PROVE  Dispatching!Begin(r)
    BY <1>6 DEF Dispatching!Worker
  <2>2. /\ Launched(r) = {} /\ Launched(r)' = {<<r, 1>>}
        /\ client[r] # Absent /\ row[r] = Uncertain
    BY <1>3, <1>4, <2>1 DEF Moves
  <2>q. QED BY <1>5, <1>6, <2>2 DEF Dispatching!Begin
<1>8. Dispatching!Record(r)
  BY <1>3, <1>4, <1>6 DEF Moves, Dispatching!Record
<1>9. Dispatching!Heard(r)
  BY DEF Moves, Dispatching!Heard
<1>q. QED BY <1>7, <1>8, <1>9

(* Every step of the relay is a step of the contract, or none.               *)
LEMMA HonourStep ==
  ASSUME IInv, IInv', HonourInv, [Next]_vars
  PROVE  HonourInv' /\ [Dispatching!Next]_(Dispatching!vars)
<1>1. CASE Next
  <2>1. HonourInv' /\ Moves
    <3>1. CASE \E q \in Requests : \/ Calling(q) \/ Ask(q) \/ Learn(q) \/ Poll(q)
                                   \/ \E k \in Attempts : Deny(q, k)
      BY <3>1, CallingHonours
    <3>2. CASE \E s \in Receivers :
                 Handle(s) \/ \E q \in Requests, k \in Attempts : Receive(s, q, k)
      BY <3>2, ReceiverHonours
    <3>3. CASE \/ \E s \in Receivers : ReceiverDies(s) \/ Restart(s)
               \/ \E j \in Jobs : JobEnds(j) \/ Recover(j)
               \/ ClientDies
      BY <3>3, OthersHonour
    <3>q. QED BY <1>1, <3>1, <3>2, <3>3 DEF Next
  <2>q. QED BY <2>1, MovesHonour
<1>2. CASE UNCHANGED vars
  <2>1. UNCHANGED <<sender, client, verdict, posts, answer, at, serving, row, status>>
    BY <1>2 DEF vars, clientside, wire, ledger, jobtable
  <2>2. HonourInv'
    BY <2>1 DEF HonourInv, Requested, PostsRequested, ServesRequested, ToldIsRecorded
  <2>3. UNCHANGED Dispatching!vars
    BY <2>1 DEF Dispatching!vars, Launched, JobsOf
  <2>q. QED BY <2>2, <2>3
<1>q. QED BY <1>1, <1>2

(* The relay implements the contract of a dispatch for any number of
   requests, receivers and deaths: one worker at the most, started after the
   client put the request down; one record, true when it is made, never taken
   back; and a client that learns nothing else (production_relay.py:93-151,
   server.py:836-884).                                                       *)
THEOREM RelayHonoursDispatch == Spec => HonoursDispatch
<1>1. Init => Dispatching!Init
  BY DEF Init, Dispatching!Init, Launched, JobsOf
<1>q. QED BY <1>1, HonourInit, HonourStep, Always, PTL
      DEF Spec, HonoursDispatch, Dispatching!Spec
=============================================================================
