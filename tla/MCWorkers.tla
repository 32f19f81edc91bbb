------------------------------ MODULE MCWorkers ------------------------------
(* What stands between the gateway and its workers, one service at a time:   *)
(* the delegation relay (DelegationRelay), the egress endpoints of a job     *)
(* (WorkerEgress) and the launch of a confined worker (DevelopmentLaunch).   *)
(* They share no state; the instance takes each in turn.                     *)
EXTENDS DelegationRelay, WorkerEgress, DevelopmentLaunch
CONSTANTS r1, r2, s1, s2

VARIABLE service

workerVars == <<service, vars, egressVars, launchVars>>

Chain == [top |-> {}, sub |-> {"top"}, leaf |-> {"top", "sub"}]
Versioned ==
  /\ allow = [top |-> "no", sub |-> "no", leaf |-> "write"]
  /\ \A t \in Callers : wants[t] = [place |-> "leaf", write |-> TRUE]
Idling == [p \in Places |-> "no"]

WorkersInit ==
  /\ service \in {"relay", "egress", "launch"}
  /\ IF service = "relay" THEN Init ELSE Init /\ supervised /\ at[s1] = "ready"
  /\ IF service = "egress" THEN EgressInit ELSE EgressInit /\ served = "provider"
  /\ IF service = "launch" THEN LaunchInit /\ wants["b"].place = "leaf"
     ELSE LaunchInit /\ allow = Idling /\ \A t \in Callers : wants[t] = [place |-> "top", write |-> FALSE]

WorkersNext ==
  \/ service = "relay" /\ Next /\ UNCHANGED <<service, egressVars, launchVars>>
  \/ service = "egress" /\ EgressNext /\ UNCHANGED <<service, vars, launchVars>>
  \/ service = "launch" /\ LaunchNext /\ UNCHANGED <<service, vars, egressVars>>

-----------------------------------------------------------------------------
(* The fairness of DelegationRelay and of WorkerEgress, where they run.      *)
RelayFairness ==
  /\ \A s \in Receivers :
       /\ WF_vars(service = "relay" /\ Handle(s))
       /\ WF_vars(service = "relay" /\ Restart(s))
  /\ \A r \in Requests :
       /\ WF_vars(service = "relay" /\ Ask(r))
       /\ WF_vars(service = "relay" /\ Learn(r))

EndpointFairness ==
  /\ \A l \in Links : WF_egressVars(service = "egress" /\ HandlerStep(l))
  /\ WF_egressVars(service = "egress" /\ AcceptorStep)
  /\ WF_egressVars(service = "egress" /\ CloserStep)

WorkersSpec ==
  WorkersInit /\ [][WorkersNext]_workerVars /\ RelayFairness /\ EndpointFairness

-----------------------------------------------------------------------------
(* The bounds of the instance.                                               *)

\* The receivers are alike: s1 is the first, and the only one under
\* supervision.  Where two overlap the client stays up, r2 is sent once and
\* only the caller of r1 asks again.
FewReceivers ==
  service = "relay" =>
    /\ Init => at[s1] = "ready"
    /\ IF supervised THEN at'[s2] = "down"
       ELSE /\ \A r \in Requests : sender'[r] # "gone"
            /\ verdict'[r2] = Absent /\ sender'[r2] # "second"

\* Only the public endpoint meets a second link.
FewLinks == service = "egress" /\ served # "public" => stage'["l2"] = "new"

\* Files change where both callers, a the first, ask for one open place, their
\* builds fail only in the checks of a toolkit and their jobs go on; elsewhere b
\* asks for the leaf after a was launched or refused, the allowlist changes at
\* most once in between and no toolkit is used.
FewChanges ==
  service = "launch" =>
    IF Versioned
    THEN /\ allow' = allow /\ stuck' = stuck /\ (call'["b"] # "start" => call["a"] # "start")
         /\ \A t \in Callers :
              /\ call'[t] = "schema" => token'[t] # None
              /\ call[t] \in {"mount", "schema", "connect", "running"} => call'[t] # "cleanup"
              /\ call'[t] = "ready" => "network" \in held'[t]
    ELSE /\ exe' = exe /\ tools' = tools /\ ~(cache # None /\ cache' = None)
         /\ allow' # allow => changes = 0 /\ call["a"] = "running" /\ call["b"] = "start"
         /\ call'["b"] # "start" => call["a"] \in {"running", "over", "refused"}
         /\ \A t \in Callers : token'[t] = None
=============================================================================
