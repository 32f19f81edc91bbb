---------------------------- MODULE MCJobManager ----------------------------
(* Instances of JobManager: requests of every entry point, and the groups of *)
(* requests that meet in a run.                                              *)
EXTENDS JobManager, TLC
CONSTANTS agent, overlay, raw, shell, tool, git, w

Served == (agent :> "agent") @@ (overlay :> "overlay") @@ (raw :> "raw")
          @@ (shell :> "exec") @@ (tool :> "exec") @@ (git :> "git")
Entry == [o \in Ops |-> Served[o]]
Rooted == [o \in Ops |-> IF o \in {raw, shell} THEN Nowhere ELSE w]

Meeting(pairs) ==
  LET started == {o \in Ops : launch'[o] # "idle"}
  IN \E pair \in pairs : started \subseteq pair

\* On one workspace: two jobs, Git beside a synchronous command, and Git beside
\* a worker that pulls.
OnePair == Meeting({{agent, overlay}, {git, tool}, {git, agent}})

\* For one slot: two jobs on a workspace, one of them against a job without
\* one, and a job and a command that both have none.
TwoForOneSlot == Meeting({{agent, overlay}, {agent, raw}, {raw, shell}})
=============================================================================
