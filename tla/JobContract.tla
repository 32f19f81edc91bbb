----------------------------- MODULE JobContract -----------------------------
(***************************************************************************)
(* What the gateway promises about asynchronous jobs, without threads,     *)
(* tables or processes: how a job's reported state may move, when its      *)
(* private edits may reach the workspace or leave it again, and when the   *)
(* capacity it was charged for may be given to somebody else.              *)
(***************************************************************************)
CONSTANTS Jobs,
          Editing    \* those of the Jobs with a private workspace to publish

VARIABLES serving,   \* the gateway is running
          report,    \* what get_status tells about the job
          effect,    \* what the job's edits have done to the workspace
          charged    \* the jobs an admission row stands for

vars == <<serving, report, effect, charged>>

Reports == {"absent", "active", "stopping", "publishing", "doubt",
            "done", "denied", "recovered"}
Settled == {"done", "denied", "recovered"}
Effects == {"none", "empty", "partial", "published", "restored"}

Init == /\ serving = FALSE
        /\ report = [j \in Jobs |-> "absent"]
        /\ effect = [j \in Jobs |-> "none"]
        /\ charged = {}

(* Where a report may go.  Publication is entered from "active" only, so a
   cancellation that was accepted first wins; nothing leaves a settled state. *)
Successors(r) ==
  CASE r = "absent" -> {"active"}
    [] r = "active" -> {"stopping", "publishing", "doubt", "done", "denied"}
    [] r = "stopping" -> {"doubt", "done", "denied"}
    [] r = "publishing" -> {"done", "denied", "doubt", "recovered"}
    [] r = "doubt" -> {"done", "denied", "recovered"}
    [] OTHER -> {}

(* A denied job has touched nothing, a done one has published everything, a
   recovered one has been rolled back.                                       *)
Honest(j, r) ==
  /\ r = "denied" => effect[j] = "none"
  /\ r = "done" /\ j \in Editing => effect[j] \in {"empty", "published"}
  /\ r = "recovered" => effect[j] = "restored"

Report(j) == report'[j] # report[j] =>
               /\ report'[j] \in Successors(report[j])
               /\ Honest(j, report'[j])
               /\ report[j] = "absent" => j \in charged

(* Files change only under a claimed publication, and are rolled back only
   while the gateway is stopped and the publication unfinished.              *)
Effect(j) == effect'[j] # effect[j] =>
  \/ /\ serving /\ report[j] = "publishing" /\ j \in Editing
     /\ <<effect[j], effect'[j]>> \in
          {<<"none", "empty">>, <<"none", "partial">>, <<"partial", "published">>}
  \/ ~serving /\ report[j] \in {"publishing", "doubt"} /\ effect'[j] = "restored"

(* Capacity comes back only for a job that is not there or is settled.       *)
Charge(j) == j \in charged \ charged' => report'[j] \in Settled \cup {"absent"}

Next == \A j \in Jobs : Report(j) /\ Effect(j) /\ Charge(j)

Spec == Init /\ [][Next]_vars
=============================================================================
