--------------------------- MODULE MCAcquisition ---------------------------
(* What the owner approved to be fetched from the network, one kind at a      *)
(* time: the proposals a worker may have taken up (WorkerGit), a pull or a    *)
(* clone of its job (GitAcquisition), public requests and downloads           *)
(* (HttpsDownload).  They share no state; the instance takes each in turn.    *)
EXTENDS GitAcquisition, HttpsDownload, MCWorkerGit

VARIABLE fetched

acquisitionVars == <<fetched, vars, downloadVars, serviceVars>>

AcquisitionInit ==
  /\ fetched \in {"proposal", "git", "https"}
  /\ IF fetched = "git" THEN Init ELSE Init /\ kind = "pull"
  /\ IF fetched = "https" THEN DownloadInit ELSE DownloadInit /\ approval = Withdrawn
  /\ IF fetched = "proposal" THEN ServiceInit ELSE ServiceInit /\ signedOnly

AcquisitionNext ==
  \/ fetched = "git" /\ Next /\ UNCHANGED <<fetched, downloadVars, serviceVars>>
  \/ fetched = "https" /\ DownloadNext /\ UNCHANGED <<fetched, vars, serviceVars>>
  \/ fetched = "proposal" /\ ServiceStep /\ UNCHANGED <<fetched, vars, downloadVars>>

\* The fairness of GitAcquisition and of WorkerGit, where they run.
AcquisitionSpec ==
  /\ AcquisitionInit /\ [][AcquisitionNext]_acquisitionVars
  /\ WF_vars(fetched = "git" /\ Recover)
  /\ WF_vars(fetched = "git" /\ Stop)
  /\ WF_serviceVars(fetched = "proposal" /\ Tick)
  /\ \A c \in Callers : WF_serviceVars(fetched = "proposal" /\ Handles(c))
  /\ WF_serviceVars(fetched = "proposal" /\ Closes)

\* The second download starts after the first; a fetch moves only between them.
InTurn ==
  fetched = "https" =>
    /\ on'["c2"] # "new" => on'["c1"] # "new"
    /\ on'["q"] # on["q"] => \A c \in Downloads : on[c] \in {"new", "done"}
=============================================================================
