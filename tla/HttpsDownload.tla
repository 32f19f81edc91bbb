---------------------------- MODULE HttpsDownload ----------------------------
(***************************************************************************)
(* Public HTTPS for the public-data workspace: https_download of            *)
(* https_download.py and the metadata fetch of scoped_https.py.  The gateway *)
(* checks the approval it loaded when it started, a worker process reads the *)
(* approval on disk again and fetches, and a download is published as two   *)
(* links that never replace anything, the receipt first.  The owner edits   *)
(* the approval and the directory at any time; the gateway may die.         *)
(*                                                                         *)
(* An approval is the directory it grants downloads to, FetchOnly where it   *)
(* grants none, or Withdrawn.  All calls ask for one file name; a directory  *)
(* entry is Vacant, an owner's entry or the call that linked it.            *)
(***************************************************************************)
EXTENDS Naturals, FiniteSets

CONSTANTS
  Downloads, Fetches,             \* calls of the two tools
  Folders,                        \* directories an approval may name
  FetchOnly, Withdrawn, Vacant,
  Owned,                          \* entries of the owner
  MaxOwnerSteps, MaxGatewayDeaths

Requested == Downloads \cup Fetches
Approvals == Folders \cup {FetchOnly, Withdrawn}
Names == {"receipt", "artifact"}

ASSUME DownloadAssumption ==
  /\ Downloads \cap Fetches = {} /\ (Owned \cup {Vacant}) \cap Requested = {}
  /\ Vacant \notin Owned /\ FetchOnly # Withdrawn
  /\ Folders # {} /\ {FetchOnly, Withdrawn} \cap Folders = {}
  /\ MaxOwnerSteps \in Nat /\ MaxGatewayDeaths \in Nat

VARIABLES
  approval,    \* public-https.yaml
  loaded,      \* the policy the gateway holds
  on,          \* each call's next step
  busy,        \* the calls that hold `concurrent`
  slots,       \* the calls that hold a slot and a lease
  folder,      \* the directory of the grant a download was authorised with
  spool,       \* what the worker left: "part" (nothing or some of the body) or "whole"
  exit,        \* how the worker ended: "none", "ok", "denied" or "killed"
  read,        \* the approval the worker read
  entry,       \* entry[d][file]
  linked,      \* files each call has linked
  told,        \* what the caller was told
  ownerSteps, gatewayDeaths

downloadVars == <<approval, loaded, on, busy, slots, folder, spool, exit, read, entry,
                  linked, told, ownerSteps, gatewayDeaths>>
counters == <<busy, slots>>
worker == <<spool, exit, read>>
published == <<entry, linked>>
outside == <<approval, loaded, ownerSteps, gatewayDeaths>>

DownloadInit ==
  /\ approval \in Approvals /\ loaded = approval
  /\ on = [c \in Requested |-> "new"] /\ busy = {} /\ slots = {}
  /\ folder = [c \in Requested |-> Withdrawn]
  /\ spool = [c \in Requested |-> "part"] /\ exit = [c \in Requested |-> "none"]
  /\ read = [c \in Requested |-> Withdrawn]
  /\ entry = [d \in Folders |-> [f \in Names |-> Vacant]]
  /\ linked = [c \in Requested |-> {}]
  /\ told = [c \in Requested |-> "nothing"]
  /\ ownerSteps = 0 /\ gatewayDeaths = 0

Step(c, s) == on' = [on EXCEPT ![c] = s]
Tell(c, what) == told' = [told EXCEPT ![c] = what]
Refuse(c) == Step(c, "leaving") /\ Tell(c, "failed")

-----------------------------------------------------------------------------
(* authorize and authorize_download.                                        *)
Approves(a, c) == IF c \in Downloads THEN a \in Folders ELSE a # Withdrawn

\* The policy in memory, the arguments, and for a download the one permit.
Authorises(c) ==
  /\ on[c] = "new"
  /\ \/ /\ Approves(loaded, c) /\ (c \in Downloads => busy = {})
        /\ folder' = [folder EXCEPT ![c] = loaded]
        /\ busy' = IF c \in Downloads THEN {c} ELSE busy
        /\ Step(c, "slot") /\ UNCHANGED told
     \/ Step(c, "done") /\ Tell(c, "failed") /\ UNCHANGED <<folder, busy>>
  /\ UNCHANGED <<slots, worker, published, outside>>

\* synchronous_slot and the resource lease, or no capacity.
AdmitsDownload(c) ==
  /\ on[c] = "slot"
  /\ \/ slots' = slots \cup {c} /\ Step(c, "worker") /\ UNCHANGED told
     \/ Refuse(c) /\ UNCHANGED slots
  /\ UNCHANGED <<busy, folder, worker, published, outside>>

-----------------------------------------------------------------------------
(* The worker process.                                                      *)

\* It opens the approval on disk for itself.
ReopensApproval(c) ==
  /\ on[c] = "worker" /\ exit[c] = "none"
  /\ read' = [read EXCEPT ![c] = approval]
  /\ \/ Approves(approval, c) /\ Step(c, "transfer") /\ UNCHANGED exit
     \/ Step(c, "exit") /\ exit' = [exit EXCEPT ![c] = "denied"]
  /\ UNCHANGED <<counters, folder, spool, published, told, outside>>

\* stream_download, or ScopedPublicHTTPS.run: status, framing, length, budget and
\* digest all hold, or the worker exits 77 with what it had written.
Transfers(c) ==
  /\ on[c] = "transfer"
  /\ \/ /\ spool' = [spool EXCEPT ![c] = "whole"] /\ exit' = [exit EXCEPT ![c] = "ok"]
     \/ /\ \E left \in {"part", "whole"} : spool' = [spool EXCEPT ![c] = left]
        /\ exit' = [exit EXCEPT ![c] = "denied"]
  /\ Step(c, "exit")
  /\ UNCHANGED <<counters, folder, read, published, told, outside>>

\* subprocess.run kills the worker at the deadline, wherever it is.
TimesOut(c) ==
  /\ on[c] \in {"worker", "transfer"}
  /\ exit' = [exit EXCEPT ![c] = "killed"]
  /\ \E left \in {"part", "whole"} : spool' = [spool EXCEPT ![c] = left]
  /\ Step(c, "exit")
  /\ UNCHANGED <<counters, folder, read, published, told, outside>>

\* The lease is closed; a fetch reports its exit code, 124 for the deadline.
Reaps(c) ==
  /\ on[c] = "exit"
  /\ slots' = IF c \in Fetches THEN slots \ {c} ELSE slots
  /\ \/ /\ c \in Fetches /\ Step(c, "leaving")
        /\ Tell(c, IF exit[c] = "ok" THEN "success" ELSE "failed")
     \/ c \in Downloads /\ exit[c] = "ok" /\ Step(c, "folder") /\ UNCHANGED told
     \/ c \in Downloads /\ exit[c] # "ok" /\ Refuse(c)
  /\ UNCHANGED <<busy, folder, worker, published, outside>>

-----------------------------------------------------------------------------
(* publish.                                                                 *)

\* Directories are made where they are missing and pinned one by one.
OpensFolder(c) ==
  /\ on[c] = "folder"
  /\ \/ Step(c, "vacancy") /\ UNCHANGED told
     \/ Refuse(c)
  /\ UNCHANGED <<counters, folder, worker, published, outside>>

\* Neither name may exist before anything is staged.
FindsVacancy(c) ==
  /\ on[c] = "vacancy"
  /\ \/ (\A f \in Names : entry[folder[c]][f] = Vacant) /\ Step(c, "stage") /\ UNCHANGED told
     \/ (\E f \in Names : entry[folder[c]][f] # Vacant) /\ Refuse(c)
  /\ UNCHANGED <<counters, folder, worker, published, outside>>

\* Anonymous inodes: the spool is copied and measured against the receipt.
Stages(c) ==
  /\ on[c] = "stage"
  /\ \/ spool[c] = "whole" /\ Step(c, "receipt") /\ UNCHANGED told
     \/ Refuse(c)
  /\ UNCHANGED <<counters, folder, worker, published, outside>>

\* link() never replaces; what was linked before a failure stays for inspection.
LinkAs(c, file, next) ==
  /\ \/ /\ entry[folder[c]][file] = Vacant
        /\ entry' = [entry EXCEPT ![folder[c]][file] = c]
        /\ linked' = [linked EXCEPT ![c] = @ \cup {file}]
        /\ Step(c, next) /\ UNCHANGED told
     \/ Refuse(c) /\ UNCHANGED published
  /\ UNCHANGED <<counters, folder, worker, outside>>

\* Fault: the artifact is linked before what describes it.
LinksArtifactFirst(c) == on[c] = "receipt" /\ LinkAs(c, "artifact", "artifact")
LinksReceipt(c) == on[c] = "receipt" /\ LinkAs(c, "receipt", "artifact")

\* Fault: a download that lost the race for its name reports the receipt's link.
LinksArtifactAnyway(c) ==
  /\ on[c] = "artifact"
  /\ IF entry[folder[c]]["artifact"] = Vacant
       THEN /\ entry' = [entry EXCEPT ![folder[c]]["artifact"] = c]
            /\ linked' = [linked EXCEPT ![c] = @ \cup {"artifact"}]
       ELSE UNCHANGED published
  /\ Step(c, "sync")
  /\ UNCHANGED <<counters, folder, worker, told, outside>>

LinksArtifact(c) == on[c] = "artifact" /\ LinkAs(c, "artifact", "sync")

Synced(c) ==
  /\ on[c] = "sync"
  /\ \/ Step(c, "leaving") /\ Tell(c, "success")
     \/ Refuse(c)
  /\ UNCHANGED <<counters, folder, worker, published, outside>>

\* The `with` blocks and `finally` of the call.
ReleasesCall(c) ==
  /\ on[c] = "leaving" /\ Step(c, "done")
  /\ slots' = slots \ {c} /\ busy' = busy \ {c}
  /\ UNCHANGED <<folder, worker, published, told, outside>>

-----------------------------------------------------------------------------
(* The owner, and the death of the gateway.                                 *)
OwnerStep == ownerSteps < MaxOwnerSteps /\ ownerSteps' = ownerSteps + 1
CallsRest == UNCHANGED <<on, counters, folder, worker, linked, told, loaded, gatewayDeaths>>

EditsApproval ==
  /\ OwnerStep /\ \E a \in Approvals \ {approval} : approval' = a
  /\ UNCHANGED entry /\ CallsRest

\* A file is put under a name, removed or replaced.
EditsFolder ==
  /\ OwnerStep
  /\ \E d \in Folders, f \in Names, e \in Owned \cup {Vacant} :
       entry' = [entry EXCEPT ![d][f] = e]
  /\ UNCHANGED approval /\ CallsRest

\* The next gateway loads the approval anew; the spool was anonymous.
GatewayDies ==
  /\ gatewayDeaths < MaxGatewayDeaths /\ gatewayDeaths' = gatewayDeaths + 1
  /\ on' = [c \in Requested |-> IF on[c] = "new" THEN "new" ELSE "done"]
  /\ busy' = {} /\ slots' = {} /\ loaded' = approval
  /\ UNCHANGED <<approval, folder, worker, published, told, ownerSteps>>

DownloadCall(c) ==
  \/ Authorises(c) \/ AdmitsDownload(c) \/ ReopensApproval(c) \/ Transfers(c) \/ TimesOut(c)
  \/ Reaps(c) \/ OpensFolder(c) \/ FindsVacancy(c) \/ Stages(c) \/ LinksReceipt(c)
  \/ LinksArtifact(c) \/ Synced(c) \/ ReleasesCall(c)

DownloadNext ==
  (\E c \in Requested : DownloadCall(c)) \/ EditsApproval \/ EditsFolder \/ GatewayDies

DownloadSpec == DownloadInit /\ [][DownloadNext]_downloadVars

-----------------------------------------------------------------------------
(* Properties.                                                              *)
DownloadTypeOK ==
  /\ approval \in Approvals /\ loaded \in Approvals
  /\ on \in [Requested -> {"new", "slot", "worker", "transfer", "exit", "folder", "vacancy",
                           "stage", "receipt", "artifact", "sync", "leaving", "done"}]
  /\ busy \subseteq Downloads /\ slots \subseteq Requested
  /\ folder \in [Requested -> Approvals] /\ read \in [Requested -> Approvals]
  /\ spool \in [Requested -> {"part", "whole"}]
  /\ exit \in [Requested -> {"none", "ok", "denied", "killed"}]
  /\ entry \in [Folders -> [Names -> Owned \cup Requested \cup {Vacant}]]
  /\ linked \in [Requested -> SUBSET Names]
  /\ told \in [Requested -> {"nothing", "success", "failed"}]
  /\ ownerSteps \in 0..MaxOwnerSteps /\ gatewayDeaths \in 0..MaxGatewayDeaths

\* "The receipt is linked first": a published artifact that no owner touched has
\* its own receipt beside it, whenever the gateway died or lost a race, and both
\* come from a whole body fetched under an approval that then stood on disk.
ArtifactHasReceipt ==
  \A d \in Folders, c \in Downloads :
    /\ entry[d]["artifact"] = c => "receipt" \in linked[c]
    /\ c \in {entry[d][f] : f \in Names} =>
         spool[c] = "whole" /\ exit[c] = "ok" /\ read[c] \in Folders
    /\ entry[d]["artifact"] = c /\ entry[d]["receipt"] # c => ownerSteps > 0

\* "Success requires both links": a call that reports success linked both names,
\* and nothing that any call links ever replaces an entry, the owner's or an
\* earlier call's.
NoOverwriteNoHalfSuccess ==
  [][/\ \A c \in Downloads : told'[c] = "success" => linked'[c] = Names
     /\ \A d \in Folders, f \in Names :
          entry'[d][f] # entry[d][f] /\ entry[d][f] # Vacant => ownerSteps' > ownerSteps
    ]_downloadVars

=============================================================================
