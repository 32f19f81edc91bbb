----------------------------- MODULE MCEntries -----------------------------
(* What a transaction displaces in the workspace or in the private Git      *)
(* metadata of its history, one mechanism at a time: an entry in custody    *)
(* (WorkspaceCustody), a publication and its rollback                       *)
(* (WorkspacePublication), a directory birth (WorkspaceDirectories), an     *)
(* import into the native metadata (NativeGit); and, by the same custody,    *)
(* a job's own socket in its directory (WorkerGitSockets).  They share no    *)
(* state, so a run of one is a run of the whole; the instance takes each in  *)
(* turn.                                                                     *)
EXTENDS WorkspaceCustody, MCWorkspacePublication, WorkspaceDirectories, NativeGit,
        WorkerGitSockets
CONSTANTS f1, f2, d1, d2

VARIABLE mechanism

entryVars == <<mechanism, vars, publicationVars, dirVars, nativeVars, socketVars>>

EntriesInit ==
  /\ mechanism \in {"custody", "publication", "directory", "native", "socket"}
  /\ Init /\ PublicationInit /\ DirInit /\ NativeInit /\ SocketInit
  /\ mechanism # "directory" => replacing = FALSE
  /\ mechanism # "native" => fresh = {}
  /\ mechanism # "socket" => entry = NoEntry /\ ~broken
  /\ inode[Own] = 1

EntriesNext ==
  \/ /\ mechanism = "custody" /\ Next
     /\ UNCHANGED <<mechanism, publicationVars, dirVars, nativeVars, socketVars>>
  \/ /\ mechanism = "publication" /\ PublicationNext
     /\ UNCHANGED <<mechanism, vars, dirVars, nativeVars, socketVars>>
  \/ /\ mechanism = "directory" /\ DirNext
     /\ UNCHANGED <<mechanism, vars, publicationVars, nativeVars, socketVars>>
  \/ /\ mechanism = "native" /\ NativeNext
     /\ UNCHANGED <<mechanism, vars, publicationVars, dirVars, socketVars>>
  \/ /\ mechanism = "socket" /\ SocketNext
     /\ UNCHANGED <<mechanism, vars, publicationVars, dirVars, nativeVars>>

\* The owners who put something at the socket's name keep away from a service
\* that has connections or a bootstrap, and only one of the two peers comes to a
\* service with a bootstrap.
SocketsApart ==
  mechanism = "socket" =>
    \/ /\ ~broken /\ \A g \in Guests : fate'[g] = "unborn"
       /\ boot' = "off" \/ \E c \in Peers : task'[c] = "new"
    \/ boot' = "off" /\ \A c \in Peers : task'[c] = "new"

\* The fairness of WorkspacePublication, where it runs.
EntriesSpec ==
  /\ EntriesInit /\ [][EntriesNext]_entryVars
  /\ WF_publicationVars(mechanism = "publication" /\ Publish)
  /\ WF_publicationVars(mechanism = "publication" /\ Recover)
=============================================================================
