--------------------------- MODULE MCGitOperation ---------------------------
(* Instances of GitOperation: two calls that meet on one repository, and a   *)
(* short history a, b with a divergent f.                                    *)
EXTENDS GitOperation, TLC
CONSTANTS p1, p2, f1, m1, r1, a, b, f

Served == (p1 :> "push") @@ (p2 :> "push") @@ (f1 :> "fetch") @@ (m1 :> "commit")
Tools == [c \in Calls |-> Served[c]]
Line == {<<a, b>>}
Next1 == (Absent :> a) @@ (a :> b) @@ (b :> f) @@ (f :> f)

\* One repository to start from: the remote and the tracking ref are a commit
\* behind the local branch, or there is nothing on the remote yet.
Behind == tip["commit"] = b /\ tip["push"] \in {a, Absent} /\ tip["fetch"] = Absent

\* Two pushes on one receipt; a fetch and a commit, claimed by the server, for
\* which neither the clock nor a receipt matters.
Unsigned == clock' = 0 /\ \A r \in Receipts : signed'[r].req = NoRequest
Started == {c \in Calls : pc'[c] # "idle"}
FromBehind == Init => Behind
OnePair ==
  /\ FromBehind
  /\ \/ Started \subseteq {p1, p2}
     \/ Started \subseteq {f1, m1} /\ Unsigned
=============================================================================
