----------------------------- MODULE MCWorkerGit -----------------------------
(* A worker on its socket and the owner's thread; a pull with two proposals, a *)
(* fetch in the same repository and a clone into another.                      *)
EXTENDS WorkerGit, TLC
CONSTANTS pull, fetch, clone, here, there, p1, p2, f1, c1, w, o

Kinded == (pull :> "pull") @@ (fetch :> "fetch") @@ (clone :> "clone")
PlacedAt == (pull :> here) @@ (fetch :> here) @@ (clone :> there)
Proposed == (p1 :> pull) @@ (p2 :> pull) @@ (f1 :> fetch) @@ (c1 :> clone)

\* Two proposals at a time: with receipts two of the pull, without them the
\* pull beside the fetch or the clone.
Pairs == IF signedOnly THEN {{p1, p2}} ELSE {{p1, f1}, {p1, c1}}
OnePair == \E pair \in Pairs :
  /\ \A c \in Callers :
       call'[c].scope = None \/ /\ call'[c].scope \in {Proposed[d] : d \in pair}
                                /\ call'[c].digest \in pair \cup {None}
  /\ \A d \in Digests \ pair : store'[d] = None /\ launched'[d] = 0
=============================================================================
