--------------------------- MODULE ApprovalContract ---------------------------
(***************************************************************************)
(* What an approval of a Git operation buys, without leases, guards, slots  *)
(* or sandboxes: one effect at the most, of the request that was entered    *)
(* for it, while nothing else is in doubt on the repository; an answer that *)
(* is true; and a decision, by a receipt of success or by the owner, that   *)
(* stays.                                                                   *)
(***************************************************************************)
CONSTANTS Calls,
          Contained,  \* calls whose effect ends with the process tree it runs in
          Unspent

VARIABLES ledger,     \* what each nonce was spent on
          nonce,      \* the nonce each call brings
          asked,      \* what each call asks for
          effect,     \* what became of its effect
          told,       \* what its caller was told
          proven,     \* calls with a receipt of success
          confirmed   \* calls the owner decided

vars == <<ledger, nonce, asked, effect, told, proven, confirmed>>

Init == /\ \A n \in DOMAIN ledger : ledger[n] = Unspent
        /\ effect = [c \in Calls |-> "none"]
        /\ told = [c \in Calls |-> "nothing"]
        /\ proven = {} /\ confirmed = {}

Decided(c) == c \in proven \cup confirmed

(* Whatever is in doubt holds up everything else.                            *)
NothingInDoubt(c) == \A d \in Calls \ {c} : effect[d] = "none" \/ Decided(d)

Entry(n) == ledger'[n] # ledger[n] => ledger[n] = Unspent

(* An effect begins for a caller who was told nothing yet, with the nonce spent
   on this very request and on no other effect.                              *)
Begin(c) ==
  /\ effect[c] = "none" /\ effect'[c] = "running"
  /\ told[c] = "nothing" /\ ~Decided(c) /\ NothingInDoubt(c)
  /\ ledger[nonce[c]] = asked[c] /\ ledger[nonce[c]] # Unspent
  /\ \A d \in Calls \ {c} : effect[d] # "none" => nonce[d] # nonce[c]

End(c) ==
  /\ effect[c] = "running" /\ effect'[c] \in {"applied", "failed"}
  /\ effect'[c] = "applied" => ~(c \in confirmed /\ c \in Contained)

Effect(c) == /\ effect'[c] # effect[c] => Begin(c) \/ End(c)
             /\ effect[c] # "none" => asked'[c] = asked[c] /\ nonce'[c] = nonce[c]

(* "refused" promises that nothing was done, "done" that a receipt says so;
   an answer is not taken back.                                              *)
Answer(c) == told'[c] # told[c] =>
  /\ told[c] = "nothing"
  /\ told'[c] = "refused" => effect[c] = "none"
  /\ told'[c] = "done" => c \in proven

Decision(c) ==
  /\ Decided(c) => c \in proven' \cup confirmed'
  /\ c \in proven' \ proven => effect[c] = "applied"
  /\ c \in confirmed' \ confirmed =>
       told[c] = "uncertain" /\ ~(c \in Contained /\ effect[c] = "running")

Next == /\ \A n \in DOMAIN ledger : Entry(n)
        /\ \A c \in Calls : Effect(c) /\ Answer(c) /\ Decision(c)

Spec == Init /\ [][Next]_vars
=============================================================================
