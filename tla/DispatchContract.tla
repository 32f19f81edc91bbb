--------------------------- MODULE DispatchContract ---------------------------
(***************************************************************************)
(* What delegation promises the gateway that asks for a worker, without     *)
(* posts, retries, receivers, lookups or deaths: one worker at the most for *)
(* a request, started only after the client has put the request down; one   *)
(* record of what became of it, which is true when it is made and stays;    *)
(* and a client that learns nothing but this record.                        *)
(***************************************************************************)
CONSTANTS Requests, Jobs,
          Absent, Uncertain, NotLaunched   \* what a ledger holds beside a job

VARIABLES workers,   \* the jobs started for each request
          record,    \* the receiving side's ledger
          heard      \* the client's ledger

vars == <<workers, record, heard>>

Init == /\ workers = [r \in Requests |-> {}]
        /\ record = [r \in Requests |-> Absent]
        /\ heard = [r \in Requests |-> Absent]

Begin(r) ==
  /\ workers[r] = {} /\ \E j \in Jobs : workers'[r] = {j}
  /\ heard[r] # Absent /\ record[r] = Uncertain

Worker(r) == workers'[r] # workers[r] => Begin(r)

(* A request is uncertain from the moment it may start a worker; it is settled
   by its worker, or as one that has none and will have none.                *)
Record(r) == record'[r] # record[r] =>
  \/ record[r] = Absent /\ record'[r] = Uncertain /\ heard[r] # Absent
  \/ /\ record[r] = Uncertain
     /\ \/ record'[r] = NotLaunched /\ workers[r] = {}
        \/ record'[r] \in workers[r]
     /\ workers'[r] = workers[r]

Heard(r) == heard'[r] # heard[r] =>
  \/ heard[r] = Absent /\ heard'[r] = Uncertain
  \/ heard[r] = Uncertain /\ heard'[r] = record[r] /\ record[r] # Absent

Next == \A r \in Requests : Worker(r) /\ Record(r) /\ Heard(r)

Spec == Init /\ [][Next]_vars
=============================================================================
