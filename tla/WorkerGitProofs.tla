--------------------------- MODULE WorkerGitProofs ---------------------------
(* What WorkerGit promises for every number of connections, owners, scopes and *)
(* proposals, and every size of the store; what GitAcquisition promises for    *)
(* any number of deaths and acts of the owner; and what HttpsDownload promises *)
(* for any calls, directories and entries.                                     *)
EXTENDS WorkerGit, GitAcquisition, HttpsDownload, TLAPS

\* A request that is under way names one of the scopes.
Scoped == \A c \in Callers : turn[c] # "idle" => Scope(c) \in Scopes
TypeInv == ServiceTypeOK /\ Scoped

\* A request whose digest, time or event changes stays one for its scope.
LEMMA Edited ==
  ASSUME NEW k \in Calls
  PROVE  /\ \A d \in Digests \cup {None} :
              [k EXCEPT !.digest = d] \in Calls /\ [k EXCEPT !.digest = d].scope = k.scope
         /\ \A t \in 0..MaxTime : [k EXCEPT !.at = t] \in Calls /\ [k EXCEPT !.at = t].scope = k.scope
         /\ \A b \in BOOLEAN : [k EXCEPT !.woken = b] \in Calls /\ [k EXCEPT !.woken = b].scope = k.scope
  BY DEF Calls

LEMMA NoCallTyped == NoCall \in Calls
  BY WorkerGitAssumption DEF NoCall, Calls

LEMMA InitTyped == ServiceInit => TypeInv
  BY WorkerGitAssumption, NoCallTyped DEF ServiceInit, TypeInv, ServiceTypeOK, Scoped,
      Callers, Places

\* Where each request is kept, answered or edited within its scope.
LEMMA RequestsTyped ==
  ASSUME TypeInv, NEW c \in Callers, NEW l,
         l \in {"idle", "admitted", "looking", "waiting", "preparing", "storing",
                "dispatching", "dispatched", "running", "answering"},
         MoveTo(c, l), turn[c] # "idle" \/ l = "idle",
         call' \in [Callers -> Calls],
         \A x \in Callers : (x # c \/ l # "idle") => call'[x].scope = call[x].scope
  PROVE  /\ turn' \in [Callers -> {"idle", "admitted", "looking", "waiting", "preparing",
                         "storing", "dispatching", "dispatched", "running", "answering"}]
         /\ Scoped'
  BY DEF TypeInv, ServiceTypeOK, Scoped, MoveTo, Scope

LEMMA AnswerTyped ==
  ASSUME TypeInv, NEW c \in Callers, Answer(c)
  PROVE  /\ turn' \in [Callers -> {"idle", "admitted", "looking", "waiting", "preparing",
                         "storing", "dispatching", "dispatched", "running", "answering"}]
         /\ call' \in [Callers -> Calls]
         /\ Scoped'
  BY NoCallTyped DEF TypeInv, ServiceTypeOK, Scoped, Answer, MoveTo, Scope

LEMMA StepTyped == TypeInv /\ [ServiceStep]_serviceVars => TypeInv'
  <1> SUFFICES ASSUME TypeInv, [ServiceStep]_serviceVars PROVE TypeInv'
    OBVIOUS
  <1> USE WorkerGitAssumption DEF TypeInv, ServiceTypeOK, request, service, ledger
  <1>0. CASE UNCHANGED serviceVars
    BY <1>0 DEF serviceVars, Scoped, Op, Scope, Digest
  <1>1. ASSUME NEW c \in Callers, Admit(c) PROVE TypeInv'
    BY <1>1 DEF Admit, Allowed, Scope, Scoped, MoveTo, Calls
  <1>2. ASSUME NEW c \in Callers, Select(c) PROVE TypeInv'
    <2>1. Place[Scope(c)] \in Places
      BY <1>2 DEF Select, Places, Scope, Scoped
    <2>2. selected' \in Places \cup {None}
      BY <1>2, <2>1 DEF Select
    <2>3. CASE Proceed(c, Onward(c))
      BY <1>2, <2>2, <2>3, RequestsTyped DEF Select, Onward, Proceed
    <2>4. CASE Answer(c)
      BY <1>2, <2>2, <2>4, AnswerTyped DEF Select
    <2> QED
      BY <1>2, <2>3, <2>4 DEF Select
  <1>3. ASSUME NEW c \in Callers, NEW d \in Held, Prepared(c, d), turn[c] # "idle",
               store' = [store EXCEPT ![d] = Refreshed(c, d)],
               UNCHANGED <<now, signedOnly, launched, service, granted, selected>>
        PROVE  TypeInv'
    <2>1. store[d] \in Records /\ call[c].at \in 0..MaxTime
      BY <1>3 DEF Held, Calls
    <2>2. Refreshed(c, d) \in Records
      BY <2>1 DEF Refreshed, Records
    <2>3. store' \in [Digests -> Records \cup {None}]
      BY <1>3, <2>2 DEF Held
    <2>4. CASE Answer(c)
      BY <1>3, <2>3, <2>4, AnswerTyped
    <2>5. CASE MoveTo(c, "dispatching") /\ call' = [call EXCEPT ![c].digest = d]
      <3>1. [call[c] EXCEPT !.digest = d] \in Calls /\ [call[c] EXCEPT !.digest = d].scope = call[c].scope
        BY Edited DEF Held
      <3>2. call' \in [Callers -> Calls] /\ \A x \in Callers : call'[x].scope = call[x].scope
        BY <2>5, <3>1
      <3> QED
        BY <1>3, <2>3, <2>5, <3>2, RequestsTyped
    <2> QED
      BY <1>3, <2>4, <2>5 DEF Prepared
  <1>4. ASSUME NEW c \in Callers, AskBackend(c) PROVE TypeInv'
    <2>1. CASE Answer(c)
      BY <1>4, <2>1, AnswerTyped DEF AskBackend
    <2>2. ASSUME NEW d \in Digests, call' = [call EXCEPT ![c].digest = d], MoveTo(c, "storing")
          PROVE  TypeInv'
      <3>1. [call[c] EXCEPT !.digest = d] \in Calls /\ [call[c] EXCEPT !.digest = d].scope = call[c].scope
        BY Edited
      <3>2. call' \in [Callers -> Calls] /\ \A x \in Callers : call'[x].scope = call[x].scope
        BY <2>2, <3>1
      <3> QED
        BY <1>4, <2>2, <3>2, RequestsTyped DEF AskBackend
    <2> QED
      BY <1>4, <2>1, <2>2 DEF AskBackend
  <1>5. ASSUME NEW c \in Callers, ReuseClone(c) \/ KeepOrRefresh(c) PROVE TypeInv'
    BY <1>3, <1>5 DEF ReuseClone, KeepOrRefresh, Known, Held
  <1>6. ASSUME NEW c \in Callers, Store(c) PROVE TypeInv'
    <2>1. store' \in [Digests -> Records \cup {None}]
      BY <1>6 DEF Store, Digest, Records, Calls
    <2>2. PICK gone \in SUBSET Held :
            call' = [x \in Callers |->
              IF x = c /\ Op(c) = "prepare" THEN NoCall
              ELSE IF turn[x] = "waiting" /\ Digest(x) \in gone THEN [call[x] EXCEPT !.digest = None]
              ELSE call[x]]
      BY <1>6 DEF Store
    <2>3. \A x \in Callers : /\ [call[x] EXCEPT !.digest = None] \in Calls
                             /\ [call[x] EXCEPT !.digest = None].scope = call[x].scope
      BY Edited
    <2>4. /\ call' \in [Callers -> Calls]
          /\ \A x \in Callers : x # c \/ Op(c) # "prepare" => call'[x].scope = call[x].scope
      BY <2>2, <2>3, NoCallTyped
    <2> DEFINE l == IF Op(c) = "prepare" THEN "idle" ELSE "dispatching"
    <2>5. turn[c] # "idle" /\ MoveTo(c, l)
      BY <1>6 DEF Store
    <2>6. \A x \in Callers : x # c \/ l # "idle" => call'[x].scope = call[x].scope
      BY <2>4
    <2>7. l \in {"idle", "dispatching"}
      OBVIOUS
    <2> HIDE DEF l
    <2>8. /\ turn' \in [Callers -> {"idle", "admitted", "looking", "waiting", "preparing",
                         "storing", "dispatching", "dispatched", "running", "answering"}]
          /\ Scoped'
      BY ONLY TypeInv, c \in Callers, <2>4, <2>5, <2>6, <2>7, RequestsTyped
    <2> QED
      BY <1>6, <2>1, <2>4, <2>8 DEF Store
  <1>7. ASSUME NEW c \in Callers, RefuseAnswer(c) PROVE TypeInv'
    BY <1>7, AnswerTyped DEF RefuseAnswer
  <1>8. ASSUME NEW c \in Callers, Claim(c) PROVE TypeInv'
    <2>1. CASE Answer(c) /\ UNCHANGED store
      BY <1>8, <2>1, AnswerTyped DEF Claim
    <2>2. CASE /\ Claimable(c) /\ store' = [store EXCEPT ![Digest(c)].dispatched = TRUE]
               /\ MoveTo(c, "dispatched") /\ call' = [call EXCEPT ![c].at = 0]
      <3>1. store' \in [Digests -> Records \cup {None}]
        BY <2>2 DEF Claimable, Held, Records
      <3>2. [call[c] EXCEPT !.at = 0] \in Calls /\ [call[c] EXCEPT !.at = 0].scope = call[c].scope
        BY Edited
      <3>3. call' \in [Callers -> Calls] /\ \A x \in Callers : call'[x].scope = call[x].scope
        BY <2>2, <3>2
      <3> QED
        BY <1>8, <2>2, <3>1, <3>3, RequestsTyped DEF Claim
    <2> QED
      BY <1>8, <2>1, <2>2 DEF Claim
  <1>9. ASSUME NEW c \in Callers, BackendDenies(c) PROVE TypeInv'
    BY <1>9, RequestsTyped DEF BackendDenies, Proceed
  <1>10. ASSUME NEW c \in Callers, Enter(c) PROVE TypeInv'
    <2>1. launched' = [d \in Digests |-> IF d = Digest(c) THEN launched[d] + 1 ELSE launched[d]]
      BY <1>10 DEF Enter
    <2>2. launched' \in [Digests -> Nat]
      BY <2>1
    <2> QED
      BY <1>10, <2>2, RequestsTyped DEF Enter, Proceed
  <1>11. ASSUME NEW c \in Callers, Leave(c) PROVE TypeInv'
    BY <1>11, RequestsTyped DEF Leave, Proceed
  <1>12. ASSUME NEW c \in Callers, Conclude(c) PROVE TypeInv'
    <2> DEFINE w(x) == call[x].woken \/ Waits(x, Digest(c))
    <2>1. \A x \in Callers : w(x) \in BOOLEAN
      BY DEF Calls, Waits
    <2>2. call' = [x \in Callers |-> IF x = c THEN NoCall ELSE [call[x] EXCEPT !.woken = w(x)]]
      BY <1>12 DEF Conclude
    <2> HIDE DEF w
    <2>3. /\ call' \in [Callers -> Calls]
          /\ \A x \in Callers : x # c => call'[x].scope = call[x].scope
      BY <2>1, <2>2, Edited, NoCallTyped
    <2> QED
      BY <1>12, <2>3, RequestsTyped DEF Conclude
  <1>13. ASSUME NEW c \in Callers, Look(c) PROVE TypeInv'
    <2>1. CASE Answer(c)
      BY <1>13, <2>1, AnswerTyped DEF Look
    <2>2. CASE MoveTo(c, "waiting") /\ call' = [call EXCEPT ![c].at = now]
      <3>1. [call[c] EXCEPT !.at = now] \in Calls /\ [call[c] EXCEPT !.at = now].scope = call[c].scope
        BY Edited
      <3>2. call' \in [Callers -> Calls] /\ \A x \in Callers : call'[x].scope = call[x].scope
        BY <2>2, <3>1
      <3> QED
        BY <1>13, <2>2, <3>2, RequestsTyped DEF Look
    <2> QED
      BY <1>13, <2>1, <2>2 DEF Look
  <1>14. ASSUME NEW c \in Callers, Wake(c) PROVE TypeInv'
    BY <1>14, AnswerTyped DEF Wake
  <1>15. CASE Close \/ Drain \/ CloseTransport \/ Dies \/ Tick
    <2>1. Scoped'
      BY <1>15 DEF Close, Drain, CloseTransport, Dies, Tick, Scoped, Scope
    <2>2. CASE Tick
      <3>1. now' \in 0..MaxTime
        BY <2>2 DEF Tick
      <3> QED
        BY <2>1, <2>2, <3>1 DEF Tick
    <2> QED
      BY <1>15, <2>1, <2>2 DEF Close, Drain, CloseTransport, Dies
  <1>16. CASE Revoke
    <2> DEFINE w(x) == call[x].woken \/ (turn[x] = "waiting" /\ Digest(x) # None)
    <2>1. \A x \in Callers : w(x) \in BOOLEAN
      BY DEF Calls
    <2>2. call' = [x \in Callers |-> [call[x] EXCEPT !.woken = w(x)]]
      BY <1>16 DEF Revoke
    <2> HIDE DEF w
    <2>3. call' \in [Callers -> Calls] /\ \A x \in Callers : call'[x].scope = call[x].scope
      BY <2>1, <2>2, Edited
    <2> QED
      BY <1>16, <2>3 DEF Revoke, Scoped, Scope
  <1> QED
    BY <1>0, <1>1, <1>2, <1>4, <1>5, <1>6, <1>7, <1>8, <1>9, <1>10, <1>11, <1>12,
       <1>13, <1>14, <1>15, <1>16 DEF ServiceStep, Handles, Closes

\* Every record, counter and request of the service keeps to its documented
\* values.
THEOREM TypeCorrect == ServiceSpec => []ServiceTypeOK
  <1>1. ServiceSpec => []TypeInv
    BY InitTyped, StepTyped, PTL DEF ServiceSpec
  <1>2. TypeInv => ServiceTypeOK
    BY DEF TypeInv
  <1> QED
    BY <1>1, <1>2, PTL

-----------------------------------------------------------------------------
(* One effect for each proposal, and one repository for all of them.        *)

\* What took effect, or is about to, under a grant has a claimed record.
Committed(d) == launched[d] > 0 \/ \E c \in Callers : turn[c] = "dispatched" /\ Digest(c) = d
EffectsRecorded ==
  granted => \A d \in Digests : Committed(d) => d \in Held /\ store[d].dispatched

\* A claim that did not set out yet is the only one for its proposal.
ClaimsExclusive ==
  \A c \in Callers : turn[c] = "dispatched" =>
    /\ Digest(c) \in Digests /\ launched[Digest(c)] = 0
    /\ \A x \in Callers : turn[x] = "dispatched" /\ x # c => Digest(x) # Digest(c)

\* While the grant stands, an admitted request is for the bound repository.
RequestsBound ==
  granted => \A c \in Callers : turn[c] \notin {"idle", "admitted"} => selected = Place[Scope(c)]

CommitmentsBound ==
  /\ \A d, e \in Digests : Committed(d) /\ Committed(e) => Place[Proposes[d]] = Place[Proposes[e]]
  /\ granted => \A d \in Digests : Committed(d) => selected = Place[Proposes[d]]

EffectsInv == /\ EffectsRecorded /\ ClaimsExclusive /\ RequestsBound /\ CommitmentsBound
              /\ \A d \in Digests : launched[d] <= 1

LEMMA InitEffects == ServiceInit => EffectsInv
  BY DEF ServiceInit, EffectsInv, EffectsRecorded, ClaimsExclusive, RequestsBound,
      CommitmentsBound, Committed

\* A claimed record is neither dropped nor made claimable again.
ClaimsKept == \A d \in Held : store[d].dispatched => d \in Held' /\ store'[d].dispatched

\* A step that claims nothing and starts nothing keeps what is committed.
LEMMA NothingCommitted ==
  ASSUME TypeInv, EffectsInv, UNCHANGED launched,
         \A c \in Callers : turn'[c] = "dispatched" => turn[c] = "dispatched" /\ Digest(c)' = Digest(c)
  PROVE  /\ \A d \in Digests : Committed(d)' => Committed(d)
         /\ ClaimsExclusive'
         /\ \A d \in Digests : launched'[d] <= 1
         /\ \A d, e \in Digests : Committed(d)' /\ Committed(e)' => Place[Proposes[d]] = Place[Proposes[e]]
  BY DEF TypeInv, ServiceTypeOK, EffectsInv, ClaimsExclusive, CommitmentsBound, Committed

\* Of such a step only the records and the binding remain to be looked at.
LEMMA KeepsEffects ==
  ASSUME TypeInv, EffectsInv, UNCHANGED <<launched, granted>>,
         \A c \in Callers : turn'[c] = "dispatched" => turn[c] = "dispatched" /\ Digest(c)' = Digest(c),
         ClaimsKept,
         granted /\ selected # None => selected' = selected,
         granted => \A c \in Callers : turn'[c] \notin {"idle", "admitted"} => selected' = Place[Scope(c)']
  PROVE  EffectsInv'
  <1>1. EffectsRecorded'
    BY NothingCommitted DEF EffectsInv, EffectsRecorded, ClaimsKept
  <1>2. granted' => \A d \in Digests : Committed(d)' => selected' = Place[Proposes[d]]
    <2> SUFFICES ASSUME granted, NEW d \in Digests, Committed(d)' PROVE selected' = Place[Proposes[d]]
      OBVIOUS
    <2>1. selected = Place[Proposes[d]]
      BY NothingCommitted DEF EffectsInv, CommitmentsBound
    <2>2. selected # None
      BY <2>1, WorkerGitAssumption DEF Places
    <2> QED
      BY <2>1, <2>2
  <1> QED
    BY <1>1, <1>2, NothingCommitted DEF EffectsInv, RequestsBound, CommitmentsBound

LEMMA StepEffects == TypeInv /\ EffectsInv /\ [ServiceStep]_serviceVars => EffectsInv'
  <1> SUFFICES ASSUME TypeInv, EffectsInv, [ServiceStep]_serviceVars PROVE EffectsInv'
    OBVIOUS
  <1> USE WorkerGitAssumption DEF request, service, ledger
  \* Answers, and moves of a request within its scope, with the records kept.
  <1>1. ASSUME NEW c \in Callers, NEW l, MoveTo(c, l), l # "dispatched",
               turn[c] \notin {"idle", "admitted"} \/ l \in {"idle", "admitted"},
               \A x \in Callers : turn'[x] # "idle" => Scope(x)' = Scope(x),
               \A x \in Callers : turn'[x] = "dispatched" => Digest(x)' = Digest(x),
               ClaimsKept,
               UNCHANGED <<launched, granted, selected>>
        PROVE  EffectsInv'
    <2>1. \A x \in Callers : turn'[x] = IF x = c THEN l ELSE turn[x]
      BY <1>1 DEF MoveTo, TypeInv, ServiceTypeOK
    <2> QED
      BY <1>1, <2>1, KeepsEffects DEF EffectsInv, RequestsBound
  <1>2. ASSUME NEW c \in Callers, Answer(c), UNCHANGED <<launched, granted, selected>>,
               ClaimsKept
        PROVE  EffectsInv'
    <2>1. \A x \in Callers : x # c => call'[x] = call[x]
      BY <1>2 DEF Answer, TypeInv, ServiceTypeOK
    <2>2. MoveTo(c, "idle") /\ turn'[c] = "idle"
      BY <1>2 DEF Answer, MoveTo, TypeInv, ServiceTypeOK
    <2> QED
      BY <1>1, <1>2, <2>1, <2>2 DEF Scope, Digest
  <1>3. CASE UNCHANGED serviceVars
    BY <1>3 DEF serviceVars, EffectsInv, EffectsRecorded, ClaimsExclusive, RequestsBound,
                CommitmentsBound, Committed, Held, Digest, Scope
  <1>4. ASSUME NEW c \in Callers, Admit(c) PROVE EffectsInv'
    <2>1. /\ MoveTo(c, "admitted") /\ turn[c] = "idle" /\ turn'[c] = "admitted"
          /\ \A x \in Callers : x # c => call'[x] = call[x] /\ turn'[x] = turn[x]
      BY <1>4 DEF Admit, MoveTo, TypeInv, ServiceTypeOK
    <2>2. ClaimsKept
      BY <1>4 DEF Admit, ClaimsKept, Held
    <2> QED
      BY <1>4, <2>1, <2>2, KeepsEffects DEF Admit, EffectsInv, RequestsBound, Scope, Digest
  <1>5. ASSUME NEW c \in Callers, Select(c) PROVE EffectsInv'
    <2>1. ClaimsKept
      BY <1>5 DEF Select, ClaimsKept, Held
    <2>2. granted /\ selected # None => selected' = selected
      BY <1>5 DEF Select
    <2>3. \A x \in Callers : turn'[x] \notin {"idle", "admitted"} =>
             \/ x = c /\ Scope(x)' = Scope(x) /\ selected' = Place[Scope(x)]
             \/ x # c /\ Scope(x)' = Scope(x) /\ turn'[x] = turn[x]
      BY <1>5 DEF Select, Proceed, Answer, MoveTo, TypeInv, ServiceTypeOK, Scope
    <2>4. granted => \A x \in Callers : turn'[x] \notin {"idle", "admitted"} => selected' = Place[Scope(x)']
      <3> SUFFICES ASSUME granted, NEW x \in Callers, turn'[x] \notin {"idle", "admitted"}
                   PROVE  selected' = Place[Scope(x)']
        OBVIOUS
      <3>1. CASE x = c
        BY <2>3, <3>1
      <3>2. CASE x # c
        <4>1. selected = Place[Scope(x)] /\ Scope(x)' = Scope(x)
          BY <2>3, <3>2 DEF EffectsInv, RequestsBound
        <4>2. selected # None
          BY <2>3, <3>2, <4>1 DEF TypeInv, Scoped, Places
        <4> QED
          BY <2>2, <4>1, <4>2
      <3> QED
        BY <3>1, <3>2
    <2>5. \A x \in Callers : turn'[x] = "dispatched" => turn[x] = "dispatched" /\ Digest(x)' = Digest(x)
      BY <1>5 DEF Select, Proceed, Answer, MoveTo, Onward, TypeInv, ServiceTypeOK, Digest
    <2> QED
      BY <1>5, <2>1, <2>2, <2>4, <2>5, KeepsEffects DEF Select
  <1>6. ASSUME NEW c \in Callers, NEW d \in Held, turn[c] \in {"preparing", "storing"}, Prepared(c, d),
               store' = [store EXCEPT ![d] = Refreshed(c, d)],
               UNCHANGED <<now, signedOnly, launched, service, granted, selected>>
        PROVE  EffectsInv'
    <2>1. ClaimsKept
      BY <1>6 DEF ClaimsKept, Held, Refreshed, TypeInv, ServiceTypeOK, Records
    <2>2. CASE Answer(c)
      BY <1>2, <1>6, <2>1, <2>2
    <2>3. CASE MoveTo(c, "dispatching") /\ call' = [call EXCEPT ![c].digest = d]
      <3>1. /\ \A x \in Callers : Scope(x)' = Scope(x)
            /\ \A x \in Callers : turn'[x] = "dispatched" => Digest(x)' = Digest(x)
        BY <2>3 DEF TypeInv, ServiceTypeOK, Scope, Digest, MoveTo, Calls
      <3> QED
        BY <1>1, <1>6, <2>1, <2>3, <3>1
    <2> QED
      BY <1>6, <2>2, <2>3 DEF Prepared
  <1>7. ASSUME NEW c \in Callers, ReuseClone(c) \/ KeepOrRefresh(c) PROVE EffectsInv'
    BY <1>6, <1>7 DEF ReuseClone, KeepOrRefresh, Known
  <1>8. ASSUME NEW c \in Callers, AskBackend(c) PROVE EffectsInv'
    <2>1. ClaimsKept
      BY <1>8 DEF AskBackend, ClaimsKept, Held
    <2>2. CASE Answer(c)
      BY <1>2, <1>8, <2>1, <2>2 DEF AskBackend
    <2>3. ASSUME NEW d \in Digests, call' = [call EXCEPT ![c].digest = d], MoveTo(c, "storing")
          PROVE  EffectsInv'
      <3>1. /\ \A x \in Callers : Scope(x)' = Scope(x)
            /\ \A x \in Callers : turn'[x] = "dispatched" => Digest(x)' = Digest(x)
        BY <2>3 DEF TypeInv, ServiceTypeOK, Scope, Digest, MoveTo, Calls
      <3> QED
        BY <1>1, <1>8, <2>1, <2>3, <3>1 DEF AskBackend
    <2> QED
      BY <1>8, <2>2, <2>3 DEF AskBackend
  <1>9. ASSUME NEW c \in Callers, Store(c) PROVE EffectsInv'
    <2>1. PICK gone \in SUBSET Held :
            /\ Room(c, gone)
            /\ store' = [d \in Digests |->
                 IF d = Digest(c) THEN [at |-> call[c].at, dispatched |-> FALSE]
                 ELSE IF d \in gone THEN None ELSE store[d]]
            /\ call' = [x \in Callers |->
                 IF x = c /\ Op(c) = "prepare" THEN NoCall
                 ELSE IF turn[x] = "waiting" /\ Digest(x) \in gone THEN [call[x] EXCEPT !.digest = None]
                 ELSE call[x]]
      BY <1>9 DEF Store
    <2>2. gone \subseteq Undispatched
      BY <2>1 DEF Room
    <2>3. ClaimsKept
      BY <1>9, <2>1, <2>2 DEF Store, ClaimsKept, Held, Undispatched
    <2> DEFINE l == IF Op(c) = "prepare" THEN "idle" ELSE "dispatching"
    <2>4. MoveTo(c, l) /\ l # "dispatched" /\ turn[c] = "storing"
      BY <1>9 DEF Store
    <2>5. \A x \in Callers : turn'[x] # "idle" => Scope(x)' = Scope(x)
      BY <2>1, <2>4 DEF TypeInv, ServiceTypeOK, Scope, MoveTo, Calls
    <2>6. \A x \in Callers : turn'[x] = "dispatched" => Digest(x)' = Digest(x)
      BY <2>1, <2>4 DEF TypeInv, ServiceTypeOK, Digest, MoveTo, Calls
    <2> HIDE DEF l
    <2> QED
      BY <1>1, <1>9, <2>3, <2>4, <2>5, <2>6 DEF Store
  <1>10. ASSUME NEW c \in Callers, RefuseAnswer(c) \/ Wake(c) PROVE EffectsInv'
    <2>1. ClaimsKept
      BY <1>10 DEF RefuseAnswer, Wake, ClaimsKept, Held
    <2> QED
      BY <1>2, <1>10, <2>1 DEF RefuseAnswer, Wake
  <1>11. ASSUME NEW c \in Callers, Claim(c) PROVE EffectsInv'
    <2>1. CASE Answer(c) /\ UNCHANGED store
      <3>1. ClaimsKept
        BY <2>1 DEF ClaimsKept, Held
      <3> QED
        BY <1>2, <1>11, <2>1, <3>1 DEF Claim
    <2>2. CASE /\ Claimable(c) /\ store' = [store EXCEPT ![Digest(c)].dispatched = TRUE]
               /\ MoveTo(c, "dispatched") /\ call' = [call EXCEPT ![c].at = 0]
      <3> DEFINE k == Digest(c)
      <3>1. /\ granted /\ k \in Digests /\ k \in Held /\ ~store[k].dispatched
            /\ Proposes[k] = Scope(c) /\ turn[c] = "dispatching" /\ UNCHANGED <<launched, granted, selected>>
        BY <1>11, <2>2 DEF Claim, Claimable, Held
      <3>2. /\ \A x \in Callers : Digest(x)' = Digest(x) /\ Scope(x)' = Scope(x)
            /\ \A x \in Callers : turn'[x] = IF x = c THEN "dispatched" ELSE turn[x]
        BY <2>2 DEF TypeInv, ServiceTypeOK, Digest, Scope, MoveTo, Calls
      <3>3. /\ k \in Held' /\ store'[k].dispatched
            /\ \A d \in Digests \ {k} : store'[d] = store[d]
        <4>1. store[k] \in Records
          BY <3>1 DEF TypeInv, ServiceTypeOK, Held
        <4>2. /\ store'[k] = [store[k] EXCEPT !.dispatched = TRUE]
              /\ \A d \in Digests \ {k} : store'[d] = store[d]
          BY <2>2, <3>1 DEF TypeInv, ServiceTypeOK
        <4>3. store'[k] \in Records /\ store'[k].dispatched
          BY <4>1, <4>2 DEF Records
        <4> QED
          BY <3>1, <4>2, <4>3 DEF Held
      <3>4. ~Committed(k) /\ launched[k] = 0
        BY <3>1 DEF EffectsInv, EffectsRecorded, TypeInv, ServiceTypeOK, Committed
      <3>5. \A d \in Digests : Committed(d)' => Committed(d) \/ d = k
        BY <3>1, <3>2 DEF Committed
      <3>6. selected = Place[Proposes[k]]
        BY <3>1 DEF EffectsInv, RequestsBound
      <3> HIDE DEF k
      <3>7. EffectsRecorded'
        BY <3>1, <3>3, <3>5 DEF EffectsInv, EffectsRecorded, Held
      <3>8. ClaimsExclusive'
        <4>1. \A x \in Callers : turn[x] = "dispatched" => Digest(x) # k
          BY <3>4 DEF Committed
        <4> QED
          BY <3>1, <3>2, <3>4, <4>1 DEF EffectsInv, ClaimsExclusive, k
      <3>9. RequestsBound'
        BY <3>1, <3>2 DEF EffectsInv, RequestsBound
      <3>10. CommitmentsBound'
        BY <3>1, <3>5, <3>6 DEF EffectsInv, CommitmentsBound
      <3> QED
        BY <3>1, <3>7, <3>8, <3>9, <3>10 DEF EffectsInv
    <2> QED
      BY <1>11, <2>1, <2>2 DEF Claim
  <1>12. ASSUME NEW c \in Callers, BackendDenies(c) \/ Leave(c) PROVE EffectsInv'
    <2>1. ClaimsKept /\ \A x \in Callers : Scope(x)' = Scope(x) /\ Digest(x)' = Digest(x)
      BY <1>12 DEF BackendDenies, Leave, Proceed, ClaimsKept, Held, Scope, Digest
    <2> QED
      BY <1>1, <1>12, <2>1 DEF BackendDenies, Leave, Proceed
  <1>13. ASSUME NEW c \in Callers, Enter(c) PROVE EffectsInv'
    <2> DEFINE k == Digest(c)
    <2>1. k \in Digests /\ launched[k] = 0 /\ Committed(k)
      BY <1>13 DEF Enter, EffectsInv, ClaimsExclusive, Committed
    <2>2. /\ \A d \in Digests : launched'[d] = IF d = k THEN 1 ELSE launched[d]
          /\ UNCHANGED <<call, ledger>>
          /\ \A x \in Callers : turn'[x] = IF x = c THEN "running" ELSE turn[x]
      BY <1>13, <2>1 DEF Enter, Proceed, MoveTo, TypeInv, ServiceTypeOK
    <2>3. \A d \in Digests : Committed(d)' => Committed(d)
      BY <2>1, <2>2 DEF Committed, Digest
    <2>4. EffectsRecorded' /\ CommitmentsBound'
      BY <2>2, <2>3 DEF EffectsInv, EffectsRecorded, CommitmentsBound, Held
    <2>5. ClaimsExclusive'
      BY <1>13, <2>2 DEF EffectsInv, ClaimsExclusive, Enter, Digest
    <2>6. RequestsBound'
      BY <1>13, <2>2 DEF EffectsInv, RequestsBound, Enter, Scope
    <2>7. \A d \in Digests : launched'[d] <= 1
      BY <2>2 DEF EffectsInv
    <2> QED
      BY <2>4, <2>5, <2>6, <2>7 DEF EffectsInv
  <1>14. ASSUME NEW c \in Callers, Conclude(c) PROVE EffectsInv'
    <2> DEFINE w(x) == call[x].woken \/ Waits(x, Digest(c))
    <2>1. call' = [x \in Callers |-> IF x = c THEN NoCall ELSE [call[x] EXCEPT !.woken = w(x)]]
      BY <1>14 DEF Conclude
    <2> HIDE DEF w
    <2>2. \A x \in Callers : x # c => Scope(x)' = Scope(x) /\ Digest(x)' = Digest(x)
      BY <2>1 DEF TypeInv, ServiceTypeOK, Calls, Scope, Digest
    <2>3. ClaimsKept /\ MoveTo(c, "idle") /\ turn'[c] = "idle"
      BY <1>14 DEF Conclude, ClaimsKept, Held, MoveTo, TypeInv, ServiceTypeOK
    <2> QED
      BY <1>1, <1>14, <2>2, <2>3 DEF Conclude
  <1>15. ASSUME NEW c \in Callers, Look(c) PROVE EffectsInv'
    <2>1. ClaimsKept
      BY <1>15 DEF Look, ClaimsKept, Held
    <2>2. CASE Answer(c)
      BY <1>2, <1>15, <2>1, <2>2 DEF Look
    <2>3. CASE MoveTo(c, "waiting") /\ call' = [call EXCEPT ![c].at = now]
      <3>1. \A x \in Callers : Scope(x)' = Scope(x) /\ Digest(x)' = Digest(x)
        BY <2>3 DEF TypeInv, ServiceTypeOK, Scope, Digest, Calls
      <3> QED
        BY <1>1, <1>15, <2>1, <2>3, <3>1 DEF Look
    <2> QED
      BY <1>15, <2>2, <2>3 DEF Look
  <1>16. CASE Close \/ Drain \/ CloseTransport \/ Dies \/ Tick
    BY <1>16 DEF Close, Drain, CloseTransport, Dies, Tick, EffectsInv, EffectsRecorded,
                 ClaimsExclusive, RequestsBound, CommitmentsBound, Committed, Held, Digest, Scope
  <1>17. CASE Revoke
    <2> DEFINE w(x) == call[x].woken \/ (turn[x] = "waiting" /\ Digest(x) # None)
    <2>1. call' = [x \in Callers |-> [call[x] EXCEPT !.woken = w(x)]]
      BY <1>17 DEF Revoke
    <2> HIDE DEF w
    <2>2. \A x \in Callers : Digest(x)' = Digest(x)
      BY <2>1 DEF TypeInv, ServiceTypeOK, Calls, Digest
    <2> QED
      BY <1>17, <2>2, NothingCommitted
      DEF Revoke, EffectsInv, EffectsRecorded, RequestsBound, CommitmentsBound
  <1> QED
    BY <1>3, <1>4, <1>5, <1>7, <1>8, <1>9, <1>10, <1>11, <1>12, <1>13, <1>14, <1>15, <1>16,
       <1>17 DEF ServiceStep, Handles, Closes

\* "Claimed at dispatch and never reset": no proposal takes effect twice, and a
\* job's effects stay in the repository it was bound to first, whatever the
\* sizes of the store and of the clock.
THEOREM EffectsStayBound == ServiceSpec => []EffectsBound
  <1>1. ServiceSpec => [](TypeInv /\ EffectsInv)
    BY InitTyped, StepTyped, InitEffects, StepEffects, PTL DEF ServiceSpec
  <1>2. TypeInv /\ EffectsInv => EffectsBound
    BY DEF EffectsInv, EffectsBound, CommitmentsBound, Committed
  <1> QED
    BY <1>1, <1>2, PTL

-----------------------------------------------------------------------------
(* The lock of the backend, and the close that waits for it.                *)
HeldByTheRunning == \A c \in Callers : turn[c] = "running" => holder = c
HeldByTheCloser == /\ closer = "drained" => holder = Closer
                   /\ closer = "closed" => holder = Nobody
LockInv == HeldByTheRunning /\ HeldByTheCloser

LEMMA StepLocked == TypeInv /\ LockInv /\ [ServiceStep]_serviceVars => LockInv'
  <1> SUFFICES ASSUME TypeInv, LockInv, [ServiceStep]_serviceVars PROVE LockInv'
    OBVIOUS
  <1> USE WorkerGitAssumption DEF LockInv, HeldByTheRunning, HeldByTheCloser, TypeInv,
      ServiceTypeOK,
        request, service, ledger, MoveTo
  <1>1. CASE UNCHANGED serviceVars
    BY <1>1 DEF serviceVars
  <1>2. ASSUME NEW c \in Callers, NEW l, l # "running", MoveTo(c, l), UNCHANGED <<holder, closer>>
        PROVE  LockInv'
    BY <1>2
  <1>3. ASSUME NEW c \in Callers, Admit(c) \/ AskBackend(c) \/ ReuseClone(c) \/ KeepOrRefresh(c)
                                  \/ Store(c) \/ RefuseAnswer(c)
        PROVE  LockInv'
    BY <1>2, <1>3 DEF Admit, AskBackend, ReuseClone, KeepOrRefresh, Store, RefuseAnswer,
        Answer, Prepared
  <1>4. ASSUME NEW c \in Callers, Select(c) \/ Claim(c) \/ BackendDenies(c) \/ Conclude(c) \/ Look(c) \/ Wake(c)
        PROVE  LockInv'
    BY <1>2, <1>4 DEF Select, Onward, Claim, BackendDenies, Conclude, Look, Wake, Answer,
        Proceed
  <1>5. ASSUME NEW c \in Callers, Enter(c) PROVE LockInv'
    BY <1>5 DEF Enter, IsLive, Closed, Proceed
  <1>6. ASSUME NEW c \in Callers, Leave(c) PROVE LockInv'
    BY <1>6 DEF Leave, Proceed, Callers
  <1>7. CASE Closes
    BY <1>7 DEF Closes, Close, Revoke, Drain, CloseTransport, Callers
  <1>8. CASE Dies \/ Tick
    BY <1>8 DEF Dies, Tick
  <1> QED
    BY <1>1, <1>3, <1>4, <1>5, <1>6, <1>7, <1>8 DEF ServiceStep, Handles

\* "Revoke first, then drain any admitted backend operation": once close has
\* returned no operation of the job works on its transaction, and none claimed
\* before sets out.
THEOREM ClosedIsQuiet == ServiceSpec => []QuietAfterClose
  <1>1. ServiceInit => LockInv
    BY DEF ServiceInit, LockInv, HeldByTheRunning, HeldByTheCloser
  <1>2. ServiceSpec => [](TypeInv /\ LockInv)
    BY <1>1, InitTyped, StepTyped, StepLocked, PTL DEF ServiceSpec
  <1>3. LockInv => QuietAfterClose
    BY WorkerGitAssumption DEF LockInv, HeldByTheRunning, HeldByTheCloser, QuietAfterClose
  <1> QED
    BY <1>2, <1>3, PTL
-----------------------------------------------------------------------------
(* An approved pull or clone, the end of its job and its recovery            *)
(* (GitAcquisition).                                                         *)
\* Where a call of a worker, or the job's own end, may stand.
OnlyClone == {"prepared", "intending", "papered", "intended", "placed", "recorded", "claimed",
              "made", "failed", "rejected", "captured", "unlinking"}
OnlyPull == {"asking", "spent", "guarded", "integrated", "unmerged", "migrating", "guarding",
             "binding", "bundled", "half_retired", "resolving", "closing"}
Acquiring == {"idle", "prepared", "intending", "papered", "intended", "placed", "recorded",
              "linked", "claimed", "made", "failed", "rejected", "asking", "spent", "guarded",
              "integrated", "unmerged", "ready", "retained", "refused"}
Ending == Finalizing \cup {"applied"}
Original == {"before", "moved"}
Published == {"after", "touched"}

\* The row, the slot and the gateway agree on where the job is, and neither the
\* recovery command nor a start runs beside a gateway that works on the job.
RowFits ==
  /\ gateway = "down" => pc \in {"over", "gone"}
  /\ rpc # "idle" => gateway = "down"
  /\ pc \in Acquiring => row = "running"
  /\ pc \in Ending => row = "finalizing"
  /\ row \in {"running", "finalizing", "cleanup_failed"} => slot
  /\ pc \in OnlyClone => kind = "clone"
  /\ pc \in OnlyPull => kind = "pull"

\* Until finalization the workspace is as it was; nothing is journalled.
Unpublished ==
  row \in {"running", "failed", "interrupted"} =>
    canon \in Original /\ receipts = {} /\ journal = "none" /\ bundle = "none"

\* What a call has made of the approval, the link, the marker and its papers.
CallFits ==
  /\ pc \in {"idle", "prepared", "intending", "papered", "intended", "placed", "recorded",
             "asking", "rejected", "refused"} => ~spent
  /\ pc = "linked" /\ kind = "clone" => ~spent
  /\ pc \in {"idle", "prepared", "intending", "papered", "intended", "placed", "recorded",
             "asking", "spent", "guarded"} => link = "none"
  /\ pc \in {"idle", "prepared", "intending", "papered", "intended", "asking", "spent"}
       => guard = "none"
  /\ pc \in {"rejected", "refused"} => guard # "ours"
  /\ pc = "intended" => "intent" \in papers
  /\ kind = "clone" /\ guard = "ours" => Placed
  /\ pc \in Acquiring \ {"idle", "prepared", "refused"} => pending
  /\ pc = "refused" => ~pending /\ link # "active"

\* Once placed a clone's guard is at the path or its owner's; then the link follows.
CloneLinked ==
  kind = "clone" =>
    /\ pc \in {"placed", "recorded", "linked", "claimed", "made", "ready"}
         => guard \in {"ours", "owner"}
    /\ pc \in {"linked", "claimed", "made", "ready"} => link = "active"

\* What finalization has done when it stands at a step.
EndFits ==
  /\ pc \in {"validating", "stopped", "journalling"}
       => canon \in Original /\ receipts = {} /\ bundle = "none"
  /\ pc \in {"migrating", "guarding", "binding"} => canon \in Original /\ receipts = {}
  /\ pc = "publishing" => canon \in {"before", "half", "moved"} /\ receipts = {}
  /\ pc = "verifying" => canon \in Published /\ receipts = {}
  /\ pc \in {"retiring", "captured", "unlinking", "bundled", "half_retired", "resolving",
             "closing", "applied"} => canon \in Published /\ receipts = {"published"}
  /\ pc \in Ending /\ kind = "clone" => bundle = "none" /\ journal # "held"
  /\ pc \in {"captured", "unlinking", "half_retired", "resolving", "closing", "applied"}
       => guard = "none"
  /\ pc \in {"unlinking", "closing", "applied"} => link = "resolved"
  /\ pc \in {"resolving", "closing"} => journal = "held"
  /\ pc = "applied" => ~JournalThere /\ ~Retained

\* What a rollback undid stays undone, and whatever is settled is whole.
Whole == canon \in Original
           \/ (canon \in Published /\ receipts = {"published"} /\ ~JournalThere /\ ~Retained)
RecoveryFits ==
  /\ canon = "half" => row \in {"finalizing", "cleanup_failed"}
  /\ "rolled_back" \in receipts => canon \in Original
  /\ row = "recovered" => Whole
  /\ kind = "clone" /\ journal = "held" => "rolled_back" \in receipts
  /\ rpc = "settling" => kind = "clone" /\ StoppedJob /\ Whole
  /\ rpc = "undoing" => StoppedJob /\ (row = "recovered" => canon \in Original)
  /\ rpc \in {"undone", "retiring"} => "rolled_back" \in receipts
  /\ rpc = "retiring" => row = "recovered"

SlotPays == ~slot => link # "active"
CompletedFits ==
  row = "completed" /\ spent =>
    /\ canon \in Published /\ receipts = {"published"}
    /\ link = "resolved" /\ guard \notin {"ours", "history"}
    /\ ~JournalThere /\ ~Retained

AcquisitionInv == /\ RowFits /\ Unpublished /\ CallFits /\ CloneLinked /\ SpentCloneCharged
                  /\ EndFits /\ RecoveryFits /\ SlotPays /\ CompletedFits

AcquisitionIInv == TypeOK /\ AcquisitionInv

(* The files and tables keep their types in steps that touch few of them.    *)
LEMMA FilesKept ==
  ASSUME FilesOK, UNCHANGED <<kind, row, link, journal, bundle, receipts, gateway>>,
         guard' \in {"none", "ours", "history", "owner"},
         canon' \in {"before", "half", "after", "moved", "touched"},
         papers' \subseteq Files,
         held' \subseteq {"rejected", "consumed", "history"}
  PROVE  FilesOK'
BY DEF FilesOK

LEMMA FilesUnchanged ==
  ASSUME FilesOK, UNCHANGED <<kind, row, link, guard, papers, held, journal, bundle,
                              receipts, canon, gateway>>
  PROVE  FilesOK'
<1>1. guard' \in {"none", "ours", "history", "owner"}
  BY DEF FilesOK
<1>2. canon' \in {"before", "half", "after", "moved", "touched"}
  BY DEF FilesOK
<1>3. papers' \subseteq Files /\ held' \subseteq {"rejected", "consumed", "history"}
  BY DEF FilesOK
<1>q. QED BY <1>1, <1>2, <1>3, FilesKept

(* What a plan of the recovery commands presupposes.                         *)
LEMMA PlansSay ==
  ASSUME FilesOK
  PROVE \A x \in Plans :
    /\ StoppedJob
    /\ x.endpoint = "rollback" => JournalThere \/ Retained
    /\ x.endpoint # "rollback" =>
         /\ kind = "clone" /\ ~JournalThere
         /\ \/ "rolled_back" \in receipts
            \/ "published" \in receipts /\ canon = "after"
            \/ canon = "before"
<1>1. ASSUME NEW x \in ClonePlans
      PROVE  /\ x.endpoint = "rollback" => JournalThere \/ Retained
             /\ x.endpoint # "rollback" =>
                  /\ ~JournalThere
                  /\ \/ "rolled_back" \in receipts
                     \/ "published" \in receipts /\ canon = "after"
                     \/ canon = "before"
  <2>1. CASE JournalThere
    BY <1>1, <2>1 DEF ClonePlans, WorkspacePlan
  <2>2. CASE ~JournalThere
    <3> DEFINE Ends(e) == {[endpoint |-> e, consumed |-> spent, canon |-> canon]}
    <3>1. ClonePlans = IF "rolled_back" \in receipts THEN Ends("before")
                       ELSE IF "published" \in receipts
                       THEN IF spent /\ canon = "after" THEN Ends("after") ELSE {}
                       ELSE IF canon = "before" THEN Ends("before") ELSE {}
      BY <2>2, Zenon DEF ClonePlans
    <3>2. \A e \in {"before", "after"} : \A y \in Ends(e) : y.endpoint # "rollback"
      OBVIOUS
    <3>3. x \in Ends("before") \/ x \in Ends("after") => x.endpoint # "rollback"
      BY <3>2
    <3> HIDE DEF Ends
    <3>q. QED BY <1>1, <2>2, <3>1, <3>3
  <2>q. QED BY <2>1, <2>2
<1>2. RollbackAccepted => (JournalThere \/ Retained) /\ WorkspacePlan.endpoint = "rollback"
  BY DEF RollbackAccepted, WorkspacePlan
<1>3. IntentRead => StoppedJob
  BY DEF IntentRead, Binding
<1>4. RollbackAccepted /\ kind \in {"pull", "clone"} => StoppedJob
  BY <1>3 DEF RollbackAccepted, Binding
<1>q. QED BY <1>1, <1>2, <1>3, <1>4, AcquisitionAssumption DEF Plans, FilesOK

(* Every step of the calls keeps the invariant ...                           *)
LEMMA AcquireHolds ==
  ASSUME AcquisitionIInv, Acquire
  PROVE  AcquisitionIInv'
<1> USE DEF AcquisitionIInv, AcquisitionInv, TypeOK, Goto, Quiet, public, memory, tool, bounds
<1>1. CASE PrepareClone
  <2> USE <1>1 DEF PrepareClone, LiveJob, RunningJob
  <2>1. RowFits'
    BY DEF RowFits, OnlyClone, OnlyPull, Acquiring, Ending, Finalizing
  <2>2. CallFits'
    BY DEF CallFits, Acquiring, Placed
  <2>3. CloneLinked'
    BY DEF CloneLinked
  <2>4. EndFits'
    BY DEF EndFits, Ending, Finalizing, Original, Published, JournalThere, Retained
  <2>5. FilesOK' /\ FlagsOK' /\ Unpublished' /\ SpentCloneCharged' /\ RecoveryFits'
        /\ SlotPays' /\ CompletedFits'
    BY DEF FilesOK, Files, FlagsOK, Unpublished, Original, SpentCloneCharged,
        RecoveryFits, Published, Whole, StoppedJob, JournalThere, Retained, SlotPays,
        CompletedFits
  <2>q. QED BY <2>1, <2>2, <2>3, <2>4, <2>5
<1>2. CASE BeginClone
  <2> USE <1>2 DEF BeginClone, LiveJob, RunningJob
  <2>1. FlagsOK'
    BY DEF FlagsOK
  <2>2. RowFits'
    BY DEF RowFits, OnlyClone, OnlyPull, Acquiring, Ending, Finalizing
  <2>3. CallFits'
    BY DEF CallFits, Acquiring, Placed
  <2>4. CloneLinked'
    BY DEF CloneLinked
  <2>5. EndFits'
    BY DEF EndFits, Ending, Finalizing, Original, Published, JournalThere, Retained
  <2>6. FilesOK' /\ Unpublished' /\ SpentCloneCharged' /\ RecoveryFits' /\ SlotPays'
        /\ CompletedFits'
    BY DEF FilesOK, Files, Unpublished, Original, SpentCloneCharged, RecoveryFits,
        Published, Whole, StoppedJob, JournalThere, Retained, SlotPays, CompletedFits
  <2>q. QED BY <2>1, <2>2, <2>3, <2>4, <2>5, <2>6
<1>3. CASE WritePrepared
  <2> USE <1>3 DEF WritePrepared, WritePaper
  <2>1. FilesOK'
    <3>1. UNCHANGED <<kind, row, link, journal, bundle, receipts, gateway>>
      OBVIOUS
    <3>2. /\ guard' \in {"none", "ours", "history", "owner"}
          /\ canon' \in {"before", "half", "after", "moved", "touched"}
      BY DEF FilesOK
    <3>3. papers' \subseteq Files /\ held' \subseteq {"rejected", "consumed", "history"}
      BY DEF FilesOK, Files
    <3>q. QED BY <3>1, <3>2, <3>3, FilesKept
  <2>2. RowFits'
    BY DEF RowFits, OnlyClone, OnlyPull, Acquiring, Ending, Finalizing
  <2>3. CallFits'
    BY DEF CallFits, Acquiring, Placed
  <2>4. CloneLinked'
    BY DEF CloneLinked
  <2>5. EndFits'
    BY DEF EndFits, Ending, Finalizing, Original, Published, JournalThere, Retained
  <2>6. FlagsOK' /\ Unpublished' /\ SpentCloneCharged' /\ RecoveryFits' /\ SlotPays'
        /\ CompletedFits'
    BY DEF FlagsOK, Unpublished, Original, SpentCloneCharged, RecoveryFits, Published,
        Whole, StoppedJob, JournalThere, Retained, SlotPays, CompletedFits
  <2>q. QED BY <2>1, <2>2, <2>3, <2>4, <2>5, <2>6
<1>4. CASE WriteIntent
  <2> USE <1>4 DEF WriteIntent, WritePaper
  <2>1. FilesOK'
    <3>1. UNCHANGED <<kind, row, link, journal, bundle, receipts, gateway>>
      OBVIOUS
    <3>2. /\ guard' \in {"none", "ours", "history", "owner"}
          /\ canon' \in {"before", "half", "after", "moved", "touched"}
      BY DEF FilesOK
    <3>3. papers' \subseteq Files /\ held' \subseteq {"rejected", "consumed", "history"}
      BY DEF FilesOK, Files
    <3>q. QED BY <3>1, <3>2, <3>3, FilesKept
  <2>2. RowFits'
    BY DEF RowFits, OnlyClone, OnlyPull, Acquiring, Ending, Finalizing
  <2>3. CallFits'
    BY DEF CallFits, Acquiring, Placed
  <2>4. CloneLinked'
    BY DEF CloneLinked
  <2>5. EndFits'
    BY DEF EndFits, Ending, Finalizing, Original, Published, JournalThere, Retained
  <2>6. FlagsOK' /\ Unpublished' /\ SpentCloneCharged' /\ RecoveryFits' /\ SlotPays'
        /\ CompletedFits'
    BY DEF FlagsOK, Unpublished, Original, SpentCloneCharged, RecoveryFits, Published,
        Whole, StoppedJob, JournalThere, Retained, SlotPays, CompletedFits
  <2>q. QED BY <2>1, <2>2, <2>3, <2>4, <2>5, <2>6
<1>5. CASE PlaceGuard
  <2> USE <1>5 DEF PlaceGuard
  <2>1. FilesOK'
    BY DEF FilesOK, Files
  <2>2. RowFits'
    BY DEF RowFits, OnlyClone, OnlyPull, Acquiring, Ending, Finalizing
  <2>3. CallFits'
    BY DEF CallFits, Acquiring, Placed
  <2>4. CloneLinked'
    BY DEF CloneLinked
  <2>5. SpentCloneCharged'
    BY DEF SpentCloneCharged
  <2>6. EndFits'
    BY DEF EndFits, Ending, Finalizing, Original, Published, JournalThere, Retained
  <2>7. CompletedFits'
    BY DEF CompletedFits, Published, JournalThere, Retained, RowFits, OnlyClone,
        OnlyPull, Acquiring, Ending, Finalizing
  <2>8. FlagsOK' /\ Unpublished' /\ RecoveryFits' /\ SlotPays'
    BY DEF FlagsOK, Unpublished, Original, RecoveryFits, Published, Whole, StoppedJob,
        JournalThere, Retained, SlotPays
  <2>q. QED BY <2>1, <2>2, <2>3, <2>4, <2>5, <2>6, <2>7, <2>8
<1>6. CASE RecordGuard
  <2> USE <1>6 DEF RecordGuard, WritePaper
  <2>1. FilesOK'
    BY DEF FilesOK, Files
  <2>2. RowFits'
    BY DEF RowFits, OnlyClone, OnlyPull, Acquiring, Ending, Finalizing
  <2>3. CallFits'
    BY DEF CallFits, Acquiring, Placed
  <2>4. CloneLinked'
    BY DEF CloneLinked
  <2>5. EndFits'
    BY DEF EndFits, Ending, Finalizing, Original, Published, JournalThere, Retained
  <2>6. FlagsOK' /\ Unpublished' /\ SpentCloneCharged' /\ RecoveryFits' /\ SlotPays'
        /\ CompletedFits'
    BY DEF FlagsOK, Unpublished, Original, SpentCloneCharged, RecoveryFits, Published,
        Whole, StoppedJob, JournalThere, Retained, SlotPays, CompletedFits
  <2>q. QED BY <2>1, <2>2, <2>3, <2>4, <2>5, <2>6
<1>7. CASE LinkClone
  <2> USE <1>7 DEF LinkClone, LinkSlot
  <2>1. FilesOK'
    BY DEF FilesOK, Files
  <2>2. RowFits'
    BY DEF RowFits, OnlyClone, OnlyPull, Acquiring, Ending, Finalizing
  <2>3. CallFits'
    BY DEF CallFits, Acquiring, Placed
  <2>4. CloneLinked'
    BY DEF CloneLinked, RowFits, OnlyClone, OnlyPull, Acquiring, Ending, Finalizing
  <2>5. SpentCloneCharged'
    BY DEF SpentCloneCharged
  <2>6. EndFits'
    BY DEF EndFits, Ending, Finalizing, Original, Published, JournalThere, Retained
  <2>7. SlotPays'
    BY DEF SlotPays
  <2>8. CompletedFits'
    BY DEF CompletedFits, Published, JournalThere, Retained
  <2>9. FlagsOK' /\ Unpublished' /\ RecoveryFits'
    BY DEF FlagsOK, Unpublished, Original, RecoveryFits, Published, Whole, StoppedJob,
        JournalThere, Retained
  <2>q. QED BY <2>1, <2>2, <2>3, <2>4, <2>5, <2>6, <2>7, <2>8, <2>9
<1>8. CASE ClaimClone
  <2> USE <1>8 DEF ClaimClone, LiveJob, RunningJob
  <2>1. FlagsOK'
    BY DEF FlagsOK
  <2>2. RowFits'
    BY DEF RowFits, OnlyClone, OnlyPull, Acquiring, Ending, Finalizing
  <2>3. CallFits'
    BY DEF CallFits, Acquiring, Placed
  <2>4. CloneLinked'
    BY DEF CloneLinked
  <2>5. SpentCloneCharged'
    BY DEF SpentCloneCharged, RowFits, OnlyClone, OnlyPull, Acquiring, Ending,
        Finalizing, CallFits, Placed, CloneLinked
  <2>6. EndFits'
    BY DEF EndFits, Ending, Finalizing, Original, Published, JournalThere, Retained
  <2>7. CompletedFits'
    BY DEF CompletedFits, Published, JournalThere, Retained
  <2>8. FilesOK' /\ Unpublished' /\ RecoveryFits' /\ SlotPays'
    BY DEF FilesOK, Files, Unpublished, Original, RecoveryFits, Published, Whole,
        StoppedJob, JournalThere, Retained, SlotPays
  <2>q. QED BY <2>1, <2>2, <2>3, <2>4, <2>5, <2>6, <2>7, <2>8
<1>9. CASE MakeClone
  <2> USE <1>9 DEF MakeClone
  <2>1. RowFits'
    BY DEF RowFits, OnlyClone, OnlyPull, Acquiring, Ending, Finalizing
  <2>2. CallFits'
    BY DEF CallFits, Acquiring, Placed
  <2>3. CloneLinked'
    BY DEF CloneLinked
  <2>4. EndFits'
    BY DEF EndFits, Ending, Finalizing, Original, Published, JournalThere, Retained
  <2>5. FilesOK'
    <3>1. UNCHANGED <<kind, row, link, guard, papers, held, journal, bundle, receipts,
                      canon, gateway>>
      OBVIOUS
    <3>q. QED BY <3>1, FilesUnchanged
  <2>6. FlagsOK' /\ Unpublished' /\ SpentCloneCharged' /\ RecoveryFits' /\ SlotPays'
        /\ CompletedFits'
    BY DEF FlagsOK, Unpublished, Original, SpentCloneCharged, RecoveryFits, Published,
        Whole, StoppedJob, JournalThere, Retained, SlotPays, CompletedFits
  <2>q. QED BY <2>1, <2>2, <2>3, <2>4, <2>5, <2>6
<1>10. CASE AttachClone
  <2> USE <1>10 DEF AttachClone
  <2>1. RowFits'
    BY DEF RowFits, OnlyClone, OnlyPull, Acquiring, Ending, Finalizing
  <2>2. CallFits'
    BY DEF CallFits, Acquiring, Placed
  <2>3. CloneLinked'
    BY DEF CloneLinked
  <2>4. EndFits'
    BY DEF EndFits, Ending, Finalizing, Original, Published, JournalThere, Retained
  <2>5. FilesOK'
    <3>1. UNCHANGED <<kind, row, link, guard, papers, held, journal, bundle, receipts,
                      canon, gateway>>
      OBVIOUS
    <3>q. QED BY <3>1, FilesUnchanged
  <2>6. FlagsOK' /\ Unpublished' /\ SpentCloneCharged' /\ RecoveryFits' /\ SlotPays'
        /\ CompletedFits'
    BY DEF FlagsOK, Unpublished, Original, SpentCloneCharged, RecoveryFits, Published,
        Whole, StoppedJob, JournalThere, Retained, SlotPays, CompletedFits
  <2>q. QED BY <2>1, <2>2, <2>3, <2>4, <2>5, <2>6
<1>11. CASE CloneFails
  <2> USE <1>11 DEF CloneFails
  <2>1. RowFits'
    BY DEF RowFits, OnlyClone, OnlyPull, Acquiring, Ending, Finalizing
  <2>2. CallFits'
    BY DEF CallFits, Acquiring, Placed
  <2>3. CloneLinked'
    BY DEF CloneLinked
  <2>4. EndFits'
    BY DEF EndFits, Ending, Finalizing, Original, Published, JournalThere, Retained
  <2>5. FilesOK'
    <3>1. UNCHANGED <<kind, row, link, guard, papers, held, journal, bundle, receipts,
                      canon, gateway>>
      OBVIOUS
    <3>q. QED BY <3>1, FilesUnchanged
  <2>6. FlagsOK' /\ Unpublished' /\ SpentCloneCharged' /\ RecoveryFits' /\ SlotPays'
        /\ CompletedFits'
    BY DEF FlagsOK, Unpublished, Original, SpentCloneCharged, RecoveryFits, Published,
        Whole, StoppedJob, JournalThere, Retained, SlotPays, CompletedFits
  <2>q. QED BY <2>1, <2>2, <2>3, <2>4, <2>5, <2>6
<1>12. CASE KeepClaimed
  <2> USE <1>12 DEF KeepClaimed
  <2>1. RowFits'
    BY DEF RowFits, OnlyClone, OnlyPull, Acquiring, Ending, Finalizing
  <2>2. CallFits'
    BY DEF CallFits, Acquiring, Placed
  <2>3. CloneLinked'
    BY DEF CloneLinked
  <2>4. EndFits'
    BY DEF EndFits, Ending, Finalizing, Original, Published, JournalThere, Retained
  <2>5. FilesOK'
    <3>1. UNCHANGED <<kind, row, link, guard, papers, held, journal, bundle, receipts,
                      canon, gateway>>
      OBVIOUS
    <3>q. QED BY <3>1, FilesUnchanged
  <2>6. FlagsOK' /\ Unpublished' /\ SpentCloneCharged' /\ RecoveryFits' /\ SlotPays'
        /\ CompletedFits'
    BY DEF FlagsOK, Unpublished, Original, SpentCloneCharged, RecoveryFits, Published,
        Whole, StoppedJob, JournalThere, Retained, SlotPays, CompletedFits
  <2>q. QED BY <2>1, <2>2, <2>3, <2>4, <2>5, <2>6
<1>13. CASE RejectGuard
  <2> USE <1>13 DEF RejectGuard
  <2>1. FilesOK'
    <3>1. UNCHANGED <<kind, row, link, journal, bundle, receipts, gateway>>
      OBVIOUS
    <3>2. /\ guard' \in {"none", "ours", "history", "owner"}
          /\ canon' \in {"before", "half", "after", "moved", "touched"}
      BY DEF FilesOK
    <3>3. papers' \subseteq Files /\ held' \subseteq {"rejected", "consumed", "history"}
      BY DEF FilesOK, Files
    <3>q. QED BY <3>1, <3>2, <3>3, FilesKept
  <2>2. RowFits'
    BY DEF RowFits, OnlyClone, OnlyPull, Acquiring, Ending, Finalizing
  <2>3. CallFits'
    BY DEF CallFits, Acquiring, Placed, RowFits, OnlyClone, OnlyPull, Ending, Finalizing
  <2>4. CloneLinked'
    BY DEF CloneLinked
  <2>5. SpentCloneCharged'
    BY DEF SpentCloneCharged
  <2>6. EndFits'
    BY DEF EndFits, Ending, Finalizing, Original, Published, JournalThere, Retained
  <2>7. CompletedFits'
    BY DEF CompletedFits, Published, JournalThere, Retained
  <2>8. FlagsOK' /\ Unpublished' /\ RecoveryFits' /\ SlotPays'
    BY DEF FlagsOK, Unpublished, Original, RecoveryFits, Published, Whole, StoppedJob,
        JournalThere, Retained, SlotPays
  <2>q. QED BY <2>1, <2>2, <2>3, <2>4, <2>5, <2>6, <2>7, <2>8
<1>14. CASE FinishReject
  <2> USE <1>14 DEF FinishReject
  <2>1. FilesOK'
    BY DEF FilesOK, Files
  <2>2. FlagsOK'
    BY DEF FlagsOK
  <2>3. RowFits'
    BY DEF RowFits, OnlyClone, OnlyPull, Acquiring, Ending, Finalizing
  <2>4. CallFits'
    BY DEF CallFits, Acquiring, Placed
  <2>5. CloneLinked'
    BY DEF CloneLinked
  <2>6. SpentCloneCharged'
    BY DEF SpentCloneCharged
  <2>7. EndFits'
    BY DEF EndFits, Ending, Finalizing, Original, Published, JournalThere, Retained
  <2>8. SlotPays'
    BY DEF SlotPays
  <2>9. CompletedFits'
    BY DEF CompletedFits, Published, JournalThere, Retained
  <2>10. Unpublished' /\ RecoveryFits'
    BY DEF Unpublished, Original, RecoveryFits, Published, Whole, StoppedJob,
        JournalThere, Retained
  <2>q. QED BY <2>1, <2>2, <2>3, <2>4, <2>5, <2>6, <2>7, <2>8, <2>9, <2>10
<1>15. CASE BeginPull
  <2> USE <1>15 DEF BeginPull, RunningJob, Proposable
  <2>1. FlagsOK'
    BY DEF FlagsOK
  <2>2. RowFits'
    BY DEF RowFits, OnlyClone, OnlyPull, Acquiring, Ending, Finalizing
  <2>3. CallFits'
    BY DEF CallFits, Acquiring, Placed
  <2>4. CloneLinked'
    BY DEF CloneLinked
  <2>5. EndFits'
    BY DEF EndFits, Ending, Finalizing, Original, Published, JournalThere, Retained
  <2>6. FilesOK' /\ Unpublished' /\ SpentCloneCharged' /\ RecoveryFits' /\ SlotPays'
        /\ CompletedFits'
    BY DEF FilesOK, Files, Unpublished, Original, SpentCloneCharged, RecoveryFits,
        Published, Whole, StoppedJob, JournalThere, Retained, SlotPays, CompletedFits
  <2>q. QED BY <2>1, <2>2, <2>3, <2>4, <2>5, <2>6
<1>16. CASE ClaimPull
  <2> USE <1>16 DEF ClaimPull
  <2>1. FlagsOK'
    BY DEF FlagsOK
  <2>2. RowFits'
    BY DEF RowFits, OnlyClone, OnlyPull, Acquiring, Ending, Finalizing
  <2>3. CallFits'
    BY DEF CallFits, Acquiring, Placed
  <2>4. CloneLinked'
    BY DEF CloneLinked
  <2>5. SpentCloneCharged'
    BY DEF SpentCloneCharged, RowFits, OnlyClone, OnlyPull, Acquiring, Ending, Finalizing
  <2>6. EndFits'
    BY DEF EndFits, Ending, Finalizing, Original, Published, JournalThere, Retained
  <2>7. CompletedFits'
    BY DEF CompletedFits, Published, JournalThere, Retained, RowFits, OnlyClone,
        OnlyPull, Acquiring, Ending, Finalizing
  <2>8. FilesOK'
    <3>1. UNCHANGED <<kind, row, link, guard, papers, held, journal, bundle, receipts,
                      canon, gateway>>
      OBVIOUS
    <3>q. QED BY <3>1, FilesUnchanged
  <2>9. Unpublished' /\ RecoveryFits' /\ SlotPays'
    BY DEF Unpublished, Original, RecoveryFits, Published, Whole, StoppedJob,
        JournalThere, Retained, SlotPays
  <2>q. QED BY <2>1, <2>2, <2>3, <2>4, <2>5, <2>6, <2>7, <2>8, <2>9
<1>17. CASE RefusePull
  <2> USE <1>17 DEF RefusePull
  <2>1. FlagsOK'
    BY DEF FlagsOK
  <2>2. RowFits'
    BY DEF RowFits, OnlyClone, OnlyPull, Acquiring, Ending, Finalizing
  <2>3. CallFits'
    BY DEF CallFits, Acquiring, Placed
  <2>4. CloneLinked'
    BY DEF CloneLinked
  <2>5. EndFits'
    BY DEF EndFits, Ending, Finalizing, Original, Published, JournalThere, Retained
  <2>6. FilesOK'
    <3>1. UNCHANGED <<kind, row, link, guard, papers, held, journal, bundle, receipts,
                      canon, gateway>>
      OBVIOUS
    <3>q. QED BY <3>1, FilesUnchanged
  <2>7. Unpublished' /\ SpentCloneCharged' /\ RecoveryFits' /\ SlotPays' /\ CompletedFits'
    BY DEF Unpublished, Original, SpentCloneCharged, RecoveryFits, Published, Whole,
        StoppedJob, JournalThere, Retained, SlotPays, CompletedFits
  <2>q. QED BY <2>1, <2>2, <2>3, <2>4, <2>5, <2>6, <2>7
<1>18. CASE GuardPull
  <2> USE <1>18 DEF GuardPull
  <2>1. FilesOK'
    BY DEF FilesOK, Files
  <2>2. RowFits'
    BY DEF RowFits, OnlyClone, OnlyPull, Acquiring, Ending, Finalizing
  <2>3. CallFits'
    BY DEF CallFits, Acquiring, Placed, RowFits, OnlyClone, OnlyPull, Ending, Finalizing
  <2>4. CloneLinked'
    BY DEF CloneLinked
  <2>5. SpentCloneCharged'
    BY DEF SpentCloneCharged
  <2>6. EndFits'
    BY DEF EndFits, Ending, Finalizing, Original, Published, JournalThere, Retained
  <2>7. CompletedFits'
    BY DEF CompletedFits, Published, JournalThere, Retained, RowFits, OnlyClone,
        OnlyPull, Acquiring, Ending, Finalizing
  <2>8. FlagsOK' /\ Unpublished' /\ RecoveryFits' /\ SlotPays'
    BY DEF FlagsOK, Unpublished, Original, RecoveryFits, Published, Whole, StoppedJob,
        JournalThere, Retained, SlotPays
  <2>q. QED BY <2>1, <2>2, <2>3, <2>4, <2>5, <2>6, <2>7, <2>8
<1>19. CASE LinkPull
  <2> USE <1>19 DEF LinkPull, LinkSlot
  <2>1. FilesOK'
    BY DEF FilesOK, Files
  <2>2. RowFits'
    BY DEF RowFits, OnlyClone, OnlyPull, Acquiring, Ending, Finalizing
  <2>3. CallFits'
    BY DEF CallFits, Acquiring, Placed
  <2>4. CloneLinked'
    BY DEF CloneLinked
  <2>5. SpentCloneCharged'
    BY DEF SpentCloneCharged
  <2>6. EndFits'
    BY DEF EndFits, Ending, Finalizing, Original, Published, JournalThere, Retained
  <2>7. SlotPays'
    BY DEF SlotPays
  <2>8. CompletedFits'
    BY DEF CompletedFits, Published, JournalThere, Retained
  <2>9. FlagsOK' /\ Unpublished' /\ RecoveryFits'
    BY DEF FlagsOK, Unpublished, Original, RecoveryFits, Published, Whole, StoppedJob,
        JournalThere, Retained
  <2>q. QED BY <2>1, <2>2, <2>3, <2>4, <2>5, <2>6, <2>7, <2>8, <2>9
<1>20. CASE Integrate
  <2> USE <1>20 DEF Integrate
  <2>1. RowFits'
    BY DEF RowFits, OnlyClone, OnlyPull, Acquiring, Ending, Finalizing
  <2>2. CallFits'
    BY DEF CallFits, Acquiring, Placed
  <2>3. CloneLinked'
    BY DEF CloneLinked
  <2>4. EndFits'
    BY DEF EndFits, Ending, Finalizing, Original, Published, JournalThere, Retained
  <2>5. FilesOK'
    <3>1. UNCHANGED <<kind, row, link, guard, papers, held, journal, bundle, receipts,
                      canon, gateway>>
      OBVIOUS
    <3>q. QED BY <3>1, FilesUnchanged
  <2>6. FlagsOK' /\ Unpublished' /\ SpentCloneCharged' /\ RecoveryFits' /\ SlotPays'
        /\ CompletedFits'
    BY DEF FlagsOK, Unpublished, Original, SpentCloneCharged, RecoveryFits, Published,
        Whole, StoppedJob, JournalThere, Retained, SlotPays, CompletedFits
  <2>q. QED BY <2>1, <2>2, <2>3, <2>4, <2>5, <2>6
<1>21. CASE AttachPull
  <2> USE <1>21 DEF AttachPull
  <2>1. RowFits'
    BY DEF RowFits, OnlyClone, OnlyPull, Acquiring, Ending, Finalizing
  <2>2. CallFits'
    BY DEF CallFits, Acquiring, Placed
  <2>3. CloneLinked'
    BY DEF CloneLinked
  <2>4. EndFits'
    BY DEF EndFits, Ending, Finalizing, Original, Published, JournalThere, Retained
  <2>5. FilesOK' /\ FlagsOK' /\ Unpublished' /\ SpentCloneCharged' /\ RecoveryFits'
        /\ SlotPays' /\ CompletedFits'
    BY DEF FilesOK, Files, FlagsOK, Unpublished, Original, SpentCloneCharged,
        RecoveryFits, Published, Whole, StoppedJob, JournalThere, Retained, SlotPays,
        CompletedFits
  <2>q. QED BY <2>1, <2>2, <2>3, <2>4, <2>5
<1>22. CASE PullFails
  <2> USE <1>22 DEF PullFails
  <2>1. RowFits'
    BY DEF RowFits, OnlyClone, OnlyPull, Acquiring, Ending, Finalizing
  <2>2. CallFits'
    BY DEF CallFits, Acquiring, Placed
  <2>3. CloneLinked'
    BY DEF CloneLinked
  <2>4. EndFits'
    BY DEF EndFits, Ending, Finalizing, Original, Published, JournalThere, Retained
  <2>5. FilesOK'
    <3>1. UNCHANGED <<kind, row, link, guard, papers, held, journal, bundle, receipts,
                      canon, gateway>>
      OBVIOUS
    <3>q. QED BY <3>1, FilesUnchanged
  <2>6. FlagsOK' /\ Unpublished' /\ SpentCloneCharged' /\ RecoveryFits' /\ SlotPays'
        /\ CompletedFits'
    BY DEF FlagsOK, Unpublished, Original, SpentCloneCharged, RecoveryFits, Published,
        Whole, StoppedJob, JournalThere, Retained, SlotPays, CompletedFits
  <2>q. QED BY <2>1, <2>2, <2>3, <2>4, <2>5, <2>6
<1>q. QED BY <1>1, <1>2, <1>3, <1>4, <1>5, <1>6, <1>7, <1>8, <1>9, <1>10, <1>11, <1>12,
    <1>13, <1>14, <1>15, <1>16, <1>17, <1>18, <1>19, <1>20, <1>21, <1>22 DEF Acquire

(* ... every step of the job's end ...                                       *)
LEMMA FinalizeHolds ==
  ASSUME AcquisitionIInv, Finalize
  PROVE  AcquisitionIInv'
<1> USE DEF AcquisitionIInv, AcquisitionInv, TypeOK, Goto, Quiet, public, memory, tool, bounds
<1>1. CASE EndWorker
  <2> USE <1>1 DEF EndWorker
  <2>1. FlagsOK'
    BY DEF FlagsOK
  <2>2. FilesOK'
    <3>1. UNCHANGED <<kind, row, link, guard, papers, held, journal, bundle, receipts,
                      canon, gateway>>
      OBVIOUS
    <3>q. QED BY <3>1, FilesUnchanged
  <2>0. UNCHANGED <<kind, row, slot, link, spent, guard, papers, held, journal, bundle,
                    receipts, canon, policy, pending, pc, gateway, plan, rpc, deaths,
                    acts>>
    OBVIOUS
  <2>3. RowFits'
    BY ONLY AcquisitionIInv, <2>0 DEF AcquisitionIInv, AcquisitionInv, TypeOK, RowFits,
        OnlyClone, OnlyPull, Acquiring, Ending, Finalizing
  <2>4. Unpublished'
    BY ONLY AcquisitionIInv, <2>0 DEF AcquisitionIInv, AcquisitionInv, TypeOK,
        Unpublished, Original
  <2>5. CallFits'
    BY ONLY AcquisitionIInv, <2>0 DEF AcquisitionIInv, AcquisitionInv, TypeOK, CallFits,
        Acquiring, Placed
  <2>6. CloneLinked'
    BY ONLY AcquisitionIInv, <2>0 DEF AcquisitionIInv, AcquisitionInv, TypeOK, CloneLinked
  <2>7. SpentCloneCharged'
    BY ONLY AcquisitionIInv, <2>0 DEF AcquisitionIInv, AcquisitionInv, TypeOK,
        SpentCloneCharged
  <2>8. EndFits'
    BY ONLY AcquisitionIInv, <2>0 DEF AcquisitionIInv, AcquisitionInv, TypeOK, EndFits,
        Ending, Finalizing, Original, Published, JournalThere, Retained
  <2>9. RecoveryFits'
    BY ONLY AcquisitionIInv, <2>0 DEF AcquisitionIInv, AcquisitionInv, TypeOK,
        RecoveryFits, Original, Published, Whole, StoppedJob, JournalThere, Retained
  <2>10. SlotPays'
    BY ONLY AcquisitionIInv, <2>0 DEF AcquisitionIInv, AcquisitionInv, TypeOK, SlotPays
  <2>11. CompletedFits'
    BY ONLY AcquisitionIInv, <2>0 DEF AcquisitionIInv, AcquisitionInv, TypeOK,
        CompletedFits, Published, JournalThere, Retained
  <2>q. QED BY <2>1, <2>2, <2>3, <2>4, <2>5, <2>6, <2>7, <2>8, <2>9, <2>10, <2>11
<1>2. CASE FinalizeUnclean
  <2> USE <1>2 DEF FinalizeUnclean, Resting
  <2>1. FilesOK'
    BY DEF FilesOK, Files
  <2>2. FlagsOK'
    BY DEF FlagsOK
  <2>3. RowFits'
    BY DEF RowFits, OnlyClone, OnlyPull, Acquiring, Ending, Finalizing
  <2>4. Unpublished'
    BY DEF Unpublished, Original
  <2>5. CallFits'
    BY DEF CallFits, Acquiring, Placed
  <2>6. CloneLinked'
    BY DEF CloneLinked
  <2>7. SpentCloneCharged'
    BY DEF SpentCloneCharged, RowFits, OnlyClone, OnlyPull, Acquiring, Ending,
        Finalizing, CallFits, Placed
  <2>8. EndFits'
    BY DEF EndFits, Ending, Finalizing, Original, Published, JournalThere, Retained
  <2>9. RecoveryFits'
    BY DEF RecoveryFits, Original, Published, Whole, StoppedJob, JournalThere, Retained
  <2>10. SlotPays'
    BY DEF SlotPays, RowFits, OnlyClone, OnlyPull, Acquiring, Ending, Finalizing,
        CallFits, Placed
  <2>11. CompletedFits'
    BY DEF CompletedFits, Published, JournalThere, Retained
  <2>q. QED BY <2>1, <2>2, <2>3, <2>4, <2>5, <2>6, <2>7, <2>8, <2>9, <2>10, <2>11
<1>3. CASE FinalizeOrdinary
  <2> USE <1>3 DEF FinalizeOrdinary, Resting
  <2>1. FilesOK'
    BY DEF FilesOK, Files
  <2>2. FlagsOK'
    BY DEF FlagsOK
  <2>3. RowFits'
    BY DEF RowFits, OnlyClone, OnlyPull, Acquiring, Ending, Finalizing
  <2>4. Unpublished'
    BY DEF Unpublished, Original
  <2>5. CallFits'
    BY DEF CallFits, Acquiring, Placed
  <2>6. CloneLinked'
    BY DEF CloneLinked
  <2>7. SpentCloneCharged'
    BY DEF SpentCloneCharged, RowFits, OnlyClone, OnlyPull, Acquiring, Ending,
        Finalizing, CallFits, Placed
  <2>8. EndFits'
    BY DEF EndFits, Ending, Finalizing, Original, Published, JournalThere, Retained
  <2>9. RecoveryFits'
    BY DEF RecoveryFits, Original, Published, Whole, StoppedJob, JournalThere, Retained
  <2>10. SlotPays'
    BY DEF SlotPays, RowFits, OnlyClone, OnlyPull, Acquiring, Ending, Finalizing,
        CallFits, Placed
  <2>11. CompletedFits'
    BY DEF CompletedFits, Published, JournalThere, Retained, RowFits, OnlyClone,
        OnlyPull, Acquiring, Ending, Finalizing, CallFits, Placed
  <2>q. QED BY <2>1, <2>2, <2>3, <2>4, <2>5, <2>6, <2>7, <2>8, <2>9, <2>10, <2>11
<1>4. CASE ClaimFinalization
  <2> USE <1>4 DEF ClaimFinalization, Resting
  <2>1. FilesOK'
    BY DEF FilesOK, Files
  <2>2. RowFits'
    BY DEF RowFits, OnlyClone, OnlyPull, Acquiring, Ending, Finalizing
  <2>3. Unpublished'
    BY DEF Unpublished, Original
  <2>4. CallFits'
    BY DEF CallFits, Acquiring, Placed
  <2>5. CloneLinked'
    BY DEF CloneLinked
  <2>6. EndFits'
    BY DEF EndFits, Ending, Finalizing, Original, Published, JournalThere, Retained,
        RowFits, OnlyClone, OnlyPull, Acquiring, Unpublished
  <2>7. RecoveryFits'
    BY DEF RecoveryFits, Original, Published, Whole, StoppedJob, JournalThere, Retained
  <2>8. CompletedFits'
    BY DEF CompletedFits, Published, JournalThere, Retained
  <2>9. FlagsOK' /\ SpentCloneCharged' /\ SlotPays'
    BY DEF FlagsOK, SpentCloneCharged, SlotPays
  <2>q. QED BY <2>1, <2>2, <2>3, <2>4, <2>5, <2>6, <2>7, <2>8, <2>9
<1>5. CASE ValidateIntent
  <2> USE <1>5 DEF ValidateIntent, IntentValid, SpentAuthority
  <2>1. RowFits'
    BY DEF RowFits, OnlyClone, OnlyPull, Acquiring, Ending, Finalizing
  <2>2. CallFits'
    BY DEF CallFits, Acquiring, Placed
  <2>3. CloneLinked'
    BY DEF CloneLinked
  <2>4. EndFits'
    BY DEF EndFits, Ending, Finalizing, Original, Published, JournalThere, Retained
  <2>5. FilesOK'
    <3>1. UNCHANGED <<kind, row, link, guard, papers, held, journal, bundle, receipts,
                      canon, gateway>>
      OBVIOUS
    <3>q. QED BY <3>1, FilesUnchanged
  <2>6. FlagsOK' /\ Unpublished' /\ SpentCloneCharged' /\ RecoveryFits' /\ SlotPays'
        /\ CompletedFits'
    BY DEF FlagsOK, Unpublished, Original, SpentCloneCharged, RecoveryFits, Published,
        Whole, StoppedJob, JournalThere, Retained, SlotPays, CompletedFits
  <2>q. QED BY <2>1, <2>2, <2>3, <2>4, <2>5, <2>6
<1>6. CASE WriteJournal
  <2> USE <1>6 DEF WriteJournal
  <2>1. FilesOK'
    BY DEF FilesOK, Files
  <2>2. RowFits'
    BY AcquisitionAssumption DEF FilesOK, RowFits, OnlyClone, OnlyPull, Acquiring,
        Ending, Finalizing
  <2>3. Unpublished'
    BY DEF Unpublished, Original, RowFits, OnlyClone, OnlyPull, Acquiring, Ending,
        Finalizing
  <2>4. CallFits'
    BY DEF CallFits, Acquiring, Placed
  <2>5. CloneLinked'
    BY DEF CloneLinked
  <2>6. EndFits'
    BY DEF EndFits, Ending, Finalizing, Original, Published, JournalThere, Retained
  <2>7. RecoveryFits'
    BY DEF RecoveryFits, Original, Published, Whole, StoppedJob, JournalThere, Retained
  <2>8. CompletedFits'
    BY DEF CompletedFits, Published, JournalThere, Retained
  <2>9. FlagsOK' /\ SpentCloneCharged' /\ SlotPays'
    BY DEF FlagsOK, SpentCloneCharged, SlotPays
  <2>q. QED BY <2>1, <2>2, <2>3, <2>4, <2>5, <2>6, <2>7, <2>8, <2>9
<1>7. CASE MoveGuard
  <2> USE <1>7 DEF MoveGuard, IntentValid
  <2>1. FilesOK'
    BY DEF FilesOK, Files
  <2>2. RowFits'
    BY DEF RowFits, OnlyClone, OnlyPull, Acquiring, Ending, Finalizing
  <2>3. CallFits'
    BY DEF CallFits, Acquiring, Placed
  <2>4. CloneLinked'
    BY DEF CloneLinked
  <2>5. SpentCloneCharged'
    BY DEF SpentCloneCharged
  <2>6. EndFits'
    BY DEF EndFits, Ending, Finalizing, Original, Published, JournalThere, Retained
  <2>7. CompletedFits'
    BY DEF CompletedFits, Published, JournalThere, Retained
  <2>8. FlagsOK' /\ Unpublished' /\ RecoveryFits' /\ SlotPays'
    BY DEF FlagsOK, Unpublished, Original, RecoveryFits, Published, Whole, StoppedJob,
        JournalThere, Retained, SlotPays
  <2>q. QED BY <2>1, <2>2, <2>3, <2>4, <2>5, <2>6, <2>7, <2>8
<1>8. CASE WriteHistoryGuard
  <2> USE <1>8 DEF WriteHistoryGuard
  <2>1. FilesOK'
    BY DEF FilesOK, Files
  <2>2. RowFits'
    BY DEF RowFits, OnlyClone, OnlyPull, Acquiring, Ending, Finalizing
  <2>3. CallFits'
    BY DEF CallFits, Acquiring, Placed
  <2>4. CloneLinked'
    BY DEF CloneLinked
  <2>5. SpentCloneCharged'
    BY DEF SpentCloneCharged
  <2>6. EndFits'
    BY DEF EndFits, Ending, Finalizing, Original, Published, JournalThere, Retained
  <2>7. CompletedFits'
    BY DEF CompletedFits, Published, JournalThere, Retained, RowFits, OnlyClone,
        OnlyPull, Acquiring, Ending, Finalizing
  <2>8. FlagsOK' /\ Unpublished' /\ RecoveryFits' /\ SlotPays'
    BY DEF FlagsOK, Unpublished, Original, RecoveryFits, Published, Whole, StoppedJob,
        JournalThere, Retained, SlotPays
  <2>q. QED BY <2>1, <2>2, <2>3, <2>4, <2>5, <2>6, <2>7, <2>8
<1>9. CASE BindJournal
  <2> USE <1>9 DEF BindJournal
  <2>1. FilesOK'
    BY DEF FilesOK, Files
  <2>2. RowFits'
    BY DEF RowFits, OnlyClone, OnlyPull, Acquiring, Ending, Finalizing
  <2>3. Unpublished'
    BY DEF Unpublished, Original, RowFits, OnlyClone, OnlyPull, Acquiring, Ending,
        Finalizing
  <2>4. CallFits'
    BY DEF CallFits, Acquiring, Placed
  <2>5. CloneLinked'
    BY DEF CloneLinked
  <2>6. EndFits'
    BY DEF EndFits, Ending, Finalizing, Original, Published, JournalThere, Retained
  <2>7. RecoveryFits'
    BY DEF RecoveryFits, Original, Published, Whole, StoppedJob, JournalThere, Retained,
        RowFits, OnlyClone, OnlyPull, Acquiring, Ending, Finalizing
  <2>8. CompletedFits'
    BY DEF CompletedFits, Published, JournalThere, Retained
  <2>9. FlagsOK' /\ SpentCloneCharged' /\ SlotPays'
    BY DEF FlagsOK, SpentCloneCharged, SlotPays
  <2>q. QED BY <2>1, <2>2, <2>3, <2>4, <2>5, <2>6, <2>7, <2>8, <2>9
<1>10. CASE Publish
  <2> USE <1>10 DEF Publish
  <2>1. FilesOK'
    BY DEF FilesOK, Files
  <2>2. RowFits'
    BY DEF RowFits, OnlyClone, OnlyPull, Acquiring, Ending, Finalizing
  <2>3. Unpublished'
    BY DEF Unpublished, Original, RowFits, OnlyClone, OnlyPull, Acquiring, Ending,
        Finalizing
  <2>4. CallFits'
    BY DEF CallFits, Acquiring, Placed
  <2>5. CloneLinked'
    BY DEF CloneLinked
  <2>6. EndFits'
    BY DEF EndFits, Ending, Finalizing, Original, Published, JournalThere, Retained
  <2>7. RecoveryFits'
    BY DEF RecoveryFits, Original, Published, Whole, StoppedJob, JournalThere, Retained,
        RowFits, OnlyClone, OnlyPull, Acquiring, Ending, Finalizing, Unpublished, EndFits
  <2>8. CompletedFits'
    BY DEF CompletedFits, Published, JournalThere, Retained
  <2>9. FlagsOK' /\ SpentCloneCharged' /\ SlotPays'
    BY DEF FlagsOK, SpentCloneCharged, SlotPays
  <2>q. QED BY <2>1, <2>2, <2>3, <2>4, <2>5, <2>6, <2>7, <2>8, <2>9
<1>11. CASE WriteReceipt
  <2> USE <1>11 DEF WriteReceipt
  <2>1. FilesOK'
    BY DEF FilesOK, Files
  <2>2. RowFits'
    BY DEF RowFits, OnlyClone, OnlyPull, Acquiring, Ending, Finalizing
  <2>3. Unpublished'
    BY DEF Unpublished, Original
  <2>4. CallFits'
    BY DEF CallFits, Acquiring, Placed
  <2>5. CloneLinked'
    BY DEF CloneLinked
  <2>6. EndFits'
    BY DEF EndFits, Ending, Finalizing, Original, Published, JournalThere, Retained
  <2>7. RecoveryFits'
    BY DEF RecoveryFits, Original, Published, Whole, StoppedJob, JournalThere, Retained
  <2>8. CompletedFits'
    BY DEF CompletedFits, Published, JournalThere, Retained
  <2>9. FlagsOK' /\ SpentCloneCharged' /\ SlotPays'
    BY DEF FlagsOK, SpentCloneCharged, SlotPays
  <2>q. QED BY <2>1, <2>2, <2>3, <2>4, <2>5, <2>6, <2>7, <2>8, <2>9
<1>12. CASE RetireClone
  <2> USE <1>12 DEF RetireClone, IntentValid
  <2>1. FilesOK'
    BY DEF FilesOK, Files
  <2>2. RowFits'
    BY DEF RowFits, OnlyClone, OnlyPull, Acquiring, Ending, Finalizing
  <2>3. CallFits'
    BY DEF CallFits, Acquiring, Placed
  <2>4. CloneLinked'
    BY DEF CloneLinked
  <2>5. SpentCloneCharged'
    BY DEF SpentCloneCharged
  <2>6. EndFits'
    BY DEF EndFits, Ending, Finalizing, Original, Published, JournalThere, Retained
  <2>7. CompletedFits'
    BY DEF CompletedFits, Published, JournalThere, Retained
  <2>8. FlagsOK' /\ Unpublished' /\ RecoveryFits' /\ SlotPays'
    BY DEF FlagsOK, Unpublished, Original, RecoveryFits, Published, Whole, StoppedJob,
        JournalThere, Retained, SlotPays
  <2>q. QED BY <2>1, <2>2, <2>3, <2>4, <2>5, <2>6, <2>7, <2>8
<1>13. CASE ResolveClone
  <2> USE <1>13 DEF ResolveClone
  <2>1. FilesOK'
    BY DEF FilesOK, Files
  <2>2. FlagsOK'
    BY DEF FlagsOK
  <2>3. RowFits'
    BY DEF RowFits, OnlyClone, OnlyPull, Acquiring, Ending, Finalizing
  <2>4. CallFits'
    BY DEF CallFits, Acquiring, Placed
  <2>5. CloneLinked'
    BY DEF CloneLinked
  <2>6. SpentCloneCharged'
    BY DEF SpentCloneCharged
  <2>7. EndFits'
    BY DEF EndFits, Ending, Finalizing, Original, Published, JournalThere, Retained
  <2>8. SlotPays'
    BY DEF SlotPays
  <2>9. CompletedFits'
    BY DEF CompletedFits, Published, JournalThere, Retained
  <2>10. Unpublished' /\ RecoveryFits'
    BY DEF Unpublished, Original, RecoveryFits, Published, Whole, StoppedJob,
        JournalThere, Retained
  <2>q. QED BY <2>1, <2>2, <2>3, <2>4, <2>5, <2>6, <2>7, <2>8, <2>9, <2>10
<1>14. CASE UnlinkJournal
  <2> USE <1>14 DEF UnlinkJournal
  <2>1. FilesOK'
    BY DEF FilesOK, Files
  <2>2. RowFits'
    BY DEF RowFits, OnlyClone, OnlyPull, Acquiring, Ending, Finalizing
  <2>3. Unpublished'
    BY DEF Unpublished, Original
  <2>4. CallFits'
    BY DEF CallFits, Acquiring, Placed
  <2>5. CloneLinked'
    BY DEF CloneLinked
  <2>6. EndFits'
    BY DEF EndFits, Ending, Finalizing, Original, Published, JournalThere, Retained
  <2>7. RecoveryFits'
    BY DEF RecoveryFits, Original, Published, Whole, StoppedJob, JournalThere, Retained
  <2>8. CompletedFits'
    BY DEF CompletedFits, Published, JournalThere, Retained
  <2>9. FlagsOK' /\ SpentCloneCharged' /\ SlotPays'
    BY DEF FlagsOK, SpentCloneCharged, SlotPays
  <2>q. QED BY <2>1, <2>2, <2>3, <2>4, <2>5, <2>6, <2>7, <2>8, <2>9
<1>15. CASE PrepareBundle
  <2> USE <1>15 DEF PrepareBundle
  <2>1. FilesOK'
    BY DEF FilesOK, Files
  <2>2. RowFits'
    BY DEF RowFits, OnlyClone, OnlyPull, Acquiring, Ending, Finalizing
  <2>3. Unpublished'
    BY DEF Unpublished, Original, RowFits, OnlyClone, OnlyPull, Acquiring, Ending,
        Finalizing
  <2>4. CallFits'
    BY DEF CallFits, Acquiring, Placed
  <2>5. CloneLinked'
    BY DEF CloneLinked
  <2>6. EndFits'
    BY DEF EndFits, Ending, Finalizing, Original, Published, JournalThere, Retained
  <2>7. RecoveryFits'
    BY DEF RecoveryFits, Original, Published, Whole, StoppedJob, JournalThere, Retained,
        RowFits, OnlyClone, OnlyPull, Acquiring, Ending, Finalizing
  <2>8. CompletedFits'
    BY DEF CompletedFits, Published, JournalThere, Retained, RowFits, OnlyClone,
        OnlyPull, Acquiring, Ending, Finalizing
  <2>9. FlagsOK' /\ SpentCloneCharged' /\ SlotPays'
    BY DEF FlagsOK, SpentCloneCharged, SlotPays
  <2>q. QED BY <2>1, <2>2, <2>3, <2>4, <2>5, <2>6, <2>7, <2>8, <2>9
<1>16. CASE RetireHistory
  <2> USE <1>16 DEF RetireHistory, CaptureHistoryGuard
  <2>1. FilesOK'
    BY DEF FilesOK, Files
  <2>2. RowFits'
    BY DEF RowFits, OnlyClone, OnlyPull, Acquiring, Ending, Finalizing
  <2>3. CallFits'
    BY DEF CallFits, Acquiring, Placed
  <2>4. CloneLinked'
    BY DEF CloneLinked
  <2>5. SpentCloneCharged'
    BY DEF SpentCloneCharged
  <2>6. EndFits'
    BY DEF EndFits, Ending, Finalizing, Original, Published, JournalThere, Retained
  <2>7. CompletedFits'
    BY DEF CompletedFits, Published, JournalThere, Retained
  <2>8. FlagsOK' /\ Unpublished' /\ RecoveryFits' /\ SlotPays'
    BY DEF FlagsOK, Unpublished, Original, RecoveryFits, Published, Whole, StoppedJob,
        JournalThere, Retained, SlotPays
  <2>q. QED BY <2>1, <2>2, <2>3, <2>4, <2>5, <2>6, <2>7, <2>8
<1>17. CASE RetireJournal
  <2> USE <1>17 DEF RetireJournal, CaptureJournal
  <2>1. FilesOK'
    BY DEF FilesOK, Files
  <2>2. RowFits'
    BY DEF RowFits, OnlyClone, OnlyPull, Acquiring, Ending, Finalizing
  <2>3. Unpublished'
    BY DEF Unpublished, Original
  <2>4. CallFits'
    BY DEF CallFits, Acquiring, Placed
  <2>5. CloneLinked'
    BY DEF CloneLinked
  <2>6. EndFits'
    BY DEF EndFits, Ending, Finalizing, Original, Published, JournalThere, Retained,
        RowFits, OnlyClone, OnlyPull, Acquiring
  <2>7. RecoveryFits'
    BY DEF RecoveryFits, Original, Published, Whole, StoppedJob, JournalThere, Retained,
        RowFits, OnlyClone, OnlyPull, Acquiring, Ending, Finalizing
  <2>8. CompletedFits'
    BY DEF CompletedFits, Published, JournalThere, Retained
  <2>9. FlagsOK' /\ SpentCloneCharged' /\ SlotPays'
    BY DEF FlagsOK, SpentCloneCharged, SlotPays
  <2>q. QED BY <2>1, <2>2, <2>3, <2>4, <2>5, <2>6, <2>7, <2>8, <2>9
<1>18. CASE ResolvePull
  <2> USE <1>18 DEF ResolvePull
  <2>1. FilesOK'
    BY DEF FilesOK, Files
  <2>2. RowFits'
    BY DEF RowFits, OnlyClone, OnlyPull, Acquiring, Ending, Finalizing
  <2>3. CallFits'
    BY DEF CallFits, Acquiring, Placed
  <2>4. CloneLinked'
    BY DEF CloneLinked
  <2>5. SpentCloneCharged'
    BY DEF SpentCloneCharged
  <2>6. EndFits'
    BY DEF EndFits, Ending, Finalizing, Original, Published, JournalThere, Retained
  <2>7. SlotPays'
    BY DEF SlotPays
  <2>8. CompletedFits'
    BY DEF CompletedFits, Published, JournalThere, Retained
  <2>9. FlagsOK' /\ Unpublished' /\ RecoveryFits'
    BY DEF FlagsOK, Unpublished, Original, RecoveryFits, Published, Whole, StoppedJob,
        JournalThere, Retained
  <2>q. QED BY <2>1, <2>2, <2>3, <2>4, <2>5, <2>6, <2>7, <2>8, <2>9
<1>19. CASE FinishBundle
  <2> USE <1>19 DEF FinishBundle
  <2>1. FilesOK'
    BY DEF FilesOK, Files
  <2>2. FlagsOK'
    BY DEF FlagsOK
  <2>3. RowFits'
    BY DEF RowFits, OnlyClone, OnlyPull, Acquiring, Ending, Finalizing
  <2>4. Unpublished'
    BY DEF Unpublished, Original, RowFits, OnlyClone, OnlyPull, Acquiring, Ending,
        Finalizing
  <2>5. CallFits'
    BY DEF CallFits, Acquiring, Placed
  <2>6. CloneLinked'
    BY DEF CloneLinked
  <2>7. EndFits'
    BY DEF EndFits, Ending, Finalizing, Original, Published, JournalThere, Retained
  <2>8. RecoveryFits'
    BY DEF RecoveryFits, Original, Published, Whole, StoppedJob, JournalThere, Retained
  <2>9. CompletedFits'
    BY DEF CompletedFits, Published, JournalThere, Retained
  <2>10. SpentCloneCharged' /\ SlotPays'
    BY DEF SpentCloneCharged, SlotPays
  <2>q. QED BY <2>1, <2>2, <2>3, <2>4, <2>5, <2>6, <2>7, <2>8, <2>9, <2>10
<1>20. CASE Complete
  <2> USE <1>20 DEF Complete
  <2>1. FilesOK'
    BY DEF FilesOK, Files
  <2>2. FlagsOK'
    BY DEF FlagsOK
  <2>3. RowFits'
    BY DEF RowFits, OnlyClone, OnlyPull, Acquiring, Ending, Finalizing
  <2>4. Unpublished'
    BY DEF Unpublished, Original
  <2>5. CallFits'
    BY DEF CallFits, Acquiring, Placed
  <2>6. CloneLinked'
    BY DEF CloneLinked
  <2>7. SpentCloneCharged'
    BY DEF SpentCloneCharged, RowFits, OnlyClone, OnlyPull, Acquiring, Ending,
        Finalizing, Unpublished, Original, EndFits, Published, JournalThere, Retained
  <2>8. EndFits'
    BY DEF EndFits, Ending, Finalizing, Original, Published, JournalThere, Retained
  <2>9. RecoveryFits'
    BY DEF RecoveryFits, Original, Published, Whole, StoppedJob, JournalThere, Retained,
        RowFits, OnlyClone, OnlyPull, Acquiring, Ending, Finalizing, Unpublished, EndFits
  <2>10. SlotPays'
    BY DEF SlotPays, RowFits, OnlyClone, OnlyPull, Acquiring, Ending, Finalizing,
        Unpublished, Original, EndFits, Published, JournalThere, Retained
  <2>11. CompletedFits'
    BY DEF CompletedFits, Published, JournalThere, Retained, RowFits, OnlyClone,
        OnlyPull, Acquiring, Ending, Finalizing, Unpublished, Original, EndFits
  <2>q. QED BY <2>1, <2>2, <2>3, <2>4, <2>5, <2>6, <2>7, <2>8, <2>9, <2>10, <2>11
<1>21. CASE FailFinalization
  <2> USE <1>21 DEF FailFinalization, Finalizing
  <2>1. FilesOK'
    BY DEF FilesOK, Files
  <2>2. RowFits'
    BY DEF RowFits, OnlyClone, OnlyPull, Acquiring, Ending
  <2>3. Unpublished'
    BY DEF Unpublished, Original
  <2>4. CallFits'
    BY DEF CallFits, Acquiring, Placed
  <2>5. CloneLinked'
    BY DEF CloneLinked
  <2>6. EndFits'
    BY DEF EndFits, Ending, Original, Published, JournalThere, Retained
  <2>7. RecoveryFits'
    BY DEF RecoveryFits, Original, Published, Whole, StoppedJob, JournalThere, Retained,
        RowFits, OnlyClone, OnlyPull, Acquiring, Ending
  <2>8. CompletedFits'
    BY DEF CompletedFits, Published, JournalThere, Retained
  <2>9. FlagsOK' /\ SpentCloneCharged' /\ SlotPays'
    BY DEF FlagsOK, SpentCloneCharged, SlotPays
  <2>q. QED BY <2>1, <2>2, <2>3, <2>4, <2>5, <2>6, <2>7, <2>8, <2>9
<1>q. QED BY <1>1, <1>2, <1>3, <1>4, <1>5, <1>6, <1>7, <1>8, <1>9, <1>10, <1>11, <1>12,
    <1>13, <1>14, <1>15, <1>16, <1>17, <1>18, <1>19, <1>20, <1>21 DEF Finalize

(* ... every step of the recovery command ...                                *)
LEMMA RecoverHolds ==
  ASSUME AcquisitionIInv, Recover
  PROVE  AcquisitionIInv'
<1> USE DEF AcquisitionIInv, AcquisitionInv, TypeOK, Goto, Quiet, public, memory, tool, bounds
<1>1. CASE PlanRecovery
  <2> USE <1>1 DEF PlanRecovery, Recovery
  <2>1. RowFits'
    BY DEF RowFits, OnlyClone, OnlyPull, Acquiring, Ending, Finalizing
  <2>2. RecoveryFits'
    BY DEF RecoveryFits, Original, Published, Whole, StoppedJob, JournalThere, Retained
  <2>3. FilesOK'
    <3>1. UNCHANGED <<kind, row, link, guard, papers, held, journal, bundle, receipts,
                      canon, gateway>>
      OBVIOUS
    <3>q. QED BY <3>1, FilesUnchanged
  <2>0. UNCHANGED <<kind, row, slot, link, spent, guard, papers, held, journal, bundle,
                    receipts, canon, policy, live, clean, pending, pc, gateway, deaths,
                    acts>>
    OBVIOUS
  <2>4. FlagsOK'
    BY ONLY AcquisitionIInv, <2>0 DEF AcquisitionIInv, AcquisitionInv, TypeOK, FlagsOK
  <2>5. Unpublished'
    BY ONLY AcquisitionIInv, <2>0 DEF AcquisitionIInv, AcquisitionInv, TypeOK,
        Unpublished, Original
  <2>6. CallFits'
    BY ONLY AcquisitionIInv, <2>0 DEF AcquisitionIInv, AcquisitionInv, TypeOK, CallFits,
        Acquiring, Placed
  <2>7. CloneLinked'
    BY ONLY AcquisitionIInv, <2>0 DEF AcquisitionIInv, AcquisitionInv, TypeOK, CloneLinked
  <2>8. SpentCloneCharged'
    BY ONLY AcquisitionIInv, <2>0 DEF AcquisitionIInv, AcquisitionInv, TypeOK,
        SpentCloneCharged
  <2>9. EndFits'
    BY ONLY AcquisitionIInv, <2>0 DEF AcquisitionIInv, AcquisitionInv, TypeOK, EndFits,
        Ending, Finalizing, Original, Published, JournalThere, Retained
  <2>10. SlotPays'
    BY ONLY AcquisitionIInv, <2>0 DEF AcquisitionIInv, AcquisitionInv, TypeOK, SlotPays
  <2>11. CompletedFits'
    BY ONLY AcquisitionIInv, <2>0 DEF AcquisitionIInv, AcquisitionInv, TypeOK,
        CompletedFits, Published, JournalThere, Retained
  <2>q. QED BY <2>1, <2>2, <2>3, <2>4, <2>5, <2>6, <2>7, <2>8, <2>9, <2>10, <2>11
<1>2. CASE CaptureForClone
  <2> USE <1>2 DEF CaptureForClone, Recovery
  <2>1. FilesOK'
    <3>1. UNCHANGED <<kind, row, link, papers, journal, bundle, receipts, canon, gateway>>
      BY DEF memory
    <3>2. /\ guard' \in {"none", "ours", "history", "owner"}
          /\ held' \subseteq {"rejected", "consumed", "history"}
      BY DEF FilesOK
    <3>3. papers' \subseteq Files /\ canon' \in {"before", "half", "after", "moved", "touched"}
      BY <3>1 DEF FilesOK
    <3>q. QED BY <3>1, <3>2, <3>3, FilesKept
  <2>2. RowFits'
    BY DEF RowFits, OnlyClone, OnlyPull, Acquiring, Ending, Finalizing
  <2>3. CallFits'
    BY DEF CallFits, Acquiring, Placed
  <2>4. CloneLinked'
    BY DEF CloneLinked, RowFits, OnlyClone, OnlyPull, Acquiring, Ending, Finalizing
  <2>5. SpentCloneCharged'
    BY DEF SpentCloneCharged
  <2>6. EndFits'
    BY DEF EndFits, Ending, Finalizing, Original, Published, JournalThere, Retained
  <2>7. RecoveryFits'
    <3>1. kind = "clone" /\ StoppedJob /\ ~JournalThere /\ plan.endpoint # "rollback"
      BY PlansSay
    <3>2. \/ "rolled_back" \in receipts
          \/ "published" \in receipts /\ canon = "after"
          \/ canon = "before"
      BY PlansSay
    <3>3. canon = "after" /\ "published" \in receipts => receipts = {"published"} /\ ~Retained
      BY <3>1 DEF RecoveryFits, FilesOK, Original, Retained
    <3>4. Whole
      BY <3>1, <3>2, <3>3 DEF RecoveryFits, Whole, Original, Published
    <3>5. rpc' = "settling" /\ UNCHANGED <<kind, row, canon, receipts, journal, bundle>>
      OBVIOUS
    <3>q. QED BY <3>1, <3>4, <3>5 DEF RecoveryFits, Original, Published, Whole,
        StoppedJob, JournalThere, Retained
  <2>8. CompletedFits'
    BY DEF CompletedFits, Published, JournalThere, Retained
  <2>9. FlagsOK' /\ Unpublished' /\ SlotPays'
    BY DEF FlagsOK, Unpublished, Original, SlotPays
  <2>q. QED BY <2>1, <2>2, <2>3, <2>4, <2>5, <2>6, <2>7, <2>8, <2>9
<1>3. CASE SettleClone
  <2> USE <1>3 DEF SettleClone, Recovery
  <2>1. FilesOK'
    BY DEF FilesOK, Files
  <2>2. FlagsOK'
    BY DEF FlagsOK
  <2>3. RowFits'
    BY DEF RowFits, OnlyClone, OnlyPull, Acquiring, Ending, Finalizing
  <2>4. Unpublished'
    BY DEF Unpublished, Original
  <2>5. CallFits'
    BY DEF CallFits, Acquiring, Placed, RowFits, OnlyClone, OnlyPull, Ending, Finalizing
  <2>6. CloneLinked'
    BY DEF CloneLinked, RowFits, OnlyClone, OnlyPull, Acquiring, Ending, Finalizing
  <2>7. SpentCloneCharged'
    BY DEF SpentCloneCharged
  <2>8. EndFits'
    BY DEF EndFits, Ending, Finalizing, Original, Published, JournalThere, Retained
  <2>9. RecoveryFits'
    BY DEF RecoveryFits, Original, Published, Whole, StoppedJob, JournalThere, Retained
  <2>10. SlotPays'
    BY DEF SlotPays
  <2>11. CompletedFits'
    BY DEF CompletedFits, Published, JournalThere, Retained
  <2>q. QED BY <2>1, <2>2, <2>3, <2>4, <2>5, <2>6, <2>7, <2>8, <2>9, <2>10, <2>11
<1>4. CASE BeginRollback
  <2> USE <1>4 DEF BeginRollback, Recovery
  <2>1. FilesOK'
    BY DEF FilesOK, Files
  <2>2. RowFits'
    BY DEF RowFits, OnlyClone, OnlyPull, Acquiring, Ending, Finalizing
  <2>3. Unpublished'
    BY PlansSay DEF Unpublished, StoppedJob
  <2>4. EndFits'
    BY DEF EndFits, Ending, Finalizing, Original, Published, JournalThere, Retained,
        RowFits, OnlyClone, OnlyPull, Acquiring
  <2>5. RecoveryFits'
    <3>1. StoppedJob /\ (JournalThere \/ Retained)
      BY PlansSay
    <3>2. row = "recovered" => canon \in Original
      BY <3>1 DEF RecoveryFits, Whole
    <3>3. rpc' = "undoing" /\ UNCHANGED <<kind, row, canon, receipts, journal>>
      OBVIOUS
    <3>q. QED BY <3>1, <3>2, <3>3 DEF RecoveryFits, Whole, Original, StoppedJob
  <2>6. CompletedFits'
    BY PlansSay DEF CompletedFits, StoppedJob
  <2>7. FlagsOK' /\ CallFits' /\ CloneLinked' /\ SpentCloneCharged' /\ SlotPays'
    BY DEF FlagsOK, CallFits, Acquiring, Placed, CloneLinked, SpentCloneCharged, SlotPays
  <2>q. QED BY <2>1, <2>2, <2>3, <2>4, <2>5, <2>6, <2>7
<1>5. CASE Undo
  <2> USE <1>5 DEF Undo, Recovery
  <2>1. FilesOK'
    BY DEF FilesOK, Files
  <2>2. RowFits'
    BY DEF RowFits, OnlyClone, OnlyPull, Acquiring, Ending, Finalizing
  <2>3. Unpublished'
    BY DEF Unpublished, Original
  <2>4. EndFits'
    BY DEF EndFits, Ending, Finalizing, Original, Published, JournalThere, Retained,
        RowFits, OnlyClone, OnlyPull, Acquiring
  <2>5. RecoveryFits'
    BY DEF RecoveryFits, Original, Published, Whole, StoppedJob, JournalThere, Retained
  <2>6. CompletedFits'
    BY DEF CompletedFits, Published, JournalThere, Retained, RowFits, OnlyClone,
        OnlyPull, Acquiring, Ending, Finalizing, EndFits, Original, RecoveryFits, Whole,
        StoppedJob
  <2>7. FlagsOK' /\ CallFits' /\ CloneLinked' /\ SpentCloneCharged' /\ SlotPays'
    BY DEF FlagsOK, CallFits, Acquiring, Placed, CloneLinked, SpentCloneCharged, SlotPays
  <2>q. QED BY <2>1, <2>2, <2>3, <2>4, <2>5, <2>6, <2>7
<1>6. CASE WriteRollback
  <2> USE <1>6 DEF WriteRollback, Recovery
  <2>1. FilesOK'
    BY DEF FilesOK, Files
  <2>2. RowFits'
    BY DEF RowFits, OnlyClone, OnlyPull, Acquiring, Ending, Finalizing
  <2>3. Unpublished'
    BY DEF Unpublished, Original, RowFits, OnlyClone, OnlyPull, Acquiring, Ending,
        Finalizing, EndFits, Published, JournalThere, Retained, RecoveryFits, Whole,
        StoppedJob
  <2>4. EndFits'
    BY DEF EndFits, Ending, Finalizing, Original, Published, JournalThere, Retained,
        RowFits, OnlyClone, OnlyPull, Acquiring
  <2>5. RecoveryFits'
    BY DEF RecoveryFits, Original, Published, Whole, StoppedJob, JournalThere, Retained
  <2>6. CompletedFits'
    BY DEF CompletedFits, Published, JournalThere, Retained
  <2>7. FlagsOK' /\ CallFits' /\ CloneLinked' /\ SpentCloneCharged' /\ SlotPays'
    BY DEF FlagsOK, CallFits, Acquiring, Placed, CloneLinked, SpentCloneCharged, SlotPays
  <2>q. QED BY <2>1, <2>2, <2>3, <2>4, <2>5, <2>6, <2>7
<1>7. CASE SettleRollback
  <2> USE <1>7 DEF SettleRollback, Recovery
  <2>1. FilesOK'
    BY DEF FilesOK, Files
  <2>2. FlagsOK'
    BY DEF FlagsOK
  <2>3. RowFits'
    BY DEF RowFits, OnlyClone, OnlyPull, Acquiring, Ending, Finalizing
  <2>4. Unpublished'
    BY DEF Unpublished, Original
  <2>5. CallFits'
    BY DEF CallFits, Acquiring, Placed, RowFits, OnlyClone, OnlyPull, Ending, Finalizing
  <2>6. CloneLinked'
    BY DEF CloneLinked
  <2>7. SpentCloneCharged'
    BY DEF SpentCloneCharged
  <2>8. EndFits'
    BY DEF EndFits, Ending, Finalizing, Original, Published, JournalThere, Retained
  <2>9. RecoveryFits'
    BY DEF RecoveryFits, Original, Published, Whole, StoppedJob, JournalThere, Retained
  <2>10. SlotPays'
    BY DEF SlotPays
  <2>11. CompletedFits'
    BY DEF CompletedFits, Published, JournalThere, Retained
  <2>q. QED BY <2>1, <2>2, <2>3, <2>4, <2>5, <2>6, <2>7, <2>8, <2>9, <2>10, <2>11
<1>8. CASE RetireRecovered
  <2> USE <1>8 DEF RetireRecovered, Recovery, CaptureHistoryGuard, CaptureJournal
  <2>1. FilesOK'
    <3>1. UNCHANGED <<kind, row, link, receipts, canon, papers, gateway>>
      BY DEF memory, bounds
    <3>2. /\ guard' \in {guard, "none"} /\ journal' \in {journal, "held"}
          /\ bundle' \in {bundle, "done"} /\ held' \in {held, held \cup {"history"}}
      OBVIOUS
    <3>q. QED BY ONLY FilesOK, <3>1, <3>2 DEF FilesOK
  <2>2. RowFits'
    BY DEF RowFits, OnlyClone, OnlyPull, Acquiring, Ending, Finalizing
  <2>3. Unpublished'
    BY DEF Unpublished, Original
  <2>4. CallFits'
    BY DEF CallFits, Acquiring, Placed
  <2>5. CloneLinked'
    BY DEF CloneLinked
  <2>6. SpentCloneCharged'
    BY DEF SpentCloneCharged
  <2>7. EndFits'
    BY DEF EndFits, Ending, Finalizing, Original, Published, JournalThere, Retained,
        RowFits, OnlyClone, OnlyPull, Acquiring
  <2>8. RecoveryFits'
    BY DEF RecoveryFits, Original, Published, Whole, StoppedJob, JournalThere, Retained
  <2>9. CompletedFits'
    BY DEF CompletedFits, Published, JournalThere, Retained
  <2>10. FlagsOK' /\ SlotPays'
    BY DEF FlagsOK, SlotPays
  <2>q. QED BY <2>1, <2>2, <2>3, <2>4, <2>5, <2>6, <2>7, <2>8, <2>9, <2>10
<1>9. CASE AbandonRecovery
  <2> USE <1>9 DEF AbandonRecovery
  <2>1. RowFits'
    BY DEF RowFits, OnlyClone, OnlyPull, Acquiring, Ending, Finalizing
  <2>2. RecoveryFits'
    BY DEF RecoveryFits, Original, Published, Whole, StoppedJob, JournalThere, Retained
  <2>3. FilesOK'
    <3>1. UNCHANGED <<kind, row, link, guard, papers, held, journal, bundle, receipts,
                      canon, gateway>>
      OBVIOUS
    <3>q. QED BY <3>1, FilesUnchanged
  <2>0. UNCHANGED <<kind, row, slot, link, spent, guard, papers, held, journal, bundle,
                    receipts, canon, policy, live, clean, pending, pc, gateway, acts>>
    OBVIOUS
  <2>4. FlagsOK'
    BY ONLY AcquisitionIInv, <2>0 DEF AcquisitionIInv, AcquisitionInv, TypeOK, FlagsOK
  <2>5. Unpublished'
    BY ONLY AcquisitionIInv, <2>0 DEF AcquisitionIInv, AcquisitionInv, TypeOK,
        Unpublished, Original
  <2>6. CallFits'
    BY ONLY AcquisitionIInv, <2>0 DEF AcquisitionIInv, AcquisitionInv, TypeOK, CallFits,
        Acquiring, Placed
  <2>7. CloneLinked'
    BY ONLY AcquisitionIInv, <2>0 DEF AcquisitionIInv, AcquisitionInv, TypeOK, CloneLinked
  <2>8. SpentCloneCharged'
    BY ONLY AcquisitionIInv, <2>0 DEF AcquisitionIInv, AcquisitionInv, TypeOK,
        SpentCloneCharged
  <2>9. EndFits'
    BY ONLY AcquisitionIInv, <2>0 DEF AcquisitionIInv, AcquisitionInv, TypeOK, EndFits,
        Ending, Finalizing, Original, Published, JournalThere, Retained
  <2>10. SlotPays'
    BY ONLY AcquisitionIInv, <2>0 DEF AcquisitionIInv, AcquisitionInv, TypeOK, SlotPays
  <2>11. CompletedFits'
    BY ONLY AcquisitionIInv, <2>0 DEF AcquisitionIInv, AcquisitionInv, TypeOK,
        CompletedFits, Published, JournalThere, Retained
  <2>q. QED BY <2>1, <2>2, <2>3, <2>4, <2>5, <2>6, <2>7, <2>8, <2>9, <2>10, <2>11
<1>q. QED BY <1>1, <1>2, <1>3, <1>4, <1>5, <1>6, <1>7, <1>8, <1>9 DEF Recover

(* ... and every death, stop and start of the gateway and act of the owner.  *)
LEMMA OthersHold ==
  ASSUME AcquisitionIInv, Die \/ Stop \/ Start \/ OwnerActs
  PROVE  AcquisitionIInv'
<1> USE DEF AcquisitionIInv, AcquisitionInv, TypeOK, Goto, Quiet, public, memory, tool, bounds
<1>1. CASE Die
  <2> USE <1>1 DEF Die
  <2>1. FilesOK'
    BY DEF FilesOK, Files
  <2>2. FlagsOK'
    BY DEF FlagsOK
  <2>3. RowFits'
    BY DEF RowFits, OnlyClone, OnlyPull, Acquiring, Ending, Finalizing
  <2>4. CallFits'
    BY DEF CallFits, Acquiring, Placed
  <2>5. CloneLinked'
    BY DEF CloneLinked
  <2>6. EndFits'
    BY DEF EndFits, Ending, Finalizing, Original, Published, JournalThere, Retained
  <2>0. UNCHANGED <<kind, row, slot, link, spent, guard, papers, held, journal, bundle,
                    receipts, canon, policy, clean, plan, rpc, acts>>
    OBVIOUS
  <2>7. Unpublished'
    BY ONLY AcquisitionIInv, <2>0 DEF AcquisitionIInv, AcquisitionInv, TypeOK,
        Unpublished, Original
  <2>8. SpentCloneCharged'
    BY ONLY AcquisitionIInv, <2>0 DEF AcquisitionIInv, AcquisitionInv, TypeOK,
        SpentCloneCharged
  <2>9. RecoveryFits'
    BY ONLY AcquisitionIInv, <2>0 DEF AcquisitionIInv, AcquisitionInv, TypeOK,
        RecoveryFits, Original, Published, Whole, StoppedJob, JournalThere, Retained
  <2>10. SlotPays'
    BY ONLY AcquisitionIInv, <2>0 DEF AcquisitionIInv, AcquisitionInv, TypeOK, SlotPays
  <2>11. CompletedFits'
    BY ONLY AcquisitionIInv, <2>0 DEF AcquisitionIInv, AcquisitionInv, TypeOK,
        CompletedFits, Published, JournalThere, Retained
  <2>q. QED BY <2>1, <2>2, <2>3, <2>4, <2>5, <2>6, <2>7, <2>8, <2>9, <2>10, <2>11
<1>2. CASE Stop
  <2> USE <1>2 DEF Stop
  <2>1. FilesOK'
    <3>1. gateway' = "down" /\ UNCHANGED <<kind, row, link, guard, papers, held, journal, bundle,
                                          receipts, canon>>
      BY DEF public, bounds
    <3>q. QED BY ONLY FilesOK, <3>1 DEF FilesOK
  <2>2. RowFits'
    BY DEF RowFits, OnlyClone, OnlyPull, Acquiring, Ending, Finalizing
  <2>0. UNCHANGED <<kind, row, slot, link, spent, guard, papers, held, journal, bundle,
                    receipts, canon, policy, live, clean, pending, pc, plan, rpc, deaths,
                    acts>>
    OBVIOUS
  <2>3. FlagsOK'
    BY ONLY AcquisitionIInv, <2>0 DEF AcquisitionIInv, AcquisitionInv, TypeOK, FlagsOK
  <2>4. Unpublished'
    BY ONLY AcquisitionIInv, <2>0 DEF AcquisitionIInv, AcquisitionInv, TypeOK,
        Unpublished, Original
  <2>5. CallFits'
    BY ONLY AcquisitionIInv, <2>0 DEF AcquisitionIInv, AcquisitionInv, TypeOK, CallFits,
        Acquiring, Placed
  <2>6. CloneLinked'
    BY ONLY AcquisitionIInv, <2>0 DEF AcquisitionIInv, AcquisitionInv, TypeOK, CloneLinked
  <2>7. SpentCloneCharged'
    BY ONLY AcquisitionIInv, <2>0 DEF AcquisitionIInv, AcquisitionInv, TypeOK,
        SpentCloneCharged
  <2>8. EndFits'
    BY ONLY AcquisitionIInv, <2>0 DEF AcquisitionIInv, AcquisitionInv, TypeOK, EndFits,
        Ending, Finalizing, Original, Published, JournalThere, Retained
  <2>9. RecoveryFits'
    BY ONLY AcquisitionIInv, <2>0 DEF AcquisitionIInv, AcquisitionInv, TypeOK,
        RecoveryFits, Original, Published, Whole, StoppedJob, JournalThere, Retained
  <2>10. SlotPays'
    BY ONLY AcquisitionIInv, <2>0 DEF AcquisitionIInv, AcquisitionInv, TypeOK, SlotPays
  <2>11. CompletedFits'
    BY ONLY AcquisitionIInv, <2>0 DEF AcquisitionIInv, AcquisitionInv, TypeOK,
        CompletedFits, Published, JournalThere, Retained
  <2>q. QED BY <2>1, <2>2, <2>3, <2>4, <2>5, <2>6, <2>7, <2>8, <2>9, <2>10, <2>11
<1>3. CASE Start
  <2> USE <1>3 DEF Start
  <2>1. FilesOK'
    BY DEF FilesOK, Files
  <2>2. FlagsOK'
    BY DEF FlagsOK
  <2>3. RowFits'
    BY DEF RowFits, OnlyClone, OnlyPull, Acquiring, Ending, Finalizing
  <2>4. Unpublished'
    BY DEF Unpublished, Original
  <2>5. SpentCloneCharged'
    BY DEF SpentCloneCharged
  <2>6. RecoveryFits'
    BY DEF RecoveryFits, Original, Published, Whole, StoppedJob, JournalThere, Retained
  <2>7. SlotPays'
    BY DEF SlotPays
  <2>8. CompletedFits'
    BY DEF CompletedFits, Published, JournalThere, Retained
  <2>0. UNCHANGED <<kind, link, spent, guard, papers, held, journal, bundle, receipts,
                    canon, policy, live, clean, pending, pc, plan, rpc, deaths, acts>>
    OBVIOUS
  <2>9. CallFits'
    BY ONLY AcquisitionIInv, <2>0 DEF AcquisitionIInv, AcquisitionInv, TypeOK, CallFits,
        Acquiring, Placed
  <2>10. CloneLinked'
    BY ONLY AcquisitionIInv, <2>0 DEF AcquisitionIInv, AcquisitionInv, TypeOK, CloneLinked
  <2>11. EndFits'
    BY ONLY AcquisitionIInv, <2>0 DEF AcquisitionIInv, AcquisitionInv, TypeOK, EndFits,
        Ending, Finalizing, Original, Published, JournalThere, Retained
  <2>q. QED BY <2>1, <2>2, <2>3, <2>4, <2>5, <2>6, <2>7, <2>8, <2>9, <2>10, <2>11
<1>4. CASE OwnerActs
  <2> USE <1>4 DEF OwnerActs
  <2>1. FilesOK'
    <3>1. UNCHANGED <<kind, row, link, journal, bundle, receipts, gateway>>
      OBVIOUS
    <3>2. /\ guard' \in {"none", "ours", "history", "owner"}
          /\ canon' \in {"before", "half", "after", "moved", "touched"}
      BY DEF FilesOK
    <3>3. papers' \subseteq Files /\ held' \subseteq {"rejected", "consumed", "history"}
      BY DEF FilesOK, Files
    <3>q. QED BY <3>1, <3>2, <3>3, FilesKept
  <2>2. FlagsOK'
    BY DEF FlagsOK
  <2>3. Unpublished'
    BY DEF Unpublished, Original
  <2>4. CallFits'
    BY DEF CallFits, Acquiring, Placed
  <2>5. CloneLinked'
    BY DEF CloneLinked
  <2>6. SpentCloneCharged'
    BY DEF SpentCloneCharged
  <2>7. EndFits'
    BY DEF EndFits, Ending, Finalizing, Original, Published, JournalThere, Retained
  <2>8. RecoveryFits'
    BY DEF RecoveryFits, Original, Published, Whole, StoppedJob, JournalThere, Retained
  <2>9. CompletedFits'
    BY DEF CompletedFits, Published, JournalThere, Retained
  <2>10. RowFits' /\ SlotPays'
    BY DEF RowFits, OnlyClone, OnlyPull, Acquiring, Ending, Finalizing, SlotPays
  <2>q. QED BY <2>1, <2>2, <2>3, <2>4, <2>5, <2>6, <2>7, <2>8, <2>9, <2>10
<1>q. QED BY <1>1, <1>2, <1>3, <1>4

LEMMA AcquisitionInitHolds ==
  ASSUME Init
  PROVE  AcquisitionIInv
<1> USE DEF Init, AcquisitionIInv, AcquisitionInv, TypeOK
<1>1. FilesOK
  BY DEF FilesOK
<1>2. FlagsOK
  BY DEF FlagsOK
<1>3. RowFits /\ Unpublished
  BY DEF RowFits, OnlyClone, OnlyPull, Acquiring, Ending, Finalizing, Unpublished, Original
<1>4. CallFits /\ CloneLinked /\ SpentCloneCharged
  BY DEF CallFits, CloneLinked, SpentCloneCharged
<1>5. EndFits
  BY DEF EndFits, Ending, Finalizing
<1>6. RecoveryFits /\ SlotPays /\ CompletedFits
  BY DEF RecoveryFits, StoppedJob, SlotPays, CompletedFits
<1>q. QED BY <1>1, <1>2, <1>3, <1>4, <1>5, <1>6

LEMMA AcquisitionStutter ==
  ASSUME AcquisitionIInv, UNCHANGED vars
  PROVE  AcquisitionIInv'
<1> USE DEF AcquisitionIInv, AcquisitionInv, TypeOK
<1>1. UNCHANGED <<kind, row, slot, link, spent, guard, papers, held, journal, bundle,
                  receipts, canon, policy, live, clean, pending, pc, gateway, rpc>>
  BY DEF vars, public, memory, tool, bounds
<1>2. FilesOK' /\ FlagsOK'
  BY <1>1, FilesUnchanged DEF FlagsOK
<1>3. RowFits'
  BY <1>1 DEF RowFits
<1>4. Unpublished' /\ CallFits'
  BY <1>1 DEF Unpublished, CallFits, Placed
<1>5. CloneLinked' /\ SpentCloneCharged'
  BY <1>1 DEF CloneLinked, SpentCloneCharged
<1>6. EndFits'
  BY <1>1 DEF EndFits, JournalThere, Retained
<1>7. RecoveryFits'
  BY <1>1 DEF RecoveryFits, Whole, StoppedJob, JournalThere, Retained
<1>8. SlotPays' /\ CompletedFits'
  BY <1>1 DEF SlotPays, CompletedFits, JournalThere, Retained
<1>q. QED BY <1>2, <1>3, <1>4, <1>5, <1>6, <1>7, <1>8

(* Whatever the interleaving of an approved pull or clone with the end of    *)
(* its job, the gateway's deaths, the owner's acts and the recovery command, *)
(* row, slot, link, guard, journal and workspace agree as AcquisitionInv     *)
(* says (git_pulls.py, git_clones.py, git_clone_recovery.py).                *)
THEOREM AcquisitionInvariant == Spec => []AcquisitionIInv
<1>1. Init => AcquisitionIInv
  BY AcquisitionInitHolds
<1>2. AcquisitionIInv /\ [Next]_vars => AcquisitionIInv'
  BY AcquireHolds, FinalizeHolds, RecoverHolds, OthersHold, AcquisitionStutter DEF Next
<1>q. QED BY <1>1, <1>2, PTL DEF Spec

(* A call answered "refused before approval consumption" left no spent       *)
(* approval, no guard of ours at the path and no link that charges the slot, *)
(* however late it failed (git_clones.py:136-165, git_pulls.py:543-548).     *)
THEOREM RefusalsAreUnspent == Spec => []RefusedIsUnspent
<1>1. AcquisitionIInv => RefusedIsUnspent
  BY DEF AcquisitionIInv, AcquisitionInv, CallFits, RefusedIsUnspent
<1>q. QED BY <1>1, AcquisitionInvariant, PTL

(* A clone's spent approval keeps the job's slot until its link is resolved, *)
(* through every death and start of the gateway, and its guard stays at the  *)
(* path or in custody (git_clones.py:103-127).                               *)
THEOREM SpentClonesAreCharged == Spec => []SpentCloneCharged
<1>1. AcquisitionIInv => SpentCloneCharged
  BY DEF AcquisitionIInv, AcquisitionInv
<1>q. QED BY <1>1, AcquisitionInvariant, PTL

(* A job that nothing charges any more has a whole workspace: completed with *)
(* its approval spent it was published with its receipt, recovered it is     *)
(* back at the beginning or was published and never rolled back              *)
(* (git_pulls.py:770-783, workspace_recovery.py:783-802).                    *)
THEOREM SettledJobsAreWhole == Spec => []SettledIsWhole
<1>1. ASSUME AcquisitionIInv
      PROVE  SettledIsWhole
  <2> USE <1>1 DEF AcquisitionIInv, AcquisitionInv
  <2>1. ~slot => link # "active"
    BY DEF SlotPays
  <2>2. ~slot => canon # "half"
    BY DEF RowFits, RecoveryFits
  <2>3. row = "completed" /\ spent =>
          /\ canon \in {"after", "touched"} /\ receipts = {"published"}
          /\ link = "resolved" /\ guard \notin {"ours", "history"}
          /\ ~JournalThere /\ ~Retained
    BY DEF CompletedFits, Published
  <2>4. row = "recovered" /\ canon = "after" => receipts = {"published"}
    BY DEF RecoveryFits, Whole, Original
  <2>q. QED BY <2>1, <2>2, <2>3, <2>4 DEF SettledIsWhole
<1>q. QED BY <1>1, AcquisitionInvariant, PTL

-----------------------------------------------------------------------------
(* What recovery can count on: the papers, guards and receipts it plans from *)
(* (git_clone_recovery.py, workspace_recovery.py).                           *)
\* A worker's clone from the placing of its guard until its job ends.
Underway == {"placed", "recorded", "linked", "claimed", "made", "ready", "retained"}

\* The marker, the papers and the guard a clone leaves for its recovery.
PapersFit ==
  kind = "clone" =>
    /\ guard # "history"
    /\ pc \in {"idle", "prepared"} => ~pending
    /\ pc \in {"idle", "prepared", "intending", "papered"} => "intent" \notin papers
    /\ pc \in {"papered", "intended"} => "prepared" \in papers
    /\ pc \in Underway \/ (pc = "failed" /\ spent) => Placed
    /\ pc \in Underway \cup {"failed"} /\ Placed => guard \in {"ours", "owner"}
    /\ StoppedJob => Placed /\ (guard = "none" => "consumed" \in held)
    /\ ~slot /\ row # "interrupted" => guard # "ours"

\* What stands behind a journal and a receipt.
JournalFits ==
  /\ pc \in Ending \ {"stopped", "validating"} \/ journal # "none" \/ receipts # {} => spent
  /\ kind = "clone" =>
       /\ journal # "first"
       /\ pc \in {"publishing", "verifying", "retiring", "captured", "unlinking"}
            => journal = "full"
       /\ ~JournalThere /\ "rolled_back" \notin receipts
            => canon \in (IF "published" \in receipts THEN Published ELSE Original)
  /\ kind = "pull" =>
       /\ pc \in {"guarding", "binding"} \/ journal \in {"full", "held"}
            => "consumed" \in held /\ link # "none"
       /\ pc = "binding" \/ journal \in {"full", "held"}
            => guard \in {"history", "owner"} \/ "history" \in held

\* The recovery command works on a stopped job, with the journal it read.
CommandFits ==
  /\ rpc # "idle" => StoppedJob
  /\ rpc \in {"undoing", "undone", "retiring"} => journal \in {"full", "held"}
  /\ rpc = "settling" => guard # "ours"
  /\ rpc = "reviewed" /\ ~Disturbed => plan \in Plans

\* Only a gateway's death leaves a job that is not ended by its own finalization.
DeathFits ==
  /\ deaths \in Nat
  /\ row \in {"completed", "failed"} => ~slot
  /\ pc = "over" => row # "running"
  /\ pc = "gone" \/ row = "interrupted" => deaths > 0

RecoverableInv == PapersFit /\ JournalFits /\ CommandFits /\ DeathFits

\* A stopped job that recovery has not settled: a clone that holds its slot, a
\* pull whose journal names the guard of its publication.
Unsettled ==
  /\ StoppedJob
  /\ IF kind = "clone" THEN slot
     ELSE row # "recovered" /\ (journal = "full" \/ Retained)

(* Recovery of a stopped job, where the owner is not in the way, can always  *)
(* go on: the command finds a plan, applies the one that was reviewed, and   *)
(* neither undoing nor retiring meets a state it does not know               *)
(* (git_clone_recovery.py:17-46, workspace_recovery.py:783-802).             *)
RecoveryLeadsOn ==
  gateway = "down" /\ ~Disturbed =>
    /\ rpc = "idle" /\ Unsettled => Plans # {}
    /\ rpc = "reviewed" => plan \in Plans
    /\ rpc = "undoing" => Undoable
    /\ rpc = "retiring" => guard = "history" \/ journal \in {"full", "held"}

(* The one clone that no command can settle is the one whose gateway died    *)
(* while its job ran: the start wrote "interrupted", which recovery does not *)
(* take for a stopped job (jobs.py:333-360, git_clone_recovery.py:17-46).    *)
OnlyInterruptedIsStuck ==
  kind = "clone" /\ gateway = "down" /\ row # "running" /\ rpc = "idle"
    /\ guard = "ours" /\ ~Disturbed /\ Plans = {}
      => row = "interrupted" /\ deaths > 0

(* And it stays so: no action of the gateway, of the recovery command or of  *)
(* the owner gives back the slot that its link charges.                      *)
InterruptedStays ==
  [][row = "interrupted" =>
       /\ UNCHANGED <<row, slot, link, spent, papers, held, journal, bundle, receipts>>
       /\ rpc' = "idle"]_vars

(* A call of the worker, wherever it fails, leaves what recovery counts on ... *)
LEMMA AcquireLeaves ==
  ASSUME AcquisitionIInv, RecoverableInv, Acquire
  PROVE  PapersFit' /\ JournalFits' /\ DeathFits'
<1> USE DEF AcquisitionIInv, AcquisitionInv, TypeOK, FilesOK, FlagsOK, Files, RowFits, Unpublished,
         CallFits, CloneLinked, SpentCloneCharged, EndFits, RecoveryFits, SlotPays, Acquiring,
         Ending, Finalizing, OnlyClone, OnlyPull, Original, Published, Placed, JournalThere,
         Retained, StoppedJob, Whole, RecoverableInv, PapersFit, JournalFits, CommandFits, DeathFits,
         Underway, Undoable, public, memory, tool, bounds, Quiet, Goto, LiveJob, RunningJob,
         Proposable, IntentValid, SpentAuthority, Resting, Recovery
<1>1. CASE PrepareClone
  BY <1>1 DEF PrepareClone
<1>2. CASE BeginClone
  BY <1>2 DEF BeginClone
<1>3. CASE WritePrepared
  BY <1>3 DEF WritePrepared, WritePaper
<1>4. CASE WriteIntent
  <2> USE <1>4 DEF WriteIntent, WritePaper
  <2>1. PapersFit'
    OBVIOUS
  <2>2. JournalFits'
    OBVIOUS
  <2>3. DeathFits'
    OBVIOUS
  <2>q. QED BY ONLY <2>1, <2>2, <2>3
<1>5. CASE PlaceGuard
  BY <1>5 DEF PlaceGuard
<1>6. CASE RecordGuard
  BY <1>6 DEF RecordGuard, WritePaper
<1>7. CASE LinkClone
  BY <1>7 DEF LinkClone, LinkSlot
<1>8. CASE ClaimClone
  BY <1>8 DEF ClaimClone
<1>9. CASE MakeClone
  BY <1>9 DEF MakeClone
<1>10. CASE AttachClone
  BY <1>10 DEF AttachClone
<1>11. CASE CloneFails
  BY <1>11 DEF CloneFails
<1>12. CASE KeepClaimed
  BY <1>12 DEF KeepClaimed
<1>13. CASE RejectGuard
  BY <1>13 DEF RejectGuard
<1>14. CASE FinishReject
  BY <1>14 DEF FinishReject
<1>15. CASE BeginPull
  BY <1>15 DEF BeginPull
<1>16. CASE ClaimPull
  BY <1>16 DEF ClaimPull
<1>17. CASE RefusePull
  BY <1>17 DEF RefusePull
<1>18. CASE GuardPull
  BY <1>18 DEF GuardPull
<1>19. CASE LinkPull
  BY <1>19 DEF LinkPull, LinkSlot
<1>20. CASE Integrate
  BY <1>20 DEF Integrate
<1>21. CASE AttachPull
  BY <1>21 DEF AttachPull
<1>22. CASE PullFails
  BY <1>22 DEF PullFails
<1>q. QED BY ONLY Acquire, <1>1, <1>2, <1>3, <1>4, <1>5, <1>6, <1>7, <1>8, <1>9, <1>10, <1>11,
       <1>12, <1>13, <1>14, <1>15, <1>16, <1>17, <1>18, <1>19, <1>20, <1>21, <1>22 DEF Acquire

(* ... so does every step of the job's finalization ...                      *)
LEMMA FinalizeLeaves ==
  ASSUME AcquisitionIInv, RecoverableInv, Finalize
  PROVE  PapersFit' /\ JournalFits' /\ DeathFits'
<1> USE DEF AcquisitionIInv, AcquisitionInv, TypeOK, FilesOK, FlagsOK, Files, RowFits, Unpublished,
         CallFits, CloneLinked, SpentCloneCharged, EndFits, RecoveryFits, SlotPays, Acquiring,
         Ending, Finalizing, OnlyClone, OnlyPull, Original, Published, Placed, JournalThere,
         Retained, StoppedJob, Whole, RecoverableInv, PapersFit, JournalFits, CommandFits, DeathFits,
         Underway, Undoable, public, memory, tool, bounds, Quiet, Goto, LiveJob, RunningJob,
         Proposable, IntentValid, SpentAuthority, Resting, Recovery
<1>1. CASE EndWorker
  <2> USE <1>1 DEF EndWorker
  <2>1. PapersFit'
    OBVIOUS
  <2>2. JournalFits'
    OBVIOUS
  <2>3. DeathFits'
    OBVIOUS
  <2>q. QED BY ONLY <2>1, <2>2, <2>3
<1>2. CASE FinalizeUnclean
  BY <1>2 DEF FinalizeUnclean
<1>3. CASE FinalizeOrdinary
  BY <1>3 DEF FinalizeOrdinary
<1>4. CASE ClaimFinalization
  BY <1>4 DEF ClaimFinalization
<1>5. CASE ValidateIntent
  BY <1>5 DEF ValidateIntent
<1>6. CASE WriteJournal
  BY <1>6 DEF WriteJournal
<1>7. CASE MoveGuard
  BY <1>7 DEF MoveGuard
<1>8. CASE WriteHistoryGuard
  BY <1>8 DEF WriteHistoryGuard
<1>9. CASE BindJournal
  BY <1>9 DEF BindJournal
<1>10. CASE Publish
  BY <1>10 DEF Publish
<1>11. CASE WriteReceipt
  BY <1>11 DEF WriteReceipt
<1>12. CASE RetireClone
  BY <1>12 DEF RetireClone
<1>13. CASE ResolveClone
  BY <1>13 DEF ResolveClone
<1>14. CASE UnlinkJournal
  BY <1>14 DEF UnlinkJournal
<1>15. CASE PrepareBundle
  BY <1>15 DEF PrepareBundle
<1>16. CASE RetireHistory
  BY <1>16 DEF RetireHistory, CaptureHistoryGuard
<1>17. CASE RetireJournal
  BY <1>17 DEF RetireJournal, CaptureJournal
<1>18. CASE ResolvePull
  BY <1>18 DEF ResolvePull
<1>19. CASE FinishBundle
  BY <1>19 DEF FinishBundle
<1>20. CASE Complete
  BY <1>20 DEF Complete
<1>21. CASE FailFinalization
  BY <1>21 DEF FailFinalization
<1>q. QED BY ONLY Finalize, <1>1, <1>2, <1>3, <1>4, <1>5, <1>6, <1>7, <1>8, <1>9, <1>10, <1>11,
       <1>12, <1>13, <1>14, <1>15, <1>16, <1>17, <1>18, <1>19, <1>20, <1>21 DEF Finalize

(* ... and of the recovery commands ...                                      *)
LEMMA RecoverLeaves ==
  ASSUME AcquisitionIInv, RecoverableInv, Recover
  PROVE  PapersFit' /\ JournalFits' /\ DeathFits'
<1> USE DEF AcquisitionIInv, AcquisitionInv, TypeOK, FilesOK, FlagsOK, Files, RowFits, Unpublished,
         CallFits, CloneLinked, SpentCloneCharged, EndFits, RecoveryFits, SlotPays, Acquiring,
         Ending, Finalizing, OnlyClone, OnlyPull, Original, Published, Placed, JournalThere,
         Retained, StoppedJob, Whole, RecoverableInv, PapersFit, JournalFits, CommandFits, DeathFits,
         Underway, Undoable, public, memory, tool, bounds, Quiet, Goto, LiveJob, RunningJob,
         Proposable, IntentValid, SpentAuthority, Resting, Recovery
<1>1. CASE PlanRecovery
  <2> USE <1>1 DEF PlanRecovery
  <2>1. PapersFit'
    OBVIOUS
  <2>2. JournalFits'
    OBVIOUS
  <2>3. DeathFits'
    OBVIOUS
  <2>q. QED BY ONLY <2>1, <2>2, <2>3
<1>2. CASE CaptureForClone
  <2> USE <1>2 DEF CaptureForClone
  <2>1. PapersFit'
    OBVIOUS
  <2>2. JournalFits'
    OBVIOUS
  <2>3. DeathFits'
    OBVIOUS
  <2>q. QED BY ONLY <2>1, <2>2, <2>3
<1>3. CASE SettleClone
  BY <1>3 DEF SettleClone
<1>4. CASE BeginRollback
  <2> USE <1>4 DEF BeginRollback
  <2>1. PapersFit'
    OBVIOUS
  <2>2. JournalFits'
    OBVIOUS
  <2>3. DeathFits'
    OBVIOUS
  <2>q. QED BY ONLY <2>1, <2>2, <2>3
<1>5. CASE Undo
  BY <1>5 DEF Undo
<1>6. CASE WriteRollback
  BY <1>6 DEF WriteRollback
<1>7. CASE SettleRollback
  BY <1>7 DEF SettleRollback
<1>8. CASE RetireRecovered
  BY <1>8 DEF RetireRecovered, CaptureHistoryGuard, CaptureJournal
<1>9. CASE AbandonRecovery
  <2> USE <1>9 DEF AbandonRecovery
  <2>1. PapersFit'
    OBVIOUS
  <2>2. JournalFits'
    OBVIOUS
  <2>3. DeathFits'
    <3>1. deaths' = deaths \/ deaths' = deaths + 1
      OBVIOUS
    <3>2. UNCHANGED <<row, slot, pc>>
      OBVIOUS
    <3>q. QED BY ONLY DeathFits, <3>1, <3>2 DEF DeathFits
  <2>q. QED BY ONLY <2>1, <2>2, <2>3
<1>q. QED BY ONLY Recover, <1>1, <1>2, <1>3, <1>4, <1>5, <1>6, <1>7, <1>8, <1>9 DEF Recover

(* ... and the gateway's death, stop and start and the owner's own acts.     *)
LEMMA OthersLeave ==
  ASSUME AcquisitionIInv, RecoverableInv, Die \/ Stop \/ Start \/ OwnerActs
  PROVE  PapersFit' /\ JournalFits' /\ DeathFits'
<1> USE DEF AcquisitionIInv, AcquisitionInv, TypeOK, FilesOK, FlagsOK, Files, RowFits, Unpublished,
         CallFits, CloneLinked, SpentCloneCharged, EndFits, RecoveryFits, SlotPays, Acquiring,
         Ending, Finalizing, OnlyClone, OnlyPull, Original, Published, Placed, JournalThere,
         Retained, StoppedJob, Whole, RecoverableInv, PapersFit, JournalFits, CommandFits, DeathFits,
         Underway, Undoable, public, memory, tool, bounds, Quiet, Goto, LiveJob, RunningJob,
         Proposable, IntentValid, SpentAuthority, Resting, Recovery
<1>1. CASE Die
  <2> USE <1>1 DEF Die
  <2>1. PapersFit'
    OBVIOUS
  <2>2. JournalFits'
    OBVIOUS
  <2>3. DeathFits'
    <3>1. deaths' = deaths + 1 /\ UNCHANGED <<row, slot>> /\ pc' = "gone"
      OBVIOUS
    <3>q. QED BY ONLY DeathFits, <3>1 DEF DeathFits
  <2>q. QED BY ONLY <2>1, <2>2, <2>3
<1>2. CASE Stop
  <2> USE <1>2 DEF Stop
  <2>1. PapersFit'
    OBVIOUS
  <2>2. JournalFits'
    OBVIOUS
  <2>3. DeathFits'
    OBVIOUS
  <2>q. QED BY ONLY <2>1, <2>2, <2>3
<1>3. CASE Start
  <2> USE <1>3 DEF Start
  <2>1. PapersFit'
    OBVIOUS
  <2>2. JournalFits'
    OBVIOUS
  <2>3. DeathFits'
    OBVIOUS
  <2>q. QED BY ONLY <2>1, <2>2, <2>3
<1>4. CASE OwnerActs
  <2> USE <1>4 DEF OwnerActs
  <2>1. PapersFit'
    OBVIOUS
  <2>2. JournalFits'
    OBVIOUS
  <2>3. DeathFits'
    OBVIOUS
  <2>q. QED BY ONLY <2>1, <2>2, <2>3
<1>q. QED BY ONLY Die \/ Stop \/ Start \/ OwnerActs, <1>1, <1>2, <1>3, <1>4

(* A step that leaves the tables, the files and the policy alone leaves the  *)
(* plans alone too.                                                          *)
LEMMA PlansStay ==
  ASSUME UNCHANGED <<kind, public, policy>>
  PROVE  /\ Plans' = Plans /\ Disturbed' = Disturbed /\ StoppedJob' = StoppedJob
         /\ RollbackAccepted' = RollbackAccepted
<1>1. UNCHANGED <<kind, row, slot, link, spent, guard, papers, held, journal, bundle,
                  receipts, canon, policy>>
  BY DEF public
<1>2. /\ JournalThere' = JournalThere /\ Retained' = Retained /\ Undoable' = Undoable
      /\ SpentAuthority' = SpentAuthority /\ IntentRead' = IntentRead
      /\ Binding' = Binding /\ StoppedJob' = StoppedJob /\ Disturbed' = Disturbed
      /\ WorkspacePlan' = WorkspacePlan
  BY <1>1 DEF JournalThere, Retained, Undoable, SpentAuthority, IntentRead, GuardFound,
     Binding, StoppedJob, Disturbed, WorkspacePlan
<1>3. RollbackAccepted' = RollbackAccepted
  BY <1>1, <1>2 DEF RollbackAccepted
<1>4. ClonePlans' = ClonePlans
  BY <1>1, <1>2, <1>3 DEF ClonePlans
<1>q. QED BY <1>1, <1>2, <1>3, <1>4 DEF Plans

(* A plan to undo is one that the rollback accepts.                          *)
LEMMA PlanUndoes ==
  ASSUME NEW x \in Plans, x.endpoint = "rollback"
  PROVE  RollbackAccepted
<1>1. ASSUME x \in ClonePlans, JournalThere
      PROVE  RollbackAccepted
  BY <1>1 DEF ClonePlans
<1>2. ASSUME x \in ClonePlans, ~JournalThere
      PROVE  FALSE
  <2> DEFINE Ends(e) == {[endpoint |-> e, consumed |-> spent, canon |-> canon]}
  <2>1. ClonePlans = IF "rolled_back" \in receipts THEN Ends("before")
                     ELSE IF "published" \in receipts
                     THEN IF spent /\ canon = "after" THEN Ends("after") ELSE {}
                     ELSE IF canon = "before" THEN Ends("before") ELSE {}
    BY <1>2, Zenon DEF ClonePlans
  <2>2. x \notin Ends("before") /\ x \notin Ends("after")
    OBVIOUS
  <2> HIDE DEF Ends
  <2>q. QED BY <1>2, <2>1, <2>2
<1>3. x \in ClonePlans \/ RollbackAccepted
  BY DEF Plans
<1>q. QED BY <1>1, <1>2, <1>3

(* Whatever recovery can plan from, it keeps its command to the plan.        *)
LEMMA CommandKept ==
  ASSUME AcquisitionIInv, RecoverableInv, Next
  PROVE  CommandFits'
<1> USE DEF AcquisitionIInv, RecoverableInv
<1>1. ASSUME rpc = "idle", rpc' = "idle"
      PROVE  CommandFits'
  BY <1>1 DEF CommandFits
<1>2. ASSUME gateway = "up"
      PROVE  rpc = "idle"
  BY <1>2 DEF AcquisitionInv, RowFits
<1>3. ASSUME rpc # "idle", rpc' = rpc, UNCHANGED <<kind, public, policy, plan>>
      PROVE  CommandFits'
  <2>1. UNCHANGED <<journal, guard>>
    BY <1>3 DEF public
  <2>q. QED BY <1>3, <2>1, PlansStay DEF CommandFits
<1>4. ASSUME pc \notin {"over", "gone"}
      PROVE  gateway = "up"
  BY <1>4 DEF AcquisitionInv, RowFits, TypeOK, FilesOK
<1>5. CASE Acquire
  <2>1. pc \notin {"over", "gone"} /\ rpc' = rpc
    BY <1>5 DEF Acquire, PrepareClone, BeginClone, WritePrepared, WriteIntent, WritePaper,
       PlaceGuard, RecordGuard, LinkClone, LinkSlot, ClaimClone, MakeClone, AttachClone,
       CloneFails, KeepClaimed, RejectGuard, FinishReject, BeginPull, ClaimPull, RefusePull,
       GuardPull, LinkPull, Integrate, AttachPull, PullFails, Goto, Quiet, tool
  <2>q. QED BY <2>1, <1>1, <1>2, <1>4
<1>6. CASE Finalize
  <2>1. CASE EndWorker
    <3>1. rpc' = rpc /\ UNCHANGED <<kind, public, policy, plan>>
      BY <2>1 DEF EndWorker, tool, bounds
    <3>q. QED BY <3>1, <1>1, <1>3
  <2>2. CASE ~EndWorker
    <3>1. pc \notin {"over", "gone"} /\ rpc' = rpc
      BY <1>6, <2>2 DEF Finalize, FinalizeUnclean, FinalizeOrdinary, ClaimFinalization,
         ValidateIntent, WriteJournal, MoveGuard, WriteHistoryGuard, BindJournal, Publish,
         WriteReceipt, RetireClone, ResolveClone, UnlinkJournal, PrepareBundle,
         RetireHistory, RetireJournal, ResolvePull, FinishBundle, Complete,
         FailFinalization, Finalizing, Resting, Goto, Quiet, tool
    <3>q. QED BY <3>1, <1>1, <1>2, <1>4
  <2>q. QED BY <2>1, <2>2
<1>7. CASE Die \/ Stop
  <2>1. gateway = "up" /\ rpc' = rpc
    BY <1>7 DEF Die, Stop, tool
  <2>q. QED BY <2>1, <1>1, <1>2
<1>8. CASE Start
  BY <1>8, <1>1 DEF Start, tool
<1>9. CASE OwnerActs
  <2>1. rpc' = rpc /\ row' = row /\ journal' = journal /\ Disturbed'
    BY <1>9 DEF OwnerActs, Disturbed, tool, TypeOK, FilesOK, FlagsOK
  <2>2. guard # "ours" => guard' # "ours"
    BY <1>9 DEF OwnerActs
  <2>q. QED BY <2>1, <2>2 DEF CommandFits, StoppedJob
<1>10. CASE Recover
  <2>1. CASE PlanRecovery
    <3>1. rpc' = "reviewed" /\ plan' \in Plans /\ UNCHANGED <<kind, public, policy>>
      BY <2>1 DEF PlanRecovery, Recovery, bounds
    <3>2. StoppedJob
      BY <3>1, PlansSay DEF TypeOK
    <3>q. QED BY <3>1, <3>2, PlansStay DEF CommandFits
  <2>2. CASE CaptureForClone
    <3>1. rpc' = "settling" /\ row' = row /\ guard' # "ours" /\ rpc = "reviewed"
      BY <2>2 DEF CaptureForClone, Recovery
    <3>q. QED BY <3>1 DEF CommandFits, StoppedJob
  <2>3. CASE SettleClone
    BY <2>3 DEF SettleClone, Recovery, CommandFits
  <2>4. CASE BeginRollback
    <3>1. rpc = "reviewed" /\ rpc' = "undoing" /\ row' = row /\ journal' = journal
      BY <2>4 DEF BeginRollback, Recovery
    <3>2. RollbackAccepted
      BY <2>4, PlanUndoes DEF BeginRollback
    <3>3. journal \in {"full", "held"}
      BY <3>2, AcquisitionAssumption
         DEF RollbackAccepted, JournalThere, Retained, JournalFits, TypeOK, FilesOK
    <3>q. QED BY <3>1, <3>3 DEF CommandFits, StoppedJob
  <2>5. CASE Undo
    BY <2>5 DEF Undo, Recovery, CommandFits, StoppedJob
  <2>6. CASE WriteRollback
    BY <2>6 DEF WriteRollback, Recovery, CommandFits, StoppedJob
  <2>7. CASE SettleRollback
    BY <2>7 DEF SettleRollback, Recovery, CommandFits, StoppedJob
  <2>8. CASE RetireRecovered
    BY <2>8 DEF RetireRecovered, CaptureHistoryGuard, CaptureJournal, Recovery, CommandFits,
       StoppedJob
  <2>9. CASE AbandonRecovery
    BY <2>9 DEF AbandonRecovery, CommandFits
  <2>q. QED BY <1>10, <2>1, <2>2, <2>3, <2>4, <2>5, <2>6, <2>7, <2>8, <2>9 DEF Recover
<1>q. QED BY <1>5, <1>6, <1>7, <1>8, <1>9, <1>10 DEF Next

(* A job begins with nothing to recover.                                     *)
LEMMA RecoverableInit ==
  ASSUME Init
  PROVE  RecoverableInv
BY AcquisitionAssumption DEF Init, RecoverableInv, PapersFit, JournalFits, CommandFits,
   DeathFits, Underway, Ending, Finalizing, Original, Published, StoppedJob, Placed

(* A stutter changes none of it.                                             *)
LEMMA RecoverableStutter ==
  ASSUME RecoverableInv, UNCHANGED vars
  PROVE  RecoverableInv'
<1>1. UNCHANGED <<kind, row, slot, link, spent, guard, papers, held, journal, bundle,
                  receipts, canon, policy, pending, pc, plan, rpc, deaths>>
  BY DEF vars, public, memory, tool, bounds
<1>2. UNCHANGED <<kind, public, policy>>
  BY DEF vars, bounds
<1>3. PapersFit'
  BY <1>1, <1>2, PlansStay DEF RecoverableInv, PapersFit, Placed
<1>4. JournalFits'
  BY <1>1 DEF RecoverableInv, JournalFits, JournalThere
<1>5. CommandFits' /\ DeathFits'
  BY <1>1, <1>2, PlansStay DEF RecoverableInv, CommandFits, DeathFits
<1>q. QED BY <1>3, <1>4, <1>5 DEF RecoverableInv

(* Whatever happens to the job, recovery keeps what it plans from.           *)
LEMMA RecoverableInvariant == Spec => [](AcquisitionIInv /\ RecoverableInv)
<1>1. AcquisitionIInv /\ RecoverableInv /\ Next => RecoverableInv'
  BY AcquireLeaves, FinalizeLeaves, RecoverLeaves, OthersLeave, CommandKept
     DEF Next, RecoverableInv
<1>2. AcquisitionIInv /\ RecoverableInv /\ [Next]_vars => RecoverableInv'
  BY <1>1, RecoverableStutter
<1>q. QED BY <1>2, RecoverableInit, AcquisitionInvariant, PTL DEF Spec

(* A stopped job always has a recovery that goes on, unless the owner is in  *)
(* the way: the safety half of RecoverySettles, for any number of deaths     *)
(* (git_clone_recovery.py:17-46, workspace_recovery.py:783-802).             *)
THEOREM StoppedJobsRecover == Spec => []RecoveryLeadsOn
<1>1. ASSUME AcquisitionIInv, RecoverableInv
      PROVE  RecoveryLeadsOn
  <2> SUFFICES ASSUME ~Disturbed
               PROVE  /\ rpc = "idle" /\ Unsettled => Plans # {}
                      /\ rpc = "reviewed" => plan \in Plans
                      /\ rpc = "undoing" => Undoable
                      /\ rpc = "retiring" => guard = "history" \/ journal \in {"full", "held"}
    BY DEF RecoveryLeadsOn
  <2> USE <1>1 DEF AcquisitionIInv, RecoverableInv
  <2>1. Undoable /\ policy /\ guard # "owner"
    BY DEF Disturbed, Undoable, TypeOK, FilesOK
  <2>2. ASSUME Unsettled, kind = "pull"
        PROVE  Plans # {}
    <3>1. RollbackAccepted
      BY <2>1, <2>2 DEF Unsettled, RollbackAccepted, JournalThere, Retained, SpentAuthority,
         JournalFits, Binding, AcquisitionInv, RowFits, StoppedJob
    <3>q. QED BY <3>1 DEF Plans
  <2>3. ASSUME Unsettled, kind = "clone"
        PROVE  Plans # {}
    <3>1. IntentRead
      BY <2>1, <2>3 DEF Unsettled, IntentRead, Binding, GuardFound, PapersFit, Placed, TypeOK,
         FilesOK
    <3>2. CASE JournalThere
      <4>1. RollbackAccepted
        BY <2>1, <2>3, <3>1, <3>2 DEF RollbackAccepted, SpentAuthority, JournalFits, JournalThere
      <4>q. QED BY <4>1 DEF Plans
    <3>3. CASE ~JournalThere
      <4> DEFINE Ends(e) == {[endpoint |-> e, consumed |-> spent, canon |-> canon]}
      <4>1. ClonePlans = IF "rolled_back" \in receipts THEN Ends("before")
                         ELSE IF "published" \in receipts
                         THEN IF spent /\ canon = "after" THEN Ends("after") ELSE {}
                         ELSE IF canon = "before" THEN Ends("before") ELSE {}
        BY <3>3, Zenon DEF ClonePlans
      <4>2. Ends("before") # {} /\ Ends("after") # {}
        OBVIOUS
      <4>3. "rolled_back" \notin receipts =>
              IF "published" \in receipts THEN spent /\ canon = "after" ELSE canon = "before"
        BY <2>3, <3>3, <2>1 DEF JournalFits, Published, Original, Undoable
      <4> HIDE DEF Ends
      <4>4. ClonePlans # {}
        BY <4>1, <4>2, <4>3
      <4>q. QED BY <2>3, <3>1, <4>4 DEF Plans
    <3>q. QED BY <3>2, <3>3
  <2>4. kind \in {"pull", "clone"}
    BY AcquisitionAssumption DEF TypeOK, FilesOK
  <2>q. QED BY <2>1, <2>2, <2>3, <2>4 DEF CommandFits
<1>q. QED BY <1>1, RecoverableInvariant, PTL

(* The boundary of what a death leaves behind: of the clones with their      *)
(* guard at the path only the interrupted one has no plan, after a death of  *)
(* its gateway, and then for good (jobs.py:333-360).                         *)
THEOREM InterruptedClonesAreStuck == Spec => []OnlyInterruptedIsStuck /\ InterruptedStays
<1>1. AcquisitionIInv /\ RecoverableInv /\ RecoveryLeadsOn => OnlyInterruptedIsStuck
  <2> SUFFICES ASSUME AcquisitionIInv, RecoverableInv, RecoveryLeadsOn, kind = "clone",
                      gateway = "down", row # "running", rpc = "idle", guard = "ours",
                      ~Disturbed, Plans = {}
               PROVE  row = "interrupted" /\ deaths > 0
    BY DEF OnlyInterruptedIsStuck
  <2>1. ~Unsettled
    BY DEF RecoveryLeadsOn
  <2>2. row = "interrupted"
    BY <2>1 DEF Unsettled, StoppedJob, RecoverableInv, PapersFit, DeathFits, AcquisitionIInv,
       TypeOK, FilesOK
  <2>q. QED BY <2>2 DEF RecoverableInv, DeathFits
<1>2. AcquisitionIInv /\ RecoverableInv /\ [Next]_vars =>
        [row = "interrupted" =>
           /\ UNCHANGED <<row, slot, link, spent, papers, held, journal, bundle, receipts>>
           /\ rpc' = "idle"]_vars
  <2> SUFFICES ASSUME AcquisitionIInv, RecoverableInv, Next, row = "interrupted"
               PROVE  /\ UNCHANGED <<row, slot, link, spent, papers, held, journal, bundle,
                                     receipts>>
                      /\ rpc' = "idle"
    OBVIOUS
  <2>1. rpc = "idle"
    BY DEF RecoverableInv, CommandFits, StoppedJob
  <2>2. pc \notin Acquiring /\ pc \notin Ending
    BY DEF AcquisitionIInv, AcquisitionInv, RowFits
  <2>3. ~Acquire
    BY <2>2 DEF Acquire, PrepareClone, BeginClone, WritePrepared, WriteIntent, WritePaper,
       PlaceGuard, RecordGuard, LinkClone, LinkSlot, ClaimClone, MakeClone, AttachClone,
       CloneFails, KeepClaimed, RejectGuard, FinishReject, BeginPull, ClaimPull, RefusePull,
       GuardPull, LinkPull, Integrate, AttachPull, PullFails, Goto, Acquiring
  <2>4. Finalize => EndWorker
    BY <2>2 DEF Finalize, FinalizeUnclean, FinalizeOrdinary, ClaimFinalization,
       ValidateIntent, WriteJournal, MoveGuard, WriteHistoryGuard, BindJournal, Publish,
       WriteReceipt, RetireClone, ResolveClone, UnlinkJournal, PrepareBundle,
       RetireHistory, RetireJournal, ResolvePull, FinishBundle, Complete,
       FailFinalization, Ending, Finalizing, Goto
  <2>5. Recover => PlanRecovery
    BY <2>1 DEF Recover, PlanRecovery, CaptureForClone, SettleClone, BeginRollback, Undo,
       WriteRollback, SettleRollback, RetireRecovered, AbandonRecovery, Recovery
  <2>6. ~PlanRecovery
    BY PlansSay DEF PlanRecovery, StoppedJob, AcquisitionIInv, TypeOK
  <2>7. EndWorker \/ Die \/ Stop \/ Start \/ OwnerActs
    BY <2>3, <2>4, <2>5, <2>6 DEF Next
  <2>8. UNCHANGED <<row, slot, link, spent, papers, held, journal, bundle, receipts, rpc>>
    BY <2>7 DEF EndWorker, Die, Stop, Start, OwnerActs, public, tool, bounds
  <2>q. QED BY <2>1, <2>8
<1>q. QED BY <1>1, <1>2, RecoverableInvariant, StoppedJobsRecover, PTL DEF Spec, InterruptedStays

-----------------------------------------------------------------------------
(* Public requests and downloads (HttpsDownload).                            *)
\* What a download has behind it when it stands at a step.
Fits(c) ==
  /\ on[c] = "transfer" => read[c] \in Folders
  /\ exit[c] = "ok" => read[c] \in Folders
  /\ on[c] \in {"folder", "vacancy", "stage", "receipt", "artifact", "sync"} => exit[c] = "ok"
  /\ on[c] \in {"receipt", "artifact", "sync"} => spool[c] = "whole"
  /\ on[c] \notin {"new", "done"} => folder[c] \in Folders
  /\ on[c] \notin {"artifact", "sync", "leaving", "done"} => linked[c] = {}
  /\ on[c] = "artifact" => linked[c] = {"receipt"}
  /\ on[c] = "sync" => linked[c] = Names
  /\ linked[c] # {} => spool[c] = "whole" /\ exit[c] = "ok"
  /\ "artifact" \in linked[c] => "receipt" \in linked[c]
  /\ told[c] = "success" => linked[c] = Names
DownloadFits ==
  /\ \A c \in Downloads : Fits(c)
  /\ \A c \in Fetches :
       on[c] \notin {"folder", "vacancy", "stage", "receipt", "artifact", "sync"}

\* An entry that names a call is one that call linked, in the directory of its grant.
EntryFits ==
  \A d \in Folders, f \in Names, c \in Downloads :
    entry[d][f] = c => d = folder[c] /\ f \in linked[c]

\* Without the owner a linked receipt is where it was linked.
ReceiptStays ==
  \A c \in Downloads :
    ownerSteps = 0 /\ "receipt" \in linked[c] => entry[folder[c]]["receipt"] = c

DownloadIInv == DownloadTypeOK /\ DownloadFits /\ EntryFits /\ ReceiptStays

(* Every step of a call keeps the invariant ...                              *)
LEMMA CallStepHolds ==
  ASSUME DownloadIInv, NEW c \in Requested, DownloadCall(c)
  PROVE  DownloadIInv'
<1> USE DownloadAssumption DEF DownloadIInv, Step, Tell, Refuse, counters, worker, published,
    outside
<1>1. CASE Authorises(c)
  <2> USE <1>1 DEF Authorises, Approves, Approvals
  <2>1. DownloadTypeOK'
    <3>1. on' \in [Requested -> {"new", "slot", "worker", "transfer", "exit", "folder", "vacancy",
                          "stage", "receipt", "artifact", "sync", "leaving", "done"}]
      BY DEF DownloadTypeOK
    <3>2. told' \in [Requested -> {"nothing", "success", "failed"}]
      BY DEF DownloadTypeOK
    <3>3. folder' \in [Requested -> Approvals]
      BY DEF DownloadTypeOK
    <3>4. busy' \subseteq Downloads
      BY DEF DownloadTypeOK, Requested
    <3>5. UNCHANGED <<read, slots, spool, exit, entry, linked, approval, loaded,
                      ownerSteps, gatewayDeaths>>
      OBVIOUS
    <3>q. QED BY <3>1, <3>2, <3>3, <3>4, <3>5 DEF DownloadTypeOK
  <2>2. DownloadFits'
    BY DEF DownloadFits, Fits, Names, DownloadTypeOK, Requested
  <2>3. EntryFits'
    <3>1. \A x \in Downloads : linked[x] # {} => folder'[x] = folder[x]
      BY DEF DownloadFits, Fits, DownloadTypeOK, Requested
    <3>2. UNCHANGED <<entry, linked, ownerSteps>>
      OBVIOUS
    <3>q. QED BY <3>1, <3>2 DEF EntryFits
  <2>4. ReceiptStays'
    <3>1. \A x \in Downloads : linked[x] # {} => folder'[x] = folder[x]
      BY DEF DownloadFits, Fits, DownloadTypeOK, Requested
    <3>2. UNCHANGED <<entry, linked, ownerSteps>>
      OBVIOUS
    <3>q. QED BY <3>1, <3>2 DEF ReceiptStays
  <2>q. QED BY <2>1, <2>2, <2>3, <2>4
<1>2. CASE AdmitsDownload(c)
  <2> USE <1>2 DEF AdmitsDownload
  <2>1. DownloadTypeOK'
    <3>1. on' \in [Requested -> {"new", "slot", "worker", "transfer", "exit", "folder", "vacancy",
                          "stage", "receipt", "artifact", "sync", "leaving", "done"}]
      BY DEF DownloadTypeOK
    <3>2. told' \in [Requested -> {"nothing", "success", "failed"}]
      BY DEF DownloadTypeOK
    <3>3. slots' \subseteq Requested
      BY DEF DownloadTypeOK
    <3>4. UNCHANGED <<folder, read, busy, spool, exit, entry, linked, approval, loaded,
                      ownerSteps, gatewayDeaths>>
      OBVIOUS
    <3>q. QED BY <3>1, <3>2, <3>3, <3>4 DEF DownloadTypeOK
  <2>2. DownloadFits'
    BY DEF DownloadFits, Fits, Names, DownloadTypeOK, Requested
  <2>3. EntryFits' /\ ReceiptStays'
    BY DEF EntryFits, ReceiptStays
  <2>q. QED BY <2>1, <2>2, <2>3
<1>3. CASE ReopensApproval(c)
  <2> USE <1>3 DEF ReopensApproval, Approves, Approvals
  <2>1. DownloadTypeOK'
    <3>1. on' \in [Requested -> {"new", "slot", "worker", "transfer", "exit", "folder", "vacancy",
                          "stage", "receipt", "artifact", "sync", "leaving", "done"}]
      BY DEF DownloadTypeOK
    <3>2. read' \in [Requested -> Approvals]
      BY DEF DownloadTypeOK
    <3>3. exit' \in [Requested -> {"none", "ok", "denied", "killed"}]
      BY DEF DownloadTypeOK
    <3>4. UNCHANGED <<told, folder, busy, slots, spool, entry, linked, approval, loaded,
                      ownerSteps, gatewayDeaths>>
      OBVIOUS
    <3>q. QED BY <3>1, <3>2, <3>3, <3>4 DEF DownloadTypeOK
  <2>2. DownloadFits'
    BY DEF DownloadFits, Fits, Names, DownloadTypeOK, Requested
  <2>3. EntryFits' /\ ReceiptStays'
    BY DEF EntryFits, ReceiptStays
  <2>q. QED BY <2>1, <2>2, <2>3
<1>4. CASE Transfers(c)
  <2> USE <1>4 DEF Transfers
  <2>1. DownloadTypeOK'
    <3>1. on' \in [Requested -> {"new", "slot", "worker", "transfer", "exit", "folder", "vacancy",
                          "stage", "receipt", "artifact", "sync", "leaving", "done"}]
      BY DEF DownloadTypeOK
    <3>2. spool' \in [Requested -> {"part", "whole"}]
      BY DEF DownloadTypeOK
    <3>3. exit' \in [Requested -> {"none", "ok", "denied", "killed"}]
      BY DEF DownloadTypeOK
    <3>4. UNCHANGED <<told, folder, read, busy, slots, entry, linked, approval, loaded,
                      ownerSteps, gatewayDeaths>>
      OBVIOUS
    <3>q. QED BY <3>1, <3>2, <3>3, <3>4 DEF DownloadTypeOK
  <2>2. DownloadFits'
    BY DEF DownloadFits, Fits, Names, DownloadTypeOK, Requested
  <2>3. EntryFits' /\ ReceiptStays'
    BY DEF EntryFits, ReceiptStays
  <2>q. QED BY <2>1, <2>2, <2>3
<1>5. CASE TimesOut(c)
  <2> USE <1>5 DEF TimesOut
  <2>1. DownloadTypeOK'
    <3>1. on' \in [Requested -> {"new", "slot", "worker", "transfer", "exit", "folder", "vacancy",
                          "stage", "receipt", "artifact", "sync", "leaving", "done"}]
      BY DEF DownloadTypeOK
    <3>2. exit' \in [Requested -> {"none", "ok", "denied", "killed"}]
      BY DEF DownloadTypeOK
    <3>3. spool' \in [Requested -> {"part", "whole"}]
      BY DEF DownloadTypeOK
    <3>4. UNCHANGED <<told, folder, read, busy, slots, entry, linked, approval, loaded,
                      ownerSteps, gatewayDeaths>>
      OBVIOUS
    <3>q. QED BY <3>1, <3>2, <3>3, <3>4 DEF DownloadTypeOK
  <2>2. DownloadFits'
    BY DEF DownloadFits, Fits, Names, DownloadTypeOK, Requested
  <2>3. EntryFits' /\ ReceiptStays'
    BY DEF EntryFits, ReceiptStays
  <2>q. QED BY <2>1, <2>2, <2>3
<1>6. CASE Reaps(c)
  <2> USE <1>6 DEF Reaps
  <2>1. DownloadTypeOK'
    <3>1. slots' \subseteq Requested
      BY DEF DownloadTypeOK
    <3>2. on' \in [Requested -> {"new", "slot", "worker", "transfer", "exit", "folder", "vacancy",
                          "stage", "receipt", "artifact", "sync", "leaving", "done"}]
      BY DEF DownloadTypeOK
    <3>3. told' \in [Requested -> {"nothing", "success", "failed"}]
      BY DEF DownloadTypeOK
    <3>4. UNCHANGED <<folder, read, busy, spool, exit, entry, linked, approval, loaded,
                      ownerSteps, gatewayDeaths>>
      OBVIOUS
    <3>q. QED BY <3>1, <3>2, <3>3, <3>4 DEF DownloadTypeOK
  <2>2. DownloadFits'
    BY DEF DownloadFits, Fits, Names, DownloadTypeOK, Requested
  <2>3. EntryFits' /\ ReceiptStays'
    BY DEF EntryFits, ReceiptStays
  <2>q. QED BY <2>1, <2>2, <2>3
<1>7. CASE OpensFolder(c)
  <2> USE <1>7 DEF OpensFolder
  <2>1. DownloadTypeOK'
    <3>1. on' \in [Requested -> {"new", "slot", "worker", "transfer", "exit", "folder", "vacancy",
                          "stage", "receipt", "artifact", "sync", "leaving", "done"}]
      BY DEF DownloadTypeOK
    <3>2. told' \in [Requested -> {"nothing", "success", "failed"}]
      BY DEF DownloadTypeOK
    <3>3. UNCHANGED <<folder, read, busy, slots, spool, exit, entry, linked, approval,
                      loaded, ownerSteps, gatewayDeaths>>
      OBVIOUS
    <3>q. QED BY <3>1, <3>2, <3>3 DEF DownloadTypeOK
  <2>2. DownloadFits'
    BY DEF DownloadFits, Fits, Names, DownloadTypeOK, Requested
  <2>3. EntryFits' /\ ReceiptStays'
    BY DEF EntryFits, ReceiptStays
  <2>q. QED BY <2>1, <2>2, <2>3
<1>8. CASE FindsVacancy(c)
  <2> USE <1>8 DEF FindsVacancy
  <2>1. DownloadTypeOK'
    <3>1. on' \in [Requested -> {"new", "slot", "worker", "transfer", "exit", "folder", "vacancy",
                          "stage", "receipt", "artifact", "sync", "leaving", "done"}]
      BY DEF DownloadTypeOK
    <3>2. told' \in [Requested -> {"nothing", "success", "failed"}]
      BY DEF DownloadTypeOK
    <3>3. UNCHANGED <<folder, read, busy, slots, spool, exit, entry, linked, approval,
                      loaded, ownerSteps, gatewayDeaths>>
      OBVIOUS
    <3>q. QED BY <3>1, <3>2, <3>3 DEF DownloadTypeOK
  <2>2. DownloadFits'
    BY DEF DownloadFits, Fits, Names, DownloadTypeOK, Requested
  <2>3. EntryFits' /\ ReceiptStays'
    BY DEF EntryFits, ReceiptStays
  <2>q. QED BY <2>1, <2>2, <2>3
<1>9. CASE Stages(c)
  <2> USE <1>9 DEF Stages
  <2>1. DownloadTypeOK'
    <3>1. on' \in [Requested -> {"new", "slot", "worker", "transfer", "exit", "folder", "vacancy",
                          "stage", "receipt", "artifact", "sync", "leaving", "done"}]
      BY DEF DownloadTypeOK
    <3>2. told' \in [Requested -> {"nothing", "success", "failed"}]
      BY DEF DownloadTypeOK
    <3>3. UNCHANGED <<folder, read, busy, slots, spool, exit, entry, linked, approval,
                      loaded, ownerSteps, gatewayDeaths>>
      OBVIOUS
    <3>q. QED BY <3>1, <3>2, <3>3 DEF DownloadTypeOK
  <2>2. DownloadFits'
    BY DEF DownloadFits, Fits, Names, DownloadTypeOK, Requested
  <2>3. EntryFits' /\ ReceiptStays'
    BY DEF EntryFits, ReceiptStays
  <2>q. QED BY <2>1, <2>2, <2>3
<1>10. CASE LinksReceipt(c)
  <2> USE <1>10 DEF LinksReceipt, LinkAs
  <2>0. c \in Downloads /\ folder[c] \in Folders
    BY DEF DownloadFits, Fits, Requested
  <2>1. DownloadTypeOK'
    <3>1. on' \in [Requested -> {"new", "slot", "worker", "transfer", "exit", "folder", "vacancy",
                          "stage", "receipt", "artifact", "sync", "leaving", "done"}]
      BY DEF DownloadTypeOK
    <3>2. told' \in [Requested -> {"nothing", "success", "failed"}]
      BY DEF DownloadTypeOK
    <3>3. entry' \in [Folders -> [Names -> Owned \cup Requested \cup {Vacant}]]
      <4>1. CASE UNCHANGED entry
        BY <4>1 DEF DownloadTypeOK
      <4>2. CASE entry' = [entry EXCEPT ![folder[c]]["receipt"] = c]
        <5>1. entry[folder[c]] \in [Names -> Owned \cup Requested \cup {Vacant}]
          BY <2>0 DEF DownloadTypeOK
        <5>2. [entry[folder[c]] EXCEPT !["receipt"] = c] \in [Names -> Owned \cup Requested \cup {Vacant}]
          BY <5>1
        <5>q. QED BY <2>0, <4>2, <5>2 DEF DownloadTypeOK
      <4>q. QED BY <4>1, <4>2
    <3>4. linked' \in [Requested -> SUBSET Names]
      BY <2>0 DEF DownloadTypeOK, Names
    <3>5. UNCHANGED <<approval, loaded, busy, slots, folder, read, spool, exit, ownerSteps,
                      gatewayDeaths>>
      OBVIOUS
    <3>q. QED BY <3>1, <3>2, <3>3, <3>4, <3>5 DEF DownloadTypeOK
  <2>2. DownloadFits'
    BY DEF DownloadFits, Fits, Names, DownloadTypeOK, Requested
  <2>3. EntryFits'
    <3>1. CASE UNCHANGED <<entry, linked>>
      BY <3>1 DEF EntryFits
    <3>2. CASE /\ entry' = [entry EXCEPT ![folder[c]]["receipt"] = c]
               /\ linked' = [linked EXCEPT ![c] = @ \cup {"receipt"}]
      <4> SUFFICES ASSUME NEW d \in Folders, NEW f \in Names, NEW x \in Downloads,
                          entry'[d][f] = x
                   PROVE  d = folder[x] /\ f \in linked'[x]
        BY DEF EntryFits
      <4>1. CASE d = folder[c] /\ f = "receipt"
        BY <2>0, <3>2, <4>1 DEF DownloadTypeOK, Requested
      <4>2. CASE ~(d = folder[c] /\ f = "receipt")
        <5>1. entry[d][f] = x
          BY <2>0, <3>2, <4>2 DEF DownloadTypeOK
        <5>2. linked[x] \subseteq linked'[x]
          BY <3>2 DEF DownloadTypeOK, Requested
        <5>q. QED BY <5>1, <5>2 DEF EntryFits
      <4>q. QED BY <4>1, <4>2
    <3>q. QED BY <3>1, <3>2
  <2>4. ReceiptStays'
    <3>1. CASE UNCHANGED <<entry, linked>>
      BY <3>1 DEF ReceiptStays
    <3>2. CASE /\ entry[folder[c]]["receipt"] = Vacant
               /\ entry' = [entry EXCEPT ![folder[c]]["receipt"] = c]
               /\ linked' = [linked EXCEPT ![c] = @ \cup {"receipt"}]
      <4> SUFFICES ASSUME NEW x \in Downloads, ownerSteps = 0, "receipt" \in linked'[x]
                   PROVE  entry'[folder[x]]["receipt"] = x
        BY DEF ReceiptStays
      <4>1. CASE x = c
        BY <2>0, <3>2, <4>1 DEF DownloadTypeOK, Names
      <4>2. CASE x # c
        <5>1. entry[folder[x]]["receipt"] = x
          BY <3>2, <4>2 DEF ReceiptStays, DownloadTypeOK, Requested
        <5>2. folder[x] # folder[c]
          BY <3>2, <5>1 DEF Requested
        <5>q. QED BY <2>0, <3>2, <5>1, <5>2 DEF DownloadTypeOK
      <4>q. QED BY <4>1, <4>2
    <3>q. QED BY <3>1, <3>2
  <2>q. QED BY <2>1, <2>2, <2>3, <2>4
<1>11. CASE LinksArtifact(c)
  <2> USE <1>11 DEF LinksArtifact, LinkAs
  <2>0. c \in Downloads /\ folder[c] \in Folders
    BY DEF DownloadFits, Fits, Requested
  <2>1. DownloadTypeOK'
    <3>1. on' \in [Requested -> {"new", "slot", "worker", "transfer", "exit", "folder", "vacancy",
                          "stage", "receipt", "artifact", "sync", "leaving", "done"}]
      BY DEF DownloadTypeOK
    <3>2. told' \in [Requested -> {"nothing", "success", "failed"}]
      BY DEF DownloadTypeOK
    <3>3. entry' \in [Folders -> [Names -> Owned \cup Requested \cup {Vacant}]]
      <4>1. CASE UNCHANGED entry
        BY <4>1 DEF DownloadTypeOK
      <4>2. CASE entry' = [entry EXCEPT ![folder[c]]["artifact"] = c]
        <5>1. entry[folder[c]] \in [Names -> Owned \cup Requested \cup {Vacant}]
          BY <2>0 DEF DownloadTypeOK
        <5>2. [entry[folder[c]] EXCEPT !["artifact"] = c] \in [Names -> Owned \cup Requested \cup {Vacant}]
          BY <5>1
        <5>q. QED BY <2>0, <4>2, <5>2 DEF DownloadTypeOK
      <4>q. QED BY <4>1, <4>2
    <3>4. linked' \in [Requested -> SUBSET Names]
      BY <2>0 DEF DownloadTypeOK, Names
    <3>5. UNCHANGED <<approval, loaded, busy, slots, folder, read, spool, exit, ownerSteps,
                      gatewayDeaths>>
      OBVIOUS
    <3>q. QED BY <3>1, <3>2, <3>3, <3>4, <3>5 DEF DownloadTypeOK
  <2>2. DownloadFits'
    BY DEF DownloadFits, Fits, Names, DownloadTypeOK, Requested
  <2>3. EntryFits'
    <3>1. CASE UNCHANGED <<entry, linked>>
      BY <3>1 DEF EntryFits
    <3>2. CASE /\ entry' = [entry EXCEPT ![folder[c]]["artifact"] = c]
               /\ linked' = [linked EXCEPT ![c] = @ \cup {"artifact"}]
      <4> SUFFICES ASSUME NEW d \in Folders, NEW f \in Names, NEW x \in Downloads,
                          entry'[d][f] = x
                   PROVE  d = folder[x] /\ f \in linked'[x]
        BY DEF EntryFits
      <4>1. CASE d = folder[c] /\ f = "artifact"
        BY <2>0, <3>2, <4>1 DEF DownloadTypeOK, Requested
      <4>2. CASE ~(d = folder[c] /\ f = "artifact")
        <5>1. entry[d][f] = x
          BY <2>0, <3>2, <4>2 DEF DownloadTypeOK
        <5>2. linked[x] \subseteq linked'[x]
          BY <3>2 DEF DownloadTypeOK, Requested
        <5>q. QED BY <5>1, <5>2 DEF EntryFits
      <4>q. QED BY <4>1, <4>2
    <3>q. QED BY <3>1, <3>2
  <2>4. ReceiptStays'
    <3>1. CASE UNCHANGED <<entry, linked>>
      BY <3>1 DEF ReceiptStays
    <3>2. CASE /\ entry[folder[c]]["artifact"] = Vacant
               /\ entry' = [entry EXCEPT ![folder[c]]["artifact"] = c]
               /\ linked' = [linked EXCEPT ![c] = @ \cup {"artifact"}]
      <4> SUFFICES ASSUME NEW x \in Downloads, ownerSteps = 0, "receipt" \in linked'[x]
                   PROVE  entry'[folder[x]]["receipt"] = x
        BY DEF ReceiptStays
      <4>1. "receipt" \in linked[x]
        BY <3>2 DEF DownloadTypeOK, Requested
      <4>2. entry[folder[x]]["receipt"] = x
        BY <4>1 DEF ReceiptStays
      <4>q. QED BY <2>0, <3>2, <4>2 DEF DownloadTypeOK, Names
    <3>q. QED BY <3>1, <3>2
  <2>q. QED BY <2>1, <2>2, <2>3, <2>4
<1>12. CASE Synced(c)
  <2> USE <1>12 DEF Synced
  <2>1. DownloadTypeOK'
    <3>1. on' \in [Requested -> {"new", "slot", "worker", "transfer", "exit", "folder", "vacancy",
                          "stage", "receipt", "artifact", "sync", "leaving", "done"}]
      BY DEF DownloadTypeOK
    <3>2. told' \in [Requested -> {"nothing", "success", "failed"}]
      BY DEF DownloadTypeOK
    <3>3. UNCHANGED <<folder, read, busy, slots, spool, exit, entry, linked, approval,
                      loaded, ownerSteps, gatewayDeaths>>
      OBVIOUS
    <3>q. QED BY <3>1, <3>2, <3>3 DEF DownloadTypeOK
  <2>2. DownloadFits'
    BY DEF DownloadFits, Fits, Names, DownloadTypeOK, Requested
  <2>3. EntryFits' /\ ReceiptStays'
    BY DEF EntryFits, ReceiptStays
  <2>q. QED BY <2>1, <2>2, <2>3
<1>13. CASE ReleasesCall(c)
  <2> USE <1>13 DEF ReleasesCall
  <2>1. DownloadTypeOK'
    <3>1. on' \in [Requested -> {"new", "slot", "worker", "transfer", "exit", "folder", "vacancy",
                          "stage", "receipt", "artifact", "sync", "leaving", "done"}]
      BY DEF DownloadTypeOK
    <3>2. slots' \subseteq Requested
      BY DEF DownloadTypeOK
    <3>3. busy' \subseteq Downloads
      BY DEF DownloadTypeOK, Requested
    <3>4. UNCHANGED <<told, folder, read, spool, exit, entry, linked, approval, loaded,
                      ownerSteps, gatewayDeaths>>
      OBVIOUS
    <3>q. QED BY <3>1, <3>2, <3>3, <3>4 DEF DownloadTypeOK
  <2>2. DownloadFits'
    BY DEF DownloadFits, Fits, Names, DownloadTypeOK, Requested
  <2>3. EntryFits' /\ ReceiptStays'
    BY DEF EntryFits, ReceiptStays
  <2>q. QED BY <2>1, <2>2, <2>3
<1>q. QED BY <1>1, <1>2, <1>3, <1>4, <1>5, <1>6, <1>7, <1>8, <1>9, <1>10, <1>11, <1>12,
    <1>13 DEF DownloadCall

(* ... and so do the owner and the death of the gateway.                     *)
LEMMA OutsideHolds ==
  ASSUME DownloadIInv, EditsApproval \/ EditsFolder \/ GatewayDies
  PROVE  DownloadIInv'
<1> USE DownloadAssumption DEF DownloadIInv, counters, worker, published, outside
<1>1. CASE EditsApproval
  <2> USE <1>1 DEF EditsApproval, OwnerStep, CallsRest
  <2>1. DownloadTypeOK'
    <3>1. approval' \in Approvals
      BY DEF DownloadTypeOK
    <3>2. ownerSteps' \in 0..MaxOwnerSteps
      BY DEF DownloadTypeOK
    <3>3. UNCHANGED <<on, told, folder, read, busy, slots, spool, exit, entry, linked,
                      loaded, gatewayDeaths>>
      OBVIOUS
    <3>q. QED BY <3>1, <3>2, <3>3 DEF DownloadTypeOK
  <2>2. ReceiptStays'
    BY DEF ReceiptStays, DownloadTypeOK, Requested
  <2>3. DownloadFits' /\ EntryFits'
    BY DEF DownloadFits, Fits, Names, EntryFits
  <2>q. QED BY <2>1, <2>2, <2>3
<1>2. CASE EditsFolder
  <2> USE <1>2 DEF EditsFolder, OwnerStep, CallsRest
  <2>1. DownloadTypeOK'
    <3>1. entry' \in [Folders -> [Names -> Owned \cup Requested \cup {Vacant}]]
      BY DEF DownloadTypeOK, Requested
    <3>2. ownerSteps' \in 0..MaxOwnerSteps
      BY DEF DownloadTypeOK
    <3>3. UNCHANGED <<on, told, folder, read, busy, slots, spool, exit, linked, approval,
                      loaded, gatewayDeaths>>
      OBVIOUS
    <3>q. QED BY <3>1, <3>2, <3>3 DEF DownloadTypeOK
  <2>2. EntryFits'
    BY DEF EntryFits, DownloadTypeOK, Requested
  <2>3. ReceiptStays'
    BY DEF ReceiptStays, DownloadTypeOK, Requested
  <2>4. DownloadFits'
    BY DEF DownloadFits, Fits, Names
  <2>q. QED BY <2>1, <2>2, <2>3, <2>4
<1>3. CASE GatewayDies
  <2> USE <1>3 DEF GatewayDies
  <2>1. DownloadTypeOK'
    <3>1. gatewayDeaths' \in 0..MaxGatewayDeaths
      BY DEF DownloadTypeOK
    <3>2. on' \in [Requested -> {"new", "slot", "worker", "transfer", "exit", "folder", "vacancy",
                          "stage", "receipt", "artifact", "sync", "leaving", "done"}]
      BY DEF DownloadTypeOK
    <3>3. busy' \subseteq Downloads
      BY DEF DownloadTypeOK, Requested
    <3>4. slots' \subseteq Requested
      BY DEF DownloadTypeOK
    <3>5. loaded' \in Approvals
      BY DEF DownloadTypeOK
    <3>6. UNCHANGED <<told, folder, read, spool, exit, entry, linked, approval, ownerSteps>>
      OBVIOUS
    <3>q. QED BY <3>1, <3>2, <3>3, <3>4, <3>5, <3>6 DEF DownloadTypeOK
  <2>2. DownloadFits'
    BY DEF DownloadFits, Fits, Names, DownloadTypeOK, Requested
  <2>3. EntryFits' /\ ReceiptStays'
    BY DEF EntryFits, ReceiptStays
  <2>q. QED BY <2>1, <2>2, <2>3
<1>q. QED BY <1>1, <1>2, <1>3

LEMMA DownloadInitHolds ==
  ASSUME DownloadInit
  PROVE  DownloadIInv
<1> USE DownloadAssumption DEF DownloadInit, Requested, Names
<1>1. DownloadTypeOK
  BY DEF DownloadTypeOK, Approvals
<1>2. DownloadFits
  BY DEF DownloadFits, Fits
<1>3. EntryFits /\ ReceiptStays
  BY DEF EntryFits, ReceiptStays
<1>q. QED BY <1>1, <1>2, <1>3 DEF DownloadIInv

LEMMA DownloadStepHolds ==
  ASSUME DownloadIInv, [DownloadNext]_downloadVars
  PROVE  DownloadIInv'
<1>1. CASE UNCHANGED downloadVars
  <2> USE <1>1 DEF downloadVars, DownloadIInv
  <2>1. DownloadTypeOK'
    BY DEF DownloadTypeOK
  <2>2. DownloadFits'
    BY DEF DownloadFits, Fits
  <2>3. EntryFits' /\ ReceiptStays'
    BY DEF EntryFits, ReceiptStays
  <2>q. QED BY <2>1, <2>2, <2>3
<1>2. CASE DownloadNext
  BY <1>2, CallStepHolds, OutsideHolds DEF DownloadNext
<1>q. QED BY <1>1, <1>2

LEMMA DownloadInvariant == DownloadSpec => []DownloadIInv
<1>q. QED BY DownloadInitHolds, DownloadStepHolds, PTL DEF DownloadSpec

(* A published artifact no owner touched has its own receipt beside it,      *)
(* whenever the gateway died or lost a race, and both come from a whole body *)
(* fetched under an approval that then stood on disk                         *)
(* (https_download.py).                                                      *)
THEOREM ArtifactsHaveReceipts == DownloadSpec => []ArtifactHasReceipt
<1>1. ASSUME DownloadIInv
      PROVE  ArtifactHasReceipt
  <2> SUFFICES ASSUME NEW d \in Folders, NEW c \in Downloads
               PROVE  /\ entry[d]["artifact"] = c => "receipt" \in linked[c]
                      /\ c \in {entry[d][f] : f \in Names} =>
                           spool[c] = "whole" /\ exit[c] = "ok" /\ read[c] \in Folders
                      /\ entry[d]["artifact"] = c /\ entry[d]["receipt"] # c => ownerSteps > 0
    BY DEF ArtifactHasReceipt
  <2> USE <1>1 DEF DownloadIInv
  <2>1. Fits(c)
    BY DEF DownloadFits
  <2>2. \A f \in Names : entry[d][f] = c => d = folder[c] /\ f \in linked[c]
    BY DEF EntryFits
  <2>3. entry[d]["artifact"] = c => d = folder[c] /\ "receipt" \in linked[c]
    BY <2>1, <2>2 DEF Fits, Names
  <2>4. c \in {entry[d][f] : f \in Names} =>
          spool[c] = "whole" /\ exit[c] = "ok" /\ read[c] \in Folders
    BY <2>1, <2>2 DEF Fits
  <2>5. entry[d]["artifact"] = c /\ entry[d]["receipt"] # c => ownerSteps > 0
    BY <2>3, DownloadAssumption DEF ReceiptStays, DownloadTypeOK
  <2>q. QED BY <2>3, <2>4, <2>5
<1>q. QED BY <1>1, DownloadInvariant, PTL

(* "Success requires both links", and nothing a call links ever replaces an  *)
(* entry, the owner's or another call's (https_download.py).                 *)
THEOREM NothingIsOverwritten == DownloadSpec => NoOverwriteNoHalfSuccess
<1> DEFINE Linked == \A c \in Downloads : told'[c] = "success" => linked'[c] = Names
           Kept == \A d \in Folders, f \in Names :
                     entry'[d][f] # entry[d][f] /\ entry[d][f] # Vacant => ownerSteps' > ownerSteps
<1>1. ASSUME DownloadIInv'
      PROVE  Linked
  BY <1>1 DEF DownloadIInv, DownloadFits, Fits
<1>2. ASSUME DownloadIInv, [DownloadNext]_downloadVars
      PROVE  Kept
  <2> USE <1>2 DEF DownloadIInv
  <2>1. ASSUME NEW c \in Requested, LinksReceipt(c) \/ LinksArtifact(c)
        PROVE  Kept
    BY <2>1 DEF LinksReceipt, LinksArtifact, LinkAs, published, DownloadTypeOK
  <2>2. CASE EditsApproval \/ EditsFolder
    BY <2>2, DownloadAssumption DEF EditsApproval, EditsFolder, OwnerStep, DownloadTypeOK
  <2>3. CASE UNCHANGED entry
    BY <2>3
  <2>4. ASSUME NEW c \in Requested, DownloadCall(c)
        PROVE  UNCHANGED entry \/ LinksReceipt(c) \/ LinksArtifact(c)
    BY <2>4 DEF DownloadCall, Authorises, AdmitsDownload, ReopensApproval, Transfers,
        TimesOut,
                Reaps, OpensFolder, FindsVacancy, Stages, Synced, ReleasesCall, published
  <2>5. GatewayDies \/ UNCHANGED downloadVars => UNCHANGED entry
    BY DEF GatewayDies, downloadVars, published
  <2>q. QED BY <2>1, <2>2, <2>3, <2>4, <2>5 DEF DownloadNext
<1>3. DownloadIInv /\ DownloadIInv' /\ [DownloadNext]_downloadVars => [Linked /\ Kept]_downloadVars
  BY <1>1, <1>2
<1>q. QED BY <1>3, DownloadInvariant, PTL DEF DownloadSpec, NoOverwriteNoHalfSuccess

=============================================================================
