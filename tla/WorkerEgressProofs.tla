------------------------- MODULE WorkerEgressProofs -------------------------
(***************************************************************************)
(* What an endpoint guarantees for any number of connections and any limit: *)
(* it is silent once closed, carries one inspected request per link and     *)
(* serves no more links at a time than it has permits; and what the socket   *)
(* of a job's Git service leaves behind, whoever else uses its name.         *)
(***************************************************************************)
EXTENDS WorkerEgress, WorkerGitSockets, FiniteSetTheorems, TLAPS

Unsent == {"new", "refused", "queued", "held", "starting", "stranded", "reading", "wrapping",
           "asking", "connecting", "connected", "sending"}
Holding == Stages \ {"new", "refused", "queued", "done"}
Served == {l \in Links : stage[l] \in Holding}

(* Every permit that is gone belongs to one link that was accepted.          *)
PermitsCounted ==
  /\ permits + Cardinality(Served) = EgressLimit
  /\ \A l, k \in acceptor.hand : l = k
  /\ \A l \in acceptor.hand : /\ acceptor.pc = "admit" => stage[l] = "held"
                              /\ acceptor.pc = "start" => stage[l] = "starting"

(* Nothing is registered behind close()'s back, but with the provider: what
   is registered is in the snapshot until it is shut.  Only the provider's
   sockets are shut before they are closed, where a handler may break.       *)
CloseCovers ==
  /\ closer # "idle" => halted
  /\ closer = "closing" => served = "provider"
  /\ \A l \in Links : stage[l] = "broken" => served = "provider" /\ halted
  /\ served # "provider" =>
       /\ closer = "cutting" => \A c \in connections : c \in snapshot.sockets \/ c \in cut
       /\ closer \in {"joining", "closed", "failed"} => \A c \in connections : c \in cut

(* A link that may send has registered its upstream socket.                 *)
SendersRegistered ==
  \A l \in Links :
    /\ stage[l] \in {"sending", "upgrading", "relaying"} => <<l, "upstream">> \in connections
    /\ stage[l] \in {"wrapping", "asking"} => served = "provider"

(* What a link may still send was decided by its one inspected request.      *)
RequestDecides ==
  \A l \in Links :
    /\ stage[l] \in Unsent => forwards[l] = 0
    /\ stage[l] \in {"upgrading", "answering"} => forwards[l] <= 1
    /\ stage[l] \in {"connecting", "connected", "sending"} =>
         ~(served = "enforced" /\ asks[l] = "upgrade")
    /\ stage[l] = "upgrading" => served = "headroom" /\ asks[l] = "upgrade"
    /\ stage[l] = "relaying" =>
         served = "public" \/ (served = "headroom" /\ asks[l] = "upgrade")

(* Permits and links agree: no permit is lost but with a link that still holds
   it, and a link holds it for ever only when its thread could not be started
   or when the provider's handler broke while close() ran.                   *)
PermitsAccounted ==
  /\ permits = EgressLimit - Cardinality(Served) /\ Cardinality(Served) <= EgressLimit
  /\ \A l \in Links : stage[l] = "broken" => served = "provider" /\ halted

IInv == /\ EgressTypeOK /\ PermitsCounted /\ CloseCovers /\ SendersRegistered
        /\ RequestDecides /\ OneInspectedRequest /\ SilentAfterClose

(* The types the steps below need.                                          *)
Typed ==
  /\ stage \in [Links -> Stages] /\ asks \in [Links -> RequestClasses]
  /\ forwards \in [Links -> Nat] /\ permits \in Nat
  /\ acceptor \in [pc : {"top", "waiting", "admit", "start", "gone"}, hand : SUBSET Links]
  /\ snapshot \in [sockets : SUBSET (Links \X Sides), threads : SUBSET Links]
  /\ served \in {"public", "headroom", "enforced", "provider"}

-----------------------------------------------------------------------------
LEMMA TypeGives == EgressTypeOK => Typed
<1> SUFFICES ASSUME EgressTypeOK PROVE Typed
  OBVIOUS
<1>1. 0..EgressLimit \subseteq Nat /\ 0..MaxForwards \subseteq Nat
  BY EgressAssumption
<1>2. forwards \in [Links -> Nat] /\ permits \in Nat
  BY <1>1 DEF EgressTypeOK
<1>3. served \in {"public", "headroom", "enforced", "provider"}
  BY EgressAssumption DEF EgressTypeOK
<1>q. QED BY <1>2, <1>3 DEF EgressTypeOK, Typed

LEMMA ServedIsFinite == IsFiniteSet(Served) /\ Cardinality(Served) \in Nat
BY EgressAssumption, FS_Subset, FS_CardinalityType DEF Served

(* A permit is taken by one link, kept along its way, and given back once.   *)
LEMMA TakesOne ==
  ASSUME Typed, NEW l \in Links, NEW s \in Holding, stage[l] \notin Holding, To(l, s)
  PROVE  Cardinality(Served') = Cardinality(Served) + 1
<1>1. Served' = Served \cup {l} /\ l \notin Served
  BY DEF Served, To, Typed, Holding
<1>q. QED BY <1>1, ServedIsFinite, FS_AddElement

LEMMA GivesOne ==
  ASSUME Typed, NEW l \in Links, NEW s \in Stages \ Holding, stage[l] \in Holding, To(l, s)
  PROVE  Cardinality(Served') = Cardinality(Served) - 1
<1>1. Served' = Served \ {l} /\ l \in Served
  BY DEF Served, To, Typed, Holding
<1>q. QED BY <1>1, ServedIsFinite, FS_RemoveElement

LEMMA KeepsAll ==
  ASSUME Typed, NEW l \in Links, NEW s \in Stages,
         s \in Holding <=> stage[l] \in Holding, To(l, s)
  PROVE  Cardinality(Served') = Cardinality(Served)
<1>1. Served' = Served
  BY DEF Served, To, Typed, Holding
<1>q. QED BY <1>1

LEMMA InitHolds == EgressInit => IInv
<1> SUFFICES ASSUME EgressInit PROVE IInv
  OBVIOUS
<1>1. EgressTypeOK
  <2>1. asks \in [Links -> RequestClasses] /\ stage \in [Links -> Stages]
    BY DEF EgressInit, RequestClasses, Stages
  <2>2. permits \in 0..EgressLimit /\ startFailures \in 0..MaxStartFailures
    BY EgressAssumption DEF EgressInit
  <2>3. forwards \in [Links -> 0..MaxForwards]
    BY EgressAssumption DEF EgressInit
  <2>4. /\ acceptor \in [pc : {"top", "waiting", "admit", "start", "gone"}, hand : SUBSET Links]
        /\ snapshot \in [sockets : SUBSET (Links \X Sides), threads : SUBSET Links]
    BY DEF EgressInit
  <2>q. QED BY <2>1, <2>2, <2>3, <2>4 DEF EgressInit, EgressTypeOK
<1>2. Served = {}
  BY DEF EgressInit, Served, Holding
<1>3. PermitsCounted
  BY <1>2, EgressAssumption, FS_EmptySet DEF EgressInit, PermitsCounted
<1>4. CloseCovers /\ SendersRegistered /\ SilentAfterClose
  BY DEF EgressInit, CloseCovers, SendersRegistered, SilentAfterClose
<1>5. RequestDecides /\ OneInspectedRequest
  BY DEF EgressInit, RequestDecides, OneInspectedRequest
<1>q. QED BY <1>1, <1>3, <1>4, <1>5 DEF IInv

-----------------------------------------------------------------------------
LEMMA LinkStepHolds ==
  ASSUME IInv, NEW u \in Links, BridgeOpens(u) \/ BridgeEnds(u) \/ HandlerStep(u) \/ RelaysBlock(u)
  PROVE  IInv'
<1>t. Typed
  BY TypeGives DEF IInv
<1> USE DEF IInv, handlerSide, closerSide
<1>1. CASE BridgeOpens(u)
  <2> USE <1>1 DEF BridgeOpens
  <2>c. Cardinality(Served') = Cardinality(Served)
    BY <1>t, KeepsAll DEF Holding, Stages, To, Typed
  <2>2. PermitsCounted'
    BY <1>t, <2>c, ServedIsFinite DEF PermitsCounted, To, Served, Typed
  <2>1. EgressTypeOK'
    BY <1>t, <2>2, ServedIsFinite, EgressAssumption DEF EgressTypeOK, To, Stages,
        PermitsCounted, Typed, Sides, RequestClasses
  <2>3. CloseCovers'
    BY <1>t DEF CloseCovers, To, Typed
  <2>4. SendersRegistered'
    BY <1>t DEF SendersRegistered, To, Typed
  <2>5. RequestDecides'
    BY <1>t DEF RequestDecides, To, Unsent, RequestClasses, Typed
  <2>6. OneInspectedRequest'
    BY <1>t DEF OneInspectedRequest, To, RequestDecides, Unsent, Typed
  <2>7. SilentAfterClose'
    BY <1>t DEF SilentAfterClose, To, CloseCovers, SendersRegistered, Closed, Typed
  <2>q. QED BY <2>1, <2>2, <2>3, <2>4, <2>5, <2>6, <2>7 DEF IInv
<1>2. CASE BridgeEnds(u)
  <2> USE <1>2 DEF BridgeEnds
  <2>c. Cardinality(Served') = Cardinality(Served)
    BY DEF Served
  <2>2. PermitsCounted'
    BY <1>t, <2>c, ServedIsFinite DEF PermitsCounted, To, Served, Typed
  <2>1. EgressTypeOK'
    BY <1>t, <2>2, ServedIsFinite, EgressAssumption DEF EgressTypeOK, To, Stages,
        PermitsCounted, Typed, Sides, RequestClasses
  <2>3. CloseCovers'
    BY <1>t DEF CloseCovers, To, Typed
  <2>4. SendersRegistered'
    BY <1>t DEF SendersRegistered, To, Typed
  <2>5. RequestDecides'
    BY <1>t DEF RequestDecides, To, Unsent, RequestClasses, Typed
  <2>6. OneInspectedRequest'
    BY <1>t DEF OneInspectedRequest, To, RequestDecides, Unsent, Typed
  <2>7. SilentAfterClose'
    BY <1>t DEF SilentAfterClose, To, CloseCovers, SendersRegistered, Closed, Typed
  <2>q. QED BY <2>1, <2>2, <2>3, <2>4, <2>5, <2>6, <2>7 DEF IInv
<1>3. CASE ReadsRequest(u)
  <2> USE <1>3 DEF ReadsRequest, HandlerRests, ConnectAdmits, HeadroomAdmits
  <2>c. Cardinality(Served') = Cardinality(Served)
    BY <1>t, KeepsAll DEF Holding, Stages, To, Typed
  <2>2. PermitsCounted'
    BY <1>t, <2>c, ServedIsFinite DEF PermitsCounted, To, Served, Typed
  <2>1. EgressTypeOK'
    BY <1>t, <2>2, ServedIsFinite, EgressAssumption DEF EgressTypeOK, To, Stages,
        PermitsCounted, Typed, Sides, RequestClasses
  <2>3. CloseCovers'
    BY <1>t DEF CloseCovers, To, Typed
  <2>4. SendersRegistered'
    BY <1>t DEF SendersRegistered, To, Typed
  <2>5. RequestDecides'
    BY <1>t DEF RequestDecides, To, Unsent, RequestClasses, Typed
  <2>6. OneInspectedRequest'
    BY <1>t DEF OneInspectedRequest, To, RequestDecides, Unsent, Typed
  <2>7. SilentAfterClose'
    BY <1>t DEF SilentAfterClose, To, CloseCovers, SendersRegistered, Closed, Typed
  <2>q. QED BY <2>1, <2>2, <2>3, <2>4, <2>5, <2>6, <2>7 DEF IInv
<1>4. CASE RegistersDownstream(u)
  <2> USE <1>4 DEF RegistersDownstream, HandlerRests, Sides
  <2>c. Cardinality(Served') = Cardinality(Served)
    BY <1>t, KeepsAll DEF Holding, Stages, To, Typed
  <2>2. PermitsCounted'
    BY <1>t, <2>c, ServedIsFinite DEF PermitsCounted, To, Served, Typed
  <2>1. EgressTypeOK'
    BY <1>t, <2>2, ServedIsFinite, EgressAssumption DEF EgressTypeOK, To, Stages,
        PermitsCounted, Typed, Sides, RequestClasses
  <2>3. CloseCovers'
    BY <1>t DEF CloseCovers, To, Typed, SendersRegistered
  <2>4. SendersRegistered'
    BY <1>t DEF SendersRegistered, To, Typed
  <2>5. RequestDecides'
    BY <1>t DEF RequestDecides, To, Unsent, RequestClasses, Typed
  <2>6. OneInspectedRequest'
    BY <1>t DEF OneInspectedRequest, To, RequestDecides, Unsent, Typed
  <2>7. SilentAfterClose'
    BY <1>t DEF SilentAfterClose, To, CloseCovers, SendersRegistered, Closed, Typed
  <2>q. QED BY <2>1, <2>2, <2>3, <2>4, <2>5, <2>6, <2>7 DEF IInv
<1>5. CASE ReadsPayload(u)
  <2> USE <1>5 DEF ReadsPayload, HandlerRests, ProviderAdmits
  <2>c. Cardinality(Served') = Cardinality(Served)
    BY <1>t, KeepsAll DEF Holding, Stages, To, Typed
  <2>2. PermitsCounted'
    BY <1>t, <2>c, ServedIsFinite DEF PermitsCounted, To, Served, Typed
  <2>1. EgressTypeOK'
    BY <1>t, <2>2, ServedIsFinite, EgressAssumption DEF EgressTypeOK, To, Stages,
        PermitsCounted, Typed, Sides, RequestClasses
  <2>3. CloseCovers'
    BY <1>t DEF CloseCovers, To, Typed
  <2>4. SendersRegistered'
    BY <1>t DEF SendersRegistered, To, Typed
  <2>5. RequestDecides'
    BY <1>t DEF RequestDecides, To, Unsent, RequestClasses, Typed
  <2>6. OneInspectedRequest'
    BY <1>t DEF OneInspectedRequest, To, RequestDecides, Unsent, Typed
  <2>7. SilentAfterClose'
    BY <1>t DEF SilentAfterClose, To, CloseCovers, SendersRegistered, Closed, Typed
  <2>q. QED BY <2>1, <2>2, <2>3, <2>4, <2>5, <2>6, <2>7 DEF IInv
<1>6. CASE Connects(u)
  <2> USE <1>6 DEF Connects, HandlerRests
  <2>c. Cardinality(Served') = Cardinality(Served)
    BY <1>t, KeepsAll DEF Holding, Stages, To, Typed
  <2>2. PermitsCounted'
    BY <1>t, <2>c, ServedIsFinite DEF PermitsCounted, To, Served, Typed
  <2>1. EgressTypeOK'
    BY <1>t, <2>2, ServedIsFinite, EgressAssumption DEF EgressTypeOK, To, Stages,
        PermitsCounted, Typed, Sides, RequestClasses
  <2>3. CloseCovers'
    BY <1>t DEF CloseCovers, To, Typed
  <2>4. SendersRegistered'
    BY <1>t DEF SendersRegistered, To, Typed
  <2>5. RequestDecides'
    BY <1>t DEF RequestDecides, To, Unsent, RequestClasses, Typed
  <2>6. OneInspectedRequest'
    BY <1>t DEF OneInspectedRequest, To, RequestDecides, Unsent, Typed
  <2>7. SilentAfterClose'
    BY <1>t DEF SilentAfterClose, To, CloseCovers, SendersRegistered, Closed, Typed
  <2>q. QED BY <2>1, <2>2, <2>3, <2>4, <2>5, <2>6, <2>7 DEF IInv
<1>7. CASE RegistersUpstream(u)
  <2> USE <1>7 DEF RegistersUpstream, HandlerRests, Sides
  <2>c. Cardinality(Served') = Cardinality(Served)
    BY <1>t, KeepsAll DEF Holding, Stages, To, Typed
  <2>2. PermitsCounted'
    BY <1>t, <2>c, ServedIsFinite DEF PermitsCounted, To, Served, Typed
  <2>1. EgressTypeOK'
    BY <1>t, <2>2, ServedIsFinite, EgressAssumption DEF EgressTypeOK, To, Stages,
        PermitsCounted, Typed, Sides, RequestClasses
  <2>3. CloseCovers'
    BY <1>t DEF CloseCovers, To, Typed
  <2>4. SendersRegistered'
    BY <1>t DEF SendersRegistered, To, Typed
  <2>5. RequestDecides'
    BY <1>t DEF RequestDecides, To, Unsent, RequestClasses, Typed
  <2>6. OneInspectedRequest'
    BY <1>t DEF OneInspectedRequest, To, RequestDecides, Unsent, Typed
  <2>7. SilentAfterClose'
    BY <1>t DEF SilentAfterClose, To, CloseCovers, SendersRegistered, Closed, Typed
  <2>q. QED BY <2>1, <2>2, <2>3, <2>4, <2>5, <2>6, <2>7 DEF IInv
<1>8. CASE SendsUpstream(u)
  <2> USE <1>8 DEF SendsUpstream, HandlerRests, Forward
  <2>s. To(u, "relaying") \/ To(u, "upgrading") \/ To(u, "answering")
    OBVIOUS
  <2>c. Cardinality(Served') = Cardinality(Served)
    <3>1. ASSUME NEW s \in {"relaying", "upgrading", "answering"}, To(u, s)
          PROVE  Cardinality(Served') = Cardinality(Served)
      BY <1>t, <3>1, KeepsAll DEF Holding, Stages, Typed
    <3>q. QED BY <2>s, <3>1
  <2>2. PermitsCounted'
    BY <1>t, <2>c, ServedIsFinite DEF PermitsCounted, To, Served, Typed
  <2>1. EgressTypeOK'
    BY <1>t, <2>2, ServedIsFinite, EgressAssumption DEF EgressTypeOK, To, Stages,
        PermitsCounted, Typed, Sides, RequestClasses
  <2>3. CloseCovers'
    BY <1>t DEF CloseCovers, To, Typed
  <2>4. SendersRegistered'
    BY <1>t DEF SendersRegistered, To, Typed
  <2>5. RequestDecides'
    <3>0. /\ forwards' = [forwards EXCEPT ![u] = @ + 1] /\ forwards[u] = 0
          /\ served = "enforced" => asks[u] # "upgrade"
      BY DEF RequestDecides, Unsent
    <3>1. CASE To(u, "relaying") /\ served = "public"
      BY <1>t, <3>0, <3>1 DEF RequestDecides, To, Unsent, Typed
    <3>2. CASE To(u, "upgrading") /\ served \in {"headroom",
        "enforced"} /\ asks[u] = "upgrade"
      BY <1>t, <3>0, <3>2 DEF RequestDecides, To, Unsent, Typed
    <3>3. CASE To(u, "answering")
      BY <1>t, <3>0, <3>3 DEF RequestDecides, To, Unsent, Typed
    <3>4. served = "public" => To(u, "relaying")
      BY DEF To
    <3>5. served # "public" /\ served # "provider" /\ asks[u] = "upgrade" => To(u, "upgrading")
      BY DEF To
    <3>6. served # "public" /\ ~(served # "provider" /\ asks[u] = "upgrade") => To(u, "answering")
      BY DEF To
    <3>7. served \in {"public", "headroom", "enforced", "provider"}
      BY <1>t DEF Typed
    <3>q. QED BY <3>1, <3>2, <3>3, <3>4, <3>5, <3>6, <3>7
  <2>6. OneInspectedRequest'
    BY <1>t DEF OneInspectedRequest, To, RequestDecides, Unsent, Typed
  <2>7. SilentAfterClose'
    BY <1>t DEF SilentAfterClose, To, CloseCovers, SendersRegistered, Closed, Typed
  <2>q. QED BY <2>1, <2>2, <2>3, <2>4, <2>5, <2>6, <2>7 DEF IInv
<1>9. CASE ReadsUpgrade(u)
  <2> USE <1>9 DEF ReadsUpgrade, HandlerRests
  <2>c. Cardinality(Served') = Cardinality(Served)
    BY <1>t, KeepsAll DEF Holding, Stages, To, Typed
  <2>2. PermitsCounted'
    BY <1>t, <2>c, ServedIsFinite DEF PermitsCounted, To, Served, Typed
  <2>1. EgressTypeOK'
    BY <1>t, <2>2, ServedIsFinite, EgressAssumption DEF EgressTypeOK, To, Stages,
        PermitsCounted, Typed, Sides, RequestClasses
  <2>3. CloseCovers'
    BY <1>t DEF CloseCovers, To, Typed
  <2>4. SendersRegistered'
    BY <1>t DEF SendersRegistered, To, Typed
  <2>5. RequestDecides'
    BY <1>t DEF RequestDecides, To, Unsent, RequestClasses, Typed
  <2>6. OneInspectedRequest'
    BY <1>t DEF OneInspectedRequest, To, RequestDecides, Unsent, Typed
  <2>7. SilentAfterClose'
    BY <1>t DEF SilentAfterClose, To, CloseCovers, SendersRegistered, Closed, Typed
  <2>q. QED BY <2>1, <2>2, <2>3, <2>4, <2>5, <2>6, <2>7 DEF IInv
<1>10. CASE RelaysBlock(u)
  <2> USE <1>10 DEF RelaysBlock, HandlerRests, Forward
  <2>c. Cardinality(Served') = Cardinality(Served)
    BY DEF Served
  <2>2. PermitsCounted'
    BY <1>t, <2>c, ServedIsFinite DEF PermitsCounted, To, Served, Typed
  <2>1. EgressTypeOK'
    BY <1>t, <2>2, ServedIsFinite, EgressAssumption DEF EgressTypeOK, To, Stages,
        PermitsCounted, Typed, Sides, RequestClasses
  <2>3. CloseCovers'
    BY <1>t DEF CloseCovers, To, Typed
  <2>4. SendersRegistered'
    BY <1>t DEF SendersRegistered, To, Typed
  <2>5. RequestDecides'
    BY <1>t DEF RequestDecides, To, Unsent, RequestClasses, Typed
  <2>6. OneInspectedRequest'
    BY <1>t DEF OneInspectedRequest, To, RequestDecides, Unsent, Typed
  <2>7. SilentAfterClose'
    BY <1>t DEF SilentAfterClose, To, CloseCovers, SendersRegistered, Closed, Typed
  <2>q. QED BY <2>1, <2>2, <2>3, <2>4, <2>5, <2>6, <2>7 DEF IInv
<1>11. CASE Leaves(u)
  <2> USE <1>11 DEF Leaves, HandlerRests
  <2>c. Cardinality(Served') = Cardinality(Served)
    BY <1>t, KeepsAll DEF Holding, Stages, To, Typed
  <2>2. PermitsCounted'
    BY <1>t, <2>c, ServedIsFinite DEF PermitsCounted, To, Served, Typed
  <2>1. EgressTypeOK'
    BY <1>t, <2>2, ServedIsFinite, EgressAssumption DEF EgressTypeOK, To, Stages,
        PermitsCounted, Typed, Sides, RequestClasses
  <2>3. CloseCovers'
    BY <1>t DEF CloseCovers, To, Typed
  <2>4. SendersRegistered'
    BY <1>t DEF SendersRegistered, To, Typed
  <2>5. RequestDecides'
    BY <1>t DEF RequestDecides, To, Unsent, RequestClasses, Typed
  <2>6. OneInspectedRequest'
    BY <1>t DEF OneInspectedRequest, To, RequestDecides, Unsent, Typed
  <2>7. SilentAfterClose'
    BY <1>t DEF SilentAfterClose, To, CloseCovers, SendersRegistered, Closed, Typed
  <2>q. QED BY <2>1, <2>2, <2>3, <2>4, <2>5, <2>6, <2>7 DEF IInv
<1>12. CASE HandlerEnds(u)
  <2> USE <1>12 DEF HandlerEnds, Sides
  <2>c. Cardinality(Served') = Cardinality(Served) - 1
    BY <1>t, GivesOne DEF Holding, Stages
  <2>d. Cardinality(Served') \in Nat
    BY EgressAssumption, FS_Subset, FS_CardinalityType DEF Served
  <2>2. PermitsCounted'
    BY <1>t, <2>c, ServedIsFinite DEF PermitsCounted, To, Served, Typed
  <2>1. EgressTypeOK'
    BY <2>d, <1>t, <2>2, ServedIsFinite, EgressAssumption DEF EgressTypeOK, To, Stages,
        PermitsCounted, Typed, Sides, RequestClasses
  <2>3. CloseCovers'
    BY <1>t DEF CloseCovers, To, Typed
  <2>4. SendersRegistered'
    BY <1>t DEF SendersRegistered, To, Typed
  <2>5. RequestDecides'
    BY <1>t DEF RequestDecides, To, Unsent, RequestClasses, Typed
  <2>6. OneInspectedRequest'
    BY <1>t DEF OneInspectedRequest, To, RequestDecides, Unsent, Typed
  <2>7. SilentAfterClose'
    BY <1>t DEF SilentAfterClose, To, CloseCovers, SendersRegistered, Closed, Typed
  <2>q. QED BY <2>1, <2>2, <2>3, <2>4, <2>5, <2>6, <2>7 DEF IInv
<1>13. CASE HandlerRaises(u)
  <2> USE <1>13 DEF HandlerRaises, HandlerRests, Unwrappable, Wrapped
  <2>c. Cardinality(Served') = Cardinality(Served)
    BY <1>t, KeepsAll DEF Holding, Stages, To, Typed
  <2>2. PermitsCounted'
    BY <1>t, <2>c, ServedIsFinite DEF PermitsCounted, To, Served, Typed
  <2>1. EgressTypeOK'
    BY <1>t, <2>2, ServedIsFinite, EgressAssumption DEF EgressTypeOK, To, Stages,
        PermitsCounted, Typed, Sides, RequestClasses
  <2>3. CloseCovers'
    BY <1>t DEF CloseCovers, To, Typed
  <2>4. SendersRegistered'
    BY <1>t DEF SendersRegistered, To, Typed
  <2>5. RequestDecides'
    BY <1>t DEF RequestDecides, To, Unsent, RequestClasses, Typed
  <2>6. OneInspectedRequest'
    BY <1>t DEF OneInspectedRequest, To, RequestDecides, Unsent, Typed
  <2>7. SilentAfterClose'
    BY <1>t DEF SilentAfterClose, To, CloseCovers, SendersRegistered, Closed, Typed
  <2>q. QED BY <2>1, <2>2, <2>3, <2>4, <2>5, <2>6, <2>7 DEF IInv
<1>q. QED BY <1>1, <1>2, <1>3, <1>4, <1>5, <1>6, <1>7, <1>8, <1>9, <1>10, <1>11,
    <1>12, <1>13 DEF HandlerStep

LEMMA ServerStepHolds ==
  ASSUME IInv, AcceptorStep \/ CloseStops \/ CloserStep
  PROVE  IInv'
<1>t. Typed
  BY TypeGives DEF IInv
<1> USE DEF IInv, handlerSide, closerSide
<1>1. ASSUME NEW u \in Links, AcceptLink(u) PROVE IInv'
  <2> USE <1>1 DEF AcceptLink
  <2>c. permits' + Cardinality(Served') = permits + Cardinality(Served)
    <3>1. CASE To(u, "held") /\ permits' = permits - 1
      BY <1>t, <3>1, TakesOne, ServedIsFinite DEF Holding, Stages, Typed
    <3>2. CASE To(u, "refused") /\ permits' = permits
      BY <1>t, <3>2, KeepsAll DEF Holding, Stages, Typed
    <3>q. QED BY <3>1, <3>2
  <2>2. PermitsCounted'
    BY <1>t, <2>c, ServedIsFinite DEF PermitsCounted, To, Served, Typed
  <2>1. EgressTypeOK'
    BY <1>t, <2>2, ServedIsFinite, EgressAssumption DEF EgressTypeOK, To, Stages,
        PermitsCounted, Typed, Sides, RequestClasses
  <2>3. CloseCovers'
    BY <1>t DEF CloseCovers, To, Typed
  <2>4. SendersRegistered'
    BY <1>t DEF SendersRegistered, To, Typed
  <2>5. RequestDecides'
    BY <1>t DEF RequestDecides, To, Unsent, RequestClasses, Typed
  <2>6. OneInspectedRequest'
    BY <1>t DEF OneInspectedRequest, To, RequestDecides, Unsent, Typed
  <2>7. SilentAfterClose'
    BY <1>t DEF SilentAfterClose, To, CloseCovers, SendersRegistered, Closed, Typed
  <2>q. QED BY <2>1, <2>2, <2>3, <2>4, <2>5, <2>6, <2>7 DEF IInv
<1>2. ASSUME NEW u \in Links, AdmitLink(u) PROVE IInv'
  <2> USE <1>2 DEF AdmitLink, Sides
  <2>c. permits' + Cardinality(Served') = permits + Cardinality(Served)
    <3>0. stage[u] = "held"
      BY DEF PermitsCounted
    <3>1. CASE To(u, "refused") /\ permits' = permits + 1
      BY <1>t, <3>0, <3>1, GivesOne, ServedIsFinite DEF Holding, Stages, Typed
    <3>2. CASE To(u, "starting") /\ permits' = permits
      BY <1>t, <3>0, <3>2, KeepsAll DEF Holding, Stages, Typed
    <3>q. QED BY <3>1, <3>2
  <2>d. Cardinality(Served') \in Nat
    BY EgressAssumption, FS_Subset, FS_CardinalityType DEF Served
  <2>2. PermitsCounted'
    BY <1>t, <2>c, ServedIsFinite DEF PermitsCounted, To, Served, Typed
  <2>1. EgressTypeOK'
    BY <2>d, <1>t, <2>2, ServedIsFinite, EgressAssumption DEF EgressTypeOK, To, Stages,
        PermitsCounted, Typed, Sides, RequestClasses
  <2>3. CloseCovers'
    BY <1>t DEF CloseCovers, To, Typed
  <2>4. SendersRegistered'
    BY <1>t DEF SendersRegistered, To, Typed
  <2>5. RequestDecides'
    BY <1>t DEF RequestDecides, To, Unsent, RequestClasses, Typed, PermitsCounted
  <2>6. OneInspectedRequest'
    BY <1>t DEF OneInspectedRequest, To, RequestDecides, Unsent, Typed
  <2>7. SilentAfterClose'
    BY <1>t DEF SilentAfterClose, To, CloseCovers, SendersRegistered, Closed, Typed
  <2>q. QED BY <2>1, <2>2, <2>3, <2>4, <2>5, <2>6, <2>7 DEF IInv
<1>3. ASSUME NEW u \in Links, StartThread(u) PROVE IInv'
  <2> USE <1>3 DEF StartThread
  <2>c. Cardinality(Served') = Cardinality(Served)
    <3>1. stage[u] = "starting"
      BY DEF PermitsCounted
    <3>q. QED BY <1>t, <3>1, KeepsAll DEF Holding, Stages, Typed
  <2>2. PermitsCounted'
    BY <1>t, <2>c, ServedIsFinite DEF PermitsCounted, To, Served, Typed
  <2>1. EgressTypeOK'
    BY <1>t, <2>2, ServedIsFinite, EgressAssumption DEF EgressTypeOK, To, Stages,
        PermitsCounted, Typed, Sides, RequestClasses
  <2>3. CloseCovers'
    BY <1>t DEF CloseCovers, To, Typed
  <2>4. SendersRegistered'
    BY <1>t DEF SendersRegistered, To, Typed
  <2>5. RequestDecides'
    BY <1>t DEF RequestDecides, To, Unsent, RequestClasses, Typed, PermitsCounted
  <2>6. OneInspectedRequest'
    BY <1>t DEF OneInspectedRequest, To, RequestDecides, Unsent, Typed
  <2>7. SilentAfterClose'
    BY <1>t DEF SilentAfterClose, To, CloseCovers, SendersRegistered, Closed, Typed
  <2>q. QED BY <2>1, <2>2, <2>3, <2>4, <2>5, <2>6, <2>7 DEF IInv
<1>4. CASE AcceptLoop
  <2> USE <1>4 DEF AcceptLoop
  <2>c. Cardinality(Served') = Cardinality(Served)
    BY DEF Served
  <2>2. PermitsCounted'
    BY <1>t, <2>c, ServedIsFinite DEF PermitsCounted, To, Served, Typed
  <2>1. EgressTypeOK'
    BY <1>t, <2>2, ServedIsFinite, EgressAssumption DEF EgressTypeOK, To, Stages,
        PermitsCounted, Typed, Sides, RequestClasses
  <2>3. CloseCovers'
    BY <1>t DEF CloseCovers, To, Typed
  <2>4. SendersRegistered'
    BY <1>t DEF SendersRegistered, To, Typed
  <2>5. RequestDecides'
    BY <1>t DEF RequestDecides, To, Unsent, RequestClasses, Typed
  <2>6. OneInspectedRequest'
    BY <1>t DEF OneInspectedRequest, To, RequestDecides, Unsent, Typed
  <2>7. SilentAfterClose'
    BY <1>t DEF SilentAfterClose, To, CloseCovers, SendersRegistered, Closed, Typed
  <2>q. QED BY <2>1, <2>2, <2>3, <2>4, <2>5, <2>6, <2>7 DEF IInv
<1>5. CASE AcceptNothing
  <2> USE <1>5 DEF AcceptNothing
  <2>c. Cardinality(Served') = Cardinality(Served)
    BY DEF Served
  <2>2. PermitsCounted'
    BY <1>t, <2>c, ServedIsFinite DEF PermitsCounted, To, Served, Typed
  <2>1. EgressTypeOK'
    BY <1>t, <2>2, ServedIsFinite, EgressAssumption DEF EgressTypeOK, To, Stages,
        PermitsCounted, Typed, Sides, RequestClasses
  <2>3. CloseCovers'
    BY <1>t DEF CloseCovers, To, Typed
  <2>4. SendersRegistered'
    BY <1>t DEF SendersRegistered, To, Typed
  <2>5. RequestDecides'
    BY <1>t DEF RequestDecides, To, Unsent, RequestClasses, Typed
  <2>6. OneInspectedRequest'
    BY <1>t DEF OneInspectedRequest, To, RequestDecides, Unsent, Typed
  <2>7. SilentAfterClose'
    BY <1>t DEF SilentAfterClose, To, CloseCovers, SendersRegistered, Closed, Typed
  <2>q. QED BY <2>1, <2>2, <2>3, <2>4, <2>5, <2>6, <2>7 DEF IInv
<1>6. CASE CloseStops
  <2> USE <1>6 DEF CloseStops, CloserRests
  <2>c. Cardinality(Served') = Cardinality(Served)
    BY DEF Served
  <2>2. PermitsCounted'
    BY <1>t, <2>c, ServedIsFinite DEF PermitsCounted, To, Served, Typed
  <2>1. EgressTypeOK'
    BY <1>t, <2>2, ServedIsFinite, EgressAssumption DEF EgressTypeOK, To, Stages,
        PermitsCounted, Typed, Sides, RequestClasses
  <2>3. CloseCovers'
    BY <1>t DEF CloseCovers, To, Typed
  <2>4. SendersRegistered'
    BY <1>t DEF SendersRegistered, To, Typed
  <2>5. RequestDecides'
    BY <1>t DEF RequestDecides, To, Unsent, RequestClasses, Typed
  <2>6. OneInspectedRequest'
    BY <1>t DEF OneInspectedRequest, To, RequestDecides, Unsent, Typed
  <2>7. SilentAfterClose'
    BY <1>t DEF SilentAfterClose, To, CloseCovers, SendersRegistered, Closed, Typed
  <2>q. QED BY <2>1, <2>2, <2>3, <2>4, <2>5, <2>6, <2>7 DEF IInv
<1>7. CASE ClosesListener
  <2> USE <1>7 DEF ClosesListener, CloserRests
  <2>c. Cardinality(Served') = Cardinality(Served)
    <3>1. Served' = Served
      BY <1>t DEF Served, Typed, Holding
    <3>q. QED BY <3>1
  <2>2. PermitsCounted'
    BY <1>t, <2>c, ServedIsFinite DEF PermitsCounted, To, Served, Typed
  <2>1. EgressTypeOK'
    BY <1>t, <2>2, ServedIsFinite, EgressAssumption DEF EgressTypeOK, To, Stages,
        PermitsCounted, Typed, Sides, RequestClasses
  <2>3. CloseCovers'
    BY <1>t DEF CloseCovers, To, Typed
  <2>4. SendersRegistered'
    BY <1>t DEF SendersRegistered, To, Typed
  <2>5. RequestDecides'
    BY <1>t DEF RequestDecides, To, Unsent, RequestClasses, Typed
  <2>6. OneInspectedRequest'
    BY <1>t DEF OneInspectedRequest, To, RequestDecides, Unsent, Typed
  <2>7. SilentAfterClose'
    BY <1>t DEF SilentAfterClose, To, CloseCovers, SendersRegistered, Closed, Typed
  <2>q. QED BY <2>1, <2>2, <2>3, <2>4, <2>5, <2>6, <2>7 DEF IInv
<1>8. CASE TakesSnapshot
  <2> USE <1>8 DEF TakesSnapshot, CloserRests
  <2>c. Cardinality(Served') = Cardinality(Served)
    BY DEF Served
  <2>2. PermitsCounted'
    BY <1>t, <2>c, ServedIsFinite DEF PermitsCounted, To, Served, Typed
  <2>1. EgressTypeOK'
    BY <1>t, <2>2, ServedIsFinite, EgressAssumption DEF EgressTypeOK, To, Stages,
        PermitsCounted, Typed, Sides, RequestClasses
  <2>3. CloseCovers'
    BY <1>t DEF CloseCovers, To, Typed
  <2>4. SendersRegistered'
    BY <1>t DEF SendersRegistered, To, Typed
  <2>5. RequestDecides'
    BY <1>t DEF RequestDecides, To, Unsent, RequestClasses, Typed
  <2>6. OneInspectedRequest'
    BY <1>t DEF OneInspectedRequest, To, RequestDecides, Unsent, Typed
  <2>7. SilentAfterClose'
    BY <1>t DEF SilentAfterClose, To, CloseCovers, SendersRegistered, Closed, Typed
  <2>q. QED BY <2>1, <2>2, <2>3, <2>4, <2>5, <2>6, <2>7 DEF IInv
<1>9. CASE CutsSocket
  <2> USE <1>9 DEF CutsSocket, CloserRests, Wrapped
  <2>c. Cardinality(Served') = Cardinality(Served)
    BY DEF Served
  <2>2. PermitsCounted'
    BY <1>t, <2>c, ServedIsFinite DEF PermitsCounted, To, Served, Typed
  <2>1. EgressTypeOK'
    BY <1>t, <2>2, ServedIsFinite, EgressAssumption DEF EgressTypeOK, To, Stages,
        PermitsCounted, Typed, Sides, RequestClasses
  <2>3. CloseCovers'
    BY <1>t DEF CloseCovers, To, Typed
  <2>4. SendersRegistered'
    BY <1>t DEF SendersRegistered, To, Typed
  <2>5. RequestDecides'
    BY <1>t DEF RequestDecides, To, Unsent, RequestClasses, Typed
  <2>6. OneInspectedRequest'
    BY <1>t DEF OneInspectedRequest, To, RequestDecides, Unsent, Typed
  <2>7. SilentAfterClose'
    BY <1>t DEF SilentAfterClose, To, CloseCovers, SendersRegistered, Closed, Typed
  <2>q. QED BY <2>1, <2>2, <2>3, <2>4, <2>5, <2>6, <2>7 DEF IInv
<1>10. CASE JoinsHandlers
  <2> USE <1>10 DEF JoinsHandlers, CloserRests, Unstarted
  <2>c. Cardinality(Served') = Cardinality(Served)
    BY DEF Served
  <2>2. PermitsCounted'
    BY <1>t, <2>c, ServedIsFinite DEF PermitsCounted, To, Served, Typed
  <2>1. EgressTypeOK'
    <3>1. snapshot' \in [sockets : SUBSET (Links \X Sides), threads : SUBSET Links]
      BY <1>t DEF Typed
    <3>2. closer' \in {"joining", "closed", "failed"} /\ endpoint' \in BOOLEAN
      BY DEF EgressTypeOK
    <3>q. QED BY <3>1, <3>2 DEF EgressTypeOK
  <2>3. CloseCovers'
    BY <1>t DEF CloseCovers, To, Typed
  <2>4. SendersRegistered'
    BY <1>t DEF SendersRegistered, To, Typed
  <2>5. RequestDecides'
    BY <1>t DEF RequestDecides, To, Unsent, RequestClasses, Typed
  <2>6. OneInspectedRequest'
    BY <1>t DEF OneInspectedRequest, To, RequestDecides, Unsent, Typed
  <2>7. SilentAfterClose'
    BY <1>t DEF SilentAfterClose, To, CloseCovers, SendersRegistered, Closed, Typed
  <2>q. QED BY <2>1, <2>2, <2>3, <2>4, <2>5, <2>6, <2>7 DEF IInv
<1>11. CASE ClosesSocket
  <2> USE <1>11 DEF ClosesSocket, CloserRests
  <2>c. Cardinality(Served') = Cardinality(Served)
    BY DEF Served
  <2>2. PermitsCounted'
    BY <1>t, <2>c, ServedIsFinite DEF PermitsCounted, To, Served, Typed
  <2>1. EgressTypeOK'
    BY <1>t, <2>2, ServedIsFinite, EgressAssumption DEF EgressTypeOK, To, Stages,
        PermitsCounted, Typed, Sides, RequestClasses
  <2>3. CloseCovers'
    BY <1>t DEF CloseCovers, To, Typed
  <2>4. SendersRegistered'
    BY <1>t DEF SendersRegistered, To, Typed
  <2>5. RequestDecides'
    BY <1>t DEF RequestDecides, To, Unsent, RequestClasses, Typed
  <2>6. OneInspectedRequest'
    BY <1>t DEF OneInspectedRequest, To, RequestDecides, Unsent, Typed
  <2>7. SilentAfterClose'
    BY <1>t DEF SilentAfterClose, To, CloseCovers, SendersRegistered, Closed, Typed
  <2>q. QED BY <2>1, <2>2, <2>3, <2>4, <2>5, <2>6, <2>7 DEF IInv
<1>q. QED BY <1>1, <1>2, <1>3, <1>4, <1>5, <1>6, <1>7, <1>8, <1>9, <1>10, <1>11
    DEF AcceptorStep, CloserStep

LEMMA NextHolds == IInv /\ [EgressNext]_egressVars => IInv'
<1> SUFFICES ASSUME IInv, [EgressNext]_egressVars PROVE IInv'
  OBVIOUS
<1>1. CASE UNCHANGED egressVars
  BY <1>1 DEF egressVars, IInv, EgressTypeOK, PermitsCounted, Served, CloseCovers,
      SendersRegistered, RequestDecides, OneInspectedRequest, SilentAfterClose
<1>q. QED BY <1>1, LinkStepHolds, ServerStepHolds DEF EgressNext

THEOREM InvariantHolds == EgressSpec => []IInv
BY InitHolds, NextHolds, PTL DEF EgressSpec

-----------------------------------------------------------------------------
(* The state keeps its documented form; a permit is never given back twice
   (_slots of PublicEgress, HeadroomEgress and ProviderEgress).             *)
THEOREM TypeCorrect == EgressSpec => []EgressTypeOK
<1>1. IInv => EgressTypeOK
  BY DEF IInv
<1>q. QED BY <1>1, InvariantHolds, PTL

(* At most MAX_CONNECTIONS links are served at a time, and a permit is missing
   exactly for each of them, for each link whose thread could not be started and
   for each that broke in unwrap(), which only the provider's endpoint has and
   only while it is closed (_accept, _handle and close).                     *)
THEOREM PermitsKept == EgressSpec => []PermitsAccounted
<1>1. IInv => PermitsAccounted
  BY TypeGives, ServedIsFinite, EgressAssumption
     DEF IInv, PermitsCounted, CloseCovers, Typed, PermitsAccounted
<1>q. QED BY <1>1, InvariantHolds, PTL

(* For any number of connections, wherever their handlers are when the job
   ends, a closed CONNECT or Headroom endpoint sends nothing more (close and
   _handle of agents/development_egress.py).                                *)
THEOREM ClosedIsSilent == EgressSpec => []SilentAfterClose
<1>1. IInv => SilentAfterClose
  BY DEF IInv
<1>q. QED BY <1>1, InvariantHolds, PTL

(* No link of a model API sends more than the request that was inspected, but
   an upgraded one where provider tools are not checked (_handle).          *)
THEOREM InspectedOnce == EgressSpec => []OneInspectedRequest
<1>1. IInv => OneInspectedRequest
  BY DEF IInv
<1>q. QED BY <1>1, InvariantHolds, PTL
-----------------------------------------------------------------------------
(***************************************************************************)
(* The sockets of a job's Git service (WorkerGitSockets), for any other      *)
(* owners of the name, any inode numbers, any number of connections and any  *)
(* limit of the transport.                                                  *)
(***************************************************************************)
Prepared == {"new", "probing", "clearing", "binding"}
Identified == {"spawning", "serving", "orphaned"}
InHand == retiring.at \in {"checking", "returning"}

(* What the name and its retirement are.                                     *)
NamesTyped ==
  /\ entry \in Linkable \cup {NoEntry} /\ wanted \in Linkable \cup {NoEntry}
  /\ fate \in [Linkable -> {"unborn", "there", "custody", "away", "gone"}]
  /\ condition \in [Linkable -> Conditions] /\ inode \in [Linkable -> Numbers]
  /\ looked \subseteq Linkable /\ unlinked \subseteq Linkable
  /\ retiring \in [at : {"idle", "moving", "checking", "returning"},
                   held : Linkable \cup {NoEntry}]

(* Nothing runs before the start is over, and a retirement belongs either to
   the start or to the teardown.                                            *)
PhasesFit ==
  /\ startup # "serving" =>
       accepting.pc = "off" /\ boot = "off" /\ closure = "open" /\ teardown = "no"
  /\ retiring.at # "idle" => teardown = "retiring" \/ startup = "clearing"
  /\ teardown # "no" => ended = TRUE

(* What the name and the custody hold.                                       *)
EntriesFit ==
  /\ entry # NoEntry => fate[entry] = "there"
  /\ InHand => retiring.held \in Linkable /\ fate[retiring.held] = "custody" /\ entry # Own
  /\ \A g \in Guests : fate[g] = "custody" =>
       (InHand /\ retiring.held = g) \/ \E h \in Guests \ {g} : fate[h] # "unborn"

(* The own socket is identified before it may be retired.                    *)
OwnFits ==
  /\ startup \in Prepared => fate[Own] = "unborn"
  /\ fate[Own] # "unborn" => IsSocket(Own)
  /\ startup \in Identified /\ (entry = Own \/ (InHand /\ retiring.held = Own)) => wanted = Own
  /\ retiring.at = "returning" => retiring.held # Own
  /\ teardown = "over" => entry # Own \/ broken

(* What was looked at or unlinked keeps its number.                          *)
LookedFits ==
  /\ \A e \in looked \cup unlinked : fate[e] # "unborn"
  /\ startup \in {"probing", "clearing"} \cup Identified => wanted \in looked
  /\ \A g \in unlinked \cap Guests : \E e \in looked : Same(e, g)

NamesInv == NamesTyped /\ PhasesFit /\ EntriesFit /\ OwnFits /\ LookedFits

(* Every slot that is gone belongs to one connection.                        *)
Slotted == {"held", "starting", "stranded", "leaving"} \cup AtWork
Holders == {c \in Peers : task[c] \in Slotted}
SlotsTyped ==
  /\ task \in [Peers -> Slotted \cup {"new", "queued", "refused", "done"}] /\ slots \in Nat
  /\ accepting \in [pc : {"off", "top", "waiting", "registering", "spawning", "leaving",
                          "closing", "gone"}, hand : SUBSET Peers]
SlotsInv ==
  /\ SlotsTyped
  /\ slots + Cardinality(Holders) = MaxConnections
  /\ \A c, d \in accepting.hand : c = d
  /\ \A c \in accepting.hand : /\ accepting.pc = "registering" => task[c] = "held"
                               /\ accepting.pc = "spawning" => task[c] = "starting"

(* Whoever uses the backend or attaches the view has the operation lock.     *)
OperationInv ==
  /\ \A c \in Peers : task[c] = "inside" => operation = c
  /\ boot = "proving" => operation = "boot" /\ closure \in {"open", "revoked"}
  /\ closure \in {"transport", "waiting"} => operation = "close"
  /\ attached \in {"no", "open", "revoked"}
  /\ closure = "closed" => boot \in {"ready", "failed"}

SocketInv == NamesInv /\ SlotsInv /\ OperationInv

LEMMA SocketsBegin == SocketInit => SocketInv
<1> SUFFICES ASSUME SocketInit PROVE SocketInv
  OBVIOUS
<1>1. NamesTyped
  BY SocketAssumption DEF SocketInit, NamesTyped, Linkable, NoRetire
<1>2. PhasesFit /\ EntriesFit /\ OwnFits /\ LookedFits
  BY <1>1, SocketAssumption DEF SocketInit, PhasesFit, EntriesFit, OwnFits, LookedFits, NamesTyped,
      InHand, NoRetire, Linkable, Prepared, Identified
<1>3. Holders = {}
  BY DEF SocketInit, Holders, Slotted, AtWork
<1>4. SlotsInv
  BY <1>3, FS_EmptySet, SocketAssumption DEF SocketInit, SlotsInv, SlotsTyped
<1>5. OperationInv
  BY DEF SocketInit, OperationInv
<1>q. QED BY <1>1, <1>2, <1>4, <1>5 DEF SocketInv, NamesInv

-----------------------------------------------------------------------------
LEMMA OwnersKeepNames ==
  ASSUME NamesInv, GuestTakes \/ \E g \in Guests : GuestPuts(g) \/ GuestTurns(g)
  PROVE  NamesInv'
<1> USE SocketAssumption DEF NamesInv, GuestAct, starting, retirement, ending, bootstrap, Linkable
<1>1. ASSUME NEW g \in Guests, GuestPuts(g) PROVE NamesInv'
  <2> USE <1>1 DEF GuestPuts
  <2>1. NamesTyped'
    BY DEF NamesTyped, Free, Conditions
  <2>2. PhasesFit'
    BY DEF PhasesFit
  <2>3. EntriesFit'
    BY DEF NamesTyped, EntriesFit, InHand
  <2>4. OwnFits'
    BY DEF NamesTyped, OwnFits, InHand, IsSocket
  <2>5. LookedFits'
    BY DEF NamesTyped, LookedFits, Same
  <2>q. QED BY <2>1, <2>2, <2>3, <2>4, <2>5
<1>2. ASSUME NEW g \in Guests, GuestTurns(g) PROVE NamesInv'
  <2> USE <1>2 DEF GuestTurns
  <2>1. NamesTyped'
    BY DEF NamesTyped, Conditions
  <2>2. PhasesFit' /\ EntriesFit' /\ LookedFits'
    BY DEF PhasesFit, EntriesFit, LookedFits, Same, InHand
  <2>3. OwnFits'
    BY DEF NamesTyped, OwnFits, InHand, IsSocket
  <2>q. QED BY <2>1, <2>2, <2>3
<1>3. CASE GuestTakes
  <2> USE <1>3 DEF GuestTakes
  <2>1. NamesTyped'
    BY DEF NamesTyped
  <2>2. PhasesFit'
    BY DEF PhasesFit
  <2>3. EntriesFit'
    BY DEF NamesTyped, EntriesFit, InHand
  <2>4. OwnFits'
    BY DEF NamesTyped, EntriesFit, OwnFits, InHand, IsSocket
  <2>5. LookedFits'
    BY DEF NamesTyped, LookedFits, Same
  <2>q. QED BY <2>1, <2>2, <2>3, <2>4, <2>5
<1>q. QED BY <1>1, <1>2, <1>3

LEMMA StartKeepsNames ==
  ASSUME NamesInv, StartStep
  PROVE  NamesInv'
<1> USE SocketAssumption DEF NamesInv, StartRests, handling, bootstrap, world, Linkable, Prepared,
        Identified
<1>1. CASE FindsLeftover
  <2> USE <1>1 DEF FindsLeftover, StartFails, StartGoes, TakesIdentity
  <2>1. NamesTyped'
    BY DEF NamesTyped, Conditions
  <2>2. PhasesFit' /\ EntriesFit'
    BY DEF PhasesFit, EntriesFit, InHand
  <2>4. OwnFits'
    BY DEF NamesTyped, OwnFits, InHand, IsSocket, PhasesFit
  <2>5. LookedFits'
    BY DEF NamesTyped, EntriesFit, LookedFits, Same
  <2>q. QED BY <2>1, <2>2, <2>4, <2>5
<1>2. CASE ProbesLeftover
  <2> USE <1>2 DEF ProbesLeftover, StartFails, StartGoes, NoRetire
  <2>1. NamesTyped'
    BY DEF NamesTyped, Conditions
  <2>2. PhasesFit' /\ EntriesFit'
    BY DEF PhasesFit, EntriesFit, InHand
  <2>4. OwnFits'
    BY DEF NamesTyped, OwnFits, InHand, IsSocket, PhasesFit
  <2>5. LookedFits'
    BY DEF NamesTyped, LookedFits, Same
  <2>q. QED BY <2>1, <2>2, <2>4, <2>5
<1>3. CASE Binds
  <2> USE <1>3 DEF Binds, StartFails, StartGoes
  <2>1. NamesTyped'
    BY DEF NamesTyped, Conditions, Free
  <2>2. PhasesFit'
    BY DEF PhasesFit
  <2>3. EntriesFit'
    BY DEF NamesTyped, PhasesFit, EntriesFit, InHand
  <2>4. OwnFits'
    BY DEF NamesTyped, OwnFits, InHand, IsSocket, PhasesFit
  <2>5. LookedFits'
    BY DEF NamesTyped, OwnFits, LookedFits, Same
  <2>q. QED BY <2>1, <2>2, <2>3, <2>4, <2>5
<1>4. CASE Tunes
  <2> USE <1>4 DEF Tunes, StartFails, StartGoes
  <2>1. NamesTyped'
    BY DEF NamesTyped, Conditions
  <2>2. PhasesFit' /\ EntriesFit'
    BY DEF PhasesFit, EntriesFit, InHand
  <2>4. OwnFits'
    BY DEF NamesTyped, OwnFits, InHand, IsSocket, PhasesFit
  <2>5. LookedFits'
    BY DEF NamesTyped, LookedFits, Same
  <2>q. QED BY <2>1, <2>2, <2>4, <2>5
<1>5. CASE Identifies
  <2> USE <1>5 DEF Identifies, StartFails, StartGoes, TakesIdentity
  <2>1. NamesTyped'
    BY DEF NamesTyped, Conditions
  <2>2. PhasesFit' /\ EntriesFit'
    BY DEF PhasesFit, EntriesFit, InHand
  <2>4. OwnFits'
    BY DEF NamesTyped, OwnFits, InHand, IsSocket, PhasesFit, EntriesFit
  <2>5. LookedFits'
    BY DEF NamesTyped, EntriesFit, LookedFits, Same
  <2>q. QED BY <2>1, <2>2, <2>4, <2>5
<1>6. CASE Spawns
  <2> USE <1>6 DEF Spawns, StartGoes, naming, retirement
  <2>1. NamesTyped' /\ PhasesFit' /\ EntriesFit'
    BY DEF NamesTyped, PhasesFit, EntriesFit, InHand
  <2>4. OwnFits'
    BY DEF OwnFits, InHand, IsSocket, PhasesFit
  <2>5. LookedFits'
    BY DEF LookedFits, Same
  <2>q. QED BY <2>1, <2>4, <2>5
<1>q. QED BY <1>1, <1>2, <1>3, <1>4, <1>5, <1>6 DEF StartStep

LEMMA RetireKeepsNames ==
  ASSUME NamesInv, RetireStep
  PROVE  NamesInv'
<1> USE SocketAssumption DEF NamesInv, RetireRests, Retired, NoRetire, handling, bootstrap, world,
        Linkable, Prepared, Identified
<1>1. CASE Moves
  <2> USE <1>1 DEF Moves
  <2>1. NamesTyped'
    BY DEF NamesTyped
  <2>2. PhasesFit'
    BY DEF PhasesFit
  <2>3. EntriesFit'
    BY DEF NamesTyped, EntriesFit, InHand
  <2>4. OwnFits'
    BY DEF NamesTyped, OwnFits, EntriesFit, InHand, IsSocket, PhasesFit
  <2>5. LookedFits'
    BY DEF NamesTyped, LookedFits, PhasesFit, Same
  <2>q. QED BY <2>1, <2>2, <2>3, <2>4, <2>5
<1>2. CASE Checks
  <2> USE <1>2 DEF Checks, Unlinks
  <2>1. NamesTyped'
    BY DEF NamesTyped, EntriesFit, InHand
  <2>2. PhasesFit'
    BY DEF PhasesFit
  <2>3. EntriesFit'
    BY DEF NamesTyped, EntriesFit, InHand
  <2>4. OwnFits'
    BY DEF NamesTyped, OwnFits, EntriesFit, InHand, IsSocket, PhasesFit, Same
  <2>5. LookedFits'
    BY DEF NamesTyped, LookedFits, EntriesFit, InHand, PhasesFit, Same
  <2>q. QED BY <2>1, <2>2, <2>3, <2>4, <2>5
<1>3. CASE Returns
  <2> USE <1>3 DEF Returns
  <2>1. NamesTyped'
    BY DEF NamesTyped
  <2>2. PhasesFit'
    BY DEF PhasesFit
  <2>3. EntriesFit'
    BY DEF NamesTyped, EntriesFit, InHand
  <2>4. OwnFits'
    BY DEF NamesTyped, OwnFits, EntriesFit, InHand, IsSocket, PhasesFit
  <2>5. LookedFits'
    BY DEF NamesTyped, LookedFits, PhasesFit, Same
  <2>q. QED BY <2>1, <2>2, <2>3, <2>4, <2>5
<1>q. QED BY <1>1, <1>2, <1>3 DEF RetireStep

(* The loop, the handlers, the bootstrap and the service's close() leave the
   name alone, but for the beginning of a teardown.                         *)
LEMMA NamesStay ==
  ASSUME NamesInv, UNCHANGED <<naming, starting, retirement, broken>>,
         \/ UNCHANGED <<ended, teardown>>
         \/ startup = "serving" /\ ~ended /\ ended' = TRUE /\ teardown' = "closing",
         startup # "serving" => accepting'.pc = "off" /\ boot' = "off" /\ closure' = "open"
  PROVE  NamesInv'
<1> USE DEF NamesInv, naming, starting, retirement
<1>1. NamesTyped' /\ EntriesFit' /\ LookedFits'
  BY DEF NamesTyped, EntriesFit, LookedFits, InHand, Same, Prepared, Identified
<1>2. PhasesFit'
  BY DEF PhasesFit
<1>3. OwnFits'
  BY DEF OwnFits, InHand, IsSocket, Prepared, Identified
<1>q. QED BY <1>1, <1>2, <1>3

LEMMA LoopKeepsNames ==
  ASSUME NamesInv, LoopStep
  PROVE  NamesInv'
<1> USE DEF LoopStep, LoopsAgain, AcceptsNobody, LoopLeaves, ClosesItself, Accepts, Registers,
        StartsHandler, LoopRests
<1>1. UNCHANGED <<naming, starting, retirement, boot, broken, closure>>
  BY DEF world, bootstrap
<1>2. startup = "serving"
  BY DEF NamesInv, PhasesFit
<1>3. \/ UNCHANGED <<ended, teardown>>
      \/ ~ended /\ ended' = TRUE /\ teardown' = "closing"
  BY DEF ending, BeginsClose
<1>q. QED BY ONLY NamesInv, <1>1, <1>2, <1>3, NamesStay

LEMMA ServeKeepsNames ==
  ASSUME NamesInv, NEW c \in Peers, ServeStep(c)
  PROVE  NamesInv'
<1>1. UNCHANGED <<naming, starting, retirement, accepting, boot, ended, teardown, broken, closure>>
  BY DEF ServeStep, PeerConnects, NextFrame, Reads, Asks, BackendEnds, Sends, HandlerLeaves,
      ServeRests, ending, world, bootstrap
<1>2. startup # "serving" => accepting'.pc = "off" /\ boot' = "off" /\ closure' = "open"
  BY <1>1 DEF NamesInv, PhasesFit
<1>q. QED BY ONLY NamesInv, <1>1, <1>2, NamesStay

LEMMA BootKeepsNames ==
  ASSUME NamesInv, BootStep
  PROVE  NamesInv'
<1> USE DEF BootStep, OpensBootstrap, BootAccepts, BootReads, BootLocks, Attaches
<1>1. UNCHANGED <<naming, starting, retirement, ended, teardown, broken>>
  BY DEF BootRests, ending, world
<1>2. startup = "serving"
  BY DEF NamesInv, PhasesFit
<1>q. QED BY ONLY NamesInv, <1>1, <1>2, NamesStay

LEMMA CloseKeepsNames ==
  ASSUME NamesInv, CloseStep
  PROVE  NamesInv'
<1>1. CASE Unlistens
  <2> USE <1>1, SocketAssumption DEF Unlistens, NamesInv, NoRetire, starting, world, bootstrap,
          Linkable
  <2>1. NamesTyped'
    BY DEF NamesTyped, Conditions
  <2>2. PhasesFit'
    BY DEF PhasesFit
  <2>3. EntriesFit'
    BY DEF PhasesFit, EntriesFit, InHand
  <2>4. OwnFits'
    BY DEF NamesTyped, OwnFits, InHand, IsSocket, PhasesFit, Prepared, Identified
  <2>5. LookedFits'
    BY DEF LookedFits, Same, Identified
  <2>q. QED BY <2>1, <2>2, <2>3, <2>4, <2>5
<1>2. CASE ~Unlistens
  <2> USE <1>2 DEF CloseStep, JobStops, Revokes, Drains, ClosesTransport, ClosesBootstrap,
          JoinsBootstrap, CloseRests
  <2>1. UNCHANGED <<naming, starting, retirement, accepting, boot, broken>>
    OBVIOUS
  <2>2. startup # "serving" => accepting'.pc = "off" /\ boot' = "off" /\ closure' = "open"
    BY <2>1 DEF NamesInv, PhasesFit
  <2>3. \/ UNCHANGED <<ended, teardown>>
        \/ startup = "serving" /\ ~ended /\ ended' = TRUE /\ teardown' = "closing"
    BY DEF ending, BeginsClose, NamesInv, PhasesFit
  <2>q. QED BY ONLY NamesInv, <2>1, <2>2, <2>3, NamesStay
<1>q. QED BY <1>1, <1>2

-----------------------------------------------------------------------------
LEMMA HoldersFinite == IsFiniteSet(Holders) /\ Cardinality(Holders) \in Nat
BY SocketAssumption, FS_Subset, FS_CardinalityType DEF Holders

LEMMA SlotTaken ==
  ASSUME SlotsTyped, NEW c \in Peers, NEW t \in Slotted, task[c] \notin Slotted, Turn(c, t)
  PROVE  Cardinality(Holders') = Cardinality(Holders) + 1
<1>1. Holders' = Holders \cup {c} /\ c \notin Holders
  BY DEF Holders, Turn, SlotsTyped
<1>q. QED BY <1>1, HoldersFinite, FS_AddElement

LEMMA SlotGiven ==
  ASSUME SlotsTyped, NEW c \in Peers, NEW t \in {"refused", "done"}, task[c] \in Slotted,
         Turn(c, t)
  PROVE  Cardinality(Holders') = Cardinality(Holders) - 1
<1>1. Holders' = Holders \ {c} /\ c \in Holders
  BY DEF Holders, Turn, SlotsTyped, Slotted, AtWork
<1>q. QED BY <1>1, HoldersFinite, FS_RemoveElement

LEMMA SlotKept ==
  ASSUME SlotsTyped, NEW c \in Peers, NEW t, t \in Slotted <=> task[c] \in Slotted, Turn(c, t)
  PROVE  Holders' = Holders
BY DEF Holders, Turn, SlotsTyped

LEMMA LoopKeepsSlots ==
  ASSUME SlotsInv, LoopStep
  PROVE  SlotsInv'
<1> USE HoldersFinite DEF SlotsInv, LoopRests, LoopGoes, LetsGo
<1>0. CASE LoopsAgain \/ AcceptsNobody \/ LoopLeaves \/ ClosesItself
  <2>1. UNCHANGED <<slots, task>> /\ Holders' = Holders
    BY <1>0 DEF LoopsAgain, AcceptsNobody, LoopLeaves, ClosesItself, handling, Holders
  <2>2. /\ accepting'.hand \subseteq accepting.hand
        /\ accepting'.pc \in {"leaving", "waiting", "top", "gone", "closing"}
        /\ accepting' \in [pc : {"off", "top", "waiting", "registering", "spawning", "leaving",
                                 "closing", "gone"}, hand : SUBSET Peers]
    BY <1>0 DEF LoopsAgain, AcceptsNobody, LoopLeaves, ClosesItself, SlotsTyped
  <2>q. QED BY <2>1, <2>2 DEF SlotsTyped
<1>1. ASSUME NEW c \in Peers, Accepts(c) PROVE SlotsInv'
  <2> USE <1>1 DEF Accepts
  <2>1. CASE slots > 0 /\ Turn(c, "held")
    <3>1. Cardinality(Holders') = Cardinality(Holders) + 1
      BY <2>1, SlotTaken DEF Slotted, AtWork
    <3>2. slots' = slots - 1 /\ accepting' = [pc |-> "registering", hand |-> {c}]
      BY <2>1 DEF Turn, SlotsTyped
    <3>3. SlotsTyped' /\ task'[c] = "held"
      BY <2>1, <3>2 DEF SlotsTyped, Turn, Slotted
    <3>q. QED BY <3>1, <3>2, <3>3 DEF SlotsTyped
  <2>2. CASE UNCHANGED slots /\ Turn(c, "refused")
    <3>1. Holders' = Holders
      BY <2>2, SlotKept DEF Slotted, AtWork
    <3>2. SlotsTyped' /\ accepting'.pc = "top" /\ accepting'.hand = accepting.hand
      BY <2>2 DEF SlotsTyped, Turn
    <3>q. QED BY <2>2, <3>1, <3>2
  <2>q. QED BY <2>1, <2>2
<1>2. ASSUME NEW c \in Peers, Registers(c) PROVE SlotsInv'
  <2> USE <1>2 DEF Registers
  <2>h. task[c] = "held"
    OBVIOUS
  <2>1. CASE ended
    <3>1. Cardinality(Holders') = Cardinality(Holders) - 1
      BY <2>1, <2>h, SlotGiven DEF Slotted, AtWork
    <3>2. SlotsTyped' /\ accepting'.pc = "leaving" /\ slots' = slots + 1
      BY <2>1 DEF SlotsTyped, Turn
    <3>q. QED BY <3>1, <3>2 DEF SlotsTyped
  <2>2. CASE ~ended
    <3>1. Holders' = Holders
      BY <2>2, <2>h, SlotKept DEF Slotted, AtWork
    <3>2. SlotsTyped' /\ accepting'.pc = "spawning" /\ accepting'.hand = accepting.hand
      BY <2>2 DEF SlotsTyped, Turn, Slotted
    <3>3. \A d \in accepting'.hand : task'[d] = "starting"
      BY <2>2 DEF SlotsTyped, Turn
    <3>q. QED BY <2>2, <3>1, <3>2, <3>3
  <2>q. QED BY <2>1, <2>2
<1>3. ASSUME NEW c \in Peers, StartsHandler(c) PROVE SlotsInv'
  <2> USE <1>3 DEF StartsHandler
  <2>h. task[c] = "starting"
    OBVIOUS
  <2>1. Holders' = Holders
    BY <2>h, SlotKept DEF Slotted, AtWork
  <2>2. SlotsTyped' /\ accepting'.pc \in {"top", "gone"} /\ UNCHANGED slots
    BY DEF SlotsTyped, Turn, Slotted, AtWork
  <2>q. QED BY <2>1, <2>2
<1>q. QED BY <1>0, <1>1, <1>2, <1>3 DEF LoopStep

LEMMA ServeKeepsSlots ==
  ASSUME SlotsInv, NEW c \in Peers, ServeStep(c)
  PROVE  SlotsInv'
<1> USE HoldersFinite DEF SlotsInv, ServeRests
<1>1. CASE HandlerLeaves(c)
  <2> USE <1>1 DEF HandlerLeaves
  <2>1. Cardinality(Holders') = Cardinality(Holders) - 1
    BY SlotGiven DEF Slotted
  <2>2. SlotsTyped'
    BY DEF SlotsTyped, Turn
  <2>3. \A d \in Peers : task[d] \in {"held", "starting"} => task'[d] = task[d]
    BY DEF SlotsTyped, Turn
  <2>q. QED BY <2>1, <2>2, <2>3 DEF SlotsTyped
<1>2. CASE PeerConnects(c) \/ NextFrame(c) \/ Reads(c) \/ Asks(c) \/ BackendEnds(c) \/ Sends(c)
  <2> USE <1>2 DEF PeerConnects, NextFrame, Reads, Asks, BackendEnds, Sends
  <2>1. PICK t : /\ t \in Slotted \cup {"queued", "refused"} /\ Turn(c, t)
                 /\ t \in Slotted <=> task[c] \in Slotted
    BY DEF Slotted, AtWork
  <2>2. Holders' = Holders
    BY ONLY <2>1, SlotKept, SlotsInv DEF SlotsInv
  <2>3. UNCHANGED <<slots, accepting>>
    OBVIOUS
  <2>4. SlotsTyped'
    BY ONLY <2>1, <2>3, SlotsInv DEF SlotsTyped, Turn, SlotsInv
  <2>5. task[c] \notin {"held", "starting"}
    OBVIOUS
  <2>6. \A d \in Peers : task[d] \in {"held", "starting"} => task'[d] = task[d]
    BY ONLY <2>1, <2>5, SlotsInv DEF SlotsTyped, Turn, SlotsInv
  <2>q. QED BY ONLY <2>2, <2>3, <2>4, <2>6, SlotsInv DEF SlotsInv, SlotsTyped
<1>q. QED BY <1>1, <1>2 DEF ServeStep

LEMMA OthersKeepSlots ==
  ASSUME SlotsInv,
         \/ GuestTakes \/ \E g \in Guests : GuestPuts(g) \/ GuestTurns(g)
         \/ StartStep \/ RetireStep \/ BootStep \/ CloseStep
  PROVE  SlotsInv'
<1>1. CASE Spawns
  BY <1>1 DEF Spawns, StartRests, handling, SlotsInv, SlotsTyped, Holders
<1>2. CASE Unlistens
  <2>1. \A c \in Peers : task'[c] = task[c] \/ (task[c] = "queued" /\ task'[c] = "refused")
    BY <1>2 DEF Unlistens
  <2>2. SlotsTyped'
    BY <1>2, <2>1 DEF Unlistens, SlotsInv, SlotsTyped
  <2>3. Holders' = Holders
    BY <2>1 DEF Holders, Slotted, AtWork
  <2>4. UNCHANGED <<slots, accepting>>
    BY <1>2 DEF Unlistens
  <2>q. QED BY <2>1, <2>2, <2>3, <2>4 DEF SlotsInv, SlotsTyped
<1>3. CASE ~Spawns /\ ~Unlistens
  <2>1. UNCHANGED <<accepting, handling>>
    BY <1>3 DEF GuestPuts, GuestTurns, GuestTakes, GuestAct, StartStep, FindsLeftover,
        ProbesLeftover, Binds, Tunes, Identifies, StartRests, RetireStep, Moves, Checks, Returns,
        RetireRests, BootStep, OpensBootstrap, BootAccepts, BootReads, BootLocks, Attaches,
        BootRests, CloseStep, JobStops, Revokes, Drains, ClosesTransport, ClosesBootstrap,
        JoinsBootstrap, CloseRests
  <2>q. QED BY ONLY <2>1, SlotsInv DEF SlotsInv, SlotsTyped, Holders, handling
<1>q. QED BY <1>1, <1>2, <1>3

-----------------------------------------------------------------------------
LEMMA OperationStays ==
  ASSUME OperationInv, SlotsTyped, UNCHANGED <<operation, boot, attached>>,
         \A c \in Peers : task'[c] = "inside" => task[c] = "inside",
         \/ UNCHANGED closure
         \/ closure' \notin {"transport", "waiting", "closed"} /\ boot # "proving"
         \/ closure' = "revoked" /\ closure = "open"
         \/ closure' = "waiting" /\ closure = "transport"
  PROVE  OperationInv'
BY DEF OperationInv

LEMMA ServeKeepsOperation ==
  ASSUME OperationInv, SlotsTyped, NEW c \in Peers, ServeStep(c)
  PROVE  OperationInv'
<1>1. CASE Asks(c)
  BY <1>1, SocketAssumption DEF Asks, Turn, ServeRests, bootstrap, OperationInv, SlotsTyped
<1>2. CASE BackendEnds(c)
  BY <1>2, SocketAssumption DEF BackendEnds, Turn, ServeRests, bootstrap, OperationInv, SlotsTyped
<1>3. CASE PeerConnects(c) \/ NextFrame(c) \/ Reads(c) \/ Sends(c) \/ HandlerLeaves(c)
  <2>1. UNCHANGED <<operation, boot, attached, closure>>
    BY <1>3 DEF PeerConnects, NextFrame, Reads, Sends, HandlerLeaves, ServeRests, bootstrap
  <2>2. \A d \in Peers : task'[d] = "inside" => task[d] = "inside"
    BY <1>3 DEF PeerConnects, NextFrame, Reads, Sends, HandlerLeaves, Turn, SlotsTyped
  <2>q. QED BY ONLY OperationInv, SlotsTyped, <2>1, <2>2, OperationStays
<1>q. QED BY <1>1, <1>2, <1>3 DEF ServeStep

LEMMA BootKeepsOperation ==
  ASSUME OperationInv, BootStep
  PROVE  OperationInv'
<1>0. UNCHANGED <<task, closure>>
  BY DEF BootStep, OpensBootstrap, BootAccepts, BootReads, BootLocks, Attaches, BootRests, handling
<1>1. CASE OpensBootstrap \/ BootAccepts \/ BootReads
  <2>1. UNCHANGED <<operation, attached>> /\ boot \notin {"ready", "failed"} /\ boot' # "proving"
    BY <1>1 DEF OpensBootstrap, BootAccepts, BootReads
  <2>q. QED BY <1>0, <2>1 DEF OperationInv
<1>2. CASE BootLocks
  BY <1>0, <1>2, SocketAssumption DEF BootLocks, OperationInv
<1>3. CASE Attaches
  BY <1>0, <1>3, SocketAssumption DEF Attaches, OperationInv
<1>q. QED BY <1>1, <1>2, <1>3 DEF BootStep

LEMMA CloseKeepsOperation ==
  ASSUME OperationInv, SlotsTyped, CloseStep
  PROVE  OperationInv'
<1>1. CASE Unlistens
  <2>1. UNCHANGED <<operation, boot, attached, closure>>
    BY <1>1 DEF Unlistens, bootstrap
  <2>2. \A d \in Peers : task'[d] = "inside" => task[d] = "inside"
    BY <1>1 DEF Unlistens
  <2>q. QED BY ONLY OperationInv, SlotsTyped, <2>1, <2>2, OperationStays
<1>2. CASE ~Unlistens
  <2>1. UNCHANGED <<task, boot, attached>>
    BY <1>2 DEF CloseStep, JobStops, Revokes, Drains, ClosesTransport, ClosesBootstrap,
        JoinsBootstrap, CloseRests, handling
  <2>2. CASE JobStops \/ Revokes
    BY <2>1, <2>2 DEF JobStops, Revokes, OperationInv
  <2>3. CASE Drains
    BY <2>1, <2>3, SocketAssumption DEF Drains, OperationInv
  <2>4. CASE ClosesTransport
    BY <2>1, <2>4, SocketAssumption DEF ClosesTransport, OperationInv
  <2>5. CASE ClosesBootstrap \/ JoinsBootstrap
    BY <2>1, <2>5 DEF ClosesBootstrap, JoinsBootstrap, OperationInv
  <2>q. QED BY <1>2, <2>2, <2>3, <2>4, <2>5 DEF CloseStep
<1>q. QED BY <1>1, <1>2

LEMMA OthersKeepOperation ==
  ASSUME OperationInv, SlotsTyped,
         \/ GuestTakes \/ \E g \in Guests : GuestPuts(g) \/ GuestTurns(g)
         \/ StartStep \/ RetireStep \/ LoopStep
  PROVE  OperationInv'
<1>1. UNCHANGED <<operation, boot, attached, closure>>
  BY DEF GuestPuts, GuestTurns, GuestTakes, GuestAct, StartStep, FindsLeftover, ProbesLeftover,
      Binds, Tunes, Identifies, Spawns, StartRests, RetireStep, Moves, Checks, Returns, RetireRests,
      LoopStep, LoopsAgain, AcceptsNobody, LoopLeaves, ClosesItself, Accepts, Registers,
      StartsHandler, LoopRests, bootstrap
<1>2. \A c \in Peers : task'[c] = "inside" => task[c] = "inside"
  <2>1. CASE LoopStep
    BY <2>1 DEF LoopStep, LoopsAgain, AcceptsNobody, LoopLeaves, ClosesItself, Accepts, Registers,
        StartsHandler, Turn, SlotsTyped, handling
  <2>2. CASE ~LoopStep
    <3>1. UNCHANGED task
      BY <2>2 DEF GuestPuts, GuestTurns, GuestTakes, GuestAct, StartStep, FindsLeftover,
          ProbesLeftover, Binds, Tunes, Identifies, Spawns, StartRests, RetireStep, Moves, Checks,
          Returns, RetireRests, handling
    <3>q. QED BY <3>1
  <2>q. QED BY <2>1, <2>2
<1>q. QED BY ONLY OperationInv, SlotsTyped, <1>1, <1>2, OperationStays

-----------------------------------------------------------------------------
LEMMA SocketsKept == SocketInv /\ [SocketNext]_socketVars => SocketInv'
<1> SUFFICES ASSUME SocketInv, [SocketNext]_socketVars PROVE SocketInv'
  OBVIOUS
<1>0. NamesInv /\ SlotsInv /\ SlotsTyped /\ OperationInv
  BY DEF SocketInv, SlotsInv
<1>1. CASE UNCHANGED socketVars
  <2>1. NamesInv'
    BY <1>0, <1>1 DEF socketVars, naming, starting, retirement, ending, bootstrap, world, NamesInv,
        NamesTyped, PhasesFit, EntriesFit, OwnFits, LookedFits, InHand, Same, IsSocket
  <2>2. SlotsInv' /\ OperationInv'
    BY <1>0, <1>1 DEF socketVars, handling, bootstrap, SlotsInv, SlotsTyped, Holders, OperationInv
  <2>q. QED BY <2>1, <2>2 DEF SocketInv
<1>2. CASE GuestTakes \/ \E g \in Guests : GuestPuts(g) \/ GuestTurns(g)
  BY <1>0, <1>2, OwnersKeepNames, OthersKeepSlots, OthersKeepOperation DEF SocketInv
<1>3. CASE StartStep \/ RetireStep
  <2>1. NamesInv'
    BY <1>0, <1>3, StartKeepsNames, RetireKeepsNames
  <2>2. SlotsInv' /\ OperationInv'
    BY <1>0, <1>3, OthersKeepSlots, OthersKeepOperation
  <2>q. QED BY <2>1, <2>2 DEF SocketInv
<1>4. CASE LoopStep
  BY <1>0, <1>4, LoopKeepsNames, LoopKeepsSlots, OthersKeepOperation DEF SocketInv
<1>5. CASE BootStep \/ CloseStep
  BY <1>0, <1>5, BootKeepsNames, CloseKeepsNames, OthersKeepSlots, BootKeepsOperation,
     CloseKeepsOperation DEF SocketInv
<1>6. ASSUME NEW c \in Peers, ServeStep(c) PROVE SocketInv'
  BY <1>0, <1>6, ServeKeepsNames, ServeKeepsSlots, ServeKeepsOperation DEF SocketInv
<1>q. QED BY <1>1, <1>2, <1>3, <1>4, <1>5, <1>6 DEF SocketNext

LEMMA SocketInvariant == SocketSpec => []SocketInv
BY SocketsBegin, SocketsKept, PTL DEF SocketSpec

(* For any owners of the name and any interleaving with the service's threads:
   a later owner's entry is unlinked only if the kernel gave it the number of
   the inode that was looked at, the teardown leaves no own socket and no slot
   but those of handlers that could not be started, and the view of the
   workspace arrives in time or not at all (_retire_socket, _teardown, _serve
   of worker_git_transport.py, close of worker_git_service.py).             *)
THEOREM SocketsEnd == SocketSpec => []SocketsEndClean
<1>1. ASSUME SocketInv PROVE SocketsEndClean
  <2> USE <1>1 DEF SocketInv, NamesInv
  <2>1. LaterOwnersKept
    BY DEF LookedFits, EntriesFit, LaterOwnersKept, InHand
  <2>2. EndsClean
    <3>1. ASSUME \A c \in Peers : task[c] \in {"new", "refused", "stranded", "done"}
          PROVE  slots = MaxConnections - Cardinality({c \in Peers : task[c] = "stranded"})
      <4>1. Holders = {c \in Peers : task[c] = "stranded"}
        BY <3>1 DEF Holders, Slotted, AtWork
      <4>q. QED BY <4>1, HoldersFinite DEF SlotsInv, SlotsTyped
    <3>q. QED BY <3>1 DEF EndsClean, OwnFits
  <2>3. ViewIsTimely
    BY DEF OperationInv, ViewIsTimely
  <2>q. QED BY <2>1, <2>2, <2>3 DEF SocketsEndClean
<1>q. QED BY <1>1, SocketInvariant, PTL
=============================================================================
