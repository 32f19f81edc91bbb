---------------------------- MODULE WorkerEgress ----------------------------
(***************************************************************************)
(* The network endpoint of one job: PublicEgress and HeadroomEgress of      *)
(* agents/development_egress.py, ProviderEgress of agents/provider_egress.py *)
(* and the bridge in the worker's own network namespace.  An acceptor thread *)
(* hands every connection to a thread of its own, at most EgressLimit at a   *)
(* time; close(), called when the job ends, stops the acceptor, shuts what   *)
(* is registered and joins what it found, each with a deadline.             *)
(*                                                                         *)
(* A link is one connection of the worker.  Its request is of a class the    *)
(* endpoints tell apart: a "model" call, a WebSocket "upgrade", a "hosted"   *)
(* payload that asks the provider for its own network tools, a "foreign"    *)
(* destination or operation, and "garbled" framing.                         *)
(***************************************************************************)
EXTENDS Naturals, FiniteSets

CONSTANTS
  Links,             \* connections the worker may open
  EgressLimit,       \* MAX_CONNECTIONS, of the endpoint and of the bridge
  Policies,          \* subset of {"public", "headroom", "enforced", "provider"}
  MaxForwards,       \* how many blocks of a link are counted
  MaxStartFailures   \* how often Thread.start may fail

ASSUME EgressAssumption ==
  /\ IsFiniteSet(Links) /\ EgressLimit \in Nat \ {0}
  /\ Policies \subseteq {"public", "headroom", "enforced", "provider"} /\ Policies # {}
  /\ MaxForwards \in Nat \ {0} /\ MaxStartFailures \in Nat

RequestClasses == {"model", "upgrade", "hosted", "foreign", "garbled"}
Sides == {"client", "downstream", "upstream"}
Stages == {"new", "refused", "queued", "held", "starting", "stranded", "reading", "wrapping",
           "asking", "connecting", "connected", "sending", "upgrading", "relaying",
           "answering", "ending", "broken", "done"}

VARIABLES
  served,      \* which endpoint: "enforced" is Headroom with provider tools checked
  asks,        \* the request each link carries
  stage,       \* where each link is
  bridged,     \* links the bridge holds a slot for
  halted,      \* _stop
  listening,   \* the listener is open
  acceptor,    \* the acceptor thread: its step and the client in its hand
  permits,     \* _slots
  connections, \* _connections
  threads,     \* _threads
  cut,         \* sockets close() shut
  closer,      \* the step of close()
  snapshot,    \* what it found: [sockets, threads]
  endpoint,    \* the socket path exists
  forwards,    \* request blocks each link sent upstream
  late,        \* links that sent one after close() had returned
  startFailures

egressVars == <<served, asks, stage, bridged, halted, listening, acceptor, permits,
                connections, threads, cut, closer, snapshot, endpoint, forwards, late,
                startFailures>>
handlerSide == <<asks, stage, bridged, forwards, late>>
closerSide == <<halted, listening, cut, closer, snapshot, endpoint>>

EgressInit ==
  /\ served \in Policies
  /\ asks = [l \in Links |-> "garbled"] /\ stage = [l \in Links |-> "new"]
  /\ bridged = {}
  /\ halted = FALSE /\ listening = TRUE
  /\ acceptor = [pc |-> "top", hand |-> {}]
  /\ permits = EgressLimit /\ connections = {} /\ threads = {}
  /\ cut = {} /\ closer = "idle" /\ snapshot = [sockets |-> {}, threads |-> {}]
  /\ endpoint = TRUE
  /\ forwards = [l \in Links |-> 0] /\ late = {} /\ startFailures = 0

To(l, s) == stage' = [stage EXCEPT ![l] = s]
Closed == closer \in {"closed", "failed"}
Unstarted(l) == stage[l] \in {"starting", "stranded"}

-----------------------------------------------------------------------------
(* What each endpoint lets through.                                         *)

\* CONNECT names a host whose every answer is a public address.
ConnectAdmits(request) == request \notin {"foreign", "garbled"}

\* Fault: enforce_provider_tools looks at bodies only.
HeadroomAdmitsUpgrades(request) ==
  /\ request \notin {"foreign", "garbled"}
  /\ served = "enforced" => request # "hosted"

\* One framed model call, or an upgrade on the responses path.
HeadroomAdmits(request) ==
  /\ request \notin {"foreign", "garbled"}
  /\ served = "enforced" => request \notin {"upgrade", "hosted"}

\* request_header refuses upgrades, validate_payload provider-hosted tools.
ProviderAdmits(request) == request = "model"

-----------------------------------------------------------------------------
(* The bridge in the worker's namespace.                                    *)
BridgeOpens(l) ==
  /\ stage[l] = "new"
  /\ \E request \in RequestClasses : asks' = [asks EXCEPT ![l] = request]
  /\ \/ /\ Cardinality(bridged) < EgressLimit
        /\ bridged' = bridged \cup {l}
        /\ To(l, IF listening THEN "queued" ELSE "refused")
     \/ /\ Cardinality(bridged) >= EgressLimit
        /\ To(l, "refused") /\ UNCHANGED bridged
  /\ UNCHANGED <<served, acceptor, permits, connections, threads, closerSide, forwards,
                 late, startFailures>>

\* _bridge_connection returns: an end of the connection is closed, or a timeout.
BridgeEnds(l) ==
  /\ l \in bridged
  /\ bridged' = bridged \ {l}
  /\ UNCHANGED <<served, asks, stage, acceptor, permits, connections, threads, closerSide,
                 forwards, late, startFailures>>

-----------------------------------------------------------------------------
(* _accept.                                                                 *)
AcceptLoop ==
  /\ acceptor.pc = "top"
  /\ acceptor' = [acceptor EXCEPT !.pc = IF halted THEN "gone" ELSE "waiting"]
  /\ UNCHANGED <<served, handlerSide, permits, connections, threads, closerSide, startFailures>>

AcceptLink(l) ==
  /\ acceptor.pc = "waiting" /\ listening /\ stage[l] = "queued"
  /\ \/ /\ permits > 0 /\ permits' = permits - 1
        /\ acceptor' = [pc |-> "admit", hand |-> {l}]
        /\ To(l, "held")
     \/ /\ permits = 0 /\ UNCHANGED permits
        /\ acceptor' = [acceptor EXCEPT !.pc = "top"]
        /\ To(l, "refused")
  /\ UNCHANGED <<served, asks, bridged, connections, threads, closerSide, forwards, late,
                 startFailures>>

\* accept() times out, or finds the listener closed.
AcceptNothing ==
  /\ acceptor.pc = "waiting"
  /\ acceptor' = [acceptor EXCEPT !.pc = IF listening THEN "top" ELSE "gone"]
  /\ UNCHANGED <<served, handlerSide, permits, connections, threads, closerSide, startFailures>>

\* Fault: a link that came too late keeps its permit.
AdmitsWithoutRelease(l) ==
  /\ acceptor.pc = "admit" /\ l \in acceptor.hand
  /\ \/ /\ halted
        /\ acceptor' = [pc |-> "gone", hand |-> {}]
        /\ To(l, "refused")
        /\ UNCHANGED <<connections, threads>>
     \/ /\ ~halted
        /\ connections' = connections \cup {<<l, "client">>} /\ threads' = threads \cup {l}
        /\ acceptor' = [acceptor EXCEPT !.pc = "start"]
        /\ To(l, "starting")
  /\ UNCHANGED <<served, asks, bridged, permits, closerSide, forwards, late, startFailures>>

\* Under the lock, with _stop looked at again.
AdmitLink(l) ==
  /\ acceptor.pc = "admit" /\ l \in acceptor.hand
  /\ \/ /\ halted
        /\ permits' = permits + 1
        /\ acceptor' = [pc |-> "gone", hand |-> {}]
        /\ To(l, "refused")
        /\ UNCHANGED <<connections, threads>>
     \/ /\ ~halted
        /\ connections' = connections \cup {<<l, "client">>} /\ threads' = threads \cup {l}
        /\ acceptor' = [acceptor EXCEPT !.pc = "start"]
        /\ To(l, "starting")
        /\ UNCHANGED permits
  /\ UNCHANGED <<served, asks, bridged, closerSide, forwards, late, startFailures>>

\* thread.start(): an error ends the acceptor with the link still registered.
StartThread(l) ==
  /\ acceptor.pc = "start" /\ l \in acceptor.hand
  /\ \/ /\ acceptor' = [pc |-> "top", hand |-> {}]
        /\ To(l, "reading") /\ UNCHANGED startFailures
     \/ /\ startFailures < MaxStartFailures /\ startFailures' = startFailures + 1
        /\ acceptor' = [pc |-> "gone", hand |-> {}]
        /\ To(l, "stranded")
  /\ UNCHANGED <<served, asks, bridged, permits, connections, threads, closerSide, forwards,
                 late>>

-----------------------------------------------------------------------------
(* _handle of the three endpoints, one step per lock or blocking call.       *)
HandlerRests == UNCHANGED <<served, asks, bridged, acceptor, permits, threads, closerSide,
                            startFailures>>

\* The CONNECT line, or the one Headroom request.
ReadsRequest(l) ==
  /\ stage[l] = "reading" /\ <<l, "client">> \notin cut
  /\ \/ served = "public" /\ ConnectAdmits(asks[l]) /\ To(l, "connecting")
     \/ served \in {"headroom", "enforced"} /\ HeadroomAdmits(asks[l]) /\ To(l, "connecting")
     \/ served = "provider" /\ ConnectAdmits(asks[l]) /\ To(l, "wrapping")
  /\ UNCHANGED <<connections, forwards, late>> /\ HandlerRests

\* wrap_socket detached the client: only `downstream` can be shut from here on.
RegistersDownstream(l) ==
  /\ stage[l] = "wrapping"
  /\ connections' = connections \cup {<<l, "downstream">>}
  /\ To(l, "asking")
  /\ UNCHANGED <<forwards, late>> /\ HandlerRests

\* The HTTP request, its whole body and the payload check.
ReadsPayload(l) ==
  /\ stage[l] = "asking" /\ <<l, "downstream">> \notin cut
  /\ ProviderAdmits(asks[l]) /\ To(l, "connecting")
  /\ UNCHANGED <<connections, forwards, late>> /\ HandlerRests

\* Up to CONNECT_TIMEOUT: longer than close() waits for the handlers.
Connects(l) ==
  /\ stage[l] = "connecting" /\ To(l, "connected")
  /\ UNCHANGED <<connections, forwards, late>> /\ HandlerRests

\* Fault: an upstream that connected too late is kept, as with the provider.
RegistersAlways(l) ==
  /\ stage[l] = "connected"
  /\ connections' = connections \cup {<<l, "upstream">>} /\ To(l, "sending")
  /\ UNCHANGED <<forwards, late>> /\ HandlerRests

\* Under the lock.  The provider's handler does not look at _stop again.
RegistersUpstream(l) ==
  /\ stage[l] = "connected"
  /\ \/ /\ halted /\ served # "provider"
        /\ To(l, "ending") /\ UNCHANGED connections
     \/ /\ ~halted \/ served = "provider"
        /\ connections' = connections \cup {<<l, "upstream">>} /\ To(l, "sending")
  /\ UNCHANGED <<forwards, late>> /\ HandlerRests

Forward(l) ==
  /\ <<l, "upstream">> \notin cut
  /\ forwards[l] < MaxForwards
  /\ forwards' = [forwards EXCEPT ![l] = @ + 1]
  /\ late' = IF Closed THEN late \cup {l} ELSE late

SendsUpstream(l) ==
  /\ stage[l] = "sending" /\ Forward(l)
  /\ To(l, IF served = "public" THEN "relaying"
           ELSE IF served # "provider" /\ asks[l] = "upgrade" THEN "upgrading" ELSE "answering")
  /\ UNCHANGED connections /\ HandlerRests

\* A valid 101 opens both directions, any other answer is drained.
ReadsUpgrade(l) ==
  /\ stage[l] = "upgrading" /\ <<l, "upstream">> \notin cut
  /\ To(l, "relaying") \/ To(l, "answering")
  /\ UNCHANGED <<connections, forwards, late>> /\ HandlerRests

\* _relay moves a further block of the worker upstream.
RelaysBlock(l) ==
  /\ stage[l] = "relaying" /\ <<l, "client">> \notin cut /\ Forward(l)
  /\ UNCHANGED <<stage, connections>> /\ HandlerRests

\* End of file, a timeout, a refusal, _stop, a cut socket, or a further request
\* block on a link that carries one request.
Leaves(l) ==
  /\ stage[l] \in {"reading", "wrapping", "asking", "connecting", "sending", "upgrading",
                   "relaying", "answering"}
  /\ To(l, "ending")
  /\ UNCHANGED <<connections, forwards, late>> /\ HandlerRests

\* The provider's TLS sockets that close() has shut but not closed: the shutdown
\* dropped _sslobj, and unwrap() raises ValueError.
Wrapped(c) == served = "provider" /\ c[2] \in {"downstream", "upstream"}
Unwrappable(l) ==
  ~ \E c \in snapshot.sockets \cap cut : closer = "closing" /\ Wrapped(c) /\ c[1] = l

\* The finally of the handlers.
HandlerEnds(l) ==
  /\ stage[l] = "ending" /\ Unwrappable(l)
  /\ connections' = connections \ ({l} \X Sides) /\ threads' = threads \ {l}
  /\ permits' = permits + 1
  /\ To(l, "done")
  /\ UNCHANGED <<served, asks, bridged, acceptor, closerSide, forwards, late, startFailures>>

\* Only OSError is suppressed around unwrap(): the thread ends there, and neither
\* the registrations nor the permit are given back.
HandlerRaises(l) ==
  /\ stage[l] = "ending" /\ ~Unwrappable(l)
  /\ To(l, "broken")
  /\ UNCHANGED <<connections, forwards, late>> /\ HandlerRests

-----------------------------------------------------------------------------
(* close.                                                                   *)
CloserRests == UNCHANGED <<served, asks, bridged, acceptor, permits, connections, threads,
                           forwards, late, startFailures>>

CloseStops ==
  /\ closer = "idle" /\ halted' = TRUE /\ closer' = "listener"
  /\ UNCHANGED <<stage, listening, cut, snapshot, endpoint>> /\ CloserRests

ClosesListener ==
  /\ closer = "listener" /\ listening' = FALSE /\ closer' = "acceptor"
  /\ stage' = [l \in Links |-> IF stage[l] = "queued" THEN "refused" ELSE stage[l]]
  /\ UNCHANGED <<halted, cut, snapshot, endpoint>> /\ CloserRests

\* The join of the acceptor ends, or a second passes; then the snapshot.
TakesSnapshot ==
  /\ closer = "acceptor" /\ closer' = "cutting"
  /\ snapshot' = [sockets |-> connections, threads |-> threads]
  /\ UNCHANGED <<stage, halted, listening, cut, endpoint>> /\ CloserRests

\* shutdown(), then close(): two steps where a handler tells them apart.
CutsSocket ==
  /\ closer = "cutting"
  /\ \/ \E c \in snapshot.sockets :
          /\ cut' = cut \cup {c}
          /\ \/ Wrapped(c) /\ closer' = "closing" /\ UNCHANGED snapshot
             \/ /\ ~Wrapped(c) /\ UNCHANGED closer
                /\ snapshot' = [snapshot EXCEPT !.sockets = @ \ {c}]
     \/ snapshot.sockets = {} /\ closer' = "joining" /\ UNCHANGED <<cut, snapshot>>
  /\ UNCHANGED <<stage, halted, listening, endpoint>> /\ CloserRests

ClosesSocket ==
  /\ closer = "closing" /\ closer' = "cutting"
  /\ snapshot' = [snapshot EXCEPT !.sockets = @ \ cut]
  /\ UNCHANGED <<stage, halted, listening, cut, endpoint>> /\ CloserRests

\* Each join ends with its thread or at the deadline; joining a thread that was
\* never started raises, and the endpoint is not unlinked.
JoinsHandlers ==
  /\ closer = "joining"
  /\ \/ \E l \in snapshot.threads :
          /\ snapshot' = [snapshot EXCEPT !.threads = @ \ {l}]
          /\ closer' = IF Unstarted(l) THEN "failed" ELSE "joining"
          /\ UNCHANGED endpoint
     \/ /\ snapshot.threads = {} /\ closer' = "closed" /\ endpoint' = FALSE
        /\ UNCHANGED snapshot
  /\ UNCHANGED <<stage, halted, listening, cut>> /\ CloserRests

-----------------------------------------------------------------------------
HandlerStep(l) ==
  \/ ReadsRequest(l) \/ RegistersDownstream(l) \/ ReadsPayload(l) \/ Connects(l)
  \/ RegistersUpstream(l) \/ SendsUpstream(l) \/ ReadsUpgrade(l) \/ Leaves(l) \/ HandlerEnds(l)
  \/ HandlerRaises(l)
AcceptorStep ==
  AcceptLoop \/ AcceptNothing
  \/ \E l \in Links : AcceptLink(l) \/ AdmitLink(l) \/ StartThread(l)
CloserStep == ClosesListener \/ TakesSnapshot \/ CutsSocket \/ ClosesSocket \/ JoinsHandlers

EgressNext ==
  \/ \E l \in Links : BridgeOpens(l) \/ BridgeEnds(l) \/ HandlerStep(l) \/ RelaysBlock(l)
  \/ AcceptorStep \/ CloseStops \/ CloserStep

\* Threads are scheduled and every blocking call has a timeout: a handler never
\* stays where it is, whatever its peers do.
EgressFairness ==
  /\ \A l \in Links : WF_egressVars(HandlerStep(l))
  /\ WF_egressVars(AcceptorStep) /\ WF_egressVars(CloserStep)

EgressSpec == EgressInit /\ [][EgressNext]_egressVars /\ EgressFairness

-----------------------------------------------------------------------------
(* Properties.                                                              *)
EgressTypeOK ==
  /\ served \in Policies /\ asks \in [Links -> RequestClasses]
  /\ stage \in [Links -> Stages]
  /\ bridged \subseteq Links /\ halted \in BOOLEAN /\ listening \in BOOLEAN
  /\ acceptor \in [pc : {"top", "waiting", "admit", "start", "gone"}, hand : SUBSET Links]
  /\ permits \in 0..EgressLimit
  /\ connections \subseteq Links \X Sides /\ threads \subseteq Links
  /\ cut \subseteq Links \X Sides
  /\ closer \in {"idle", "listener", "acceptor", "cutting", "closing", "joining", "closed",
                 "failed"}
  /\ snapshot \in [sockets : SUBSET (Links \X Sides), threads : SUBSET Links]
  /\ endpoint \in BOOLEAN /\ forwards \in [Links -> 0..MaxForwards]
  /\ late \subseteq Links /\ startFailures \in 0..MaxStartFailures

\* Once close() has returned, the CONNECT and Headroom endpoints send nothing
\* more for the worker, however long a connection attempt was under way and
\* whichever thread the acceptor was starting.
SilentAfterClose == served # "provider" => late = {}

\* A model API link carries one inspected request upstream; more than that only
\* an upgraded Headroom link, which the provider check never admits.
OneInspectedRequest ==
  \A l \in Links : forwards[l] > 1 =>
    served = "public" \/ (served = "headroom" /\ asks[l] = "upgrade")

\* After close() begins every handler ends and gives its permit back, and close()
\* itself ends.  Exceptions: a thread that could not be started, and a handler of
\* the provider's endpoint that unwraps a TLS socket between close()'s shutdown
\* and close of it; each keeps exactly one permit.
HandlersEnd ==
  (closer # "idle") ~>
    /\ Closed
    /\ \A l \in Links : /\ stage[l] \in {"new", "refused", "done", "stranded", "broken"}
                         /\ stage[l] = "broken" => served = "provider"
    /\ permits = EgressLimit - Cardinality({l \in Links : stage[l] \in {"stranded", "broken"}})
=============================================================================
