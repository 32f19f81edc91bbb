-------------------------- MODULE WorkerGitSockets --------------------------
(***************************************************************************)
(* The two sockets of a job's Git service.  WorkerGitSocket                 *)
(* (worker_git_transport.py) binds a name in the job's directory, serves     *)
(* each connection by a thread of its own, and takes its name away again     *)
(* through a private custody, so that what another owner put there is not   *)
(* unlinked.  The bootstrap socket (worker_git_service.py) receives, once,  *)
(* the view of the workspace from the process tree of the job.               *)
(*                                                                         *)
(* An entry is an inode that may be linked at the name: the service's own   *)
(* socket, or one of the Guests, which other owners put there.  The kernel  *)
(* gives a new inode any number that is free.  What requests do once they   *)
(* reach the RPC is in WorkerGit.                                           *)
(***************************************************************************)
EXTENDS Naturals, FiniteSets

CONSTANTS
  Guests, Own, NoEntry,
  Numbers,          \* inode numbers
  Peers,            \* connections of the worker
  MaxConnections,   \* of the transport
  MaxFrames,        \* MAX_FRAMES_PER_CONNECTION
  MaxGuestActs,     \* bound of what other owners do
  MaxThreadFaults   \* how often Thread.start may fail

Linkable == Guests \cup {Own}
Conditions == {"none", "file", "dead", "bound", "live"}
Closures == {"open", "revoked", "transport", "waiting", "listener", "joining", "closed",
             "unverified"}
AtWork == {"top", "reading", "waiting", "inside", "sending"}

ASSUME SocketAssumption ==
  /\ Own \notin Guests /\ NoEntry \notin Linkable /\ Numbers # {}
  /\ IsFiniteSet(Peers) /\ Peers \cap {"free", "boot", "close"} = {}
  /\ {MaxConnections, MaxFrames, MaxGuestActs, MaxThreadFaults} \subseteq Nat

VARIABLES
  entry,       \* what is at SOCKET_NAME, or NoEntry
  fate,        \* where each entry is
  condition,   \* a file, or a socket: dead, bound, or live (it listens)
  inode,       \* its number
  guestActs, threadFaults,
  broken,      \* the custody is not a private directory
  jobLive,     \* the job is live and its grant stands
  startup,     \* the step of start()
  wanted,      \* the entry whose identity was taken last, or NoEntry
  looked,      \* all of them
  retiring,    \* the step of _retire_socket, and the entry in its custody
  unlinked,    \* entries _retire_socket unlinked
  accepting,   \* the step of the accept loop, and the connection in its hand
  slots, registered, task, frames,  \* _slots, _conns and _threads, each handler
  ended, teardown, found,           \* _closed, the step of close(), its snapshot
  operation,   \* who holds _operation
  closure,     \* the step of close() of the service
  boot, bootOpen, attached          \* the bootstrap; the view came while closure was so

naming == <<entry, fate, condition, inode>>
starting == <<startup, wanted, looked>>
retirement == <<retiring, unlinked>>
handling == <<slots, registered, task, frames>>
ending == <<ended, teardown, found>>
bootstrap == <<boot, bootOpen, attached>>
world == <<guestActs, broken, jobLive>>
socketVars == <<naming, starting, retirement, accepting, handling, ending, bootstrap, world,
                threadFaults, operation, closure>>

Pinned(e) == fate[e] \in {"there", "custody", "away"} \/ condition[e] \in {"bound", "live"}
Free == Numbers \ {inode[e] : e \in {x \in Linkable : Pinned(x)}}
Same(e, f) == inode[e] = inode[f]
IsSocket(e) == condition[e] \in {"dead", "bound", "live"}
NoRetire == [at |-> "idle", held |-> NoEntry]

SocketInit ==
  /\ entry \in Guests \cup {NoEntry}
  /\ condition \in [Linkable -> Conditions]
  /\ \A e \in Linkable : (condition[e] = "none") = (e # entry)
  /\ fate = [e \in Linkable |-> IF e = entry THEN "there" ELSE "unborn"]
  /\ \E n \in Numbers : inode = [e \in Linkable |-> n]
  /\ guestActs = 0 /\ threadFaults = 0 /\ broken \in BOOLEAN /\ jobLive = TRUE
  /\ startup = "new" /\ wanted = NoEntry /\ looked = {}
  /\ retiring = NoRetire /\ unlinked = {}
  /\ accepting = [pc |-> "off", hand |-> {}]
  /\ slots = MaxConnections /\ registered = {}
  /\ task = [c \in Peers |-> "new"] /\ frames = [c \in Peers |-> 0]
  /\ ended = FALSE /\ teardown = "no" /\ found = {}
  /\ operation = "free" /\ closure = "open"
  /\ boot = "off" /\ bootOpen = FALSE /\ attached = "no"

ThreadFault == threadFaults < MaxThreadFaults /\ threadFaults' = threadFaults + 1

-----------------------------------------------------------------------------
(* Other owners of the name.                                                *)
GuestAct ==
  /\ guestActs < MaxGuestActs /\ guestActs' = guestActs + 1
  /\ UNCHANGED <<broken, jobLive, starting, retirement, accepting, handling, ending, bootstrap,
                 threadFaults, operation, closure>>

GuestPuts(g) ==
  /\ GuestAct /\ entry = NoEntry /\ fate[g] = "unborn"
  /\ entry' = g /\ fate' = [fate EXCEPT ![g] = "there"]
  /\ \E c \in {"file", "bound"} : condition' = [condition EXCEPT ![g] = c]
  /\ \E n \in Free : inode' = [inode EXCEPT ![g] = n]

\* A socket put there listens, or its process ends.
GuestTurns(g) ==
  /\ GuestAct
  /\ \/ condition[g] = "bound" /\ condition' = [condition EXCEPT ![g] = "live"]
     \/ condition[g] \in {"bound", "live"} /\ condition' = [condition EXCEPT ![g] = "dead"]
  /\ UNCHANGED <<entry, fate, inode>>

\* What is there is unlinked, or parked under another name.
GuestTakes ==
  /\ GuestAct /\ entry # NoEntry /\ entry' = NoEntry
  /\ \E f \in {"gone", "away"} : fate' = [fate EXCEPT ![entry] = f]
  /\ UNCHANGED <<condition, inode>>

-----------------------------------------------------------------------------
(* start() and _bind, up to the loop's thread.                              *)
StartRests == UNCHANGED <<unlinked, handling, teardown, found, bootstrap, world, operation,
                          closure>>
StartGoes(step) == startup' = step /\ UNCHANGED ended

\* The teardown of a start that fails knows no identity: it closes the listener
\* and leaves the name alone.
StartFails ==
  /\ startup' = "refused" /\ ended' = TRUE
  /\ condition' = [condition EXCEPT ![Own] = IF @ = "bound" THEN "dead" ELSE @]

TakesIdentity == wanted' = entry /\ looked' = looked \cup {entry}

\* The job is live; the stat of _clear_stale.
FindsLeftover ==
  /\ startup = "new"
  /\ \/ (~jobLive \/ (entry # NoEntry /\ ~IsSocket(entry))) /\ StartFails
        /\ UNCHANGED <<wanted, looked>>
     \/ /\ jobLive /\ entry = NoEntry /\ StartGoes("binding")
        /\ UNCHANGED <<condition, wanted, looked>>
     \/ /\ jobLive /\ entry # NoEntry /\ IsSocket(entry)
        /\ TakesIdentity /\ StartGoes("probing") /\ UNCHANGED condition
  /\ UNCHANGED <<entry, fate, inode, retiring, accepting, threadFaults>> /\ StartRests

\* connect(): only a socket that listens accepts.
ProbesLeftover ==
  /\ startup = "probing"
  /\ IF entry # NoEntry /\ condition[entry] = "live"
     THEN StartFails /\ UNCHANGED retiring
     ELSE /\ StartGoes("clearing") /\ retiring' = [NoRetire EXCEPT !.at = "moving"]
          /\ UNCHANGED condition
  /\ UNCHANGED <<entry, fate, inode, wanted, looked, accepting, threadFaults>> /\ StartRests

Binds ==
  /\ startup = "binding"
  /\ \/ entry # NoEntry /\ StartFails /\ UNCHANGED <<entry, fate, inode>>
     \/ /\ entry = NoEntry /\ entry' = Own /\ fate' = [fate EXCEPT ![Own] = "there"]
        /\ \E n \in Free : inode' = [inode EXCEPT ![Own] = n]
        /\ condition' = [condition EXCEPT ![Own] = "bound"] /\ StartGoes("tuning")
  /\ UNCHANGED <<wanted, looked, retiring, accepting, threadFaults>> /\ StartRests

\* chmod goes by the name, and so does the stat after it: a private socket of
\* the same user that took the name in between is taken for the service's own.
Tunes ==
  /\ startup = "tuning"
  /\ \/ entry = NoEntry /\ StartFails
     \/ entry # NoEntry /\ StartGoes("identifying") /\ UNCHANGED condition
  /\ UNCHANGED <<entry, fate, inode, wanted, looked, retiring, accepting, threadFaults>>
  /\ StartRests

Identifies ==
  /\ startup = "identifying"
  /\ \/ entry # Own /\ StartFails /\ UNCHANGED <<wanted, looked>>
     \/ /\ entry # NoEntry /\ IsSocket(entry) /\ TakesIdentity /\ StartGoes("spawning")
        /\ condition' = [condition EXCEPT ![Own] = "live"]
  /\ UNCHANGED <<entry, fate, inode, retiring, accepting, threadFaults>> /\ StartRests

\* An error of Thread.start leaves the socket as it is: nobody accepts, and the
\* service has no reference to close it by.
Spawns ==
  /\ startup = "spawning"
  /\ \/ StartGoes("serving") /\ accepting' = [accepting EXCEPT !.pc = "top"]
        /\ UNCHANGED threadFaults
     \/ ThreadFault /\ StartGoes("orphaned") /\ UNCHANGED accepting
  /\ UNCHANGED <<naming, wanted, looked, retiring>> /\ StartRests

-----------------------------------------------------------------------------
(* _retire_socket, for start() and for the teardown.                        *)
RetireRests == UNCHANGED <<condition, inode, wanted, looked, accepting, handling, found, bootstrap,
                           world, threadFaults, operation, closure>>

\* start() goes on only if the stale socket was retired; close() joins for a
\* second each of the handlers it found.
Retired(ours) ==
  /\ retiring' = NoRetire
  /\ \/ teardown = "retiring" /\ teardown' = "over" /\ UNCHANGED <<startup, ended>>
     \/ teardown # "retiring" /\ ours /\ startup' = "binding" /\ UNCHANGED <<teardown, ended>>
     \/ /\ teardown # "retiring" /\ ~ours /\ startup' = "refused" /\ ended' = TRUE
        /\ UNCHANGED teardown

Moves ==
  /\ retiring.at = "moving"
  /\ \/ (broken \/ entry = NoEntry) /\ Retired(FALSE) /\ UNCHANGED <<entry, fate>>
     \/ /\ ~broken /\ entry # NoEntry
        /\ retiring' = [at |-> "checking", held |-> entry]
        /\ fate' = [fate EXCEPT ![entry] = "custody"] /\ entry' = NoEntry
        /\ UNCHANGED <<startup, ended, teardown>>
  /\ UNCHANGED unlinked /\ RetireRests

Unlinks ==
  /\ fate' = [fate EXCEPT ![retiring.held] = "gone"]
  /\ unlinked' = unlinked \cup {retiring.held} /\ Retired(TRUE)

\* Fault: what was moved is unlinked if it is a socket.
ChecksKind ==
  /\ retiring.at = "checking"
  /\ \/ IsSocket(retiring.held) /\ Unlinks
     \/ /\ ~IsSocket(retiring.held) /\ retiring' = [retiring EXCEPT !.at = "returning"]
        /\ UNCHANGED <<fate, unlinked, startup, ended, teardown>>
  /\ UNCHANGED entry /\ RetireRests

Checks ==
  /\ retiring.at = "checking"
  /\ LET ours == IsSocket(retiring.held) /\ Same(retiring.held, wanted) IN
     \/ ours /\ Unlinks
     \/ /\ ~ours /\ retiring' = [retiring EXCEPT !.at = "returning"]
        /\ UNCHANGED <<fate, unlinked, startup, ended, teardown>>
  /\ UNCHANGED entry /\ RetireRests

\* Create-only: a name taken again leaves the entry in custody.
Returns ==
  /\ retiring.at = "returning"
  /\ \/ /\ entry = NoEntry /\ entry' = retiring.held
        /\ fate' = [fate EXCEPT ![retiring.held] = "there"]
     \/ entry # NoEntry /\ UNCHANGED <<entry, fate>>
  /\ Retired(FALSE) /\ UNCHANGED unlinked /\ RetireRests

-----------------------------------------------------------------------------
(* _accept_loop, a step per blocking call or lock.                          *)
LoopRests == UNCHANGED <<naming, starting, retirement, frames, ending, bootstrap, world, operation,
                         closure>>
LoopGoes(step) == accepting' = [accepting EXCEPT !.pc = step]
LetsGo(step) == accepting' = [pc |-> step, hand |-> {}]
Turn(c, t) == task' = [task EXCEPT ![c] = t]

LoopsAgain ==
  /\ accepting.pc = "top" /\ LoopGoes(IF ended \/ ~jobLive THEN "leaving" ELSE "waiting")
  /\ UNCHANGED <<slots, registered, task, threadFaults>> /\ LoopRests

\* Without a slot the connection is closed at once.
Accepts(c) ==
  /\ accepting.pc = "waiting" /\ task[c] = "queued"
  /\ \/ /\ slots > 0 /\ slots' = slots - 1 /\ Turn(c, "held")
        /\ accepting' = [pc |-> "registering", hand |-> {c}]
     \/ slots = 0 /\ UNCHANGED slots /\ Turn(c, "refused") /\ LoopGoes("top")
  /\ UNCHANGED <<registered, threadFaults>> /\ LoopRests

\* A tick of POLL, or the listener is closed.
AcceptsNobody ==
  /\ accepting.pc = "waiting" /\ LoopGoes(IF condition[Own] = "live" THEN "top" ELSE "leaving")
  /\ UNCHANGED <<slots, registered, task, threadFaults>> /\ LoopRests

\* Fault: a connection that came too late keeps its slot.
RegistersOrDrops(c) ==
  /\ accepting.pc = "registering" /\ c \in accepting.hand
  /\ \/ ended /\ Turn(c, "refused") /\ LetsGo("leaving") /\ UNCHANGED registered
     \/ ~ended /\ registered' = registered \cup {c} /\ Turn(c, "starting") /\ LoopGoes("spawning")
  /\ UNCHANGED <<slots, threadFaults>> /\ LoopRests

\* Under the lock, with _closed looked at again.
Registers(c) ==
  /\ accepting.pc = "registering" /\ c \in accepting.hand
  /\ \/ /\ ended /\ slots' = slots + 1 /\ Turn(c, "refused") /\ LetsGo("leaving")
        /\ UNCHANGED registered
     \/ /\ ~ended /\ registered' = registered \cup {c} /\ Turn(c, "starting")
        /\ LoopGoes("spawning") /\ UNCHANGED slots
  /\ UNCHANGED threadFaults /\ LoopRests

\* An error of Thread.start ends the loop here: it closes nothing, and the
\* connection keeps its slot.
StartsHandler(c) ==
  /\ accepting.pc = "spawning" /\ c \in accepting.hand
  /\ \/ Turn(c, "top") /\ LetsGo("top") /\ UNCHANGED threadFaults
     \/ Turn(c, "stranded") /\ LetsGo("gone") /\ ThreadFault
  /\ UNCHANGED <<slots, registered>> /\ LoopRests

\* A loop that leaves first has close() called by a thread of its own.
LoopLeaves ==
  /\ accepting.pc = "leaving"
  /\ \/ LoopGoes(IF ended THEN "gone" ELSE "closing") /\ UNCHANGED threadFaults
     \/ ~ended /\ LoopGoes("gone") /\ ThreadFault
  /\ UNCHANGED <<slots, registered, task>> /\ LoopRests

-----------------------------------------------------------------------------
(* _serve, in the thread of one connection.                                 *)
ServeRests == UNCHANGED <<naming, starting, retirement, accepting, ending, bootstrap, world,
                          threadFaults, closure>>

PeerConnects(c) ==
  /\ task[c] = "new" /\ Turn(c, IF condition[Own] = "live" THEN "queued" ELSE "refused")
  /\ UNCHANGED <<slots, registered, frames, operation>> /\ ServeRests

NextFrame(c) ==
  /\ task[c] = "top"
  /\ Turn(c, IF frames[c] = MaxFrames \/ ended \/ ~jobLive THEN "leaving" ELSE "reading")
  /\ UNCHANGED <<slots, registered, frames, operation>> /\ ServeRests

\* A whole frame, be it one that arrived before the connection was shut; or the
\* end, a time-out, a frame too large.
Reads(c) ==
  /\ task[c] = "reading" /\ (Turn(c, "waiting") \/ Turn(c, "leaving"))
  /\ UNCHANGED <<slots, registered, frames, operation>> /\ ServeRests

\* With _serial: the RPC answers alone, or asks the backend under _operation.
Asks(c) ==
  /\ task[c] = "waiting" /\ \A d \in Peers : task[d] # "inside"
  /\ \/ Turn(c, "sending") /\ UNCHANGED operation
     \/ operation = "free" /\ operation' = c /\ Turn(c, "inside")
  /\ UNCHANGED <<slots, registered, frames>> /\ ServeRests

BackendEnds(c) ==
  /\ task[c] = "inside" /\ operation' = "free" /\ Turn(c, "sending")
  /\ UNCHANGED <<slots, registered, frames>> /\ ServeRests

\* Not on a connection the teardown has shut.
Sends(c) ==
  /\ task[c] = "sending"
  /\ \/ /\ ~(c \in found /\ teardown \in {"retiring", "over"})
        /\ Turn(c, "top") /\ frames' = [frames EXCEPT ![c] = @ + 1]
     \/ Turn(c, "leaving") /\ UNCHANGED frames
  /\ UNCHANGED <<slots, registered, operation>> /\ ServeRests

HandlerLeaves(c) ==
  /\ task[c] = "leaving" /\ Turn(c, "done")
  /\ registered' = registered \ {c} /\ slots' = slots + 1
  /\ UNCHANGED <<frames, operation>> /\ ServeRests

-----------------------------------------------------------------------------
(* close() of the transport, by the loop's thread or by the service.        *)
BeginsClose == ended' = TRUE /\ teardown' = "closing" /\ found' = registered

ClosesItself ==
  /\ accepting.pc = "closing" /\ LoopGoes("gone")
  /\ \/ ~ended /\ BeginsClose
     \/ ended /\ UNCHANGED ending
  /\ UNCHANGED <<naming, starting, retirement, handling, bootstrap, world, threadFaults, operation,
                 closure>>

\* What was found is shut and the listener closed, which refuses its backlog.
\* The number of the own inode is free from now on once it is unlinked.
Unlistens ==
  /\ teardown = "closing" /\ teardown' = "retiring"
  /\ condition' = [condition EXCEPT ![Own] = "dead"]
  /\ retiring' = [NoRetire EXCEPT !.at = "moving"]
  /\ task' = [c \in Peers |-> IF task[c] = "queued" THEN "refused" ELSE task[c]]
  /\ UNCHANGED <<entry, fate, inode, starting, unlinked, accepting, slots, registered, frames,
                 ended, found, bootstrap, world, threadFaults, operation, closure>>

-----------------------------------------------------------------------------
(* The bootstrap of WorkerGitService.                                       *)
BootRests == UNCHANGED <<naming, starting, retirement, accepting, handling, ending, world,
                         threadFaults, closure>>

\* The last steps of the constructor: the second socket and its thread.  What
\* raises before leaves a transport that nobody closes but its own loop.
OpensBootstrap ==
  /\ startup = "serving" /\ boot = "off"
  /\ boot' = "waiting" /\ bootOpen' = TRUE
  /\ UNCHANGED <<attached, operation>> /\ BootRests

\* Somebody connects, be it while the service closes; or half a minute passes,
\* or the listener is closed.
BootAccepts ==
  /\ boot = "waiting"
  /\ \/ bootOpen /\ boot' = "greeted" /\ UNCHANGED bootOpen
     \/ boot' = "failed" /\ bootOpen' = FALSE
  /\ UNCHANGED <<attached, operation>> /\ BootRests

\* User, token and four descriptors are right, and nobody else can connect.
BootReads ==
  /\ boot = "greeted" /\ bootOpen' = FALSE
  /\ boot' \in {"locking", "failed"}
  /\ UNCHANGED <<attached, operation>> /\ BootRests

\* Fault: the operation lock is not taken.
BootSkipsLock ==
  /\ boot = "locking"
  /\ boot' = IF closure = "open" /\ jobLive THEN "proving" ELSE "failed"
  /\ UNCHANGED <<bootOpen, attached, operation>> /\ BootRests

BootLocks ==
  /\ boot = "locking" /\ operation = "free"
  /\ IF closure = "open" /\ jobLive
     THEN boot' = "proving" /\ operation' = "boot"
     ELSE boot' = "failed" /\ UNCHANGED operation
  /\ UNCHANGED <<bootOpen, attached>> /\ BootRests

\* The peer descends from the job's process and owns what it sent: the view is
\* attached to the transaction.  The acknowledgement may fail.
Attaches ==
  /\ boot = "proving"
  /\ operation' = IF operation = "boot" THEN "free" ELSE operation
  /\ \/ attached' = closure /\ boot' \in {"ready", "failed"}
     \/ boot' = "failed" /\ UNCHANGED attached
  /\ UNCHANGED bootOpen /\ BootRests

-----------------------------------------------------------------------------
(* The job's end, and close() of the service by the job's monitor.          *)
CloseRests == UNCHANGED <<naming, starting, retirement, accepting, handling, boot, attached,
                          guestActs, broken, threadFaults>>

JobStops ==
  /\ jobLive /\ jobLive' = FALSE
  /\ UNCHANGED <<ending, operation, closure, bootOpen>> /\ CloseRests

\* _closed, and the grant is revoked.
Revokes ==
  /\ closure = "open" /\ boot # "off" /\ closure' = "revoked" /\ jobLive' = FALSE
  /\ UNCHANGED <<ending, operation, bootOpen>> /\ CloseRests

Drains ==
  /\ closure = "revoked" /\ operation = "free"
  /\ operation' = "close" /\ closure' = "transport"
  /\ UNCHANGED <<ending, jobLive, bootOpen>> /\ CloseRests

\* A transport that its own loop began to close is left to that thread.
ClosesTransport ==
  /\ \/ /\ closure = "transport" /\ ~ended /\ BeginsClose
        /\ closure' = "waiting" /\ UNCHANGED operation
     \/ /\ (closure = "transport" /\ ended) \/ (closure = "waiting" /\ teardown = "over")
        /\ closure' = "listener" /\ operation' = "free" /\ UNCHANGED ending
  /\ UNCHANGED <<jobLive, bootOpen>> /\ CloseRests

ClosesBootstrap ==
  /\ closure = "listener" /\ closure' = "joining" /\ bootOpen' = FALSE
  /\ UNCHANGED <<ending, operation, jobLive>> /\ CloseRests

\* A thread that is still there after a second fails the clean-up.
JoinsBootstrap ==
  /\ closure = "joining"
  /\ closure' = IF boot \in {"ready", "failed"} THEN "closed" ELSE "unverified"
  /\ UNCHANGED <<ending, operation, jobLive, bootOpen>> /\ CloseRests

-----------------------------------------------------------------------------
StartStep == FindsLeftover \/ ProbesLeftover \/ Binds \/ Tunes \/ Identifies \/ Spawns
RetireStep == Moves \/ Checks \/ Returns
LoopStep ==
  \/ LoopsAgain \/ AcceptsNobody \/ LoopLeaves \/ ClosesItself
  \/ \E c \in Peers : Accepts(c) \/ Registers(c) \/ StartsHandler(c)
ServeStep(c) ==
  \/ PeerConnects(c) \/ NextFrame(c) \/ Reads(c) \/ Asks(c) \/ BackendEnds(c) \/ Sends(c)
  \/ HandlerLeaves(c)
BootStep == OpensBootstrap \/ BootAccepts \/ BootReads \/ BootLocks \/ Attaches
CloseStep ==
  \/ JobStops \/ Revokes \/ Drains \/ ClosesTransport \/ Unlistens \/ ClosesBootstrap
  \/ JoinsBootstrap

SocketNext ==
  \/ \E g \in Guests : GuestPuts(g) \/ GuestTurns(g)
  \/ GuestTakes \/ StartStep \/ RetireStep \/ LoopStep \/ BootStep \/ CloseStep
  \/ \E c \in Peers : ServeStep(c)

SocketSpec == SocketInit /\ [][SocketNext]_socketVars

-----------------------------------------------------------------------------
(* Properties.                                                              *)
SocketTypeOK ==
  /\ entry \in Linkable \cup {NoEntry}
  /\ fate \in [Linkable -> {"unborn", "there", "custody", "away", "gone"}]
  /\ condition \in [Linkable -> Conditions] /\ inode \in [Linkable -> Numbers]
  /\ guestActs \in 0..MaxGuestActs /\ threadFaults \in 0..MaxThreadFaults
  /\ {broken, jobLive, ended, bootOpen} \subseteq BOOLEAN
  /\ startup \in {"new", "probing", "clearing", "binding", "tuning", "identifying", "spawning",
                  "serving", "orphaned", "refused"}
  /\ wanted \in Linkable \cup {NoEntry} /\ looked \subseteq Linkable /\ unlinked \subseteq Linkable
  /\ retiring \in [at : {"idle", "moving", "checking", "returning"},
                   held : Linkable \cup {NoEntry}]
  /\ accepting \in [pc : {"off", "top", "waiting", "registering", "spawning", "leaving",
                          "closing", "gone"}, hand : SUBSET Peers]
  /\ slots \in 0..MaxConnections /\ registered \subseteq Peers /\ found \subseteq Peers
  /\ task \in [Peers -> AtWork \cup {"new", "queued", "refused", "held", "starting", "stranded",
                                     "leaving", "done"}]
  /\ frames \in [Peers -> 0..MaxFrames]
  /\ teardown \in {"no", "closing", "retiring", "over"}
  /\ operation \in {"free", "boot", "close"} \cup Peers
  /\ closure \in Closures
  /\ boot \in {"off", "waiting", "greeted", "locking", "proving", "ready", "failed"}
  /\ attached \in {"no"} \cup Closures

\* What another owner put at the name after the service had taken the identity
\* of what was there is unlinked only if the kernel gave it the number of that
\* inode again; otherwise it is at the name or, when yet another entry took the
\* name, in the custody.
LaterOwnersKept ==
  /\ \A g \in unlinked \cap Guests : g \in looked \/ \E e \in looked : Same(e, g)
  /\ retiring.at = "idle" =>
       \A g \in Guests : fate[g] = "custody" => \E h \in Guests \ {g} : fate[h] # "unborn"

\* A close() of the transport that is over left no socket of its own at the
\* name, unless the custody is unusable; and once the loop and the handlers are
\* gone the slots are back, but those of handlers that could not be started.
EndsClean ==
  teardown = "over" =>
    /\ entry # Own \/ broken
    /\ /\ accepting.pc = "gone"
       /\ \A c \in Peers : task[c] \in {"new", "refused", "stranded", "done"}
       => slots = MaxConnections - Cardinality({c \in Peers : task[c] = "stranded"})

\* The worker's view reaches the transaction only before the service closes its
\* transport, and a close() that returned left no thread to attach it later.
ViewIsTimely ==
  /\ attached \in {"no", "open", "revoked"}
  /\ closure = "closed" => boot \in {"ready", "failed"}

\* What the service leaves of its sockets, whoever else used the name and
\* whichever of its threads was first.
SocketsEndClean == LaterOwnersKept /\ EndsClean /\ ViewIsTimely
=============================================================================
