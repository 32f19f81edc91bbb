-------------------------- MODULE DevelopmentLaunch --------------------------
(***************************************************************************)
(* Launching a confined worker: DevelopmentRuntime of agents/development.py. *)
(* prepare() reads the configuration, verifies the worker once per           *)
(* signature of its files (a probe inside the sandbox, cached under          *)
(* _probe_lock), admits the workspace against the operator's allowlist and   *)
(* builds the sandbox; cleanup() gives back what the build took.  Callers    *)
(* are threads of the gateway; the operator replaces the executable, the     *)
(* shared tools or the configuration between any two of their steps.         *)
(*                                                                         *)
(* Files are versions that only grow.  A configuration is the allowlist it   *)
(* gives: per workspace path "no", "read" or "write".                       *)
(***************************************************************************)
EXTENDS Naturals, FiniteSets

CONSTANTS
  Callers,       \* threads in prepare()
  Places,        \* directories that may be workspaces
  Above,         \* Above[p]: the places that strictly contain p
  Secrets,       \* places with configuration, state or credentials in them
  MaxChanges,    \* how often the operator changes something
  MaxCloseFaults \* how often closing an endpoint may raise

Grants == {"no", "read", "write"}
None == 0
Versions == 1..(MaxChanges + 1)
Resources == {"root", "descriptors", "network", "directory"}

ASSUME LaunchAssumption ==
  /\ IsFiniteSet(Callers) /\ IsFiniteSet(Places)
  /\ Above \in [Places -> SUBSET Places] /\ Secrets \subseteq Places
  /\ \A p \in Places : p \notin Above[p] /\ \A q \in Above[p] : Above[q] \subseteq Above[p]
  /\ MaxChanges \in Nat /\ MaxCloseFaults \in Nat

VARIABLES
  allow,       \* the allowlist on disk
  exe, tools,  \* versions on disk: worker executable, shared tool release
  changes,
  cache,       \* _cache: the signature of the last successful probe
  evidence,    \* _evidence: the version that probe saw
  probing,     \* _probe_lock
  toolCache, checking,   \* _toolkit_cache and _toolkit_lock
  probed, validated,     \* versions a probe or a full validation passed
  call,        \* each caller's step
  wants,       \* [place, write] it asks for
  held,        \* resources of its launch
  read,        \* the allowlist it read
  signed, token,   \* the versions of executable and tools it signed
  schema,      \* the version its permission schema is for
  launch,      \* what was launched: [exe, tools]
  stuck        \* launches whose cleanup raised

disk == <<allow, exe, tools, changes>>
verdicts == <<cache, evidence, probing, probed>>
toolkit == <<toolCache, checking, validated>>
known == <<read, signed, token, schema>>
mine == <<wants, held, known, launch, stuck>>
launchVars == <<disk, verdicts, toolkit, call, mine>>

LaunchInit ==
  /\ allow \in [Places -> Grants]
  /\ exe = 1 /\ tools = 1 /\ changes = 0
  /\ cache = None /\ evidence = None /\ probing = {} /\ probed = {}
  /\ toolCache = None /\ checking = {} /\ validated = {}
  /\ call = [t \in Callers |-> "start"]
  /\ wants \in [Callers -> [place : Places, write : BOOLEAN]]
  /\ held = [t \in Callers |-> {}]
  /\ read = [t \in Callers |-> allow]
  /\ signed = [t \in Callers |-> None] /\ token = signed /\ schema = signed
  /\ launch = [t \in Callers |-> [exe |-> None, tools |-> None]]
  /\ stuck = {}

Goes(t, s) == call' = [call EXCEPT ![t] = s]
Takes(t, resource) == held' = [held EXCEPT ![t] = @ \cup {resource}]

-----------------------------------------------------------------------------
(* _workspace: the admission of one place under the configuration read.      *)
Allowlisted(a) == {p \in Places : a[p] # "no"}
Descendants(a, p) == {q \in Allowlisted(a) : p \in Above[q]}
Exposes(p) == \E s \in Secrets : s = p \/ p \in Above[s]

\* Fault: only the next level is asked, so that a writable leaf two levels down
\* hides behind a read-only directory.
AdmittedNextLevel(a, p, write) ==
  LET below == {q \in Descendants(a, p) : ~ \E r \in Allowlisted(a) : r \in Above[q] /\ p \in Above[r]}
  IN /\ p \in Allowlisted(a) /\ (write => a[p] = "write")
     /\ below = {} \/ (~write /\ a[p] = "read" /\ \A q \in below : a[q] = "read")
     /\ ~Exposes(p)

Admitted(a, p, write) ==
  /\ p \in Allowlisted(a) /\ (write => a[p] = "write")
  /\ \/ Descendants(a, p) = {}
     \/ ~write /\ a[p] = "read" /\ \A q \in Descendants(a, p) : a[q] = "read"
  /\ ~Exposes(p)

-----------------------------------------------------------------------------
(* _verified.                                                               *)

\* _config, with its checks of the account and of the registered workspaces.
ReadsConfig(t) ==
  /\ call[t] = "start"
  /\ \/ read' = [read EXCEPT ![t] = allow] /\ Goes(t, "sign")
     \/ UNCHANGED read /\ Goes(t, "refused")
  /\ UNCHANGED <<disk, verdicts, toolkit, wants, held, signed, token, schema, launch, stuck>>

\* _spec and _signature: inode, time and size of the executable and its files.
Signs(t) ==
  /\ call[t] = "sign"
  /\ \/ signed' = [signed EXCEPT ![t] = exe] /\ Goes(t, "verify")
     \/ UNCHANGED signed /\ Goes(t, "refused")
  /\ UNCHANGED <<disk, verdicts, toolkit, wants, held, read, token, schema, launch, stuck>>

\* Under _probe_lock: a hit goes on, anything else keeps the lock and probes.
Looks(t) ==
  /\ call[t] = "verify" /\ probing = {}
  /\ \/ cache = signed[t] /\ Goes(t, "admit") /\ UNCHANGED probing
     \/ cache # signed[t] /\ Goes(t, "probe") /\ probing' = {t}
  /\ UNCHANGED <<disk, cache, evidence, probed, toolkit, mine>>

\* _probe: confinement in both modes, then the version of the executable.
Probes(t) ==
  /\ call[t] = "probe"
  /\ \/ probed' = probed \cup {exe} /\ evidence' = exe
        /\ Goes(t, "remember") /\ UNCHANGED probing
     \/ Goes(t, "refused") /\ probing' = {} /\ UNCHANGED <<probed, evidence>>
  /\ UNCHANGED <<disk, cache, toolkit, mine>>

\* Fault: the files are signed when the verdict is stored.
RemembersCurrent(t) ==
  /\ call[t] = "remember"
  /\ cache' = exe /\ probing' = {} /\ Goes(t, "admit")
  /\ signed' = [signed EXCEPT ![t] = exe]
  /\ UNCHANGED <<disk, evidence, probed, toolkit, wants, held, read, token, schema, launch,
                 stuck>>

Remembers(t) ==
  /\ call[t] = "remember"
  /\ cache' = signed[t] /\ probing' = {} /\ Goes(t, "admit")
  /\ UNCHANGED <<disk, evidence, probed, toolkit, mine>>

\* A verdict is used for thirty seconds.
Expires ==
  /\ cache # None /\ probing = {} /\ cache' = None
  /\ UNCHANGED <<disk, evidence, probing, probed, toolkit, call, mine>>

-----------------------------------------------------------------------------
(* _workspace and _build.                                                   *)
Admits(t) ==
  /\ call[t] = "admit"
  /\ Goes(t, IF Admitted(read[t], wants[t].place, wants[t].write)
               THEN "home" ELSE "refused")
  /\ UNCHANGED <<disk, verdicts, toolkit, mine>>

\* A refusal inside _build runs cleanup() first.
Fails(t) == Goes(t, "cleanup") /\ UNCHANGED held

\* The private root with the worker's home and its credentials.
MakesHome(t) ==
  /\ call[t] = "home"
  /\ Takes(t, "root") /\ Goes(t, "mount")
  /\ UNCHANGED <<disk, verdicts, toolkit, wants, known, launch, stuck>>

\* The pinned workspace and the masks over its metadata and secrets.
Mounts(t) ==
  /\ call[t] = "mount"
  /\ \/ Takes(t, "descriptors") /\ Goes(t, "toolkit")
     \/ Fails(t)
  /\ UNCHANGED <<disk, verdicts, toolkit, wants, known, launch, stuck>>

\* _shared_toolkit_source: no release is configured, or a token of the release is
\* compared with the cached one.
TakesToken(t) ==
  /\ call[t] = "toolkit" /\ checking = {}
  /\ \/ toolCache' = None /\ Goes(t, "schema") /\ UNCHANGED <<token, checking>>
     \/ /\ toolCache = tools /\ token' = [token EXCEPT ![t] = tools]
        /\ Goes(t, "schema") /\ UNCHANGED <<toolCache, checking>>
     \/ /\ toolCache # tools /\ token' = [token EXCEPT ![t] = tools]
        /\ Goes(t, "contents") /\ toolCache' = None /\ checking' = {t}
  /\ UNCHANGED <<disk, verdicts, validated, wants, held, read, signed, schema, launch, stuck>>

\* _validate_toolkit_contents, file by file.
ReadsContents(t) ==
  /\ call[t] = "contents"
  /\ \/ Goes(t, "retoken") /\ validated' = validated \cup {tools} /\ UNCHANGED checking
     \/ Goes(t, "cleanup") /\ checking' = {} /\ UNCHANGED validated
  /\ UNCHANGED <<disk, verdicts, toolCache, mine>>

TakesTokenAgain(t) ==
  /\ call[t] = "retoken" /\ checking' = {}
  /\ \/ tools = token[t] /\ toolCache' \in {None, tools} /\ Goes(t, "schema")
     \/ tools # token[t] /\ Goes(t, "cleanup") /\ UNCHANGED toolCache
  /\ UNCHANGED <<disk, verdicts, validated, mine>>

\* The permission schema is built for the version the last probe saw.
ReadsEvidence(t) ==
  /\ call[t] = "schema"
  /\ \/ schema' = [schema EXCEPT ![t] = evidence] /\ Goes(t, "connect")
     \/ Goes(t, "cleanup") /\ UNCHANGED schema
  /\ UNCHANGED <<disk, verdicts, toolkit, wants, held, read, signed, token, launch, stuck>>

\* Endpoints by egress policy, none where the network is off, then the sockets of
\* the job's Git service; either may refuse when an endpoint runs already.  An
\* endpoint whose accept thread cannot be started raises in start(): _build never
\* holds it, and the descriptor of its directory is nobody's to close.
StartsEndpoints(t) ==
  /\ call[t] = "connect"
  /\ \E running \in SUBSET {"network"}, lost \in SUBSET {"directory"} :
       /\ held' = [held EXCEPT ![t] = @ \cup running \cup lost]
       /\ \/ lost = {} /\ Goes(t, "ready")
          \/ Goes(t, "cleanup")
  /\ UNCHANGED <<disk, verdicts, toolkit, wants, known, launch, stuck>>

\* bwrap starts the executable found at its path now.
Launches(t) ==
  /\ call[t] = "ready" /\ Goes(t, "running")
  /\ launch' = [launch EXCEPT ![t] = [exe |-> exe, tools |-> tools]]
  /\ UNCHANGED <<disk, verdicts, toolkit, wants, held, known, stuck>>

LaunchedJobEnds(t) ==
  /\ call[t] = "running" /\ Goes(t, "cleanup")
  /\ UNCHANGED <<disk, verdicts, toolkit, mine>>

\* Endpoints first: one that raises leaves the rest, and cleanup runs once.
CleansUp(t) ==
  /\ call[t] = "cleanup" /\ Goes(t, "over")
  /\ \/ held' = [held EXCEPT ![t] = @ \cap {"directory"}] /\ UNCHANGED stuck
     \/ /\ "network" \in held[t] /\ Cardinality(stuck) < MaxCloseFaults
        /\ stuck' = stuck \cup {t} /\ UNCHANGED held
  /\ UNCHANGED <<disk, verdicts, toolkit, wants, known, launch>>

-----------------------------------------------------------------------------
(* The operator.                                                            *)
Change == changes < MaxChanges /\ changes' = changes + 1
ReplacesExecutable ==
  /\ Change /\ exe' = exe + 1
  /\ UNCHANGED <<allow, tools, verdicts, toolkit, call, mine>>
ReplacesTools ==
  /\ Change /\ tools' = tools + 1
  /\ UNCHANGED <<allow, exe, verdicts, toolkit, call, mine>>
EditsAllowlist ==
  /\ Change
  /\ \E p \in Places, g \in Grants : allow' = [allow EXCEPT ![p] = g]
  /\ UNCHANGED <<exe, tools, verdicts, toolkit, call, mine>>

CallerStep(t) ==
  \/ ReadsConfig(t) \/ Signs(t) \/ Looks(t) \/ Probes(t) \/ Remembers(t) \/ Admits(t)
  \/ MakesHome(t) \/ Mounts(t) \/ TakesToken(t) \/ ReadsContents(t) \/ TakesTokenAgain(t)
  \/ ReadsEvidence(t) \/ StartsEndpoints(t) \/ Launches(t) \/ LaunchedJobEnds(t) \/ CleansUp(t)

LaunchNext ==
  \/ \E t \in Callers : CallerStep(t)
  \/ Expires \/ ReplacesExecutable \/ ReplacesTools \/ EditsAllowlist

LaunchSpec == LaunchInit /\ [][LaunchNext]_launchVars

-----------------------------------------------------------------------------
(* Properties.                                                              *)
Phases ==
  {"start", "sign", "verify", "probe", "remember", "admit", "home", "mount", "toolkit",
   "contents", "retoken", "schema", "connect", "ready", "running", "cleanup", "over", "refused"}
Allowlists == [Places -> Grants]
Known == Versions \cup {None}

LaunchTypeOK ==
  /\ allow \in Allowlists /\ exe \in Versions /\ tools \in Versions
  /\ changes \in 0..MaxChanges
  /\ cache \in Known /\ evidence \in Known /\ toolCache \in Known
  /\ probing \subseteq Callers /\ checking \subseteq Callers
  /\ probed \subseteq Versions /\ validated \subseteq Versions
  /\ call \in [Callers -> Phases]
  /\ wants \in [Callers -> [place : Places, write : BOOLEAN]]
  /\ held \in [Callers -> SUBSET Resources]
  /\ read \in [Callers -> Allowlists] /\ signed \in [Callers -> Known]
  /\ token \in [Callers -> Known] /\ schema \in [Callers -> Known]
  /\ launch \in [Callers -> [exe : Known, tools : Known]]
  /\ stuck \subseteq Callers

\* No cached verdict is about other files than the ones it is used for: what a
\* caller signed or took a token of, and then launched, was itself probed and
\* validated, and the permission schema is for that version; only a replacement
\* after the signature escapes the checks.
LaunchedAsVerified ==
  \A t \in Callers : launch[t].exe # None =>
    /\ launch[t].exe = signed[t] =>
         launch[t].exe \in probed /\ schema[t] = launch[t].exe
    /\ launch[t].tools = token[t] => launch[t].tools \in validated

\* "Admitting a writable leaf through a read-only parent would bypass that
\* boundary": of two workers admitted by the same allowlist to nested directories
\* neither writes, and the operator denies writes to both.
NestedMountsReadOnly ==
  \A t, u \in Callers :
    /\ call[t] = "running" /\ call[u] = "running"
    /\ read[t] = read[u]
    /\ wants[t].place \in Above[wants[u].place]
    => /\ ~wants[t].write /\ ~wants[u].write
       /\ read[t][wants[t].place] = "read" /\ read[u][wants[u].place] = "read"

\* Whatever refuses a launch or ends its job, its private root, descriptors and
\* endpoints are given back.  Exceptions: closing an endpoint itself raised, and an
\* endpoint whose thread could not be started, which leaves one descriptor of its
\* directory, and then nothing was launched.
LaunchLeavesNothing ==
  \A t \in Callers : call[t] \in {"refused", "over"} /\ held[t] # {} =>
    \/ t \in stuck
    \/ held[t] = {"directory"} /\ launch[t].exe = None
=============================================================================
