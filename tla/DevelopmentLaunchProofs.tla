----------------------- MODULE DevelopmentLaunchProofs -----------------------
(***************************************************************************)
(* What a launch guarantees for any callers, any tree of directories and    *)
(* any number of replacements: no verdict is used for other files than the  *)
(* ones it is about, nested mounts are read-only, nothing is left behind.   *)
(***************************************************************************)
EXTENDS DevelopmentLaunch, TLAPS

Signed == {"remember", "admit", "home", "mount", "toolkit", "contents", "retoken",
           "schema", "connect", "ready"}
Opening == {"start", "sign", "verify", "probe", "remember", "admit", "home", "mount", "toolkit"}
Equipped == {"schema", "connect", "ready"}
Built == {"home", "mount", "toolkit", "contents", "retoken", "schema", "connect", "ready",
          "running", "cleanup"}
Launched == {"running", "cleanup", "over"}

(* Versions are counted, and nothing recorded is newer than the files.      *)
VersionsGrow ==
  /\ exe <= changes + 1 /\ tools <= changes + 1
  /\ cache <= exe /\ evidence <= exe /\ toolCache <= tools
  /\ \A t \in Callers : /\ signed[t] <= exe /\ schema[t] <= exe
                        /\ token[t] <= tools
                        /\ launch[t].exe <= exe /\ launch[t].tools <= tools

(* While the files are still those that were signed, the last probe is about
   them: a later probe can only have seen the same version.                 *)
VerdictIsCurrent ==
  /\ cache = exe => evidence = exe /\ exe \in probed
  /\ \A t \in Callers : call[t] \in Signed /\ signed[t] = exe =>
       evidence = exe /\ exe \in probed
  /\ \A t \in Callers : call[t] \in {"connect", "ready"} /\ signed[t] = exe =>
       schema[t] = exe

(* The same for the contents of the shared tools and their token.           *)
ToolsAreCurrent ==
  /\ toolCache = tools => tools \in validated
  /\ \A t \in Callers :
       /\ call[t] \in Opening => token[t] = None
       /\ call[t] \in Equipped \cup {"retoken"} /\ token[t] = tools => tools \in validated

(* What was launched stays what it was; only a finished call has a launch.  *)
LaunchIsPast ==
  \A t \in Callers : launch[t].exe # None => call[t] \in Launched

(* Whatever is being built was admitted under the allowlist it read.        *)
BuiltIsAdmitted ==
  \A t \in Callers : call[t] \in Built =>
    Admitted(read[t], wants[t].place, wants[t].write)

(* Resources are taken inside _build only, and the directory of an endpoint that
   did not start belongs to a launch that never happens.                     *)
HeldInBuild ==
  \A t \in Callers :
    /\ \A r \in held[t] \ {"directory"} : call[t] \in Built \/ t \in stuck
    /\ "directory" \in held[t] => call[t] \in {"cleanup", "over"} /\ launch[t].exe = None

IInv == /\ LaunchTypeOK /\ VersionsGrow /\ VerdictIsCurrent /\ ToolsAreCurrent
        /\ LaunchIsPast /\ BuiltIsAdmitted /\ HeldInBuild /\ LaunchedAsVerified

(* The types the steps below need, without the documented sets.            *)
Typed ==
  /\ call \in [Callers -> Phases]
  /\ held \in [Callers -> SUBSET Resources] /\ read \in [Callers -> Allowlists]
  /\ signed \in [Callers -> Nat] /\ token \in [Callers -> Nat] /\ schema \in [Callers -> Nat]
  /\ launch \in [Callers -> [exe : Nat, tools : Nat]]
  /\ exe \in Nat \ {0} /\ tools \in Nat \ {0} /\ changes \in Nat
  /\ cache \in Nat /\ evidence \in Nat /\ toolCache \in Nat

USE DEF None

-----------------------------------------------------------------------------
LEMMA TypeGives == LaunchTypeOK => Typed
<1> SUFFICES ASSUME LaunchTypeOK PROVE Typed
  OBVIOUS
<1>1. Versions \subseteq Nat \ {0} /\ Known \subseteq Nat /\ 0..MaxChanges \subseteq Nat
  BY LaunchAssumption DEF Versions, Known
<1>2. /\ exe \in Nat \ {0} /\ tools \in Nat \ {0} /\ changes \in Nat
      /\ cache \in Nat /\ evidence \in Nat /\ toolCache \in Nat
  BY <1>1 DEF LaunchTypeOK
<1>3. ASSUME NEW f \in [Callers -> Known] PROVE f \in [Callers -> Nat]
  BY <1>1, <1>3
<1>4. launch \in [Callers -> [exe : Nat, tools : Nat]]
  <2>1. launch \in [Callers -> [exe : Known, tools : Known]]
    BY DEF LaunchTypeOK
  <2>2. \A t \in Callers : launch[t] \in [exe : Nat, tools : Nat]
    BY <1>1, <2>1
  <2>q. QED BY <2>1, <2>2
<1>q. QED BY <1>2, <1>3, <1>4 DEF LaunchTypeOK, Typed

LEMMA InitHolds == LaunchInit => IInv
<1> SUFFICES ASSUME LaunchInit PROVE IInv
  OBVIOUS
<1> USE LaunchAssumption DEF LaunchInit, Versions
<1>1. LaunchTypeOK
  <2>1. 1 \in Versions /\ None \in Known /\ changes \in 0..MaxChanges
    BY DEF Known
  <2>2. call \in [Callers -> Phases]
    BY DEF Phases
  <2>3. launch \in [Callers -> [exe : Known, tools : Known]]
    BY <2>1
  <2>4. allow \in Allowlists /\ read \in [Callers -> Allowlists]
    BY DEF Allowlists
  <2>5. /\ signed \in [Callers -> Known] /\ token \in [Callers -> Known]
        /\ schema \in [Callers -> Known] /\ held \in [Callers -> SUBSET Resources]
    BY <2>1
  <2>q. QED BY <2>1, <2>2, <2>3, <2>4, <2>5 DEF LaunchTypeOK
<1>2. VersionsGrow /\ VerdictIsCurrent /\ ToolsAreCurrent
  BY DEF VersionsGrow, VerdictIsCurrent, ToolsAreCurrent, Signed, Opening, Equipped
<1>3. LaunchIsPast /\ BuiltIsAdmitted /\ HeldInBuild /\ LaunchedAsVerified
  BY DEF LaunchIsPast, BuiltIsAdmitted, HeldInBuild, LaunchedAsVerified, Built
<1>q. QED BY <1>1, <1>2, <1>3 DEF IInv
-----------------------------------------------------------------------------
LEMMA CallerStepHolds ==
  ASSUME IInv, NEW u \in Callers, CallerStep(u)
  PROVE  IInv'
<1>t. Typed
  BY TypeGives DEF IInv
<1> USE DEF IInv, disk, verdicts, toolkit, mine, known
<1>1. CASE ReadsConfig(u)
  <2> USE <1>1 DEF ReadsConfig, Goes
  <2>1. LaunchTypeOK'
    <3>1. call' \in [Callers -> Phases]
      BY DEF LaunchTypeOK, Phases
    <3>2. read' \in [Callers -> Allowlists]
      BY DEF LaunchTypeOK, Known, Resources
    <3>q. QED BY <3>1, <3>2 DEF LaunchTypeOK
  <2>2. VersionsGrow'
    BY <1>t DEF VersionsGrow, Typed
  <2>3. VerdictIsCurrent'
    BY <1>t DEF VerdictIsCurrent, Typed, VersionsGrow, Signed
  <2>4. ToolsAreCurrent'
    BY <1>t DEF ToolsAreCurrent, Typed, VersionsGrow, Opening, Equipped
  <2>5. LaunchIsPast'
    BY <1>t DEF LaunchIsPast, Typed, Launched
  <2>6. BuiltIsAdmitted'
    BY <1>t DEF BuiltIsAdmitted, Typed, Built
  <2>7. HeldInBuild'
    BY <1>t DEF HeldInBuild, Typed, Built
  <2>8. LaunchedAsVerified'
    BY <1>t DEF LaunchedAsVerified, Typed, LaunchIsPast, Launched, VerdictIsCurrent,
        Signed, ToolsAreCurrent, Equipped
  <2>q. QED BY <2>1, <2>2, <2>3, <2>4, <2>5, <2>6, <2>7, <2>8 DEF IInv
<1>2. CASE Signs(u)
  <2> USE <1>2 DEF Signs, Goes
  <2>1. LaunchTypeOK'
    <3>1. call' \in [Callers -> Phases]
      BY DEF LaunchTypeOK, Phases
    <3>2. signed' \in [Callers -> Known]
      BY DEF LaunchTypeOK, Known, Resources
    <3>q. QED BY <3>1, <3>2 DEF LaunchTypeOK
  <2>2. VersionsGrow'
    BY <1>t DEF VersionsGrow, Typed
  <2>3. VerdictIsCurrent'
    BY <1>t DEF VerdictIsCurrent, Typed, VersionsGrow, Signed
  <2>4. ToolsAreCurrent'
    BY <1>t DEF ToolsAreCurrent, Typed, VersionsGrow, Opening, Equipped
  <2>5. LaunchIsPast'
    BY <1>t DEF LaunchIsPast, Typed, Launched
  <2>6. BuiltIsAdmitted'
    BY <1>t DEF BuiltIsAdmitted, Typed, Built
  <2>7. HeldInBuild'
    BY <1>t DEF HeldInBuild, Typed, Built
  <2>8. LaunchedAsVerified'
    BY <1>t DEF LaunchedAsVerified, Typed, LaunchIsPast, Launched, VerdictIsCurrent,
        Signed, ToolsAreCurrent, Equipped
  <2>q. QED BY <2>1, <2>2, <2>3, <2>4, <2>5, <2>6, <2>7, <2>8 DEF IInv
<1>3. CASE Looks(u)
  <2> USE <1>3 DEF Looks, Goes
  <2>1. LaunchTypeOK'
    BY DEF LaunchTypeOK, Known, Phases, Resources
  <2>2. VersionsGrow'
    BY <1>t DEF VersionsGrow, Typed
  <2>3. VerdictIsCurrent'
    BY <1>t DEF VerdictIsCurrent, Typed, VersionsGrow, Signed
  <2>4. ToolsAreCurrent'
    BY <1>t DEF ToolsAreCurrent, Typed, VersionsGrow, Opening, Equipped
  <2>5. LaunchIsPast'
    BY <1>t DEF LaunchIsPast, Typed, Launched
  <2>6. BuiltIsAdmitted'
    BY <1>t DEF BuiltIsAdmitted, Typed, Built
  <2>7. HeldInBuild'
    BY <1>t DEF HeldInBuild, Typed, Built
  <2>8. LaunchedAsVerified'
    BY <1>t DEF LaunchedAsVerified, Typed, LaunchIsPast, Launched, VerdictIsCurrent,
        Signed, ToolsAreCurrent, Equipped
  <2>q. QED BY <2>1, <2>2, <2>3, <2>4, <2>5, <2>6, <2>7, <2>8 DEF IInv
<1>4. CASE Probes(u)
  <2> USE <1>4 DEF Probes, Goes
  <2>1. LaunchTypeOK'
    BY DEF LaunchTypeOK, Known, Phases, Resources
  <2>2. VersionsGrow'
    BY <1>t DEF VersionsGrow, Typed
  <2>3. VerdictIsCurrent'
    BY <1>t DEF VerdictIsCurrent, Typed, VersionsGrow, Signed
  <2>4. ToolsAreCurrent'
    BY <1>t DEF ToolsAreCurrent, Typed, VersionsGrow, Opening, Equipped
  <2>5. LaunchIsPast'
    BY <1>t DEF LaunchIsPast, Typed, Launched
  <2>6. BuiltIsAdmitted'
    BY <1>t DEF BuiltIsAdmitted, Typed, Built
  <2>7. HeldInBuild'
    BY <1>t DEF HeldInBuild, Typed, Built
  <2>8. LaunchedAsVerified'
    BY <1>t DEF LaunchedAsVerified, Typed, LaunchIsPast, Launched, VerdictIsCurrent,
        Signed, ToolsAreCurrent, Equipped
  <2>q. QED BY <2>1, <2>2, <2>3, <2>4, <2>5, <2>6, <2>7, <2>8 DEF IInv
<1>5. CASE Remembers(u)
  <2> USE <1>5 DEF Remembers, Goes
  <2>1. LaunchTypeOK'
    BY DEF LaunchTypeOK, Known, Phases, Resources
  <2>2. VersionsGrow'
    BY <1>t DEF VersionsGrow, Typed
  <2>3. VerdictIsCurrent'
    BY <1>t DEF VerdictIsCurrent, Typed, VersionsGrow, Signed
  <2>4. ToolsAreCurrent'
    BY <1>t DEF ToolsAreCurrent, Typed, VersionsGrow, Opening, Equipped
  <2>5. LaunchIsPast'
    BY <1>t DEF LaunchIsPast, Typed, Launched
  <2>6. BuiltIsAdmitted'
    BY <1>t DEF BuiltIsAdmitted, Typed, Built
  <2>7. HeldInBuild'
    BY <1>t DEF HeldInBuild, Typed, Built
  <2>8. LaunchedAsVerified'
    BY <1>t DEF LaunchedAsVerified, Typed, LaunchIsPast, Launched, VerdictIsCurrent,
        Signed, ToolsAreCurrent, Equipped
  <2>q. QED BY <2>1, <2>2, <2>3, <2>4, <2>5, <2>6, <2>7, <2>8 DEF IInv
<1>6. CASE Admits(u)
  <2> USE <1>6 DEF Admits, Goes
  <2>1. LaunchTypeOK'
    BY DEF LaunchTypeOK, Known, Phases, Resources
  <2>2. VersionsGrow'
    BY <1>t DEF VersionsGrow, Typed
  <2>3. VerdictIsCurrent'
    BY <1>t DEF VerdictIsCurrent, Typed, VersionsGrow, Signed
  <2>4. ToolsAreCurrent'
    BY <1>t DEF ToolsAreCurrent, Typed, VersionsGrow, Opening, Equipped
  <2>5. LaunchIsPast'
    BY <1>t DEF LaunchIsPast, Typed, Launched
  <2>6. BuiltIsAdmitted'
    BY <1>t DEF BuiltIsAdmitted, Typed, Built
  <2>7. HeldInBuild'
    BY <1>t DEF HeldInBuild, Typed, Built
  <2>8. LaunchedAsVerified'
    BY <1>t DEF LaunchedAsVerified, Typed, LaunchIsPast, Launched, VerdictIsCurrent,
        Signed, ToolsAreCurrent, Equipped
  <2>q. QED BY <2>1, <2>2, <2>3, <2>4, <2>5, <2>6, <2>7, <2>8 DEF IInv
<1>7. CASE MakesHome(u)
  <2> USE <1>7 DEF MakesHome, Goes, Takes
  <2>1. LaunchTypeOK'
    BY DEF LaunchTypeOK, Known, Phases, Resources
  <2>2. VersionsGrow'
    BY <1>t DEF VersionsGrow, Typed
  <2>3. VerdictIsCurrent'
    BY <1>t DEF VerdictIsCurrent, Typed, VersionsGrow, Signed
  <2>4. ToolsAreCurrent'
    BY <1>t DEF ToolsAreCurrent, Typed, VersionsGrow, Opening, Equipped
  <2>5. LaunchIsPast'
    BY <1>t DEF LaunchIsPast, Typed, Launched
  <2>6. BuiltIsAdmitted'
    BY <1>t DEF BuiltIsAdmitted, Typed, Built
  <2>7. HeldInBuild'
    BY <1>t DEF HeldInBuild, Typed, Built
  <2>8. LaunchedAsVerified'
    BY <1>t DEF LaunchedAsVerified, Typed, LaunchIsPast, Launched, VerdictIsCurrent,
        Signed, ToolsAreCurrent, Equipped
  <2>q. QED BY <2>1, <2>2, <2>3, <2>4, <2>5, <2>6, <2>7, <2>8 DEF IInv
<1>8. CASE Mounts(u)
  <2> USE <1>8 DEF Mounts, Goes, Takes, Fails
  <2>1. LaunchTypeOK'
    <3>1. call' \in [Callers -> Phases]
      BY DEF LaunchTypeOK, Phases
    <3>2. held' \in [Callers -> SUBSET Resources]
      BY DEF LaunchTypeOK, Known, Resources
    <3>q. QED BY <3>1, <3>2 DEF LaunchTypeOK
  <2>2. VersionsGrow'
    BY <1>t DEF VersionsGrow, Typed
  <2>3. VerdictIsCurrent'
    BY <1>t DEF VerdictIsCurrent, Typed, VersionsGrow, Signed
  <2>4. ToolsAreCurrent'
    BY <1>t DEF ToolsAreCurrent, Typed, VersionsGrow, Opening, Equipped
  <2>5. LaunchIsPast'
    BY <1>t DEF LaunchIsPast, Typed, Launched
  <2>6. BuiltIsAdmitted'
    BY <1>t DEF BuiltIsAdmitted, Typed, Built
  <2>7. HeldInBuild'
    BY <1>t DEF HeldInBuild, Typed, Built
  <2>8. LaunchedAsVerified'
    BY <1>t DEF LaunchedAsVerified, Typed, LaunchIsPast, Launched, VerdictIsCurrent,
        Signed, ToolsAreCurrent, Equipped
  <2>q. QED BY <2>1, <2>2, <2>3, <2>4, <2>5, <2>6, <2>7, <2>8 DEF IInv
<1>9. CASE TakesToken(u)
  <2> USE <1>9 DEF TakesToken, Goes
  <2>1. LaunchTypeOK'
    BY DEF LaunchTypeOK, Known, Phases, Resources
  <2>2. VersionsGrow'
    BY <1>t DEF VersionsGrow, Typed
  <2>3. VerdictIsCurrent'
    BY <1>t DEF VerdictIsCurrent, Typed, VersionsGrow, Signed
  <2>4. ToolsAreCurrent'
    BY <1>t DEF ToolsAreCurrent, Typed, VersionsGrow, Opening, Equipped
  <2>5. LaunchIsPast'
    BY <1>t DEF LaunchIsPast, Typed, Launched
  <2>6. BuiltIsAdmitted'
    BY <1>t DEF BuiltIsAdmitted, Typed, Built
  <2>7. HeldInBuild'
    BY <1>t DEF HeldInBuild, Typed, Built
  <2>8. LaunchedAsVerified'
    BY <1>t DEF LaunchedAsVerified, Typed, LaunchIsPast, Launched, VerdictIsCurrent,
        Signed, ToolsAreCurrent, Equipped
  <2>q. QED BY <2>1, <2>2, <2>3, <2>4, <2>5, <2>6, <2>7, <2>8 DEF IInv
<1>10. CASE ReadsContents(u)
  <2> USE <1>10 DEF ReadsContents, Goes
  <2>1. LaunchTypeOK'
    BY DEF LaunchTypeOK, Known, Phases, Resources
  <2>2. VersionsGrow'
    BY <1>t DEF VersionsGrow, Typed
  <2>3. VerdictIsCurrent'
    BY <1>t DEF VerdictIsCurrent, Typed, VersionsGrow, Signed
  <2>4. ToolsAreCurrent'
    BY <1>t DEF ToolsAreCurrent, Typed, VersionsGrow, Opening, Equipped
  <2>5. LaunchIsPast'
    BY <1>t DEF LaunchIsPast, Typed, Launched
  <2>6. BuiltIsAdmitted'
    BY <1>t DEF BuiltIsAdmitted, Typed, Built
  <2>7. HeldInBuild'
    BY <1>t DEF HeldInBuild, Typed, Built
  <2>8. LaunchedAsVerified'
    BY <1>t DEF LaunchedAsVerified, Typed, LaunchIsPast, Launched, VerdictIsCurrent,
        Signed, ToolsAreCurrent, Equipped
  <2>q. QED BY <2>1, <2>2, <2>3, <2>4, <2>5, <2>6, <2>7, <2>8 DEF IInv
<1>11. CASE TakesTokenAgain(u)
  <2> USE <1>11 DEF TakesTokenAgain, Goes
  <2>1. LaunchTypeOK'
    BY DEF LaunchTypeOK, Known, Phases, Resources
  <2>2. VersionsGrow'
    BY <1>t DEF VersionsGrow, Typed
  <2>3. VerdictIsCurrent'
    BY <1>t DEF VerdictIsCurrent, Typed, VersionsGrow, Signed
  <2>4. ToolsAreCurrent'
    BY <1>t DEF ToolsAreCurrent, Typed, VersionsGrow, Opening, Equipped
  <2>5. LaunchIsPast'
    BY <1>t DEF LaunchIsPast, Typed, Launched
  <2>6. BuiltIsAdmitted'
    BY <1>t DEF BuiltIsAdmitted, Typed, Built
  <2>7. HeldInBuild'
    BY <1>t DEF HeldInBuild, Typed, Built
  <2>8. LaunchedAsVerified'
    BY <1>t DEF LaunchedAsVerified, Typed, LaunchIsPast, Launched, VerdictIsCurrent,
        Signed, ToolsAreCurrent, Equipped
  <2>q. QED BY <2>1, <2>2, <2>3, <2>4, <2>5, <2>6, <2>7, <2>8 DEF IInv
<1>12. CASE ReadsEvidence(u)
  <2> USE <1>12 DEF ReadsEvidence, Goes
  <2>1. LaunchTypeOK'
    <3>1. call' \in [Callers -> Phases]
      BY DEF LaunchTypeOK, Phases
    <3>2. schema' \in [Callers -> Known]
      BY DEF LaunchTypeOK, Known, Resources
    <3>q. QED BY <3>1, <3>2 DEF LaunchTypeOK
  <2>2. VersionsGrow'
    BY <1>t DEF VersionsGrow, Typed
  <2>3. VerdictIsCurrent'
    BY <1>t DEF VerdictIsCurrent, Typed, VersionsGrow, Signed
  <2>4. ToolsAreCurrent'
    BY <1>t DEF ToolsAreCurrent, Typed, VersionsGrow, Opening, Equipped
  <2>5. LaunchIsPast'
    BY <1>t DEF LaunchIsPast, Typed, Launched
  <2>6. BuiltIsAdmitted'
    BY <1>t DEF BuiltIsAdmitted, Typed, Built
  <2>7. HeldInBuild'
    BY <1>t DEF HeldInBuild, Typed, Built
  <2>8. LaunchedAsVerified'
    BY <1>t DEF LaunchedAsVerified, Typed, LaunchIsPast, Launched, VerdictIsCurrent,
        Signed, ToolsAreCurrent, Equipped
  <2>q. QED BY <2>1, <2>2, <2>3, <2>4, <2>5, <2>6, <2>7, <2>8 DEF IInv
<1>13. CASE StartsEndpoints(u)
  <2> USE <1>13 DEF StartsEndpoints, Goes
  <2>1. LaunchTypeOK'
    <3>1. call' \in [Callers -> Phases]
      BY DEF LaunchTypeOK, Phases
    <3>2. held' \in [Callers -> SUBSET Resources]
      <4>1. PICK R \in SUBSET Resources : held' = [held EXCEPT ![u] = @ \cup R]
        <5>1. PICK N \in SUBSET {"network"}, D \in SUBSET {"directory"} :
                held' = [held EXCEPT ![u] = @ \cup N \cup D]
          OBVIOUS
        <5>2. N \cup D \in SUBSET Resources
          BY DEF Resources
        <5>3. held' = [held EXCEPT ![u] = @ \cup (N \cup D)]
          BY <5>1, <1>t DEF Typed
        <5>q. QED BY <5>2, <5>3
      <4>q. QED BY <1>t, <4>1 DEF Typed
    <3>q. QED BY <3>1, <3>2 DEF LaunchTypeOK
  <2>2. VersionsGrow'
    BY <1>t DEF VersionsGrow, Typed
  <2>3. VerdictIsCurrent'
    BY <1>t DEF VerdictIsCurrent, Typed, VersionsGrow, Signed
  <2>4. ToolsAreCurrent'
    BY <1>t DEF ToolsAreCurrent, Typed, VersionsGrow, Opening, Equipped
  <2>5. LaunchIsPast'
    BY <1>t DEF LaunchIsPast, Typed, Launched
  <2>6. BuiltIsAdmitted'
    BY <1>t DEF BuiltIsAdmitted, Typed, Built
  <2>7. HeldInBuild'
    BY <1>t DEF HeldInBuild, Typed, Built, LaunchIsPast, Launched
  <2>8. LaunchedAsVerified'
    BY <1>t DEF LaunchedAsVerified, Typed, LaunchIsPast, Launched, VerdictIsCurrent,
        Signed, ToolsAreCurrent, Equipped
  <2>q. QED BY <2>1, <2>2, <2>3, <2>4, <2>5, <2>6, <2>7, <2>8 DEF IInv
<1>14. CASE Launches(u)
  <2> USE <1>14 DEF Launches, Goes
  <2>1. LaunchTypeOK'
    BY DEF LaunchTypeOK, Known, Phases, Resources
  <2>2. VersionsGrow'
    BY <1>t DEF VersionsGrow, Typed
  <2>3. VerdictIsCurrent'
    BY <1>t DEF VerdictIsCurrent, Typed, VersionsGrow, Signed
  <2>4. ToolsAreCurrent'
    BY <1>t DEF ToolsAreCurrent, Typed, VersionsGrow, Opening, Equipped
  <2>5. LaunchIsPast'
    BY <1>t DEF LaunchIsPast, Typed, Launched
  <2>6. BuiltIsAdmitted'
    BY <1>t DEF BuiltIsAdmitted, Typed, Built
  <2>7. HeldInBuild'
    BY <1>t DEF HeldInBuild, Typed, Built
  <2>8. LaunchedAsVerified'
    BY <1>t DEF LaunchedAsVerified, Typed, LaunchIsPast, Launched, VerdictIsCurrent,
        Signed, ToolsAreCurrent, Equipped
  <2>q. QED BY <2>1, <2>2, <2>3, <2>4, <2>5, <2>6, <2>7, <2>8 DEF IInv
<1>15. CASE LaunchedJobEnds(u)
  <2> USE <1>15 DEF LaunchedJobEnds, Goes
  <2>1. LaunchTypeOK'
    BY DEF LaunchTypeOK, Known, Phases, Resources
  <2>2. VersionsGrow'
    BY <1>t DEF VersionsGrow, Typed
  <2>3. VerdictIsCurrent'
    BY <1>t DEF VerdictIsCurrent, Typed, VersionsGrow, Signed
  <2>4. ToolsAreCurrent'
    BY <1>t DEF ToolsAreCurrent, Typed, VersionsGrow, Opening, Equipped
  <2>5. LaunchIsPast'
    BY <1>t DEF LaunchIsPast, Typed, Launched
  <2>6. BuiltIsAdmitted'
    BY <1>t DEF BuiltIsAdmitted, Typed, Built
  <2>7. HeldInBuild'
    BY <1>t DEF HeldInBuild, Typed, Built
  <2>8. LaunchedAsVerified'
    BY <1>t DEF LaunchedAsVerified, Typed, LaunchIsPast, Launched, VerdictIsCurrent,
        Signed, ToolsAreCurrent, Equipped
  <2>q. QED BY <2>1, <2>2, <2>3, <2>4, <2>5, <2>6, <2>7, <2>8 DEF IInv
<1>16. CASE CleansUp(u)
  <2> USE <1>16 DEF CleansUp, Goes
  <2>1. LaunchTypeOK'
    BY DEF LaunchTypeOK, Known, Phases, Resources
  <2>2. VersionsGrow'
    BY <1>t DEF VersionsGrow, Typed
  <2>3. VerdictIsCurrent'
    BY <1>t DEF VerdictIsCurrent, Typed, VersionsGrow, Signed
  <2>4. ToolsAreCurrent'
    BY <1>t DEF ToolsAreCurrent, Typed, VersionsGrow, Opening, Equipped
  <2>5. LaunchIsPast'
    BY <1>t DEF LaunchIsPast, Typed, Launched
  <2>6. BuiltIsAdmitted'
    BY <1>t DEF BuiltIsAdmitted, Typed, Built
  <2>7. HeldInBuild'
    BY <1>t DEF HeldInBuild, Typed, Built
  <2>8. LaunchedAsVerified'
    BY <1>t DEF LaunchedAsVerified, Typed, LaunchIsPast, Launched, VerdictIsCurrent,
        Signed, ToolsAreCurrent, Equipped
  <2>q. QED BY <2>1, <2>2, <2>3, <2>4, <2>5, <2>6, <2>7, <2>8 DEF IInv
<1>q. QED BY <1>1, <1>2, <1>3, <1>4, <1>5, <1>6, <1>7, <1>8, <1>9, <1>10, <1>11, <1>12,
    <1>13, <1>14, <1>15, <1>16 DEF CallerStep

(* The operator's replacements leave every antecedent behind: what was
   recorded about the older version is no longer about the current one.     *)
LEMMA OperatorHolds ==
  ASSUME IInv, Expires \/ ReplacesExecutable \/ ReplacesTools \/ EditsAllowlist
  PROVE  IInv'
<1>t. Typed
  BY TypeGives DEF IInv
<1> USE DEF IInv, disk, verdicts, toolkit, mine, known, Change
<1>1. LaunchTypeOK'
  <2>1. changes' \in 0..MaxChanges /\ exe' \in Versions /\ tools' \in Versions
    BY <1>t, LaunchAssumption
    DEF Expires, ReplacesExecutable, ReplacesTools, EditsAllowlist, LaunchTypeOK,
        VersionsGrow,
        Versions, Typed
  <2>2. allow' \in Allowlists
    BY DEF Expires, ReplacesExecutable, ReplacesTools, EditsAllowlist, LaunchTypeOK,
        Allowlists
  <2>3. cache' \in Known
    BY DEF Expires, ReplacesExecutable, ReplacesTools, EditsAllowlist, LaunchTypeOK, Known
  <2>q. QED
    BY <2>1, <2>2, <2>3
    DEF Expires, ReplacesExecutable, ReplacesTools, EditsAllowlist, LaunchTypeOK
<1>2. CASE Expires
  BY <1>t, <1>1, <1>2
  DEF Expires, Typed, VersionsGrow, VerdictIsCurrent, ToolsAreCurrent, LaunchIsPast,
      BuiltIsAdmitted, HeldInBuild, LaunchedAsVerified
<1>3. CASE ReplacesExecutable
  BY <1>t, <1>1, <1>3
  DEF ReplacesExecutable, Typed, VersionsGrow, VerdictIsCurrent, ToolsAreCurrent,
      LaunchIsPast,
      BuiltIsAdmitted, HeldInBuild, LaunchedAsVerified
<1>4. CASE ReplacesTools
  BY <1>t, <1>1, <1>4
  DEF ReplacesTools, Typed, VersionsGrow, VerdictIsCurrent, ToolsAreCurrent, LaunchIsPast,
      BuiltIsAdmitted, HeldInBuild, LaunchedAsVerified
<1>5. CASE EditsAllowlist
  BY <1>t, <1>1, <1>5
  DEF EditsAllowlist, Typed, VersionsGrow, VerdictIsCurrent, ToolsAreCurrent, LaunchIsPast,
      BuiltIsAdmitted, HeldInBuild, LaunchedAsVerified
<1>q. QED BY <1>2, <1>3, <1>4, <1>5

LEMMA NextHolds == IInv /\ [LaunchNext]_launchVars => IInv'
<1> SUFFICES ASSUME IInv, [LaunchNext]_launchVars PROVE IInv'
  OBVIOUS
<1>1. CASE \E t \in Callers : CallerStep(t)
  BY <1>1, CallerStepHolds
<1>2. CASE Expires \/ ReplacesExecutable \/ ReplacesTools \/ EditsAllowlist
  BY <1>2, OperatorHolds
<1>3. CASE UNCHANGED launchVars
  BY <1>3 DEF launchVars, disk, verdicts, toolkit, mine, known, IInv, LaunchTypeOK,
      VersionsGrow,
              VerdictIsCurrent, ToolsAreCurrent, LaunchIsPast, BuiltIsAdmitted, HeldInBuild,
              LaunchedAsVerified
<1>q. QED BY <1>1, <1>2, <1>3 DEF LaunchNext

THEOREM InvariantHolds == LaunchSpec => []IInv
BY InitHolds, NextHolds, PTL DEF LaunchSpec

-----------------------------------------------------------------------------
(* Verdicts from a cache are never used for other files than the ones they
   are about, for any number of callers and replacements (_verified and
   _shared_toolkit_source of agents/development.py).                         *)
THEOREM NoStaleVerdict == LaunchSpec => []LaunchedAsVerified
<1>1. IInv => LaunchedAsVerified
  BY DEF IInv
<1>q. QED BY <1>1, InvariantHolds, PTL

(* Two workers under one allowlist, one in a directory inside the other's:
   neither writes, whatever the tree of registered directories (_workspace). *)
THEOREM NoWriteUnderMount == LaunchSpec => []NestedMountsReadOnly
<1>1. IInv => NestedMountsReadOnly
  <2> SUFFICES ASSUME IInv, NEW t \in Callers, NEW u \in Callers,
                      call[t] = "running", call[u] = "running", read[t] = read[u],
                      wants[t].place \in Above[wants[u].place]
               PROVE  /\ ~wants[t].write /\ ~wants[u].write
                      /\ read[t][wants[t].place] = "read" /\ read[u][wants[u].place] = "read"
    BY DEF NestedMountsReadOnly
  <2>1. /\ Admitted(read[t], wants[t].place, wants[t].write)
        /\ Admitted(read[u], wants[u].place, wants[u].write)
    BY DEF IInv, BuiltIsAdmitted, Built
  <2>2. wants[u].place \in Descendants(read[t], wants[t].place)
    BY <2>1 DEF Admitted, Descendants
  <2>3. /\ ~wants[t].write /\ read[t][wants[t].place] = "read"
        /\ read[u][wants[u].place] = "read"
    BY <2>1, <2>2 DEF Admitted
  <2>4. ~wants[u].write
    BY <2>1, <2>3 DEF Admitted
  <2>q. QED BY <2>3, <2>4
<1>q. QED BY <1>1, InvariantHolds, PTL

(* What a launch took is given back however it ends, unless closing one of its
   endpoints raised; an endpoint that could not start its thread leaves the one
   descriptor of its directory and no launch (_build and cleanup, start of
   agents/development_egress.py).                                            *)
THEOREM NothingKept == LaunchSpec => []LaunchLeavesNothing
<1>1. IInv => LaunchLeavesNothing
  BY DEF IInv, HeldInBuild, LaunchLeavesNothing, Built
<1>q. QED BY <1>1, InvariantHolds, PTL
=============================================================================
