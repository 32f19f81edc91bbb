------------------------ MODULE WorkspaceDirectories ------------------------
(***************************************************************************)
(* One directory operation of sandbox/workspace_directories.py: a directory *)
(* tree is copied into private storage (prepare_directory), renamed to its  *)
(* workspace path (publish_directory) and, if the publication is undone,    *)
(* renamed into private storage (rollback_directory). A Git birth may       *)
(* replace an empty directory (schema 3), which takes two renames each way. *)
(* Each call may be repeated after the process died anywhere inside it; the *)
(* calls of one operation never overlap, and the owner of the workspace     *)
(* acts between any two system calls without a lock.                        *)
(*                                                                         *)
(* A directory is a model value: Birth is the prepared one, Empty the empty *)
(* one a replacement found. `stirred` holds the directories whose own       *)
(* record (entries, mode, times) the owner changed, `deep` those it changed *)
(* further down, which only the tree manifest tells.                        *)
(***************************************************************************)
EXTENDS Naturals, FiniteSets

CONSTANTS
  Birth,         \* the inode of `prepared`
  Empty,         \* the inode of the empty directory that may be replaced
  OwnerDirs,     \* entries the owner may put at the path
  NoDir,         \* no entry
  MaxDeaths,     \* how often the gateway may die
  MaxStirs       \* how often the owner may act

Dirs == OwnerDirs \cup {Birth, Empty}

ASSUME DirectoryAssumption ==
  /\ Birth # Empty /\ {Birth, Empty} \cap OwnerDirs = {}
  /\ NoDir \notin Dirs
  /\ MaxDeaths \in Nat /\ MaxStirs \in Nat

VARIABLES
  replacing,   \* the operation is a birth on top of an empty directory
  path,        \* the entry at the workspace path
  prepared, original, taken,   \* the private entries `prepared`, `original`, `captured`
  stirred, deep,               \* owner changes, see above
  early,       \* the owner changed Birth before it was moved to `captured`
  linked,      \* entries that ever were at the path or in private storage
  removed,     \* entries the owner removed itself
  manifest,    \* directory-intent.json
  op, step,    \* the running call and its next system call
  answer,      \* how the last call ended
  undoing,     \* rollback has begun
  stirs, deaths

dirVars == <<replacing, path, prepared, original, taken, stirred, deep, early,
             linked, removed, manifest, op, step, answer, undoing, stirs, deaths>>
places == <<path, prepared, original, taken>>
ownerSide == <<stirred, deep, linked, removed, stirs>>

DirInit ==
  /\ replacing \in BOOLEAN
  /\ path = IF replacing THEN Empty ELSE NoDir
  /\ prepared = NoDir /\ original = NoDir /\ taken = NoDir
  /\ stirred = {} /\ deep = {} /\ early = FALSE
  /\ linked = {path} \ {NoDir} /\ removed = {}
  /\ manifest = FALSE /\ op = "none" /\ step = "idle" /\ answer = "none"
  /\ undoing = FALSE /\ stirs = 0 /\ deaths = 0

-----------------------------------------------------------------------------
(* What the code makes of the four places.                                  *)

\* _matches: the inode with the record it was given; _empty is part of Empty's.
Matches(d, expected) == d = expected /\ d \notin stirred

\* Fault: the record of the top directory stands for the tree.
TopMatches(d) == d = Birth /\ d \notin stirred

\* _tree_matches: the whole manifest, however deep the change.
TreeMatches(d) == d = Birth /\ d \notin stirred \cup deep

\* _state of a plain creation: exactly one of the three places is taken, and
\* by the directory of the intent.
CreationState ==
  LET found == {p \in {<<path, "published">>, <<prepared, "prepared">>,
                       <<taken, "rolled_back">>} : p[1] # NoDir} IN
  IF Cardinality(found) = 1 /\ \A p \in found : Matches(p[1], Birth)
    THEN (CHOOSE p \in found : TRUE)[2]
    ELSE "conflict"

\* Fault: a death between the two renames of a rollback is not recognised.
ReplacementStateOneWay ==
  IF {Birth, Empty} \cap stirred # {} THEN "conflict"
  ELSE CASE places = <<Empty, Birth, NoDir, NoDir>> -> "prepared"
         [] places = <<NoDir, Birth, Empty, NoDir>> -> "original_captured"
         [] places = <<Birth, NoDir, Empty, NoDir>> -> "published"
         [] places = <<Empty, NoDir, NoDir, Birth>> -> "rolled_back"
         [] OTHER -> "conflict"

\* _replacement_state: five recognised arrangements of two exact inodes.
ReplacementState ==
  IF {Birth, Empty} \cap stirred # {} THEN "conflict"
  ELSE CASE places = <<Empty, Birth, NoDir, NoDir>> -> "prepared"
         [] places = <<NoDir, Birth, Empty, NoDir>> -> "original_captured"
         [] places = <<Birth, NoDir, Empty, NoDir>> -> "published"
         [] places = <<NoDir, NoDir, Empty, Birth>> -> "candidate_captured"
         [] places = <<Empty, NoDir, NoDir, Birth>> -> "rolled_back"
         [] OTHER -> "conflict"

State == IF replacing THEN ReplacementState ELSE CreationState

-----------------------------------------------------------------------------
Ends(outcome) == op' = "none" /\ step' = "idle" /\ answer' = outcome
Then(next) == step' = next /\ UNCHANGED <<op, answer>>
Begin(call, first) == step = "idle" /\ op' = call /\ step' = first /\ answer' = "none"

\* prepare_directory looks at the destination before it makes anything.
StartPrepare ==
  /\ ~manifest /\ prepared = NoDir /\ ~undoing
  /\ \/ /\ path = IF replacing THEN Empty ELSE NoDir
        /\ Empty \notin stirred
        /\ Begin("prepare", "copy")
     \/ /\ ~(path = (IF replacing THEN Empty ELSE NoDir) /\ Empty \notin stirred)
        /\ step = "idle" /\ Ends("refused")
  /\ UNCHANGED <<replacing, places, ownerSide, early, manifest, undoing, deaths>>

\* mkdir, the bounded copy of the candidate tree, its metadata, fsync.
Copy ==
  /\ step = "copy"
  /\ prepared' = Birth /\ linked' = linked \cup {Birth}
  /\ Then("record")
  /\ UNCHANGED <<replacing, path, original, taken, stirred, deep, early, removed,
                 manifest, undoing, stirs, deaths>>

WriteManifest ==
  /\ step = "record"
  /\ manifest' = TRUE
  /\ Ends("prepared")
  /\ UNCHANGED <<replacing, places, ownerSide, early, undoing, deaths>>

\* publish_directory: load the intent and decide by the state.
StartPublish ==
  /\ manifest /\ ~undoing
  /\ \/ /\ replacing /\ State = "prepared" /\ Begin("publish", "set_aside")
     \/ /\ State = "original_captured" \/ (~replacing /\ State = "prepared")
        /\ Begin("publish", "place")
     \/ /\ State = "published" /\ Begin("publish", "verify")
     \/ /\ State \notin {"prepared", "original_captured", "published"}
        /\ step = "idle" /\ Ends("refused")
  /\ UNCHANGED <<replacing, places, ownerSide, early, manifest, undoing, deaths>>

\* renameat2(NOREPLACE) takes whatever is at the path into `original`.
SetAside ==
  /\ step = "set_aside"
  /\ \/ /\ path = NoDir /\ Ends("refused") /\ UNCHANGED <<path, original>>
     \/ /\ path # NoDir /\ original' = path /\ path' = NoDir /\ Then("aside")
  /\ UNCHANGED <<replacing, prepared, taken, ownerSide, early, manifest, undoing, deaths>>

\* Only the exact empty directory may stay aside; anything else goes back.
CheckAside ==
  /\ step = "aside"
  /\ Then(IF State = "original_captured" THEN "place" ELSE "put_back")
  /\ UNCHANGED <<replacing, places, ownerSide, early, manifest, undoing, deaths>>

PutBack ==
  /\ step = "put_back"
  /\ \/ path = NoDir /\ path' = original /\ original' = NoDir
     \/ path # NoDir /\ UNCHANGED <<path, original>>
  /\ Ends("refused")
  /\ UNCHANGED <<replacing, prepared, taken, ownerSide, early, manifest, undoing, deaths>>

\* renameat2(NOREPLACE) of the prepared tree to its path.
Place ==
  /\ step = "place"
  /\ \/ /\ path = NoDir /\ path' = prepared /\ prepared' = NoDir /\ Then("verify")
     \/ /\ path # NoDir /\ Ends("refused") /\ UNCHANGED <<path, prepared>>
  /\ UNCHANGED <<replacing, original, taken, ownerSide, early, manifest, undoing, deaths>>

VerifyPublished ==
  /\ step = "verify"
  /\ Ends(IF State = "published" /\ TreeMatches(path) THEN "published" ELSE "refused")
  /\ UNCHANGED <<replacing, places, ownerSide, early, manifest, undoing, deaths>>

-----------------------------------------------------------------------------
(* rollback_directory and _rollback_replacement, as recovery calls them:    *)
(* inspect_directory before, to plan, and after, to accept the endpoint.    *)

\* inspect_directory: the state, unless the tree differs from the manifest.
Observed ==
  LET tree == CASE State = "published" -> path
                [] State \in {"prepared", "original_captured"} -> prepared
                [] State \in {"rolled_back", "candidate_captured"} -> taken
                [] OTHER -> NoDir
  IN IF TreeMatches(tree) THEN State ELSE "conflict"

StartRollback ==
  /\ manifest /\ undoing' = TRUE
  /\ \/ /\ Observed = "conflict" /\ step = "idle" /\ Ends("refused")
     \/ /\ Observed = "prepared" \/ (replacing /\ Observed = "rolled_back")
        /\ Begin("rollback", "settle")
     \/ /\ Observed = "published" /\ Begin("rollback", "take")
     \/ /\ ~replacing /\ Observed = "rolled_back" /\ Begin("rollback", "inspect")
     \/ /\ Observed \in {"original_captured", "candidate_captured"}
        /\ Begin("rollback", "give_back")
  /\ UNCHANGED <<replacing, places, ownerSide, early, manifest, deaths>>

\* renameat2(NOREPLACE) takes whatever is at the path into `captured`.
TakeDown ==
  /\ step = "take"
  /\ \/ /\ path = NoDir \/ taken # NoDir
        /\ Ends("refused") /\ UNCHANGED <<path, taken, early>>
     \/ /\ path # NoDir /\ taken = NoDir
        /\ taken' = path /\ path' = NoDir
        /\ early' = (path \in stirred \cup deep)
        /\ Then("inspect")
  /\ UNCHANGED <<replacing, prepared, original, ownerSide, manifest, undoing, deaths>>

\* Inspect the object actually moved, with what was inserted after the check.
InspectTaken ==
  /\ step = "inspect"
  /\ Then(IF ~TreeMatches(taken) THEN "return"
          ELSE IF replacing THEN "resume" ELSE "confirm")
  /\ UNCHANGED <<replacing, places, ownerSide, early, manifest, undoing, deaths>>

\* Create-only restoration: a later entry at the path is never replaced.
ReturnTaken ==
  /\ step = "return"
  /\ \/ path = NoDir /\ path' = taken /\ taken' = NoDir
     \/ path # NoDir /\ UNCHANGED <<path, taken>>
  /\ Ends("refused")
  /\ UNCHANGED <<replacing, prepared, original, ownerSide, early, manifest, undoing, deaths>>

Resume ==
  /\ step = "resume"
  /\ \/ State \in {"original_captured", "candidate_captured"} /\ Then("give_back")
     \/ State \notin {"original_captured", "candidate_captured"} /\ Ends("refused")
  /\ UNCHANGED <<replacing, places, ownerSide, early, manifest, undoing, deaths>>

\* renameat2(NOREPLACE) of the empty directory back to its path.
GiveBackDir ==
  /\ step = "give_back"
  /\ \/ /\ path = NoDir /\ path' = original /\ original' = NoDir /\ Then("confirm")
     \/ /\ path # NoDir /\ Ends("refused") /\ UNCHANGED <<path, original>>
  /\ UNCHANGED <<replacing, prepared, taken, ownerSide, early, manifest, undoing, deaths>>

\* The endpoint rollback_directory itself demands.
Endpoints == {"rolled_back"} \cup IF replacing THEN {"prepared"} ELSE {}

ConfirmRollback ==
  /\ step = "confirm"
  /\ \/ State \in Endpoints /\ Then("settle")
     \/ State \notin Endpoints /\ Ends("refused")
  /\ UNCHANGED <<replacing, places, ownerSide, early, manifest, undoing, deaths>>

\* Recovery inspects every directory again before it reports the old endpoint.
Settle ==
  /\ step = "settle"
  /\ Ends(IF Observed \in {"prepared", "rolled_back"} THEN "recovered" ELSE "refused")
  /\ UNCHANGED <<replacing, places, ownerSide, early, manifest, undoing, deaths>>

-----------------------------------------------------------------------------
(* The owner and the death of the gateway.                                  *)
OwnerCreates ==
  /\ stirs < MaxStirs /\ path = NoDir
  /\ \E d \in OwnerDirs \ linked : path' = d /\ linked' = linked \cup {d}
  /\ stirs' = stirs + 1
  /\ UNCHANGED <<replacing, prepared, original, taken, stirred, deep, early, removed,
                 manifest, op, step, answer, undoing, deaths>>

OwnerRemovesDir ==
  /\ stirs < MaxStirs /\ path # NoDir
  /\ removed' = removed \cup {path} /\ path' = NoDir
  /\ stirs' = stirs + 1
  /\ UNCHANGED <<replacing, prepared, original, taken, stirred, deep, early, linked,
                 manifest, op, step, answer, undoing, deaths>>

\* In the directory itself or below it, at the path or through an open descriptor.
OwnerStirs ==
  /\ stirs < MaxStirs
  /\ \E d \in ({path, original, taken} \ {NoDir}) \ (stirred \cup deep) :
       \/ stirred' = stirred \cup {d} /\ UNCHANGED deep
       \/ d = Birth /\ deep' = deep \cup {d} /\ UNCHANGED stirred
  /\ stirs' = stirs + 1
  /\ UNCHANGED <<replacing, places, early, linked, removed, manifest, op, step,
                 answer, undoing, deaths>>

DirDeath ==
  /\ deaths < MaxDeaths /\ step # "idle"
  /\ Ends("none")
  /\ deaths' = deaths + 1
  /\ UNCHANGED <<replacing, places, ownerSide, early, manifest, undoing>>

DirCall ==
  \/ Copy \/ WriteManifest \/ SetAside \/ CheckAside \/ PutBack \/ Place
  \/ VerifyPublished \/ TakeDown \/ InspectTaken \/ ReturnTaken \/ Resume
  \/ GiveBackDir \/ ConfirmRollback \/ Settle

DirNext ==
  \/ StartPrepare \/ StartPublish \/ StartRollback \/ DirCall
  \/ OwnerCreates \/ OwnerRemovesDir \/ OwnerStirs \/ DirDeath

DirSpec == DirInit /\ [][DirNext]_dirVars

-----------------------------------------------------------------------------
(* Properties.                                                              *)
DirTypeOK ==
  /\ replacing \in BOOLEAN
  /\ path \in Dirs \cup {NoDir}
  /\ prepared \in {Birth, NoDir} /\ original \in Dirs \cup {NoDir}
  /\ taken \in Dirs \cup {NoDir}
  /\ stirred \subseteq Dirs /\ deep \subseteq Dirs /\ early \in BOOLEAN
  /\ linked \subseteq Dirs /\ removed \subseteq Dirs
  /\ manifest \in BOOLEAN /\ undoing \in BOOLEAN
  /\ op \in {"none", "prepare", "publish", "rollback"}
  /\ step \in {"idle", "copy", "record", "set_aside", "aside", "put_back", "place",
               "verify", "take", "inspect", "return", "resume", "give_back", "confirm", "settle"}
  /\ answer \in {"none", "prepared", "published", "recovered", "refused"}
  /\ stirs \in 0..MaxStirs /\ deaths \in 0..MaxDeaths

\* "Owner content is never recursively removed": what was linked and not removed
\* by the owner is at the path or in private storage after any deaths.
DirectoryKept == linked \ removed \subseteq {path, prepared, original, taken}

\* A rollback hides no work of the owner: what it changed in the created tree
\* before the tree was moved away is never part of a recovered endpoint, and when
\* the call itself refuses, that tree, or an entry taken by losing the race, is
\* in private storage only if the path has been taken again.
OwnerWorkSurfaces ==
  [][op = "rollback" /\ op' = "none" /\ taken' # NoDir /\ (early' \/ taken' # Birth) =>
       /\ answer' # "recovered"
       /\ answer' = "refused" => path' # NoDir]_dirVars

\* A death between the two renames of a replacement leaves an arrangement the
\* next call recognises: a directory call refuses only if the owner interfered.
DirectoryRefusalHasCause == answer = "refused" => stirs > 0
=============================================================================
