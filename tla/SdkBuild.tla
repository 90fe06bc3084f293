------------------------------ MODULE SdkBuild ------------------------------
(***************************************************************************)
(* scripts/build/04-build-sdk.sh, run, failing, killed and run again.      *)
(*                                                                         *)
(* For the time of a build the script renames the Qt directories of        *)
(* Anaconda and patches makefiles of the SDK, and undoes both in an EXIT   *)
(* trap from two lists it keeps in memory.  The trap runs when the script  *)
(* ends and when a command of it fails; it does not when the shell is      *)
(* killed or the machine stops, which loses the lists and keeps the disk.  *)
(*                                                                         *)
(* The content of a makefile is the set of the sed expressions that were   *)
(* applied to it; the name of a Qt directory is the number of              *)
(* ".buildroot_hidden" suffixes it carries.                                *)
(***************************************************************************)
EXTENDS Integers, FiniteSets

CONSTANTS
  Packages,   \* the packages whose makefile is patched
  Exprs,      \* the number of sed expressions for each
  QtDirs,     \* ~/anaconda3/lib/cmake/Qt*
  HostCmake,  \* the cmake that buildroot bootstraps
  MaxKills,   \* bound on the number of kills
  Midway      \* may a run fail between a change and the note of it?

ASSUME ExprsAssumption == Exprs \in [Packages -> Nat \ {0}]
ASSUME MidwayAssumption == Midway \in BOOLEAN
ASSUME KillsAssumption == MaxKills \in Nat
ASSUME CmakeAssumption == HostCmake \notin Packages

VARIABLES
  pc,       \* where the script is
  repo,     \* the .repo directory of the SDK
  suffix,   \* the Qt directories
  mk,       \* the makefiles
  backup,   \* their .python_backup files, those which exist
  stamp,    \* the .stamp_configured files of buildroot
  output,   \* was buildroot given its configuration?
  envmk,    \* does env.mk exist?
  todo,     \* what the running loop has yet to visit
  busy,     \* the item changed and not noted yet
  expr,     \* the next sed expression
  hidden,   \* _HIDDEN_CMAKE_DIRS
  patched,  \* _PATCHED_MK_FILES
  found,    \* what the run found when it set its trap
  kills     \* kills so far

sdk == <<repo, output, envmk>>
files == <<mk, backup>>
lists == <<hidden, patched>>
loop == <<todo, busy, expr>>
vars == <<pc, repo, suffix, mk, backup, stamp, output, envmk, todo, busy, expr,
          hidden, patched, found, kills>>

Built == Packages \cup {HostCmake}
FullyPatched(p) == 1..Exprs[p]
Trapped == {"hide", "patch", "config", "envmk", "make", "image"}
Stopped == {"idle", "restored"}

\* A configure stamp may be left from a build made before, by hand or by
\* another version of the script.
Init ==
  /\ pc = "idle"
  /\ repo = "none"
  /\ suffix = [q \in QtDirs |-> 0]
  /\ mk = [p \in Packages |-> {}]
  /\ backup = [p \in {} |-> {}]
  /\ stamp \in [Built -> {"none", "stale"}]
  /\ output = FALSE
  /\ envmk = FALSE
  /\ todo = {} /\ busy = {} /\ expr = 1
  /\ hidden = {} /\ patched = {}
  /\ found = [suffix |-> suffix, mk |-> mk, backup |-> backup]
  /\ kills = 0

Run ==
  /\ pc \in Stopped
  /\ pc' = "init"
  /\ todo' = {} /\ busy' = {} /\ expr' = 1
  /\ hidden' = {} /\ patched' = {}
  /\ UNCHANGED <<sdk, suffix, files, stamp, found, kills>>

\* repo makes .repo before it downloads anything, and a failure leaves it.
RepoInit ==
  /\ pc = "init"
  /\ \/ repo # "none" /\ pc' = "sync" /\ UNCHANGED repo
     \/ repo = "none" /\ pc' = "sync" /\ repo' = "ready"
     \/ repo = "none" /\ pc' = "idle" /\ repo' \in {"none", "partial"}
  /\ UNCHANGED <<suffix, files, stamp, output, envmk, loop, lists, found, kills>>

\* repo sync then repo start, whose failure is ignored.  A local change in a
\* makefile is kept.
RepoSync ==
  /\ pc = "sync"
  /\ \/ repo = "ready" /\ pc' = "prepare"
     \/ pc' = "idle"
  /\ UNCHANGED <<sdk, suffix, files, stamp, loop, lists, found, kills>>

\* The stamp of a poisoned bootstrap goes, then the trap is set.
Prepare ==
  /\ pc = "prepare"
  /\ stamp' = [stamp EXCEPT ![HostCmake] = "none"]
  /\ found' = [suffix |-> suffix, mk |-> mk, backup |-> backup]
  /\ todo' = QtDirs
  /\ pc' = "hide"
  /\ UNCHANGED <<sdk, suffix, files, busy, expr, lists, kills>>

\* _hide_anaconda_cmake: the pattern of find matches the names that are hidden
\* already, which get one more suffix.
Hide(q) ==
  /\ pc = "hide" /\ busy = {} /\ q \in todo
  /\ suffix' = [suffix EXCEPT ![q] = @ + 1]
  /\ busy' = {q}
  /\ UNCHANGED <<pc, sdk, files, stamp, todo, expr, lists, found, kills>>

\* Mutant of NoteHidden: the loop ends after its first directory.
NoteHidden_Break(q) ==
  /\ pc = "hide" /\ busy = {q}
  /\ hidden' = hidden \cup {q}
  /\ todo' = {} /\ busy' = {}
  /\ UNCHANGED <<pc, sdk, suffix, files, stamp, expr, patched, found, kills>>

NoteHidden(q) ==
  /\ pc = "hide" /\ busy = {q}
  /\ hidden' = hidden \cup {q}
  /\ todo' = todo \ {q} /\ busy' = {}
  /\ UNCHANGED <<pc, sdk, suffix, files, stamp, expr, patched, found, kills>>

HideDone ==
  /\ pc = "hide" /\ todo = {}
  /\ pc' = "patch" /\ todo' = Packages
  /\ UNCHANGED <<sdk, suffix, files, stamp, busy, expr, lists, found, kills>>

\* _patch_mk_python: a makefile which has a backup is taken for patched.
SkipMk(p) ==
  /\ pc = "patch" /\ busy = {} /\ p \in todo /\ p \in DOMAIN backup
  /\ todo' = todo \ {p}
  /\ UNCHANGED <<pc, sdk, suffix, files, stamp, busy, expr, lists, found, kills>>

\* Mutant of BackupMk: an existing backup is overwritten.
BackupMk_Again(p) ==
  /\ pc = "patch" /\ busy = {} /\ p \in todo
  /\ backup' = [f \in DOMAIN backup \cup {p} |-> IF f = p THEN mk[p] ELSE backup[f]]
  /\ busy' = {p} /\ expr' = 1
  /\ UNCHANGED <<pc, sdk, suffix, mk, stamp, todo, lists, found, kills>>

BackupMk(p) ==
  /\ pc = "patch" /\ busy = {} /\ p \in todo /\ p \notin DOMAIN backup
  /\ backup' = [f \in DOMAIN backup \cup {p} |-> IF f = p THEN mk[p] ELSE backup[f]]
  /\ busy' = {p} /\ expr' = 1
  /\ UNCHANGED <<pc, sdk, suffix, mk, stamp, todo, lists, found, kills>>

SedMk(p) ==
  /\ pc = "patch" /\ busy = {p} /\ expr \in FullyPatched(p)
  /\ mk' = [mk EXCEPT ![p] = @ \cup {expr}]
  /\ expr' = expr + 1
  /\ UNCHANGED <<pc, sdk, suffix, backup, stamp, todo, busy, lists, found, kills>>

NotePatched(p) ==
  /\ pc = "patch" /\ busy = {p} /\ expr \notin FullyPatched(p)
  /\ patched' = patched \cup {p}
  /\ todo' = todo \ {p} /\ busy' = {}
  /\ UNCHANGED <<pc, sdk, suffix, files, stamp, expr, hidden, found, kills>>

\* The packages are to be configured again, with their patched makefiles.
RemoveStamps ==
  /\ pc = "patch" /\ todo = {}
  /\ stamp' = [b \in Built |-> IF b \in Packages THEN "none" ELSE stamp[b]]
  /\ pc' = "config"
  /\ UNCHANGED <<sdk, suffix, files, loop, lists, found, kills>>

Defconfig ==
  /\ pc = "config"
  /\ \/ envmk /\ pc' = "make" /\ UNCHANGED output
     \/ ~envmk /\ pc' = "envmk" /\ output' = TRUE
  /\ UNCHANGED <<repo, envmk, suffix, files, stamp, loop, lists, found, kills>>

WriteEnvMk ==
  /\ pc = "envmk"
  /\ envmk' = TRUE
  /\ pc' = "make"
  /\ UNCHANGED <<repo, output, suffix, files, stamp, loop, lists, found, kills>>

\* make: what has no stamp is configured.  A package with Python bindings fails,
\* the bootstrap of cmake does too when it sees Qt, and leaves its stamp.
ConfigureBuilt(b) ==
  /\ pc = "make" /\ output /\ stamp[b] = "none"
  /\ IF b = HostCmake
       THEN stamp' = [stamp EXCEPT ![b] =
                        IF \E q \in QtDirs : suffix[q] = 0 THEN "stale" ELSE "fresh"]
       ELSE mk[b] = FullyPatched(b) /\ stamp' = [stamp EXCEPT ![b] = "fresh"]
  /\ UNCHANGED <<pc, sdk, suffix, files, loop, lists, found, kills>>

MakeDone ==
  /\ pc = "make" /\ \A b \in Built : stamp[b] = "fresh"
  /\ pc' = "image"
  /\ UNCHANGED <<sdk, suffix, files, stamp, loop, lists, found, kills>>

\* Mutant of Exit: the trap is not set.
Exit_NoTrap ==
  /\ pc \in Trapped
  /\ busy = {} \/ Midway
  /\ pc' = "idle"
  /\ UNCHANGED <<sdk, suffix, files, stamp, loop, lists, found, kills>>

\* A command fails (die, or set -e), or the end of the script is reached, with
\* or without an image.  What was changed and not noted is not restored.
Exit ==
  /\ pc \in Trapped
  /\ busy = {} \/ Midway
  /\ pc' = "restore"
  /\ UNCHANGED <<sdk, suffix, files, stamp, loop, lists, found, kills>>

RestoreDir(q) ==
  /\ pc = "restore" /\ q \in hidden
  /\ suffix' = [suffix EXCEPT ![q] = @ - 1]
  /\ hidden' = hidden \ {q}
  /\ UNCHANGED <<pc, sdk, files, stamp, loop, patched, found, kills>>

\* Mutant of RestoreMk: the backup is copied, not moved.
RestoreMk_Copy(p) ==
  /\ pc = "restore" /\ hidden = {} /\ p \in patched
  /\ mk' = [mk EXCEPT ![p] = backup[p]]
  /\ patched' = patched \ {p}
  /\ UNCHANGED <<pc, sdk, suffix, backup, stamp, loop, hidden, found, kills>>

RestoreMk(p) ==
  /\ pc = "restore" /\ hidden = {} /\ p \in patched
  /\ mk' = [mk EXCEPT ![p] = backup[p]]
  /\ backup' = [f \in DOMAIN backup \ {p} |-> backup[f]]
  /\ patched' = patched \ {p}
  /\ UNCHANGED <<pc, sdk, suffix, stamp, loop, hidden, found, kills>>

RestoreDone ==
  /\ pc = "restore" /\ hidden = {} /\ patched = {}
  /\ pc' = "restored"
  /\ UNCHANGED <<sdk, suffix, files, stamp, loop, lists, found, kills>>

\* SIGKILL, the out-of-memory killer, a stop of WSL or of the machine.
Kill ==
  /\ pc \notin Stopped /\ kills < MaxKills
  /\ pc' = "idle" /\ kills' = kills + 1
  /\ UNCHANGED <<sdk, suffix, files, stamp, loop, lists, found>>

Next ==
  \/ Run \/ RepoInit \/ RepoSync \/ Prepare
  \/ \E q \in QtDirs : Hide(q) \/ NoteHidden(q) \/ RestoreDir(q)
  \/ HideDone
  \/ \E p \in Packages : SkipMk(p) \/ BackupMk(p) \/ SedMk(p) \/ NotePatched(p) \/ RestoreMk(p)
  \/ RemoveStamps \/ Defconfig \/ WriteEnvMk
  \/ \E b \in Built : ConfigureBuilt(b)
  \/ MakeDone \/ Exit \/ RestoreDone \/ Kill

Spec == Init /\ [][Next]_vars

-----------------------------------------------------------------------------
\* The variables have their types, and a suffix count is never negative.
TypeOK ==
  /\ pc \in Stopped \cup Trapped \cup {"init", "sync", "prepare", "restore"}
  /\ repo \in {"none", "partial", "ready"}
  /\ suffix \in [QtDirs -> Nat]
  /\ mk \in [Packages -> SUBSET Nat]
  /\ DOMAIN backup \subseteq Packages
  /\ backup \in [DOMAIN backup -> SUBSET Nat]
  /\ stamp \in [Built -> {"none", "stale", "fresh"}]
  /\ output \in BOOLEAN /\ envmk \in BOOLEAN
  /\ todo \subseteq QtDirs \cup Packages
  /\ busy \subseteq todo
  /\ expr \in Nat
  /\ hidden \subseteq QtDirs /\ patched \subseteq Packages
  /\ kills \in 0..MaxKills

\* However many runs fail or are killed, wherever they are, the pristine text
\* of every makefile is on the disk, in the file or in its backup.
OriginalKept ==
  \A p \in Packages : mk[p] = {} \/ (p \in DOMAIN backup /\ backup[p] = {})

\* A run that ends through its trap leaves the Qt directories, the makefiles and
\* the backups as it found them, whatever earlier runs left there.
UndoneAtExit ==
  pc = "restored" => found = [suffix |-> suffix, mk |-> mk, backup |-> backup]

\* A kill costs a Qt directory one suffix at most: runs that fail cost none.
SuffixesFromKills ==
  pc \in Stopped => \A q \in QtDirs : suffix[q] <= kills

(***************************************************************************)
(* When make runs, whatever earlier runs left: the bootstrap of cmake sees *)
(* no Qt of Anaconda; no configure stamp of an earlier build keeps it from *)
(* configuring with the files of this one; and buildroot was configured,   *)
(* as env.mk, which makes later runs skip that, never survives a failure.  *)
(***************************************************************************)
ReadyToMake ==
  pc = "make" =>
    /\ \A q \in QtDirs : suffix[q] > 0
    /\ \A b \in Built : stamp[b] # "stale"
    /\ output

\* After a run that ends through its trap the source tree is clean, as the
\* comment of the patch step says (04-build-sdk.sh:267).
SourceTreeClean == pc = "restored" => \A p \in Packages : mk[p] = {}
=============================================================================
