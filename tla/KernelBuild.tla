---------------------------- MODULE KernelBuild ----------------------------
(***************************************************************************)
(* scripts/build/00b-deploy-overlay.sh, 02-configure.sh and                *)
(* 03-build-kernel.sh on one kernel tree and one build directory: run in   *)
(* any order, stopped at any step by a command that fails or by a kill     *)
(* (they set no trap), and run again; the user may also change the tree,   *)
(* or build by hand.                                                       *)
(***************************************************************************)
EXTENDS BuildDir

VARIABLES
  bpc,       \* where the running script is
  version,   \* of the kernel tree
  kconfig,   \* does the tree have the options of EVL?
  overlay,   \* the files of the overlay in the tree
  injected,  \* sched.h and core.c, which are patched in place
  config,    \* .config: "merged" holds options not resolved yet
  release,   \* the cached kernel.release, 0 if there is none
  verified   \* did 02 verify .config for this tree?

tree == <<version, kconfig, overlay, injected>>
kernelVars == <<bpc, tree, config, release, verified>>

Files == {"sched.h", "core.c"}

KernelInit ==
  /\ bpc = "idle"
  /\ version \in Versions \ Plus
  /\ kconfig \in BOOLEAN
  /\ overlay = "none"
  /\ injected = [f \in Files |-> "vanilla"]
  /\ config = "none"
  /\ release = 0
  /\ verified = FALSE

\* Another branch, or patches for EVL, are checked out.
ChangeTree ==
  /\ bpc = "idle"
  /\ version' \in Versions \ Plus
  /\ kconfig' \in BOOLEAN
  /\ overlay' = "none"
  /\ injected' = [f \in Files |-> "vanilla"]
  /\ verified' = FALSE
  /\ UNCHANGED <<bpc, config, release, buildDir>>

\* make without LOCALVERSION: a dirty tree gets a '+', which stays cached.
BuildByHand ==
  /\ bpc = "idle" /\ config # "none"
  /\ \E v \in Versions :
       /\ image' = [ver |-> v, evl |-> FALSE]
       /\ release' = v
       /\ modules' \in {[w \in DOMAIN modules |-> "old"],
                        [w \in DOMAIN modules \cup {v} |->
                           IF w = v THEN "full" ELSE "old"]}
  /\ promise' = "none"
  /\ UNCHANGED <<bpc, tree, config, verified>>

-----------------------------------------------------------------------------
(***************************************************************************)
(* 00b-deploy-overlay.sh                                                   *)
(***************************************************************************)
Deploy ==
  /\ bpc = "idle"
  /\ bpc' = "rsync"
  /\ overlay' = IF overlay = "full" THEN "full" ELSE "partial"
  /\ UNCHANGED <<version, kconfig, injected, config, release, verified, buildDir>>

Rsync ==
  /\ bpc = "rsync"
  /\ overlay' = "full"
  /\ bpc' = "sched.h"
  /\ UNCHANGED <<version, kconfig, injected, config, release, verified, buildDir>>

AfterPatch(f) == IF f = "sched.h" THEN "core.c" ELSE "idle"

\* grep finds the insertion: in a torn file it may, or may not.
SkipPatch(f) ==
  /\ bpc = f
  /\ injected[f] \in {"patched", "torn"}
  /\ bpc' = AfterPatch(f)
  /\ UNCHANGED <<tree, config, release, verified, buildDir>>

\* open(path, 'w') truncates the file; one that is torn already has no place
\* to insert at, and the script ends there, today and in every later run.
OpenPatch(f) ==
  /\ bpc = f
  /\ injected[f] = "vanilla"
  /\ injected' = [injected EXCEPT ![f] = "torn"]
  /\ bpc' = IF f = "sched.h" THEN "write sched.h" ELSE "write core.c"
  /\ UNCHANGED <<version, kconfig, overlay, config, release, verified, buildDir>>

WritePatch(f) ==
  /\ bpc = IF f = "sched.h" THEN "write sched.h" ELSE "write core.c"
  /\ injected' = [injected EXCEPT ![f] = "patched"]
  /\ bpc' = AfterPatch(f)
  /\ UNCHANGED <<version, kconfig, overlay, config, release, verified, buildDir>>

-----------------------------------------------------------------------------
(***************************************************************************)
(* 02-configure.sh                                                         *)
(***************************************************************************)
\* make olddefconfig drops the options the tree does not have.
Resolved(c) ==
  IF c \in {"merged", "evl"} THEN IF kconfig THEN "evl" ELSE "base" ELSE c

Configure ==
  /\ bpc = "idle"
  /\ bpc' = "merge"
  /\ config' = "base"
  /\ verified' = FALSE
  /\ UNCHANGED <<tree, release, buildDir>>

\* merge_config.sh, or the fragment is appended.
MergeFragment ==
  /\ bpc = "merge"
  /\ config' = "merged"
  /\ bpc' = "resolve"
  /\ UNCHANGED <<tree, release, verified, buildDir>>

\* With OPEN_MENUCONFIG=1 the user may change the options.
ResolveConfig ==
  /\ bpc = "resolve"
  /\ config' \in {Resolved(config), "base"}
  /\ bpc' = "verify"
  /\ UNCHANGED <<tree, release, verified, buildDir>>

\* An option that is missing is worth a warning, not a failure.
CheckConfig ==
  /\ bpc = "verify"
  /\ verified' = (config = "evl")
  /\ bpc' = "idle"
  /\ UNCHANGED <<tree, config, release, buildDir>>

-----------------------------------------------------------------------------
(***************************************************************************)
(* 03-build-kernel.sh                                                      *)
(***************************************************************************)
\* Mutant of StartBuild: the cached version string is kept.
StartBuild_Cached ==
  /\ bpc = "idle" /\ config # "none"
  /\ promise' = "none"
  /\ bpc' = "Image"
  /\ UNCHANGED <<tree, config, release, verified, image, modules>>

StartBuild ==
  /\ bpc = "idle" /\ config # "none"
  /\ release' = 0
  /\ promise' = "none"
  /\ bpc' = "Image"
  /\ UNCHANGED <<tree, config, verified, image, modules>>

\* A torn file does not compile, nor does EVL without the whole overlay.
Compiles ==
  /\ \A f \in Files : injected[f] # "torn"
  /\ Resolved(config) = "evl" =>
       overlay = "full" /\ \A f \in Files : injected[f] = "patched"

MakeImage ==
  /\ bpc = "Image" /\ Compiles
  /\ release' = IF release = 0 THEN version ELSE release
  /\ config' = Resolved(config)
  /\ image' = [ver |-> release', evl |-> config' = "evl"]
  /\ modules' = [v \in DOMAIN modules |->
                   IF modules[v] = "full" THEN "old" ELSE modules[v]]
  /\ bpc' = "modules"
  /\ UNCHANGED <<tree, verified, promise>>

\* dtbs and modules are made, the old directory of the version is emptied.
MakeModules ==
  /\ bpc = "modules"
  /\ modules' = [v \in DOMAIN modules \cup {image.ver} |->
                   IF v = image.ver THEN "partial" ELSE modules[v]]
  /\ bpc' = "install"
  /\ UNCHANGED <<tree, config, release, verified, image, promise>>

InstallModules ==
  /\ bpc = "install"
  /\ modules' = [modules EXCEPT ![image.ver] = "full"]
  /\ promise' = IF verified THEN "evl" ELSE "built"
  /\ bpc' = "idle"
  /\ UNCHANGED <<tree, config, release, verified, image>>

\* A command fails and ends the script (set -e), or the script is killed.
StopScript ==
  /\ bpc # "idle"
  /\ bpc' = "idle"
  /\ UNCHANGED <<tree, config, release, verified, buildDir>>

KernelNext ==
  \/ ChangeTree \/ BuildByHand
  \/ Deploy \/ Rsync
  \/ \E f \in Files : SkipPatch(f) \/ OpenPatch(f) \/ WritePatch(f)
  \/ Configure \/ MergeFragment \/ ResolveConfig \/ CheckConfig
  \/ StartBuild \/ MakeImage \/ MakeModules \/ InstallModules
  \/ StopScript

kernelBuildVars == <<kernelVars, buildDir>>
KernelSpec == KernelInit /\ BuildDirInit /\ [][KernelNext]_kernelBuildVars
=============================================================================
