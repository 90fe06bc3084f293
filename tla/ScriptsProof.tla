---------------------------- MODULE ScriptsProof ----------------------------
(***************************************************************************)
(* The kernel build keeps the promise of the build directory, for every    *)
(* set of versions; the image script leaves nothing it is not known to     *)
(* leave, and what it finishes boots, on any number of loop devices and    *)
(* from any usable bases; the SDK build loses nothing, for any packages,   *)
(* sed expressions and directories and any bound on the kills.             *)
(***************************************************************************)
EXTENDS SdkBuild, KernelBuild, SdImage, TLAPS

-----------------------------------------------------------------------------
(***************************************************************************)
(* The kernel build.  While 03 runs nothing is promised; from the Image to *)
(* the end of the script its version is that of the tree.  A configuration *)
(* counts as verified as long as the tree still has its options.           *)
(***************************************************************************)
PlainVersions == Versions \ Plus

Building ==
  /\ bpc \in {"Image", "modules", "install"} => promise = "none"
  /\ bpc = "Image" => release = 0
  /\ bpc \in {"modules", "install"} => image.ver \in PlainVersions
  /\ bpc \in {"modules", "install"} /\ verified = TRUE => image.evl = TRUE
  /\ bpc = "install" => image.ver \in DOMAIN modules

Verifying ==
  /\ verified = TRUE => config = "evl" /\ kconfig = TRUE
  /\ bpc \in {"merge", "resolve", "verify"} => verified = FALSE
  /\ bpc = "resolve" => config = "merged"
  /\ bpc = "verify" /\ config = "evl" => kconfig = TRUE

KTypes ==
  /\ version \in PlainVersions
  /\ kconfig \in BOOLEAN /\ verified \in BOOLEAN
  /\ promise \in {"none", "built", "evl"}
  /\ image = [ver |-> image.ver, evl |-> image.evl]
  /\ image.evl \in BOOLEAN
  /\ modules = [v \in DOMAIN modules |-> modules[v]]

Kept ==
  /\ promise # "none" =>
       /\ image.ver \in PlainVersions
       /\ image.ver \in DOMAIN modules /\ modules[image.ver] = "full"
  /\ promise = "evl" => image.evl = TRUE

KInv == KTypes /\ Building /\ Verifying /\ Kept

LEMMA KInitInv == KernelInit /\ BuildDirInit => KInv
<1>. SUFFICES ASSUME KernelInit, BuildDirInit PROVE KInv
  OBVIOUS
<1>1. image = [ver |-> image.ver, evl |-> image.evl] /\ image.evl \in BOOLEAN
  BY DEF BuildDirInit, NoImage
<1>2. modules = [v \in DOMAIN modules |-> modules[v]]
  BY DEF BuildDirInit
<1>3. KTypes
  BY <1>1, <1>2 DEF KernelInit, BuildDirInit, KTypes, PlainVersions
<1>4. Building /\ Kept
  BY DEF KernelInit, BuildDirInit, Building, Kept
<1>5. Verifying
  BY DEF KernelInit, Verifying
<1>. QED
  BY <1>3, <1>4, <1>5 DEF KInv

LEMMA KScripts ==
  ASSUME KInv,
         \/ ChangeTree \/ Deploy \/ Rsync \/ StopScript
         \/ \E f \in Files : SkipPatch(f) \/ OpenPatch(f) \/ WritePatch(f)
         \/ UNCHANGED kernelBuildVars
  PROVE  KInv'
<1>. USE DEF KInv, KTypes, Building, Verifying, Kept, PlainVersions, tree, buildDir
<1>1. CASE ChangeTree
  BY <1>1 DEF ChangeTree
<1>2. CASE Deploy
  BY <1>2 DEF Deploy
<1>3. CASE Rsync
  BY <1>3 DEF Rsync
<1>4. CASE StopScript
  BY <1>4 DEF StopScript
<1>5. ASSUME NEW f \in Files, SkipPatch(f) PROVE KInv'
  BY <1>5 DEF SkipPatch, AfterPatch, Files
<1>6. ASSUME NEW f \in Files, OpenPatch(f) PROVE KInv'
  BY <1>6 DEF OpenPatch, AfterPatch, Files
<1>7. ASSUME NEW f \in Files, WritePatch(f) PROVE KInv'
  BY <1>7 DEF WritePatch, AfterPatch, Files
<1>8. CASE UNCHANGED kernelBuildVars
  BY <1>8 DEF kernelBuildVars, kernelVars
<1>. QED
  BY <1>1, <1>2, <1>3, <1>4, <1>5, <1>6, <1>7, <1>8

LEMMA KConfigures ==
  ASSUME KInv, Configure \/ MergeFragment \/ ResolveConfig \/ CheckConfig
  PROVE  KInv'
<1>. USE DEF KInv, KTypes, Building, Verifying, Kept, PlainVersions, tree, buildDir
<1>1. CASE Configure
  BY <1>1 DEF Configure
<1>2. CASE MergeFragment
  BY <1>2 DEF MergeFragment
<1>3. CASE ResolveConfig
  BY <1>3 DEF ResolveConfig, Resolved
<1>4. CASE CheckConfig
  BY <1>4 DEF CheckConfig
<1>. QED
  BY <1>1, <1>2, <1>3, <1>4

LEMMA KBuilds ==
  ASSUME KInv, BuildByHand \/ StartBuild \/ MakeImage \/ MakeModules \/ InstallModules
  PROVE  KInv'
<1>. USE VersionsAssumption
     DEF KInv, KTypes, Building, Verifying, Kept, PlainVersions, tree, buildDir
<1>1. CASE BuildByHand
  BY <1>1 DEF BuildByHand
<1>2. CASE StartBuild
  BY <1>2 DEF StartBuild
<1>3. CASE MakeImage
  BY <1>3 DEF MakeImage, Resolved
<1>4. CASE MakeModules
  BY <1>4 DEF MakeModules
<1>5. CASE InstallModules
  BY <1>5 DEF InstallModules
<1>. QED
  BY <1>1, <1>2, <1>3, <1>4, <1>5

\* The inductive invariant of the kernel build (02-configure.sh and
\* 03-build-kernel.sh).
THEOREM KernelInvariant == KernelSpec => []KInv
<1>1. KInv /\ [KernelNext]_kernelBuildVars => KInv'
  BY KScripts, KConfigures, KBuilds DEF KernelNext
<1>. QED
  BY KInitInv, <1>1, PTL DEF KernelSpec

\* When 03-build-kernel.sh ends well, Image and modules belong together.
THEOREM KernelKeepsPromise == KernelSpec => []BuildPromise
<1>1. KInv => BuildPromise
  BY DEF KInv, Kept, KTypes, BuildPromise, PlainVersions
<1>. QED
  BY KernelInvariant, <1>1, PTL

-----------------------------------------------------------------------------
(***************************************************************************)
(* The image script.  By where it is: which mounts use its loop device,    *)
(* whether the device is attached at all, and whether the trap, if set,    *)
(* knows it.  Every other device attached was abandoned.                   *)
(***************************************************************************)
NotAttached == {"idle", "copy", "attach", "grow"}
Unmounted == {"detect", "mount", "space", "mountroot", "resize", "finish"}
BootMounted == {"kernel", "conf", "env", "initramfs", "umount"}
RootMounted == {"remove", "modules", "rootfs", "umountroot"}
Untrapped == NotAttached \cup {"detect"}

DTypes ==
  /\ ipc \in NotAttached \cup Unmounted \cup BootMounted \cup RootMounted
  /\ \A m \in mounts :
       m.loop \in attached /\ m = [loop |-> m.loop, at |-> m.at, file |-> m.file]

Owned ==
  IF ipc \in NotAttached THEN attached \subseteq abandoned
  ELSE LOOP \in attached /\ attached \subseteq abandoned \cup {LOOP}

OwnMounts ==
  /\ ipc \in Unmounted => \A m \in mounts : m.loop # LOOP
  /\ ipc \in BootMounted =>
       \A m \in mounts : m.loop = LOOP => m.at = "boot" /\ m.file = "img"
  /\ ipc \in RootMounted =>
       \A m \in mounts : m.loop = LOOP => m.at = "root" /\ m.file = "img"

TrapKnows ==
  IF ipc \in Untrapped THEN trap = FALSE ELSE trap = TRUE /\ LOOP_REF = LOOP

DInv == DTypes /\ Owned /\ OwnMounts /\ TrapKnows

LEMMA DInitInv == ImageInit => DInv
  BY DEF ImageInit, DInv, DTypes, Owned, OwnMounts, TrapKnows, NotAttached, Unmounted,
         BootMounted, RootMounted, Untrapped

\* Steps that move on without a change of devices.
LEMMA DWrites ==
  ASSUME DInv, UNCHANGED devices, UNCHANGED <<LOOP, LOOP_REF, trap>>,
         \/ ipc \in {"idle", "copy"} /\ ipc' \in {"idle", "copy", "attach"}
         \/ ipc \in BootMounted /\ ipc' \in BootMounted
         \/ ipc \in RootMounted /\ ipc' \in RootMounted
         \/ ipc \in {"mount", "space", "resize"} /\ ipc' = "mountroot"
         \/ ipc' = ipc
  PROVE  DInv'
  BY DEF DInv, DTypes, Owned, OwnMounts, TrapKnows, devices, NotAttached, Unmounted,
         BootMounted, RootMounted, Untrapped

\* The end of a run, whatever the trap did, is judged by what is left.
LEMMA DEnds ==
  ASSUME DInv, ipc' = "idle", trap' = FALSE, attached' \subseteq abandoned',
         \A m \in mounts' : m \in mounts /\ m.loop \in attached'
  PROVE  DInv'
  BY DEF DInv, DTypes, Owned, OwnMounts, TrapKnows, NotAttached, Unmounted,
         BootMounted, RootMounted, Untrapped

LEMMA DQuiet ==
  ASSUME DInv,
         \/ Rebuild \/ CopyBase \/ CopyKernel \/ WriteExtlinux \/ PatchEnv
         \/ PatchInitramfs \/ EnoughSpace \/ Resize \/ RemoveOldModules
         \/ CopyModules \/ PatchRootfs \/ WriteBack
         \/ UNCHANGED imageRunVars
  PROVE  DInv'
<1>. USE DEF BootMounted, RootMounted, run
<1>1. CASE Rebuild
  BY <1>1, DWrites DEF Rebuild, imageVars
<1>2. CASE CopyBase
  BY <1>2, DWrites DEF CopyBase
<1>3. CASE CopyKernel
  BY <1>3, DWrites DEF CopyKernel, Write
<1>4. CASE WriteExtlinux
  BY <1>4, DWrites DEF WriteExtlinux, Write
<1>5. CASE PatchEnv
  BY <1>5, DWrites DEF PatchEnv, Write
<1>6. CASE PatchInitramfs
  BY <1>6, DWrites DEF PatchInitramfs, Write
<1>7. CASE EnoughSpace
  BY <1>7, DWrites DEF EnoughSpace
<1>8. CASE Resize
  BY <1>8, DWrites DEF Resize, Write
<1>9. CASE RemoveOldModules
  BY <1>9, DWrites DEF RemoveOldModules, Write
<1>10. CASE CopyModules
  BY <1>10, DWrites DEF CopyModules, Write
<1>11. CASE PatchRootfs
  BY <1>11, DWrites DEF PatchRootfs, Write
<1>12. CASE WriteBack
  BY <1>12, DWrites DEF WriteBack
<1>13. CASE UNCHANGED imageRunVars
  BY <1>13, DWrites DEF imageRunVars, imageVars
<1>. QED
  BY <1>1, <1>2, <1>3, <1>4, <1>5, <1>6, <1>7, <1>8, <1>9, <1>10, <1>11, <1>12, <1>13

LEMMA DDevices ==
  ASSUME DInv,
         \/ \E b \in Bases \cup {shelf, img}, today \in BOOLEAN : Start(b, today)
         \/ Attach \/ SetTrap \/ MountBoot \/ UnmountBoot \/ DetachToGrow
         \/ Reattach \/ MountRootfs \/ UnmountRootfs
  PROVE  DInv'
<1>. USE DEF DInv, DTypes, Owned, OwnMounts, TrapKnows, NotAttached, Unmounted,
             BootMounted, RootMounted, Untrapped
<1>1. ASSUME NEW b \in Bases \cup {shelf, img}, NEW today \in BOOLEAN, Start(b, today)
      PROVE  DInv'
  <2>1. ipc = "idle" /\ ipc' = "copy" /\ UNCHANGED <<attached, abandoned, LOOP, LOOP_REF, trap>>
    BY <1>1 DEF Start
  <2>2. ASSUME NEW m \in mounts'
        PROVE  m.loop \in attached /\ m = [loop |-> m.loop, at |-> m.at, file |-> m.file]
    BY <1>1, <2>2 DEF Start
  <2>. QED
    BY <2>1, <2>2
<1>2. CASE Attach
  BY <1>2 DEF Attach
<1>3. CASE SetTrap
  BY <1>3 DEF SetTrap, devices
<1>4. CASE MountBoot
  BY <1>4 DEF MountBoot, Mount, run
<1>5. CASE UnmountBoot
  BY <1>5 DEF UnmountBoot, Unmount, run
<1>6. CASE DetachToGrow
  BY <1>6 DEF DetachToGrow, Detached
<1>7. CASE Reattach
  BY <1>7 DEF Reattach
<1>8. CASE MountRootfs
  BY <1>8 DEF MountRootfs, Mount, run
<1>9. CASE UnmountRootfs
  BY <1>9 DEF UnmountRootfs, Unmount, run
<1>. QED
  BY <1>1, <1>2, <1>3, <1>4, <1>5, <1>6, <1>7, <1>8, <1>9

LEMMA DStops ==
  ASSUME DInv, DetectFails \/ NoBootPartition \/ Finish \/ Fail \/ KillImage \/ Restart
  PROVE  DInv'
<1>. USE DEF DInv, DTypes, Owned, OwnMounts, TrapKnows, NotAttached, Unmounted,
             BootMounted, RootMounted, Untrapped, Aborts, Ends, Detached
<1>1. CASE DetectFails
  BY <1>1, DEnds DEF DetectFails
<1>2. CASE NoBootPartition
  BY <1>2, DEnds DEF NoBootPartition
<1>3. CASE Finish
  BY <1>3, DEnds DEF Finish
<1>4. CASE Fail
  <2>1. ipc' = "idle" /\ trap' = FALSE
    BY <1>4 DEF Fail
  <2>2. abandoned \subseteq abandoned' /\ (ipc \in RootMounted \cup {"detect"} => LOOP \in abandoned')
    BY <1>4 DEF Fail
  <2>3. CASE trap = TRUE
    <3>. DEFINE left == {m \in mounts : ~(m.loop = LOOP /\ m.at = "boot" /\ m.file = "img")}
    <3>1. mounts' = left /\ LOOP_REF = LOOP
      BY <1>4, <2>3 DEF Fail
    <3>2. attached' = IF \E m \in left : m.loop = LOOP THEN attached ELSE attached \ {LOOP}
      BY <1>4, <2>3, <3>1 DEF Fail
    <3>3. (\E m \in left : m.loop = LOOP) => ipc \in RootMounted
      BY <2>3
    <3>. QED
      BY <2>1, <2>2, <2>3, <3>1, <3>2, <3>3, DEnds
  <2>4. CASE trap = FALSE
    BY <1>4, <2>1, <2>2, <2>4, DEnds DEF Fail
  <2>. QED
    BY <2>3, <2>4
<1>5. CASE KillImage
  BY <1>5, DEnds DEF KillImage
<1>6. CASE Restart
  BY <1>6, DEnds DEF Restart
<1>. QED
  BY <1>1, <1>2, <1>3, <1>4, <1>5, <1>6

\* The inductive invariant of the image script's devices and mounts.
THEOREM ImageInvariant == ImageSpec => []DInv
<1>1. DInv /\ [ImageNext]_imageRunVars => DInv'
  BY DQuiet, DDevices, DStops DEF ImageNext
<1>. QED
  BY DInitInv, <1>1, PTL DEF ImageSpec

\* What a run leaves attached or mounted was left by a kill, or by a failure
\* where no trap knows of it (cleanup()).
THEOREM ImageLeaksExplained == ImageSpec => []LeaksExplained
<1>1. DInv => LeaksExplained
  BY DEF DInv, DTypes, Owned, LeaksExplained, NotAttached
<1>. QED
  BY ImageInvariant, <1>1, PTL

-----------------------------------------------------------------------------
(***************************************************************************)
(* The files of the image script: the output, the last finished image and  *)
(* the base.  By where the script is: what it has written to the output,   *)
(* which was read from a build directory that does not change meanwhile.   *)
(***************************************************************************)
\* A device that runs is nobody else's, and the output is mounted by its own
\* run only, if it was when the run started.
NotAbandoned ==
  /\ abandoned \subseteq attached
  /\ ipc \notin NotAttached => LOOP \notin abandoned
  /\ ipc \in RootMounted => [loop |-> LOOP, at |-> "root", file |-> "img"] \in mounts

OwnFile ==
  alone /\ (ipc # "idle" \/ img.made) =>
    \A m \in mounts : m.file = "img" => ipc \notin NotAttached /\ m.loop = LOOP

Whole ==
  alone => (base.made => base.intact) /\ (img.made => img.intact)

\* The images there are, by place in the script.
FilesUsable ==
  /\ img = NoFile \/ Usable(img)
  /\ shelf = NoFile \/ Usable(shelf)
  /\ IF ipc = "copy" THEN img = NoFile /\ Usable(base) ELSE base = NoFile
  /\ ipc \notin {"idle", "copy"} => img # NoFile
  /\ ipc = "idle" /\ img.made => img.finished

\* What the script has done to the image, by place.
WithRootfs == {"space", "grow", "resize", "mountroot", "remove", "modules", "rootfs", "umountroot"}
EnvDone    == {"initramfs", "umount", "finish"} \cup WithRootfs
ConfDone   == {"env"} \cup EnvDone
KernelDone == {"conf"} \cup ConfDone
ModulesIn  == {"rootfs", "umountroot", "finish"}

Progress ==
  /\ ipc # "idle" => VersionsMatch
  /\ ipc \in {"attach", "detect", "mount", "kernel", "conf"} => ORIG_EXTLINUX(img) = img.orig
  /\ ipc \in KernelDone =>
       img.kernel = image.ver /\ img.evl = image.evl /\ img.promised = promise
  /\ ipc \in ConfDone => RootAsOnBase
  /\ ipc \in EnvDone => EnvPatched
  /\ ipc \in WithRootfs => img.rootfs
  /\ ipc \in ModulesIn /\ img.rootfs =>
       image.ver \in DOMAIN img.modules /\ img.modules[image.ver] = modules[image.ver]
  /\ ipc \in {"umountroot", "finish"} /\ img.rootfs => GettysThere
  /\ ipc = "idle" /\ img.made => KernelFits /\ BootParameters

BuildKept == BuildPromise /\ image.ver \in Versions \cup {0}

FInv == NotAbandoned /\ OwnFile /\ Whole /\ FilesUsable /\ Progress /\ BuildKept

LEMMA FInitInv == ImageInit /\ BuildDirInit => FInv
  BY DEF ImageInit, BuildDirInit, FInv, NotAbandoned, OwnFile, Whole, FilesUsable, Progress,
         BuildKept, BuildPromise, NoFile, NoImage, NotAttached, KernelDone, ConfDone, EnvDone,
         WithRootfs, ModulesIn, RootMounted

LEMMA NextAbandoned ==
  ASSUME DInv, NotAbandoned, ImageNext PROVE NotAbandoned'
<1>. USE DEF DInv, DTypes, Owned, OwnMounts, TrapKnows, NotAttached, Unmounted,
             BootMounted, RootMounted, Untrapped, NotAbandoned
<1>1. CASE Rebuild
  BY <1>1 DEF Rebuild, imageVars, devices, run
<1>2. ASSUME NEW b \in Bases \cup {shelf, img}, NEW today \in BOOLEAN, Start(b, today)
      PROVE  NotAbandoned'
  BY <1>2 DEF Start
<1>3. CASE CopyBase \/ SetTrap \/ EnoughSpace \/ WriteBack
  BY <1>3 DEF CopyBase, SetTrap, EnoughSpace, WriteBack, devices, run
<1>4. CASE Attach \/ Reattach
  BY <1>4 DEF Attach, Reattach
<1>5. CASE MountBoot \/ MountRootfs \/ UnmountBoot \/ UnmountRootfs
  BY <1>5 DEF MountBoot, MountRootfs, UnmountBoot, UnmountRootfs, Mount, Unmount, run
<1>6. CASE \/ CopyKernel \/ WriteExtlinux \/ PatchEnv \/ PatchInitramfs \/ Resize
           \/ RemoveOldModules \/ CopyModules \/ PatchRootfs
  BY <1>6 DEF CopyKernel, WriteExtlinux, PatchEnv, PatchInitramfs, Resize,
              RemoveOldModules, CopyModules, PatchRootfs, Write, devices, run
<1>7. CASE DetachToGrow \/ NoBootPartition \/ Finish
  BY <1>7 DEF DetachToGrow, NoBootPartition, Finish, Aborts, Ends, Detached
<1>8. CASE DetectFails \/ KillImage \/ Restart
  BY <1>8 DEF DetectFails, KillImage, Restart, Aborts, Ends
<1>9. CASE Fail
  <2>1. ipc' = "idle" /\ abandoned' \subseteq abandoned \cup {LOOP}
    BY <1>9 DEF Fail, Aborts, Ends
  <2>2. CASE ~trap
    BY <1>9, <2>1, <2>2 DEF Fail
  <2>3. CASE trap
    <3>. DEFINE left == {m \in mounts : ~(m.loop = LOOP /\ m.at = "boot" /\ m.file = "img")}
    <3>1. attached' = IF \E m \in left : m.loop = LOOP THEN attached ELSE attached \ {LOOP}
      BY <1>9, <2>3 DEF Fail
    <3>2. ipc \in RootMounted => \E m \in left : m.loop = LOOP
      OBVIOUS
    <3>3. ipc \notin RootMounted \cup {"detect"} => abandoned' = abandoned
      BY <1>9 DEF Fail
    <3>. QED
      BY <2>1, <2>3, <3>1, <3>2, <3>3
  <2>. QED
    BY <2>2, <2>3
<1>. QED
  BY <1>1, <1>2, <1>3, <1>4, <1>5, <1>6, <1>7, <1>8, <1>9 DEF ImageNext

\* Between runs no mount is of the output: the mounts of a run go with it.
LEMMA NextOwnFile ==
  ASSUME DInv, NotAbandoned, OwnFile, FilesUsable, ImageNext PROVE OwnFile'
<1>. USE DEF OwnFile, FilesUsable
<1>1. CASE Rebuild
  BY <1>1 DEF Rebuild, imageVars, devices, run
<1>2. ASSUME NEW b \in Bases \cup {shelf, img}, NEW today \in BOOLEAN, Start(b, today)
      PROVE  OwnFile'
  BY <1>2 DEF Start
<1>3. CASE CopyBase \/ SetTrap \/ EnoughSpace
  BY <1>3 DEF CopyBase, SetTrap, EnoughSpace, devices, run, NotAttached
<1>4. CASE Attach \/ Reattach
  BY <1>4 DEF Attach, Reattach, run, NotAttached
<1>5. CASE MountBoot \/ MountRootfs \/ UnmountBoot \/ UnmountRootfs
  <2>1. /\ UNCHANGED <<LOOP, alone, img>>
        /\ ipc \notin NotAttached /\ ipc' \notin NotAttached
        /\ \A m \in mounts' : m \in mounts \/ m.loop = LOOP
    BY <1>5 DEF MountBoot, MountRootfs, UnmountBoot, UnmountRootfs, Mount, Unmount, run,
                NotAttached
  <2>. QED
    BY <2>1 DEF NotAttached
<1>6. CASE \/ CopyKernel \/ WriteExtlinux \/ PatchEnv \/ PatchInitramfs \/ Resize
           \/ RemoveOldModules \/ CopyModules \/ PatchRootfs
  BY <1>6 DEF CopyKernel, WriteExtlinux, PatchEnv, PatchInitramfs, Resize,
              RemoveOldModules, CopyModules, PatchRootfs, Write, devices, run, NotAttached
<1>7. CASE DetachToGrow
  BY <1>7 DEF DetachToGrow, DInv, OwnMounts, Unmounted, NotAttached
<1>8. CASE Finish
  BY <1>8 DEF Finish, Ends, DInv, OwnMounts, Unmounted, NotAttached
<1>9. CASE NoBootPartition \/ DetectFails \/ KillImage \/ Fail
  <2>1. ipc' = "idle" /\ img' = NoFile
    BY <1>9 DEF NoBootPartition, DetectFails, KillImage, Fail, Aborts, Ends
  <2>. QED
    BY <2>1 DEF NoFile
<1>10. CASE Restart
  BY <1>10 DEF Restart, Ends
<1>11. CASE WriteBack
  BY <1>11 DEF WriteBack, devices, run
<1>. QED
  BY <1>1, <1>2, <1>3, <1>4, <1>5, <1>6, <1>7, <1>8, <1>9, <1>10, <1>11 DEF ImageNext

(***************************************************************************)
(* What a step that writes to the image leaves alone.                      *)
(***************************************************************************)
Same(i, fields) == \A f \in ImageFields \ fields : i[f] = img[f]

\* The steps that write, the fields they write, and where they lead.
Writes(fields) ==
  /\ DOMAIN img' = ImageFields /\ Same(img', fields)
  /\ UNCHANGED <<shelf, devices, run, buildDir>>

LEMMA WritingSteps ==
  ASSUME Usable(img)
  PROVE  /\ CopyKernel => Writes({"kernel", "evl", "promised"})
         /\ WriteExtlinux => Writes({"conf"})
         /\ PatchEnv => Writes({"env"})
         /\ PatchInitramfs => Writes({})
         /\ Resize => Writes({"free"})
         /\ RemoveOldModules \/ CopyModules => Writes({"modules", "free"})
         /\ PatchRootfs => Writes({"inittab"})
         /\ WriteBack => Writes({"intact"})
<1>. USE DEF Writes, Same, Usable
<1>. QED
  BY DEF CopyKernel, WriteExtlinux, PatchEnv, PatchInitramfs, Resize, RemoveOldModules,
         CopyModules, PatchRootfs, WriteBack, Write, ImageFields

WriteStep ==
  \/ CopyKernel \/ WriteExtlinux \/ PatchEnv \/ PatchInitramfs \/ Resize
  \/ RemoveOldModules \/ CopyModules \/ PatchRootfs

LEMMA NextWhole ==
  ASSUME DInv, FInv, ImageNext PROVE Whole'
<1>. USE DEF FInv, Whole, FilesUsable
<1>1. CASE Rebuild
  BY <1>1 DEF Rebuild, imageVars, run
<1>2. ASSUME NEW b \in Bases \cup {shelf, img}, NEW today \in BOOLEAN, Start(b, today)
      PROVE  Whole'
  BY <1>2 DEF Start, NoFile
<1>3. CASE CopyBase
  BY <1>3 DEF CopyBase, Usable, ImageFields, NoFile
<1>4. CASE Attach \/ Reattach \/ SetTrap \/ EnoughSpace \/ DetachToGrow
  BY <1>4 DEF Attach, Reattach, SetTrap, EnoughSpace, DetachToGrow, run
<1>5. CASE MountBoot \/ MountRootfs \/ UnmountBoot \/ UnmountRootfs
  BY <1>5 DEF MountBoot, MountRootfs, UnmountBoot, UnmountRootfs, Mount, Unmount, run
<1>6. CASE WriteStep
  <2>1. img # NoFile
    BY <1>6 DEF WriteStep, CopyKernel, WriteExtlinux, PatchEnv, PatchInitramfs, Resize,
                RemoveOldModules, CopyModules, PatchRootfs, Write
  <2>2. UNCHANGED <<alone, base>> /\ img'.made = img.made /\ img'.intact = img.intact
    BY <1>6, <2>1, WritingSteps DEF WriteStep, Writes, Same, ImageFields, run
  <2>. QED
    BY <2>2
<1>7. CASE Finish
  BY <1>7 DEF Finish, Ends, NoFile, Usable, ImageFields
<1>8. CASE NoBootPartition \/ DetectFails \/ KillImage \/ Fail \/ Restart
  <2>1. base' = NoFile /\ (img' = NoFile \/ img' = img) /\ alone' = alone
    BY <1>8 DEF NoBootPartition, DetectFails, KillImage, Fail, Restart, Aborts, Ends
  <2>. QED
    BY <2>1 DEF NoFile
<1>9. CASE WriteBack
  <2>1. PICK m \in mounts : m.file = "img" /\ m.loop \in abandoned
    BY <1>9 DEF WriteBack
  <2>2. img.made /\ UNCHANGED alone
    BY <1>9 DEF WriteBack, run
  <2>3. ~alone
    BY <2>1, <2>2 DEF OwnFile, NotAbandoned
  <2>. QED
    BY <2>2, <2>3
<1>. QED
  BY <1>1, <1>2, <1>3, <1>4, <1>5, <1>6, <1>7, <1>8, <1>9 DEF ImageNext, WriteStep

\* Every step leaves usable files behind.
LEMMA NextUsable ==
  ASSUME DInv, FInv, ImageNext PROVE FilesUsable'
<1>. USE DEF FInv, FilesUsable
<1>1. CASE Rebuild
  BY <1>1 DEF Rebuild, imageVars, run
<1>2. ASSUME NEW b \in Bases \cup {shelf, img}, NEW today \in BOOLEAN, Start(b, today)
      PROVE  FilesUsable'
  <2>1. shelf' = NoFile \/ Usable(shelf')
    BY <1>2 DEF Start
  <2>2. Usable(b)
    BY <1>2, <2>1, BasesAssumption DEF Start
  <2>. QED
    BY <1>2, <2>1, <2>2 DEF Start
<1>3. CASE CopyBase
  <2>1. /\ DOMAIN img' = ImageFields /\ ipc' = "attach" /\ base' = NoFile /\ shelf' = shelf
        /\ \A f \in ImageFields \ {"finished", "orig"} : img'[f] = base[f]
    BY <1>3 DEF CopyBase, Usable, ImageFields
  <2>2. Usable(img')
    BY <1>3, <2>1 DEF Usable, ImageFields, CopyBase
  <2>. QED
    BY <2>1, <2>2 DEF NoFile, Usable
<1>4. CASE Attach \/ Reattach \/ SetTrap \/ EnoughSpace \/ DetachToGrow
  BY <1>4 DEF Attach, Reattach, SetTrap, EnoughSpace, DetachToGrow, run
<1>5. CASE MountBoot \/ MountRootfs \/ UnmountBoot \/ UnmountRootfs
  BY <1>5 DEF MountBoot, MountRootfs, UnmountBoot, UnmountRootfs, Mount, Unmount, run
<1>6. CASE WriteStep
  <2>1. /\ Usable(img) /\ UNCHANGED <<shelf, base>>
        /\ ipc \notin {"idle", "copy"} /\ ipc' \notin {"idle", "copy"}
    BY <1>6 DEF WriteStep, CopyKernel, WriteExtlinux, PatchEnv, PatchInitramfs, Resize,
                RemoveOldModules, CopyModules, PatchRootfs, Write, run
  <2>2. CASE WriteExtlinux
    <3>1. DOMAIN img' = ImageFields /\ Same(img', {"conf"})
      BY <2>1, <2>2, WritingSteps DEF Writes
    <3>2. \A l \in Locations : img'.conf[l].root = EFFECTIVE_ROOT
      BY <2>1, <2>2 DEF WriteExtlinux, Write, Usable, ImageFields
    <3>3. EFFECTIVE_ROOT = "UUID" => img.rootfs
      BY <2>1 DEF EFFECTIVE_ROOT, ORIG_EXTLINUX, Usable, Locations
    <3>4. Usable(img')
      BY <2>1, <3>1, <3>2, <3>3 DEF Same, Usable, ImageFields
    <3>. QED
      BY <2>1, <3>4 DEF NoFile, Usable
  <2>3. CASE PatchEnv
    <3>1. DOMAIN img' = ImageFields /\ Same(img', {"env"})
      BY <2>1, <2>3, WritingSteps DEF Writes
    <3>2. /\ DOMAIN img'.env = EnvFields
          /\ img'.env.knl_name \in {"none", "Image", "Image.itb"}
          /\ img'.env.bootargs = NoLine \/ NoLine \cap img'.env.bootargs = {}
      BY <2>1, <2>3 DEF PatchEnv, Write, Usable, ImageFields, EnvFields, SetConsole,
         StripArgs, ReplaceCommonargs, FixKernelAddr, FixKernelName, NoLine, Loud, NoPlymouth
    <3>3. Usable(img')
      BY <2>1, <3>1, <3>2 DEF Same, Usable, ImageFields
    <3>. QED
      BY <2>1, <3>3 DEF NoFile, Usable
  <2>4. CASE ~WriteExtlinux /\ ~PatchEnv
    <3>1. /\ DOMAIN img' = ImageFields
          /\ Same(img', {"kernel", "evl", "promised", "modules", "free", "inittab"})
      BY <1>6, <2>1, <2>4, WritingSteps DEF WriteStep, Writes, Same
    <3>2. Usable(img')
      BY <2>1, <3>1 DEF Same, Usable, ImageFields
    <3>. QED
      BY <2>1, <3>2 DEF NoFile, Usable
  <2>. QED
    BY <2>2, <2>3, <2>4
<1>7. CASE Finish
  <2>1. /\ DOMAIN img' = ImageFields /\ Same(img', {"finished"}) /\ img'.finished
        /\ ipc' = "idle" /\ base' = NoFile /\ shelf' = shelf /\ Usable(img)
    BY <1>7 DEF Finish, Ends, Usable, Same, ImageFields
  <2>2. Usable(img')
    BY <2>1 DEF Same, Usable, ImageFields
  <2>. QED
    BY <2>1, <2>2
<1>8. CASE NoBootPartition \/ DetectFails \/ KillImage \/ Fail \/ Restart
  <2>1. /\ ipc' = "idle" /\ base' = NoFile /\ shelf' = shelf
        /\ img' = NoFile \/ (ipc = "idle" /\ img' = img)
    BY <1>8 DEF NoBootPartition, DetectFails, KillImage, Fail, Restart, Aborts, Ends
  <2>. QED
    BY <2>1 DEF NoFile
<1>9. CASE WriteBack
  <2>1. Usable(img) /\ UNCHANGED <<ipc, shelf, base>>
    BY <1>9 DEF WriteBack, run, NoFile
  <2>2. DOMAIN img' = ImageFields /\ Same(img', {"intact"})
    BY <1>9, <2>1, WritingSteps DEF Writes
  <2>3. Usable(img') /\ img'.finished = img.finished
    BY <2>1, <2>2 DEF Same, Usable, ImageFields
  <2>. QED
    BY <2>1, <2>3 DEF NoFile, Usable
<1>. QED
  BY <1>1, <1>2, <1>3, <1>4, <1>5, <1>6, <1>7, <1>8, <1>9 DEF ImageNext, WriteStep

\* What the parts of Progress depend on.
LEMMA PartsKept ==
  ASSUME NEW fields, DOMAIN img' = ImageFields, Same(img', fields)
  PROVE  /\ fields \cap {"conf", "orig"} = {} /\ ORIG_EXTLINUX(img) = img.orig =>
              ORIG_EXTLINUX(img') = img'.orig
         /\ fields \cap {"conf", "orig", "rootfs"} = {} /\ RootAsOnBase => RootAsOnBase'
         /\ fields \cap {"has_env", "env"} = {} /\ EnvPatched => EnvPatched'
         /\ "inittab" \notin fields /\ GettysThere => GettysThere'
<1>. USE DEF Same, ImageFields
<1>1. fields \cap {"conf", "orig"} = {} => img'.conf = img.conf /\ img'.orig = img.orig
  OBVIOUS
<1>2. "rootfs" \notin fields => img'.rootfs = img.rootfs
  OBVIOUS
<1>3. fields \cap {"has_env", "env"} = {} => img'.has_env = img.has_env /\ img'.env = img.env
  OBVIOUS
<1>4. "inittab" \notin fields => img'.inittab = img.inittab
  OBVIOUS
<1>. HIDE DEF Same, ImageFields
<1>5. fields \cap {"conf", "orig"} = {} /\ ORIG_EXTLINUX(img) = img.orig =>
        ORIG_EXTLINUX(img') = img'.orig
  BY <1>1 DEF ORIG_EXTLINUX
<1>6. fields \cap {"conf", "orig", "rootfs"} = {} /\ RootAsOnBase => RootAsOnBase'
  BY <1>1, <1>2 DEF RootAsOnBase
<1>7. fields \cap {"has_env", "env"} = {} /\ EnvPatched => EnvPatched'
  BY <1>3 DEF EnvPatched
<1>8. "inittab" \notin fields /\ GettysThere => GettysThere'
  BY <1>4 DEF GettysThere
<1>. QED
  BY <1>5, <1>6, <1>7, <1>8

LEMMA BuildDirKept ==
  ASSUME UNCHANGED buildDir
  PROVE  (VersionsMatch => VersionsMatch') /\ (BuildKept => BuildKept')
BY DEF buildDir, VersionsMatch, EVL_MOD_VER, BuildKept, BuildPromise

\* What the first steps write.
LEMMA ProgressConf ==
  ASSUME FInv, CopyBase \/ CopyKernel \/ WriteExtlinux PROVE Progress'
<1>. USE DEF FInv, FilesUsable, Progress, KernelDone, ConfDone, EnvDone, WithRootfs, ModulesIn
<1>1. CASE CopyBase
  <2>1. /\ ipc' = "attach" /\ UNCHANGED buildDir
        /\ img'.conf = base.conf /\ img'.orig = ORIG_EXTLINUX(base)
    BY <1>1 DEF CopyBase, Usable, ImageFields
  <2>2. ORIG_EXTLINUX(img') = img'.orig
    BY <2>1 DEF ORIG_EXTLINUX
  <2>. QED
    BY <1>1, <2>1, <2>2, BuildDirKept DEF CopyBase
<1>2. CASE CopyKernel
  <2>1. Usable(img) /\ ipc = "kernel" /\ ipc' = "conf"
    BY <1>2 DEF CopyKernel, Write
  <2>2. DOMAIN img' = ImageFields /\ Same(img', {"kernel", "evl", "promised"}) /\ UNCHANGED buildDir
    BY <1>2, <2>1, WritingSteps DEF Writes
  <2>3. img'.kernel = image.ver /\ img'.evl = image.evl /\ img'.promised = promise
    BY <1>2, <2>1 DEF CopyKernel, Write, Usable, ImageFields
  <2>4. ORIG_EXTLINUX(img') = img'.orig
    BY <2>1, <2>2, PartsKept
  <2>. QED
    BY <2>1, <2>2, <2>3, <2>4, BuildDirKept DEF buildDir
<1>3. CASE WriteExtlinux
  <2>1. Usable(img) /\ ipc = "conf" /\ ipc' = "env"
    BY <1>3 DEF WriteExtlinux, Write
  <2>2. DOMAIN img' = ImageFields /\ Same(img', {"conf"}) /\ UNCHANGED buildDir
    BY <1>3, <2>1, WritingSteps DEF Writes
  <2>3. /\ img'.kernel = img.kernel /\ img'.evl = img.evl /\ img'.promised = img.promised
        /\ img'.orig = img.orig /\ img'.rootfs = img.rootfs
    BY <2>2 DEF Same, ImageFields
  <2>4. ASSUME NEW l \in Locations
        PROVE  img'.conf[l] = [root |-> EFFECTIVE_ROOT, initrd |-> img.orig.initrd]
    BY <1>3, <2>1 DEF WriteExtlinux, Write, Usable, ImageFields
  <2>5. /\ EFFECTIVE_ROOT \in {"UUID", "/dev/mmcblk0p2", img.orig.root} \ {"none"}
        /\ img.orig.root # "none" => EFFECTIVE_ROOT = img.orig.root
        /\ EFFECTIVE_ROOT = "UUID" => img.rootfs
    <3>1. \A l \in Locations : img.conf[l].root = "UUID" => img.rootfs
      BY <2>1 DEF Usable
    <3>2. ORIG_EXTLINUX(img) = img.orig /\ (img.orig.root = "UUID" => img.rootfs)
      BY <2>1, <3>1 DEF ORIG_EXTLINUX, Locations
    <3>. QED
      BY <3>2 DEF EFFECTIVE_ROOT
  <2>6. RootAsOnBase'
    BY <2>3, <2>4, <2>5 DEF RootAsOnBase, Locations
  <2>. QED
    BY <2>1, <2>2, <2>3, <2>6, BuildDirKept DEF buildDir
<1>. QED
  BY <1>1, <1>2, <1>3

LEMMA ProgressEnv ==
  ASSUME FInv, PatchEnv \/ PatchInitramfs PROVE Progress'
<1>. USE DEF FInv, FilesUsable, Progress, KernelDone, ConfDone, EnvDone, WithRootfs, ModulesIn
<1>1. CASE PatchEnv
  <2>1. Usable(img) /\ ipc = "env" /\ ipc' = "initramfs"
    BY <1>1 DEF PatchEnv, Write
  <2>2. DOMAIN img' = ImageFields /\ Same(img', {"env"}) /\ UNCHANGED buildDir
    BY <1>1, <2>1, WritingSteps DEF Writes
  <2>3. /\ img'.kernel = img.kernel /\ img'.evl = img.evl /\ img'.promised = img.promised
        /\ img'.has_env = img.has_env
    BY <2>2 DEF Same, ImageFields
  <2>4. RootAsOnBase'
    BY <2>1, <2>2, PartsKept
  <2>5. ASSUME img.has_env PROVE EnvPatched'
    <3>. DEFINE e1 == FixKernelAddr(FixKernelName(img.env))
                e2 == StripArgs(ReplaceCommonargs(e1))
    <3>1. img'.env = SetConsole(e2)
      BY <1>1, <2>1, <2>5 DEF PatchEnv, Write, Usable, ImageFields
    <3>2. /\ DOMAIN e1 = EnvFields /\ e1.knl_name \in {"Image", "none"}
          /\ e1.kernel_addr_r \notin {"none", "0x20000000", "0x10000000"}
          /\ e1.bootargs = NoLine \/ NoLine \cap e1.bootargs = {}
      BY <2>1 DEF Usable, FixKernelAddr, FixKernelName, EnvFields
    <3>. HIDE DEF e1
    <3>3. /\ DOMAIN e2 = EnvFields /\ e2.knl_name = e1.knl_name
          /\ e2.kernel_addr_r = e1.kernel_addr_r
          /\ (e2.commonargs \cup e2.bootargs) \cap Loud = {}
          /\ e2.bootargs = NoLine => NoPlymouth \subseteq e2.commonargs
      BY <3>2 DEF StripArgs, ReplaceCommonargs, EnvFields, CLEAN_COMMONARGS, NoPlymouth, Loud, NoLine
    <3>. HIDE DEF e2
    <3>4. /\ img'.env.knl_name = e2.knl_name /\ img'.env.kernel_addr_r = e2.kernel_addr_r
          /\ img'.env.commonargs = e2.commonargs /\ img'.env.bootargs = e2.bootargs
          /\ img'.env.set_console = {"tty0", "ttyS0"}
      BY <3>1, <3>3 DEF SetConsole, EnvFields
    <3>. QED
      BY <3>2, <3>3, <3>4 DEF EnvPatched
  <2>6. EnvPatched'
    BY <2>3, <2>5 DEF EnvPatched
  <2>. QED
    BY <2>1, <2>2, <2>3, <2>4, <2>6, BuildDirKept DEF buildDir
<1>2. CASE PatchInitramfs
  <2>1. img' = img /\ ipc = "initramfs" /\ ipc' = "umount" /\ UNCHANGED buildDir
    BY <1>2 DEF PatchInitramfs, Write
  <2>2. (RootAsOnBase => RootAsOnBase') /\ (EnvPatched => EnvPatched')
    BY <2>1 DEF RootAsOnBase, EnvPatched
  <2>. QED
    BY <2>1, <2>2, BuildDirKept DEF buildDir
<1>. QED
  BY <1>1, <1>2

\* The steps on the root file system.
LEMMA ProgressRootfs ==
  ASSUME FInv, Resize \/ RemoveOldModules \/ CopyModules \/ PatchRootfs PROVE Progress'
<1>. USE DEF FInv, FilesUsable, Progress, KernelDone, ConfDone, EnvDone, WithRootfs, ModulesIn
<1>1. /\ Usable(img) /\ ipc \in {"resize", "remove", "modules", "rootfs"}
      /\ ipc' \in {"mountroot", "modules", "rootfs", "umountroot"}
      /\ UNCHANGED buildDir
  BY DEF Resize, RemoveOldModules, CopyModules, PatchRootfs, Write
<1>2. DOMAIN img' = ImageFields /\ Same(img', {"modules", "free", "inittab"})
  BY <1>1, WritingSteps DEF Writes, Same
<1>3. /\ img'.kernel = img.kernel /\ img'.evl = img.evl /\ img'.promised = img.promised
      /\ img'.rootfs = img.rootfs
  BY <1>2 DEF Same, ImageFields
<1>4. RootAsOnBase' /\ EnvPatched'
  BY <1>1, <1>2, PartsKept
<1>5. /\ image' = image /\ modules' = modules /\ promise' = promise /\ VersionsMatch'
      /\ image.ver = EVL_MOD_VER
  BY <1>1, BuildDirKept DEF buildDir, VersionsMatch
<1>6. CASE Resize \/ RemoveOldModules
  <2>1. ipc' \in {"mountroot", "modules"}
    BY <1>6 DEF Resize, RemoveOldModules, Write
  <2>. QED
    BY <1>1, <1>3, <1>4, <1>5, <2>1
<1>7. CASE CopyModules
  <2>1. /\ ipc' = "rootfs"
        /\ img'.modules = [v \in DOMAIN img.modules \cup {EVL_MOD_VER} |->
                             IF v = EVL_MOD_VER THEN modules[v] ELSE img.modules[v]]
    BY <1>1, <1>7 DEF CopyModules, Write, Usable, ImageFields
  <2>2. image.ver \in DOMAIN img'.modules /\ img'.modules[image.ver] = modules[image.ver]
    BY <1>5, <2>1
  <2>. QED
    BY <1>1, <1>3, <1>4, <1>5, <2>1, <2>2
<1>8. CASE PatchRootfs
  <2>1. /\ ipc = "rootfs" /\ ipc' = "umountroot" /\ img'.inittab = AddGetty(img.inittab)
        /\ img'.modules = img.modules
    BY <1>1, <1>8 DEF PatchRootfs, Write, Usable, ImageFields
  <2>2. GettysThere'
    BY <2>1 DEF GettysThere, AddGetty
  <2>. QED
    BY <1>1, <1>3, <1>4, <1>5, <2>1, <2>2
<1>. QED
  BY <1>6, <1>7, <1>8

\* The steps that leave the image alone, but a run that ends.
LEMMA ProgressQuiet ==
  ASSUME FInv,
         \/ Attach \/ SetTrap \/ MountBoot \/ UnmountBoot \/ EnoughSpace
         \/ DetachToGrow \/ Reattach \/ MountRootfs \/ UnmountRootfs
  PROVE  Progress'
<1>. USE DEF FInv, FilesUsable, Progress, KernelDone, ConfDone, EnvDone, WithRootfs, ModulesIn
<1>1. img' = img /\ UNCHANGED buildDir
  BY DEF Attach, SetTrap, MountBoot, UnmountBoot, EnoughSpace, DetachToGrow, Reattach,
         MountRootfs, UnmountRootfs, Mount, Unmount, run, devices
<1>2. /\ image' = image /\ modules' = modules /\ promise' = promise
      /\ VersionsMatch => VersionsMatch'
  BY <1>1, BuildDirKept DEF buildDir
<1>3. /\ RootAsOnBase => RootAsOnBase'
      /\ EnvPatched => EnvPatched'
      /\ GettysThere => GettysThere'
  BY <1>1 DEF RootAsOnBase, EnvPatched, GettysThere
<1>4. CASE \/ Attach \/ SetTrap \/ MountBoot \/ EnoughSpace \/ DetachToGrow \/ Reattach
           \/ MountRootfs \/ UnmountRootfs
  <2>1. \/ ipc = "attach" /\ ipc' = "detect"
        \/ ipc = "detect" /\ ipc' = "mount"
        \/ ipc = "mount" /\ ipc' = "kernel"
        \/ ipc = "space" /\ ipc' \in {"mountroot", "grow"}
        \/ ipc = "grow" /\ ipc' = "resize"
        \/ ipc = "mountroot" /\ ipc' = "remove"
        \/ ipc = "umountroot" /\ ipc' = "finish"
    BY <1>4 DEF Attach, SetTrap, MountBoot, EnoughSpace, DetachToGrow, Reattach,
                MountRootfs, UnmountRootfs, Mount, Unmount
  <2>. QED
    BY <1>1, <1>2, <1>3, <2>1
<1>5. CASE UnmountBoot
  <2>1. ipc = "umount" /\ ipc' = IF img.rootfs THEN "space" ELSE "finish"
    BY <1>5 DEF UnmountBoot, Unmount
  <2>. QED
    BY <1>1, <1>2, <1>3, <2>1
<1>. QED
  BY <1>4, <1>5

\* Between two runs.
LEMMA ProgressEnds ==
  ASSUME FInv,
         \/ Rebuild \/ DetectFails \/ NoBootPartition \/ Finish
         \/ Fail \/ KillImage \/ Restart \/ WriteBack
         \/ \E b \in Bases \cup {shelf, img}, today \in BOOLEAN : Start(b, today)
  PROVE  Progress'
<1>. USE DEF FInv, FilesUsable, Progress, KernelDone, ConfDone, EnvDone, WithRootfs, ModulesIn
<1>1. CASE Rebuild
  <2>1. ipc = "idle" /\ ipc' = "idle" /\ img' = img
    BY <1>1 DEF Rebuild, imageVars
  <2>2. img.made /\ KernelFits /\ BootParameters => KernelFits' /\ BootParameters'
    BY <2>1 DEF KernelFits, BootParameters, RootAsOnBase, EnvPatched, GettysThere
  <2>. QED
    BY <2>1, <2>2
<1>2. ASSUME NEW b \in Bases \cup {shelf, img}, NEW today \in BOOLEAN, Start(b, today)
      PROVE  Progress'
  BY <1>2, BuildDirKept DEF Start
<1>3. CASE DetectFails \/ NoBootPartition \/ Fail \/ KillImage
  BY <1>3 DEF DetectFails, NoBootPartition, Fail, KillImage, Aborts, Ends, NoFile
<1>4. CASE Restart
  <2>1. ipc' = "idle" /\ (img' = NoFile \/ (ipc = "idle" /\ img' = img))
    BY <1>4 DEF Restart, Ends
  <2>2. img' = img /\ KernelFits /\ BootParameters => KernelFits' /\ BootParameters'
    BY DEF KernelFits, BootParameters, RootAsOnBase, EnvPatched, GettysThere
  <2>. QED
    BY <2>1, <2>2 DEF NoFile
<1>5. CASE Finish
  <2>1. /\ DOMAIN img' = ImageFields /\ Same(img', {"finished"}) /\ Usable(img)
        /\ ipc = "finish" /\ ipc' = "idle"
    BY <1>5 DEF Finish, Ends, Usable, Same, ImageFields
  <2>2. /\ img'.kernel = img.kernel /\ img'.evl = img.evl /\ img'.promised = img.promised
        /\ img'.rootfs = img.rootfs /\ img'.modules = img.modules
    BY <2>1 DEF Same, ImageFields
  <2>3. RootAsOnBase' /\ EnvPatched' /\ (img'.rootfs => GettysThere')
    BY <2>1, <2>2, PartsKept
  <2>4. KernelFits
    BY <2>1 DEF KernelFits, VersionsMatch, BuildKept, BuildPromise
  <2>5. KernelFits'
    BY <2>2, <2>4 DEF KernelFits
  <2>. QED
    BY <2>1, <2>3, <2>5 DEF BootParameters
<1>6. CASE WriteBack
  <2>1. Usable(img) /\ ipc' = ipc
    BY <1>6 DEF WriteBack, NoFile
  <2>2. DOMAIN img' = ImageFields /\ Same(img', {"intact"}) /\ UNCHANGED buildDir
    BY <1>6, <2>1, WritingSteps DEF Writes
  <2>3. /\ img'.kernel = img.kernel /\ img'.evl = img.evl /\ img'.promised = img.promised
        /\ img'.rootfs = img.rootfs /\ img'.modules = img.modules /\ img'.made = img.made
    BY <2>2 DEF Same, ImageFields
  <2>4. /\ ORIG_EXTLINUX(img) = img.orig => ORIG_EXTLINUX(img') = img'.orig
        /\ RootAsOnBase => RootAsOnBase'
        /\ EnvPatched => EnvPatched'
        /\ GettysThere => GettysThere'
    BY <2>2, PartsKept
  <2>5. KernelFits /\ BootParameters => KernelFits' /\ BootParameters'
    BY <2>3, <2>4 DEF KernelFits, BootParameters
  <2>6. /\ image' = image /\ modules' = modules /\ promise' = promise
        /\ VersionsMatch => VersionsMatch'
    BY <2>2, BuildDirKept DEF buildDir
  <2>. QED
    BY <2>1, <2>3, <2>4, <2>5, <2>6
<1>. QED
  BY <1>1, <1>2, <1>3, <1>4, <1>5, <1>6

LEMMA NextBuildKept ==
  ASSUME FInv, ImageNext PROVE BuildKept'
<1>1. CASE Rebuild
  BY <1>1, BuildsAssumption DEF Rebuild, BuildKept
<1>2. CASE UNCHANGED buildDir
  BY <1>2, BuildDirKept DEF FInv
<1>3. ~Rebuild => UNCHANGED buildDir
  BY DEF ImageNext, Start, CopyBase, Attach, DetectFails, NoBootPartition, SetTrap,
         MountBoot, CopyKernel, WriteExtlinux, PatchEnv, PatchInitramfs, UnmountBoot,
         EnoughSpace, DetachToGrow, Reattach, Resize, MountRootfs, RemoveOldModules,
         CopyModules, PatchRootfs, UnmountRootfs, Finish, Fail, KillImage, Restart,
         WriteBack, Mount, Unmount, Write, Aborts, Ends
<1>. QED
  BY <1>1, <1>2, <1>3

LEMMA FilesKept == FInv /\ UNCHANGED imageRunVars => FInv'
BY DEF imageRunVars, imageVars, devices, run, buildDir, FInv, NotAbandoned, OwnFile, Whole,
       FilesUsable, Progress, BuildKept, BuildPromise, VersionsMatch, EVL_MOD_VER, KernelFits,
       BootParameters, RootAsOnBase, EnvPatched, GettysThere

\* The inductive invariant of the files of the image script.
THEOREM ImageFilesInvariant == ImageSpec => []FInv
<1>1. DInv /\ FInv /\ ImageNext => FInv'
  <2>1. DInv /\ FInv /\ ImageNext => Progress'
    BY ProgressConf, ProgressEnv, ProgressRootfs, ProgressQuiet, ProgressEnds DEF ImageNext
  <2>. QED
    BY <2>1, NextAbandoned, NextOwnFile, NextWhole, NextUsable, NextBuildKept DEF FInv
<1>2. DInv /\ FInv /\ [ImageNext]_imageRunVars => FInv'
  BY <1>1, FilesKept
<1>. QED
  BY FInitInv, ImageInvariant, <1>2, PTL DEF ImageSpec

\* However often runs failed, were killed or cut off, on bases of any layout
\* and on its own output, a finished image boots with the new kernel, unless a
\* mount left behind could write to it (make-full-sdcard-img.sh).
THEOREM FinishedImageBootsHolds == ImageSpec => []FinishedImageBoots
<1>1. FInv => FinishedImageBoots
  BY DEF FInv, Whole, Progress, FinishedImageBoots
<1>. QED
  BY ImageFilesInvariant, <1>1, PTL

-----------------------------------------------------------------------------
(***************************************************************************)
(* The SDK build.                                                          *)
(***************************************************************************)
\* Where a run has its trap set and its lists tell what it changed.
Tracked == pc \in Trapped \/ (~Midway /\ pc \in {"restore", "restored"})
Configured == {"config", "envmk", "make", "image"}

FoundType ==
  /\ found = [suffix |-> found.suffix, mk |-> found.mk, backup |-> found.backup]
  /\ found.suffix \in [QtDirs -> Nat]
  /\ found.mk \in [Packages -> SUBSET Nat]
  /\ DOMAIN found.backup \subseteq Packages
  /\ found.backup \in [DOMAIN found.backup -> SUBSET Nat]

\* A backup is always pristine, and a changed makefile has one.
PristineKept ==
  \A p \in Packages : IF p \in DOMAIN backup THEN backup[p] = {} ELSE mk[p] = {}

\* What a list names was changed.
Noted ==
  /\ \A q \in hidden : suffix[q] > 0
  /\ patched \subseteq DOMAIN backup
  /\ pc = "hide" => \A q \in busy : suffix[q] > 0
  /\ pc = "patch" => busy \subseteq DOMAIN backup

\* What the loops have done, by place in the script.
ListsDone ==
  /\ pc \in {"init", "sync", "prepare"} => busy = {} /\ hidden = {} /\ patched = {}
  /\ pc = "hide" => /\ todo \subseteq QtDirs /\ patched = {}
                    /\ hidden \cap todo = {} /\ hidden \cup todo = QtDirs
  /\ pc = "patch" => /\ todo \subseteq Packages /\ hidden = QtDirs
                     /\ patched \cap todo = {}
  /\ pc \in Configured => busy = {} /\ hidden = QtDirs
  /\ pc \in {"restore", "restored"} /\ ~Midway => busy = {}
  /\ pc = "restored" => hidden = {} /\ patched = {}

\* The Qt directories carry the suffix of the run that hid them.
DirsTracked ==
  Tracked => \A q \in QtDirs :
    suffix[q] = found.suffix[q] +
                (IF q \in hidden \/ (pc = "hide" /\ q \in busy) THEN 1 ELSE 0)

\* A makefile is as it was found, or its backup is and there was none before.
FilesTracked ==
  Tracked => \A p \in Packages :
    IF p \in patched \/ (pc = "patch" /\ p \in busy)
      THEN /\ p \notin DOMAIN found.backup /\ p \in DOMAIN backup
           /\ backup[p] = found.mk[p]
      ELSE /\ mk[p] = found.mk[p]
           /\ p \in DOMAIN backup <=> p \in DOMAIN found.backup
           /\ p \in DOMAIN backup => backup[p] = found.backup[p]

\* No run starts with more suffixes than there were kills.
SuffixBound ==
  ~Midway => \A q \in QtDirs :
    IF Tracked THEN found.suffix[q] <= kills ELSE suffix[q] <= kills

Stamps ==
  /\ pc \in Trapped => stamp[HostCmake] # "stale"
  /\ pc \in Configured => \A p \in Packages : stamp[p] # "stale"

EnvMk ==
  /\ envmk => output
  /\ pc \in {"envmk", "make", "image"} => output

IInv == /\ TypeOK /\ FoundType /\ PristineKept /\ Noted /\ ListsDone /\ DirsTracked /\ FilesTracked
        /\ SuffixBound /\ Stamps /\ EnvMk

\* The initial states satisfy the invariant.
LEMMA InitIInv == Init => IInv
<1>. SUFFICES ASSUME Init PROVE IInv
  OBVIOUS
<1>. USE DEF Init
<1>0. DOMAIN backup = {}
  OBVIOUS
<1>1. backup \in [DOMAIN backup -> SUBSET Nat]
  BY <1>0
<1>2. stamp \in [Built -> {"none", "stale", "fresh"}]
  OBVIOUS
<1>3. TypeOK
  <2>1. suffix \in [QtDirs -> Nat] /\ mk \in [Packages -> SUBSET Nat]
    OBVIOUS
  <2>2. kills \in 0..MaxKills /\ pc \in Stopped /\ DOMAIN backup \subseteq Packages
    BY <1>0, KillsAssumption DEF Stopped
  <2>. HIDE DEF Init
  <2>3. /\ repo = "none" /\ output = FALSE /\ envmk = FALSE /\ expr = 1
        /\ todo = {} /\ busy = {} /\ hidden = {} /\ patched = {}
    BY DEF Init
  <2>. QED
    BY <1>1, <1>2, <2>1, <2>2, <2>3 DEF TypeOK
<1>4. FoundType
  BY <1>0, <1>1 DEF FoundType
<1>. QED
  BY <1>0, <1>3, <1>4 DEF IInv, PristineKept, Noted, ListsDone, DirsTracked, FilesTracked, SuffixBound, Stamps, EnvMk,
     Tracked, Trapped, Configured

\* Every step preserves the types, and that what a list names was changed.
LEMMA NextType == IInv /\ [Next]_vars => TypeOK' /\ FoundType' /\ Noted'
<1>. SUFFICES ASSUME IInv, [Next]_vars PROVE TypeOK' /\ FoundType' /\ Noted'
  OBVIOUS
<1>. USE DEF sdk, files, lists, loop
<1>. TypeOK /\ FoundType /\ Noted /\ ListsDone
  BY DEF IInv
<1>0. CASE UNCHANGED vars
  BY <1>0 DEF TypeOK, FoundType, Noted, vars
<1>1. CASE Run
  BY <1>1 DEF TypeOK, FoundType, Noted, Run
<1>2. CASE RepoInit
  BY <1>2 DEF TypeOK, FoundType, Noted, RepoInit, Stopped
<1>3. CASE RepoSync
  BY <1>3 DEF TypeOK, FoundType, Noted, RepoSync, Stopped
<1>4. CASE Prepare
  <2>1. stamp' \in [Built -> {"none", "stale", "fresh"}]
    BY <1>4 DEF TypeOK, Prepare
  <2>2. TypeOK'
    BY <1>4, <2>1 DEF TypeOK, ListsDone, Prepare, Trapped
  <2>3. FoundType' /\ Noted'
    BY <1>4 DEF TypeOK, FoundType, Noted, ListsDone, Prepare
  <2>. QED
    BY <2>2, <2>3
<1>5. ASSUME NEW q \in QtDirs, Hide(q) PROVE TypeOK' /\ FoundType' /\ Noted'
  BY <1>5 DEF TypeOK, FoundType, Noted, Hide
<1>6. ASSUME NEW q \in QtDirs, NoteHidden(q) PROVE TypeOK' /\ FoundType' /\ Noted'
  BY <1>6 DEF TypeOK, FoundType, Noted, NoteHidden
<1>7. ASSUME NEW q \in QtDirs, RestoreDir(q) PROVE TypeOK' /\ FoundType' /\ Noted'
  BY <1>7 DEF TypeOK, FoundType, Noted, RestoreDir
<1>8. CASE HideDone
  BY <1>8 DEF TypeOK, FoundType, Noted, HideDone, Trapped
<1>9. ASSUME NEW p \in Packages, SkipMk(p) PROVE TypeOK' /\ FoundType' /\ Noted'
  BY <1>9 DEF TypeOK, FoundType, Noted, SkipMk
<1>10. ASSUME NEW p \in Packages, BackupMk(p) PROVE TypeOK' /\ FoundType' /\ Noted'
  <2>1. DOMAIN backup' = DOMAIN backup \cup {p}
    BY <1>10 DEF BackupMk
  <2>2. backup' \in [DOMAIN backup \cup {p} -> SUBSET Nat]
    BY <1>10 DEF BackupMk, TypeOK
  <2>. QED
    BY <1>10, <2>1, <2>2 DEF TypeOK, FoundType, Noted, BackupMk
<1>11. ASSUME NEW p \in Packages, SedMk(p) PROVE TypeOK' /\ FoundType' /\ Noted'
  BY <1>11 DEF TypeOK, FoundType, Noted, SedMk
<1>12. ASSUME NEW p \in Packages, NotePatched(p) PROVE TypeOK' /\ FoundType' /\ Noted'
  BY <1>12 DEF TypeOK, FoundType, Noted, NotePatched
<1>13. ASSUME NEW p \in Packages, RestoreMk(p) PROVE TypeOK' /\ FoundType' /\ Noted'
  <2>1. DOMAIN backup' = DOMAIN backup \ {p}
    BY <1>13 DEF RestoreMk
  <2>2. backup' \in [DOMAIN backup \ {p} -> SUBSET Nat]
    BY <1>13 DEF RestoreMk, TypeOK
  <2>. QED
    BY <1>13, <2>1, <2>2 DEF TypeOK, FoundType, Noted, RestoreMk
<1>14. CASE RemoveStamps
  BY <1>14 DEF TypeOK, FoundType, Noted, RemoveStamps, Trapped
<1>15. CASE Defconfig
  BY <1>15 DEF TypeOK, FoundType, Noted, Defconfig, Trapped
<1>16. CASE WriteEnvMk
  BY <1>16 DEF TypeOK, FoundType, Noted, WriteEnvMk, Trapped
<1>17. ASSUME NEW b \in Built, ConfigureBuilt(b) PROVE TypeOK' /\ FoundType' /\ Noted'
  BY <1>17 DEF TypeOK, FoundType, Noted, ConfigureBuilt
<1>18. CASE MakeDone
  BY <1>18 DEF TypeOK, FoundType, Noted, MakeDone, Trapped
<1>19. CASE Exit
  BY <1>19 DEF TypeOK, FoundType, Noted, Exit
<1>20. CASE RestoreDone
  BY <1>20 DEF TypeOK, FoundType, Noted, RestoreDone, Stopped
<1>21. CASE Kill
  BY <1>21, KillsAssumption DEF TypeOK, FoundType, Noted, Kill, Stopped
<1>. QED
  BY <1>0, <1>1, <1>2, <1>3, <1>4, <1>5, <1>6, <1>7, <1>8, <1>9, <1>10, <1>11, <1>12, <1>13, <1>14,
     <1>15, <1>16, <1>17, <1>18, <1>19, <1>20, <1>21 DEF Next

\* Every step preserves the pristine text of the makefiles.
LEMMA NextKept == IInv /\ [Next]_vars => PristineKept'
<1>. SUFFICES ASSUME IInv, [Next]_vars PROVE PristineKept'
  OBVIOUS
<1>. USE DEF sdk, files, lists, loop
<1>. TypeOK /\ PristineKept /\ Noted /\ FoundType
  BY DEF IInv
<1>0. CASE UNCHANGED vars
  BY <1>0 DEF vars, TypeOK, PristineKept, Noted
<1>1. CASE Run
  BY <1>1 DEF TypeOK, PristineKept, Noted, Run
<1>2. CASE RepoInit
  BY <1>2 DEF TypeOK, PristineKept, Noted, RepoInit
<1>3. CASE RepoSync
  BY <1>3 DEF TypeOK, PristineKept, Noted, RepoSync
<1>4. CASE Prepare
  BY <1>4 DEF TypeOK, PristineKept, Noted, Prepare
<1>5. ASSUME NEW q \in QtDirs, Hide(q) PROVE PristineKept'
  BY <1>5 DEF TypeOK, PristineKept, Noted, Hide
<1>6. ASSUME NEW q \in QtDirs, NoteHidden(q) PROVE PristineKept'
  BY <1>6 DEF TypeOK, PristineKept, Noted, NoteHidden
<1>7. ASSUME NEW q \in QtDirs, RestoreDir(q) PROVE PristineKept'
  BY <1>7 DEF TypeOK, PristineKept, Noted, RestoreDir
<1>8. CASE HideDone
  BY <1>8 DEF TypeOK, PristineKept, Noted, HideDone
<1>9. ASSUME NEW p \in Packages, SkipMk(p) PROVE PristineKept'
  BY <1>9 DEF TypeOK, PristineKept, Noted, SkipMk
<1>10. ASSUME NEW p \in Packages, BackupMk(p) PROVE PristineKept'
  BY <1>10 DEF TypeOK, PristineKept, Noted, BackupMk
<1>11. ASSUME NEW p \in Packages, SedMk(p) PROVE PristineKept'
  BY <1>11 DEF TypeOK, PristineKept, Noted, SedMk
<1>12. ASSUME NEW p \in Packages, NotePatched(p) PROVE PristineKept'
  BY <1>12 DEF TypeOK, PristineKept, Noted, NotePatched
<1>13. ASSUME NEW p \in Packages, RestoreMk(p) PROVE PristineKept'
  BY <1>13 DEF TypeOK, PristineKept, Noted, RestoreMk
<1>14. CASE RemoveStamps
  BY <1>14 DEF TypeOK, PristineKept, Noted, RemoveStamps
<1>15. CASE Defconfig
  BY <1>15 DEF TypeOK, PristineKept, Noted, Defconfig
<1>16. CASE WriteEnvMk
  BY <1>16 DEF TypeOK, PristineKept, Noted, WriteEnvMk
<1>17. ASSUME NEW b \in Built, ConfigureBuilt(b) PROVE PristineKept'
  BY <1>17 DEF TypeOK, PristineKept, Noted, ConfigureBuilt
<1>18. CASE MakeDone
  BY <1>18 DEF TypeOK, PristineKept, Noted, MakeDone
<1>19. CASE Exit
  BY <1>19 DEF TypeOK, PristineKept, Noted, Exit
<1>20. CASE RestoreDone
  BY <1>20 DEF TypeOK, PristineKept, Noted, RestoreDone
<1>21. CASE Kill
  BY <1>21 DEF TypeOK, PristineKept, Noted, Kill
<1>. QED
  BY <1>0, <1>1, <1>2, <1>3, <1>4, <1>5, <1>6, <1>7, <1>8, <1>9, <1>10, <1>11, <1>12, <1>13,
     <1>14, <1>15, <1>16, <1>17, <1>18, <1>19, <1>20, <1>21 DEF Next

\* Every step preserves what the loops have done.
LEMMA NextLists == IInv /\ [Next]_vars => ListsDone'
<1>. SUFFICES ASSUME IInv, [Next]_vars PROVE ListsDone'
  OBVIOUS
<1>. USE DEF sdk, files, lists, loop
<1>. TypeOK /\ ListsDone
  BY DEF IInv
<1>0. CASE UNCHANGED vars
  BY <1>0 DEF vars, TypeOK, ListsDone, Configured
<1>1. CASE Run
  BY <1>1 DEF TypeOK, ListsDone, Configured, Run
<1>2. CASE RepoInit
  BY <1>2 DEF TypeOK, ListsDone, Configured, RepoInit
<1>3. CASE RepoSync
  BY <1>3 DEF TypeOK, ListsDone, Configured, RepoSync
<1>4. CASE Prepare
  BY <1>4 DEF TypeOK, ListsDone, Configured, Prepare
<1>5. ASSUME NEW q \in QtDirs, Hide(q) PROVE ListsDone'
  BY <1>5 DEF TypeOK, ListsDone, Configured, Hide
<1>6. ASSUME NEW q \in QtDirs, NoteHidden(q) PROVE ListsDone'
  BY <1>6 DEF TypeOK, ListsDone, Configured, NoteHidden
<1>7. ASSUME NEW q \in QtDirs, RestoreDir(q) PROVE ListsDone'
  BY <1>7 DEF TypeOK, ListsDone, Configured, RestoreDir
<1>8. CASE HideDone
  BY <1>8 DEF TypeOK, ListsDone, Configured, HideDone
<1>9. ASSUME NEW p \in Packages, SkipMk(p) PROVE ListsDone'
  BY <1>9 DEF TypeOK, ListsDone, Configured, SkipMk
<1>10. ASSUME NEW p \in Packages, BackupMk(p) PROVE ListsDone'
  BY <1>10 DEF TypeOK, ListsDone, Configured, BackupMk
<1>11. ASSUME NEW p \in Packages, SedMk(p) PROVE ListsDone'
  BY <1>11 DEF TypeOK, ListsDone, Configured, SedMk
<1>12. ASSUME NEW p \in Packages, NotePatched(p) PROVE ListsDone'
  BY <1>12 DEF TypeOK, ListsDone, Configured, NotePatched
<1>13. ASSUME NEW p \in Packages, RestoreMk(p) PROVE ListsDone'
  BY <1>13 DEF TypeOK, ListsDone, Configured, RestoreMk
<1>14. CASE RemoveStamps
  BY <1>14 DEF TypeOK, ListsDone, Configured, RemoveStamps
<1>15. CASE Defconfig
  BY <1>15 DEF TypeOK, ListsDone, Configured, Defconfig
<1>16. CASE WriteEnvMk
  BY <1>16 DEF TypeOK, ListsDone, Configured, WriteEnvMk
<1>17. ASSUME NEW b \in Built, ConfigureBuilt(b) PROVE ListsDone'
  BY <1>17 DEF TypeOK, ListsDone, Configured, ConfigureBuilt
<1>18. CASE MakeDone
  BY <1>18 DEF TypeOK, ListsDone, Configured, MakeDone
<1>19. CASE Exit
  BY <1>19 DEF TypeOK, ListsDone, Configured, Exit
<1>20. CASE RestoreDone
  BY <1>20 DEF TypeOK, ListsDone, Configured, RestoreDone
<1>21. CASE Kill
  BY <1>21 DEF TypeOK, ListsDone, Configured, Kill, Stopped
<1>. QED
  BY <1>0, <1>1, <1>2, <1>3, <1>4, <1>5, <1>6, <1>7, <1>8, <1>9, <1>10, <1>11, <1>12, <1>13,
     <1>14, <1>15, <1>16, <1>17, <1>18, <1>19, <1>20, <1>21 DEF Next

\* Every step preserves the account of the Qt directories.
LEMMA NextDirs == IInv /\ [Next]_vars => DirsTracked' /\ SuffixBound'
<1>. SUFFICES ASSUME IInv, [Next]_vars PROVE DirsTracked' /\ SuffixBound'
  OBVIOUS
<1>. USE DEF sdk, files, lists, loop
<1>. TypeOK /\ FoundType /\ ListsDone /\ DirsTracked /\ SuffixBound
  BY DEF IInv
<1>0. CASE UNCHANGED vars
  BY <1>0 DEF vars, TypeOK, FoundType, ListsDone, DirsTracked, SuffixBound, Tracked, Trapped
<1>1. CASE Run
  BY <1>1 DEF TypeOK, FoundType, ListsDone, DirsTracked, SuffixBound, Tracked, Trapped, Run, Stopped
<1>2. CASE RepoInit
  BY <1>2 DEF TypeOK, FoundType, ListsDone, DirsTracked, SuffixBound, Tracked, Trapped, RepoInit
<1>3. CASE RepoSync
  BY <1>3 DEF TypeOK, FoundType, ListsDone, DirsTracked, SuffixBound, Tracked, Trapped, RepoSync
<1>4. CASE Prepare
  BY <1>4 DEF TypeOK, FoundType, ListsDone, DirsTracked, SuffixBound, Tracked, Trapped, Prepare
<1>5. ASSUME NEW q \in QtDirs, Hide(q) PROVE DirsTracked' /\ SuffixBound'
  BY <1>5 DEF TypeOK, FoundType, ListsDone, DirsTracked, SuffixBound, Tracked, Trapped, Hide
<1>6. ASSUME NEW q \in QtDirs, NoteHidden(q) PROVE DirsTracked' /\ SuffixBound'
  BY <1>6 DEF TypeOK, FoundType, ListsDone, DirsTracked, SuffixBound, Tracked, Trapped, NoteHidden
<1>7. ASSUME NEW q \in QtDirs, RestoreDir(q) PROVE DirsTracked' /\ SuffixBound'
  BY <1>7 DEF TypeOK, FoundType, ListsDone, DirsTracked, SuffixBound, Tracked, Trapped, RestoreDir
<1>8. CASE HideDone
  BY <1>8 DEF TypeOK, FoundType, ListsDone, DirsTracked, SuffixBound, Tracked, Trapped, HideDone
<1>9. ASSUME NEW p \in Packages, SkipMk(p) PROVE DirsTracked' /\ SuffixBound'
  BY <1>9 DEF TypeOK, FoundType, ListsDone, DirsTracked, SuffixBound, Tracked, Trapped, SkipMk
<1>10. ASSUME NEW p \in Packages, BackupMk(p) PROVE DirsTracked' /\ SuffixBound'
  BY <1>10 DEF TypeOK, FoundType, ListsDone, DirsTracked, SuffixBound, Tracked, Trapped, BackupMk
<1>11. ASSUME NEW p \in Packages, SedMk(p) PROVE DirsTracked' /\ SuffixBound'
  BY <1>11 DEF TypeOK, FoundType, ListsDone, DirsTracked, SuffixBound, Tracked, Trapped, SedMk
<1>12. ASSUME NEW p \in Packages, NotePatched(p) PROVE DirsTracked' /\ SuffixBound'
  BY <1>12 DEF TypeOK, FoundType, ListsDone, DirsTracked, SuffixBound, Tracked, Trapped, NotePatched
<1>13. ASSUME NEW p \in Packages, RestoreMk(p) PROVE DirsTracked' /\ SuffixBound'
  BY <1>13 DEF TypeOK, FoundType, ListsDone, DirsTracked, SuffixBound, Tracked, Trapped, RestoreMk
<1>14. CASE RemoveStamps
  BY <1>14 DEF TypeOK, FoundType, ListsDone, DirsTracked, SuffixBound, Tracked, Trapped, RemoveStamps
<1>15. CASE Defconfig
  BY <1>15 DEF TypeOK, FoundType, ListsDone, DirsTracked, SuffixBound, Tracked, Trapped, Defconfig
<1>16. CASE WriteEnvMk
  BY <1>16 DEF TypeOK, FoundType, ListsDone, DirsTracked, SuffixBound, Tracked, Trapped, WriteEnvMk
<1>17. ASSUME NEW b \in Built, ConfigureBuilt(b) PROVE DirsTracked' /\ SuffixBound'
  BY <1>17 DEF TypeOK, FoundType, ListsDone, DirsTracked, SuffixBound, Tracked, Trapped, ConfigureBuilt
<1>18. CASE MakeDone
  BY <1>18 DEF TypeOK, FoundType, ListsDone, DirsTracked, SuffixBound, Tracked, Trapped, MakeDone
<1>19. CASE Exit
  BY <1>19 DEF TypeOK, FoundType, ListsDone, DirsTracked, SuffixBound, Tracked, Trapped, Exit
<1>20. CASE RestoreDone
  BY <1>20 DEF TypeOK, FoundType, ListsDone, DirsTracked, SuffixBound, Tracked, Trapped, RestoreDone
<1>21. CASE Kill
  BY <1>21 DEF TypeOK, FoundType, ListsDone, DirsTracked, SuffixBound, Tracked, Trapped, Kill, Stopped
<1>. QED
  BY <1>0, <1>1, <1>2, <1>3, <1>4, <1>5, <1>6, <1>7, <1>8, <1>9, <1>10, <1>11, <1>12, <1>13,
     <1>14, <1>15, <1>16, <1>17, <1>18, <1>19, <1>20, <1>21 DEF Next

\* Every step preserves the account of the makefiles.
LEMMA NextFiles == IInv /\ [Next]_vars => FilesTracked'
<1>. SUFFICES ASSUME IInv, [Next]_vars PROVE FilesTracked'
  OBVIOUS
<1>. USE DEF sdk, files, lists, loop
<1>. TypeOK /\ FoundType /\ Noted /\ ListsDone /\ FilesTracked
  BY DEF IInv
<1>0. CASE UNCHANGED vars
  BY <1>0 DEF vars, TypeOK, FoundType, ListsDone, FilesTracked, Tracked, Trapped
<1>1. CASE Run
  BY <1>1 DEF TypeOK, FoundType, ListsDone, FilesTracked, Tracked, Trapped, Run, Stopped
<1>2. CASE RepoInit
  BY <1>2 DEF TypeOK, FoundType, ListsDone, FilesTracked, Tracked, Trapped, RepoInit
<1>3. CASE RepoSync
  BY <1>3 DEF TypeOK, FoundType, ListsDone, FilesTracked, Tracked, Trapped, RepoSync
<1>4. CASE Prepare
  BY <1>4 DEF TypeOK, FoundType, ListsDone, FilesTracked, Tracked, Trapped, Prepare
<1>5. ASSUME NEW q \in QtDirs, Hide(q) PROVE FilesTracked'
  BY <1>5 DEF TypeOK, FoundType, ListsDone, FilesTracked, Tracked, Trapped, Hide
<1>6. ASSUME NEW q \in QtDirs, NoteHidden(q) PROVE FilesTracked'
  BY <1>6 DEF TypeOK, FoundType, ListsDone, FilesTracked, Tracked, Trapped, NoteHidden
<1>7. ASSUME NEW q \in QtDirs, RestoreDir(q) PROVE FilesTracked'
  BY <1>7 DEF TypeOK, FoundType, ListsDone, FilesTracked, Tracked, Trapped, RestoreDir
<1>8. CASE HideDone
  BY <1>8 DEF TypeOK, FoundType, ListsDone, FilesTracked, Tracked, Trapped, HideDone
<1>9. ASSUME NEW p \in Packages, SkipMk(p) PROVE FilesTracked'
  BY <1>9 DEF TypeOK, FoundType, ListsDone, FilesTracked, Tracked, Trapped, SkipMk
<1>10. ASSUME NEW p \in Packages, BackupMk(p) PROVE FilesTracked'
  BY <1>10 DEF TypeOK, FoundType, ListsDone, FilesTracked, Tracked, Trapped, BackupMk
<1>11. ASSUME NEW p \in Packages, SedMk(p) PROVE FilesTracked'
  BY <1>11 DEF TypeOK, FoundType, ListsDone, FilesTracked, Tracked, Trapped, SedMk
<1>12. ASSUME NEW p \in Packages, NotePatched(p) PROVE FilesTracked'
  BY <1>12 DEF TypeOK, FoundType, ListsDone, FilesTracked, Tracked, Trapped, NotePatched
<1>13. ASSUME NEW p \in Packages, RestoreMk(p) PROVE FilesTracked'
  BY <1>13 DEF TypeOK, FoundType, ListsDone, FilesTracked, Tracked, Trapped, RestoreMk
<1>14. CASE RemoveStamps
  BY <1>14 DEF TypeOK, FoundType, ListsDone, FilesTracked, Tracked, Trapped, RemoveStamps
<1>15. CASE Defconfig
  BY <1>15 DEF TypeOK, FoundType, ListsDone, FilesTracked, Tracked, Trapped, Defconfig
<1>16. CASE WriteEnvMk
  BY <1>16 DEF TypeOK, FoundType, ListsDone, FilesTracked, Tracked, Trapped, WriteEnvMk
<1>17. ASSUME NEW b \in Built, ConfigureBuilt(b) PROVE FilesTracked'
  BY <1>17 DEF TypeOK, FoundType, ListsDone, FilesTracked, Tracked, Trapped, ConfigureBuilt
<1>18. CASE MakeDone
  BY <1>18 DEF TypeOK, FoundType, ListsDone, FilesTracked, Tracked, Trapped, MakeDone
<1>19. CASE Exit
  BY <1>19 DEF TypeOK, FoundType, ListsDone, FilesTracked, Tracked, Trapped, Exit
<1>20. CASE RestoreDone
  BY <1>20 DEF TypeOK, FoundType, ListsDone, FilesTracked, Tracked, Trapped, RestoreDone
<1>21. CASE Kill
  BY <1>21 DEF TypeOK, FoundType, ListsDone, FilesTracked, Tracked, Trapped, Kill, Stopped
<1>. QED
  BY <1>0, <1>1, <1>2, <1>3, <1>4, <1>5, <1>6, <1>7, <1>8, <1>9, <1>10, <1>11, <1>12, <1>13,
     <1>14, <1>15, <1>16, <1>17, <1>18, <1>19, <1>20, <1>21 DEF Next

\* Every step preserves what is known of the stamps and of env.mk.
LEMMA NextBuild == IInv /\ [Next]_vars => Stamps' /\ EnvMk'
<1>. SUFFICES ASSUME IInv, [Next]_vars PROVE Stamps' /\ EnvMk'
  OBVIOUS
<1>. USE DEF sdk, files, lists, loop
<1>. TypeOK /\ FoundType /\ ListsDone /\ DirsTracked /\ Stamps /\ EnvMk
  BY DEF IInv
<1>0. CASE UNCHANGED vars
  BY <1>0 DEF vars, TypeOK, Stamps, EnvMk, Trapped, Configured
<1>1. CASE Run
  BY <1>1 DEF TypeOK, Stamps, EnvMk, Trapped, Configured, Run
<1>2. CASE RepoInit
  BY <1>2 DEF TypeOK, Stamps, EnvMk, Trapped, Configured, RepoInit
<1>3. CASE RepoSync
  BY <1>3 DEF TypeOK, Stamps, EnvMk, Trapped, Configured, RepoSync
<1>4. CASE Prepare
  BY <1>4 DEF TypeOK, Stamps, EnvMk, Trapped, Configured, Prepare, Built
<1>5. ASSUME NEW q \in QtDirs, Hide(q) PROVE Stamps' /\ EnvMk'
  BY <1>5 DEF TypeOK, Stamps, EnvMk, Trapped, Configured, Hide
<1>6. ASSUME NEW q \in QtDirs, NoteHidden(q) PROVE Stamps' /\ EnvMk'
  BY <1>6 DEF TypeOK, Stamps, EnvMk, Trapped, Configured, NoteHidden
<1>7. ASSUME NEW q \in QtDirs, RestoreDir(q) PROVE Stamps' /\ EnvMk'
  BY <1>7 DEF TypeOK, Stamps, EnvMk, Trapped, Configured, RestoreDir
<1>8. CASE HideDone
  BY <1>8 DEF TypeOK, Stamps, EnvMk, Trapped, Configured, HideDone
<1>9. ASSUME NEW p \in Packages, SkipMk(p) PROVE Stamps' /\ EnvMk'
  BY <1>9 DEF TypeOK, Stamps, EnvMk, Trapped, Configured, SkipMk
<1>10. ASSUME NEW p \in Packages, BackupMk(p) PROVE Stamps' /\ EnvMk'
  BY <1>10 DEF TypeOK, Stamps, EnvMk, Trapped, Configured, BackupMk
<1>11. ASSUME NEW p \in Packages, SedMk(p) PROVE Stamps' /\ EnvMk'
  BY <1>11 DEF TypeOK, Stamps, EnvMk, Trapped, Configured, SedMk
<1>12. ASSUME NEW p \in Packages, NotePatched(p) PROVE Stamps' /\ EnvMk'
  BY <1>12 DEF TypeOK, Stamps, EnvMk, Trapped, Configured, NotePatched
<1>13. ASSUME NEW p \in Packages, RestoreMk(p) PROVE Stamps' /\ EnvMk'
  BY <1>13 DEF TypeOK, Stamps, EnvMk, Trapped, Configured, RestoreMk
<1>14. CASE RemoveStamps
  <2>1. \A p \in Packages : stamp'[p] = "none"
    BY <1>14 DEF RemoveStamps, Built
  <2>2. stamp'[HostCmake] = stamp[HostCmake]
    BY <1>14, CmakeAssumption DEF RemoveStamps, Built
  <2>. QED
    BY <1>14, <2>1, <2>2 DEF RemoveStamps, Stamps, EnvMk, Trapped, Configured
<1>15. CASE Defconfig
  BY <1>15 DEF TypeOK, Stamps, EnvMk, Trapped, Configured, Defconfig
<1>16. CASE WriteEnvMk
  BY <1>16 DEF TypeOK, Stamps, EnvMk, Trapped, Configured, WriteEnvMk
<1>17. ASSUME NEW b \in Built, ConfigureBuilt(b) PROVE Stamps' /\ EnvMk'
  <2>1. \A q \in QtDirs : suffix[q] > 0
    BY <1>17 DEF ConfigureBuilt, ListsDone, DirsTracked, Tracked, Trapped, Configured, FoundType
  <2>2. stamp' = [stamp EXCEPT ![b] = "fresh"]
    BY <1>17, <2>1 DEF ConfigureBuilt
  <2>3. \A c \in Built : stamp'[c] # "stale" \/ stamp'[c] = stamp[c]
    BY <2>2 DEF TypeOK
  <2>4. UNCHANGED <<pc, output, envmk>>
    BY <1>17 DEF ConfigureBuilt
  <2>5. Stamps'
    BY <2>3, <2>4 DEF Stamps, Built
  <2>6. EnvMk'
    BY <2>4 DEF EnvMk
  <2>. QED
    BY <2>5, <2>6
<1>18. CASE MakeDone
  BY <1>18 DEF TypeOK, Stamps, EnvMk, Trapped, Configured, MakeDone
<1>19. CASE Exit
  BY <1>19 DEF TypeOK, Stamps, EnvMk, Trapped, Configured, Exit
<1>20. CASE RestoreDone
  BY <1>20 DEF TypeOK, Stamps, EnvMk, Trapped, Configured, RestoreDone
<1>21. CASE Kill
  BY <1>21 DEF TypeOK, Stamps, EnvMk, Trapped, Configured, Kill
<1>. QED
  BY <1>0, <1>1, <1>2, <1>3, <1>4, <1>5, <1>6, <1>7, <1>8, <1>9, <1>10, <1>11, <1>12, <1>13,
     <1>14, <1>15, <1>16, <1>17, <1>18, <1>19, <1>20, <1>21 DEF Next

\* The invariant holds in every reachable state.
LEMMA SdkIInv == Spec => []IInv
<1>1. IInv /\ [Next]_vars => IInv'
  BY NextType, NextKept, NextLists, NextDirs, NextFiles, NextBuild DEF IInv
<1>. QED
  BY InitIInv, <1>1, PTL DEF Spec

\* The type invariant of the build script.
THEOREM SdkTypeOK == Spec => []TypeOK
<1>1. IInv => TypeOK
  BY DEF IInv
<1>. QED
  BY SdkIInv, <1>1, PTL

\* The pristine text of a makefile is never lost, whatever fails or is killed
\* (_patch_mk_python, _restore_patched_mk_files).
THEOREM SdkOriginalKept == Spec => []OriginalKept
<1>1. IInv => OriginalKept
  BY DEF IInv, PristineKept, OriginalKept
<1>. QED
  BY SdkIInv, <1>1, PTL

\* The trap undoes the run, if no run fails between a change and its note.
THEOREM SdkUndone == ASSUME ~Midway PROVE Spec => []UndoneAtExit
<1>1. ASSUME IInv, pc = "restored"
      PROVE  found = [suffix |-> suffix, mk |-> mk, backup |-> backup]
  <2>. TypeOK /\ FoundType /\ ListsDone /\ DirsTracked /\ FilesTracked /\ Tracked
    BY <1>1 DEF IInv, Tracked
  <2>1. suffix = found.suffix
    BY <1>1 DEF TypeOK, FoundType, ListsDone, DirsTracked
  <2>2. mk = found.mk
    BY <1>1 DEF TypeOK, FoundType, ListsDone, FilesTracked
  <2>3. DOMAIN backup = DOMAIN found.backup
    BY <1>1 DEF TypeOK, FoundType, ListsDone, FilesTracked
  <2>4. \A p \in DOMAIN backup : backup[p] = found.backup[p]
    BY <1>1 DEF TypeOK, FoundType, ListsDone, FilesTracked
  <2>5. backup = found.backup
    BY <2>3, <2>4 DEF TypeOK, FoundType
  <2>. QED
    BY <2>1, <2>2, <2>5 DEF FoundType
<1>2. IInv => UndoneAtExit
  BY <1>1 DEF UndoneAtExit
<1>. QED
  BY SdkIInv, <1>2, PTL

\* A kill costs one suffix at most (_hide_anaconda_cmake).
THEOREM SdkSuffixes == ASSUME ~Midway PROVE Spec => []SuffixesFromKills
<1>1. IInv => SuffixesFromKills
  BY DEF IInv, SuffixesFromKills, TypeOK, FoundType, ListsDone, DirsTracked, SuffixBound, Tracked, Trapped, Stopped
<1>. QED
  BY SdkIInv, <1>1, PTL

\* make sees neither the Qt directories nor the stamps of an earlier build, and
\* runs on a configured tree (_hide_anaconda_cmake, env.mk).
THEOREM SdkReadyToMake == Spec => []ReadyToMake
<1>1. IInv /\ pc = "make" => (\A q \in QtDirs : suffix[q] > 0) /\ (\A b \in Built : stamp[b] # "stale")
  BY DEF IInv, FoundType, ListsDone, DirsTracked, Stamps, Tracked, Trapped, Configured, Built
<1>2. IInv /\ pc = "make" => output
  BY DEF IInv, EnvMk
<1>3. IInv => ReadyToMake
  BY <1>1, <1>2 DEF ReadyToMake
<1>. QED
  BY SdkIInv, <1>3, PTL
=============================================================================
