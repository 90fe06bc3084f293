------------------------------ MODULE SdImage ------------------------------
(***************************************************************************)
(* scripts/flash/make-full-sdcard-img.sh: a bootable image made from a     *)
(* base image and a build directory, through a loop device.                *)
(*                                                                         *)
(* The script fails at any command, is killed, the machine restarts, and   *)
(* the script runs again.  The kernel keeps loop devices and mounts until  *)
(* it restarts.  The output is named after the day: another run of the     *)
(* same day writes the same file, which a loop device left attached still  *)
(* refers to, and an image of an earlier day may be the next base.         *)
(***************************************************************************)
EXTENDS BuildDir, FiniteSets

CONSTANTS
  Builds,       \* build directories the script may find
  Bases,        \* images to start from
  Loops,        \* loop devices
  ModulesSize,  \* of the modules of one version, on the rootfs
  Headroom,     \* free space wanted besides
  GrowExtra     \* what a grown image gets beyond its need

ASSUME SizesAssumption ==
  /\ ModulesSize \in Nat /\ Headroom \in Nat /\ GrowExtra \in Nat
ASSUME LoopsAssumption == IsFiniteSet(Loops) /\ 0 \notin Loops

VARIABLES
  ipc,        \* where the script is
  base,       \* the base image, while it is copied
  img,        \* the output file, if it is whole or about to be
  shelf,      \* a finished image of an earlier day, if any
  attached,   \* the loop devices attached
  mounts,     \* the mounts: [loop, at, file]; file is "img" or "old"
  LOOP,       \* the device of the run
  LOOP_REF,   \* the device the trap detaches
  trap,       \* is the EXIT trap set?
  abandoned,  \* history: devices whose run ended where nothing undoes it
  alone       \* history: was its base whole, the output mounted by no other?

devices == <<attached, mounts, abandoned>>
run == <<base, LOOP, LOOP_REF, trap, alone>>
imageVars == <<ipc, img, shelf, devices, run>>

\* Words of a kernel command line.
Loud == {"quiet", "splash"}
NoPlymouth == {"nosplash", "plymouth=0"}
CLEAN_COMMONARGS == NoPlymouth \cup {"loglevel=7"}

NoLine == {"no line"}       \* a variable the env file does not set
NoConf == [root |-> "none", initrd |-> FALSE]
Locations == {"extlinux", "boot/extlinux"}
NoFile == [made |-> FALSE]

ImageFields ==
  {"made", "finished", "intact", "table", "boot", "rootfs", "uuid", "kernel", "evl",
   "promised", "orig", "conf", "has_env", "env", "modules", "free", "inittab"}
EnvFields ==
  {"knl_name", "kernel_addr_r", "commonargs", "bootargs", "set_console"}

\* What the script takes for granted of an image: a root file system named by
\* its UUID is on it, and the kernel, if named at all, has a name of Bianbu.
Usable(i) ==
  /\ DOMAIN i = ImageFields /\ DOMAIN i.env = EnvFields
  /\ i.made
  /\ \A l \in Locations : i.conf[l].root = "UUID" => i.rootfs
  /\ i.env.knl_name \in {"none", "Image", "Image.itb"}
  /\ i.env.bootargs = NoLine \/ NoLine \cap i.env.bootargs = {}

ASSUME BasesAssumption == \A b \in Bases : Usable(b)
ASSUME BuildsAssumption == \A b \in Builds : b.image.ver \in Versions \cup {0}

ImageInit ==
  /\ ipc = "idle"
  /\ base = NoFile /\ img = NoFile /\ shelf = NoFile
  /\ attached = {} /\ mounts = {} /\ abandoned = {}
  /\ LOOP = 0 /\ LOOP_REF = 0
  /\ trap = FALSE
  /\ alone = TRUE

\* Somebody builds a kernel, or tries to, between two runs.
Rebuild ==
  /\ ipc = "idle"
  /\ \E b \in Builds :
       image' = b.image /\ modules' = b.modules /\ promise' = b.promise
  /\ BuildPromise'
  /\ UNCHANGED imageVars

-----------------------------------------------------------------------------
\* Mutant of VersionsMatch: the modules are not compared with the Image.
VersionsMatch_NoCompare ==
  image.ver # 0 /\ image.ver \notin Plus /\ DOMAIN modules # {}

\* ls | head -1: the first version there stands for all.
EVL_MOD_VER == CHOOSE v \in DOMAIN modules : \A w \in DOMAIN modules : v <= w

VersionsMatch ==
  /\ image.ver # 0 /\ image.ver \notin Plus
  /\ DOMAIN modules # {} /\ EVL_MOD_VER = image.ver

\* The checks pass and cp opens the output, on the day of the last run, whose
\* file it empties, or on a later one.
Start(b, today) ==
  /\ ipc = "idle"
  /\ VersionsMatch
  /\ IF today THEN UNCHANGED <<shelf, mounts>>
     ELSE /\ shelf' = IF img.made /\ img.finished THEN img ELSE shelf
          /\ mounts' = {[m EXCEPT !.file = "old"] : m \in mounts}
  /\ img' = NoFile
  /\ b \in (Bases \cup {shelf'}) \ {NoFile}
  /\ base' = b
  /\ alone' = (b.intact /\ \A m \in mounts' : m.file # "img")
  /\ ipc' = "copy"
  /\ UNCHANGED <<attached, abandoned, LOOP, LOOP_REF, trap, buildDir>>

\* The configuration of the base: the first file there is.
ORIG_EXTLINUX(i) ==
  IF i.conf["extlinux"] # NoConf THEN i.conf["extlinux"]
  ELSE i.conf["boot/extlinux"]

\* The image remembers, for the properties, what its base booted with.
CopyBase ==
  /\ ipc = "copy"
  /\ img' = [base EXCEPT !.finished = FALSE, !.orig = ORIG_EXTLINUX(base)]
  /\ base' = NoFile
  /\ ipc' = "attach"
  /\ UNCHANGED <<shelf, devices, LOOP, LOOP_REF, trap, alone, buildDir>>

Attach ==
  /\ ipc = "attach"
  /\ \E l \in Loops \ attached :
       LOOP' = l /\ attached' = attached \cup {l}
  /\ ipc' = "detect"
  /\ UNCHANGED <<img, shelf, mounts, abandoned, base, LOOP_REF, trap, alone, buildDir>>

\* The script ends, and its variables with it.
Ends ==
  /\ ipc' = "idle"
  /\ base' = NoFile
  /\ LOOP' = 0 /\ LOOP_REF' = 0
  /\ trap' = FALSE
  /\ UNCHANGED <<alone, buildDir>>

\* Nothing uses what a run that did not finish leaves in its output.
Aborts == Ends /\ img' = NoFile /\ UNCHANGED shelf

\* losetup -d: a device in use is detached when its last mount goes.
Detached(l) == IF \E m \in mounts : m.loop = l THEN attached ELSE attached \ {l}

\* fdisk | grep fails without a partition table, before the trap is set.
DetectFails ==
  /\ ipc = "detect" /\ ~img.table
  /\ abandoned' = abandoned \cup {LOOP}
  /\ Aborts
  /\ UNCHANGED <<attached, mounts>>

NoBootPartition ==
  /\ ipc = "detect" /\ img.table /\ ~img.boot
  /\ attached' = Detached(LOOP)
  /\ Aborts
  /\ UNCHANGED <<mounts, abandoned>>

SetTrap ==
  /\ ipc = "detect" /\ img.table /\ img.boot
  /\ LOOP_REF' = LOOP /\ trap' = TRUE
  /\ ipc' = "mount"
  /\ UNCHANGED <<img, shelf, devices, base, LOOP, alone, buildDir>>

Mount(step, at, next) ==
  /\ ipc = step
  /\ mounts' = mounts \cup {[loop |-> LOOP, at |-> at, file |-> "img"]}
  /\ ipc' = next
  /\ UNCHANGED <<img, shelf, attached, abandoned, run, buildDir>>

MountBoot == Mount("mount", "boot", "kernel")

\* A step that only writes to what is mounted.
Write(step, written, next) ==
  /\ ipc = step
  /\ img' = written
  /\ ipc' = next
  /\ UNCHANGED <<shelf, devices, run, buildDir>>

CopyKernel ==
  Write("kernel",
        [img EXCEPT !.kernel = image.ver, !.evl = image.evl, !.promised = promise],
        "conf")

EFFECTIVE_ROOT ==
  IF ORIG_EXTLINUX(img).root # "none" THEN ORIG_EXTLINUX(img).root
  ELSE IF img.rootfs /\ img.uuid THEN "UUID"
  ELSE "/dev/mmcblk0p2"

WriteExtlinux ==
  Write("conf",
        [img EXCEPT !.conf = [l \in Locations |->
                                [root |-> EFFECTIVE_ROOT,
                                 initrd |-> ORIG_EXTLINUX(img).initrd]]],
        "env")

(***************************************************************************)
(* The five edits of env_k1-x.txt.  The sed of the fourth, meant for the   *)
(* lines that set other arguments, works on the whole file.                *)
(***************************************************************************)
FixKernelName(e) == [e EXCEPT !.knl_name = IF @ = "Image.itb" THEN "Image" ELSE @]

FixKernelAddr(e) ==
  [e EXCEPT !.kernel_addr_r =
     IF @ \in {"none", "0x20000000", "0x10000000"} THEN "0x200000" ELSE @]

ReplaceCommonargs(e) == [e EXCEPT !.commonargs = CLEAN_COMMONARGS]

StripArgs(e) ==
  IF e.bootargs = NoLine THEN e
  ELSE [e EXCEPT !.commonargs = @ \ (Loud \cup NoPlymouth),
                 !.bootargs = @ \ (Loud \cup NoPlymouth)]

SetConsole(e) == [e EXCEPT !.set_console = {"tty0", "ttyS0"}]

PatchEnv ==
  Write("env",
        IF ~img.has_env THEN img
        ELSE [img EXCEPT !.env =
                SetConsole(StripArgs(ReplaceCommonargs(FixKernelAddr(FixKernelName(@)))))],
        "initramfs")

\* The Plymouth hooks of the initramfs become no-ops, or the original is kept:
\* both boot.
PatchInitramfs == Write("initramfs", img, "umount")

Unmount(step, at, next) ==
  /\ ipc = step
  /\ mounts' = mounts \ {[loop |-> LOOP, at |-> at, file |-> "img"]}
  /\ ipc' = next
  /\ UNCHANGED <<img, shelf, attached, abandoned, run, buildDir>>

UnmountBoot ==
  Unmount("umount", "boot", IF img.rootfs THEN "space" ELSE "finish")

-----------------------------------------------------------------------------
Needed == ModulesSize + Headroom

EnoughSpace ==
  /\ ipc = "space" /\ img.free >= Needed
  /\ ipc' = "mountroot"
  /\ UNCHANGED <<img, shelf, devices, run, buildDir>>

\* The device is detached for the file to grow, without a trap meanwhile.
DetachToGrow ==
  /\ ipc = "space" /\ img.free < Needed
  /\ attached' = Detached(LOOP)
  /\ trap' = FALSE
  /\ ipc' = "grow"
  /\ UNCHANGED <<img, shelf, mounts, abandoned, base, LOOP, LOOP_REF, alone, buildDir>>

\* Mutant of Reattach: the trap would detach the old device.
Reattach_OldRef ==
  /\ ipc = "grow"
  /\ \E l \in Loops \ attached :
       LOOP' = l /\ attached' = attached \cup {l}
  /\ trap' = TRUE
  /\ ipc' = "resize"
  /\ UNCHANGED <<img, shelf, mounts, abandoned, base, LOOP_REF, alone, buildDir>>

Reattach ==
  /\ ipc = "grow"
  /\ \E l \in Loops \ attached :
       LOOP' = l /\ LOOP_REF' = l /\ attached' = attached \cup {l}
  /\ trap' = TRUE
  /\ ipc' = "resize"
  /\ UNCHANGED <<img, shelf, mounts, abandoned, base, alone, buildDir>>

\* parted and resize2fs may fail, with a warning.
Resize ==
  \/ Write("resize", [img EXCEPT !.free = Needed + GrowExtra], "mountroot")
  \/ Write("resize", img, "mountroot")

MountRootfs == Mount("mountroot", "root", "remove")

RemoveOldModules ==
  Write("remove",
        IF EVL_MOD_VER \notin DOMAIN img.modules THEN img
        ELSE [img EXCEPT
                !.modules = [v \in DOMAIN img.modules \ {EVL_MOD_VER} |-> img.modules[v]],
                !.free = @ + ModulesSize],
        "modules")

CopyModules ==
  /\ ipc = "modules" /\ img.free >= ModulesSize
  /\ Write("modules",
           [img EXCEPT
              !.modules = [v \in DOMAIN img.modules \cup {EVL_MOD_VER} |->
                             IF v = EVL_MOD_VER THEN modules[v] ELSE img.modules[v]],
              !.free = @ - ModulesSize],
           "rootfs")

\* A tty that inittab mentions, if only in a comment, is left as it is.
AddGetty(ttys) ==
  [t \in DOMAIN ttys |-> IF ttys[t] = "absent" THEN "getty" ELSE ttys[t]]

PatchRootfs == Write("rootfs", [img EXCEPT !.inittab = AddGetty(@)], "umountroot")

UnmountRootfs == Unmount("umountroot", "root", "finish")

Finish ==
  /\ ipc = "finish"
  /\ attached' = Detached(LOOP)
  /\ img' = [img EXCEPT !.finished = TRUE]
  /\ Ends
  /\ UNCHANGED <<shelf, mounts, abandoned>>

-----------------------------------------------------------------------------
(***************************************************************************)
(* A command fails: cleanup() runs if the trap is set.  It knows of the    *)
(* boot partition and of LOOP_REF, not of the rootfs.                      *)
(***************************************************************************)
Fail ==
  /\ ipc # "idle"
  /\ LET left == {m \in mounts : ~(m.loop = LOOP /\ m.at = "boot" /\ m.file = "img")}
     IN IF trap
        THEN /\ mounts' = left
             /\ attached' = IF \E m \in left : m.loop = LOOP_REF THEN attached
                            ELSE attached \ {LOOP_REF}
        ELSE UNCHANGED <<mounts, attached>>
  /\ abandoned' = IF ipc \in {"detect", "remove", "modules", "rootfs", "umountroot"}
                  THEN abandoned \cup {LOOP} ELSE abandoned
  /\ Aborts

\* SIGKILL: no trap.
KillImage ==
  /\ ipc # "idle"
  /\ abandoned' = abandoned \cup ({LOOP} \cap attached)
  /\ Aborts
  /\ UNCHANGED <<attached, mounts>>

\* The machine restarts, the script running or not.
Restart ==
  /\ attached' = {} /\ mounts' = {} /\ abandoned' = {}
  /\ Ends
  /\ img' = IF ipc = "idle" THEN img ELSE NoFile
  /\ UNCHANGED shelf

\* What was written through a mount that was left behind reaches the file,
\* which holds the work of another run by then.
WriteBack ==
  /\ \E m \in mounts : m.file = "img" /\ m.loop \in abandoned
  /\ img.made
  /\ img' = [img EXCEPT !.intact = FALSE]
  /\ UNCHANGED <<ipc, shelf, devices, run, buildDir>>

ImageNext ==
  \/ Rebuild
  \/ \E b \in Bases \cup {shelf, img}, today \in BOOLEAN : Start(b, today)
  \/ CopyBase \/ Attach \/ DetectFails \/ NoBootPartition \/ SetTrap
  \/ MountBoot \/ CopyKernel \/ WriteExtlinux \/ PatchEnv \/ PatchInitramfs
  \/ UnmountBoot \/ EnoughSpace \/ DetachToGrow \/ Reattach \/ Resize
  \/ MountRootfs \/ RemoveOldModules \/ CopyModules \/ PatchRootfs
  \/ UnmountRootfs \/ Finish
  \/ Fail \/ KillImage \/ Restart \/ WriteBack

imageRunVars == <<imageVars, buildDir>>
ImageSpec == ImageInit /\ BuildDirInit /\ [][ImageNext]_imageRunVars

-----------------------------------------------------------------------------
\* The modules the kernel of the image will look for are there, and complete
\* if 03 had said so.
KernelFits ==
  /\ img.kernel \in Versions \ Plus
  /\ img.rootfs => img.kernel \in DOMAIN img.modules
  /\ img.rootfs /\ img.promised # "none" => img.modules[img.kernel] = "full"
  /\ img.promised = "evl" => img.evl

\* U-Boot finds the root file system and initramfs it found on the base, in
\* either place.
RootAsOnBase ==
  /\ img.conf["extlinux"] = img.conf["boot/extlinux"]
  /\ LET root == img.conf["extlinux"].root
     IN /\ root \in {"UUID", "/dev/mmcblk0p2", img.orig.root} \ {"none"}
        /\ img.orig.root # "none" => root = img.orig.root
        /\ root = "UUID" => img.rootfs
  /\ img.conf["extlinux"].initrd = img.orig.initrd

\* It shows the boot on both consoles, and loads a plain Image if the base
\* named its kernel at all.
EnvPatched ==
  img.has_env =>
    /\ img.env.knl_name \in {"Image", "none"}
    /\ img.env.kernel_addr_r \notin {"none", "0x20000000", "0x10000000"}
    /\ (img.env.commonargs \cup img.env.bootargs) \cap Loud = {}
    /\ img.env.bootargs = NoLine => NoPlymouth \subseteq img.env.commonargs
    /\ img.env.set_console = {"tty0", "ttyS0"}

GettysThere == \A t \in DOMAIN img.inittab : img.inittab[t] # "absent"

BootParameters ==
  RootAsOnBase /\ EnvPatched /\ (img.rootfs => GettysThere)

(***************************************************************************)
(* However many runs failed, were killed or cut off by a restart, on bases *)
(* of any layout and on its own output, an image the script finished is    *)
(* one the board boots with its new kernel, unless a mount that an earlier *)
(* run left behind could still write to the same file, or to the base.     *)
(***************************************************************************)
FinishedImageBoots ==
  ipc = "idle" /\ img.made /\ alone =>
    (img.finished => img.intact /\ KernelFits /\ BootParameters)

(***************************************************************************)
(* Between two runs, the loop devices attached and the file systems        *)
(* mounted are those of runs that were killed, that failed between         *)
(* losetup and the trap, or that failed with the rootfs mounted: any other *)
(* failure, whatever was detached and attached before, leaves nothing.     *)
(***************************************************************************)
LeaksExplained ==
  ipc = "idle" => attached \subseteq abandoned /\ \A m \in mounts : m.loop \in abandoned
=============================================================================
