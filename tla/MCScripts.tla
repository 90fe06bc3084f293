----------------------------- MODULE MCScripts -----------------------------
(***************************************************************************)
(* The scripts on a developer's machine: the build of the SDK, the build   *)
(* of the kernel, the making of an image.  They share the build directory  *)
(* only, and run one at a time: in each behaviour the one in focus runs.   *)
(* The image script takes the build directory in any state the kernel      *)
(* build may leave, which is what BuildPromise says of it.                 *)
(***************************************************************************)
EXTENDS MCSdkBuild, KernelBuild, SdImage

VARIABLE focus

scriptVars == <<vars, kernelVars, buildDir, imageVars, focus>>

\* 1, 2, 3: 6.6.63, 6.6.63+, 6.6.64.
MCVersions == {1, 2, 3}
MCPlus == {2}

\* A build of each kind: promised or not, partly installed, of mixed versions,
\* with a '+'.
MCBuilds ==
  {[image |-> [ver |-> 1, evl |-> TRUE], modules |-> 1 :> "full", promise |-> "evl"],
   [image |-> [ver |-> 1, evl |-> FALSE], modules |-> 1 :> "partial", promise |-> "none"],
   [image |-> [ver |-> 1, evl |-> FALSE], modules |-> 3 :> "old", promise |-> "none"],
   [image |-> [ver |-> 2, evl |-> FALSE], modules |-> 2 :> "full", promise |-> "none"],
   [image |-> [ver |-> 3, evl |-> TRUE], modules |-> 3 :> "full", promise |-> "built"],
   [image |-> [ver |-> 3, evl |-> TRUE], modules |-> (1 :> "old" @@ 3 :> "full"),
    promise |-> "evl"]}

\* An image of Bianbu, which has all a base may have, and the others by what
\* they lack.
Bianbu ==
  [made |-> TRUE, finished |-> FALSE, intact |-> TRUE,
   table |-> TRUE, boot |-> TRUE, rootfs |-> TRUE, uuid |-> TRUE,
   kernel |-> 0, evl |-> FALSE, promised |-> "none", orig |-> NoConf,
   conf |-> [l \in Locations |->
               IF l = "extlinux" THEN [root |-> "PARTUUID", initrd |-> TRUE]
               ELSE NoConf],
   has_env |-> TRUE,
   env |-> [knl_name |-> "Image.itb", kernel_addr_r |-> "0x10000000",
            commonargs |-> Loud, bootargs |-> NoLine, set_console |-> NoLine],
   modules |-> 1 :> "full", free |-> 2,
   inittab |-> ("ttyS0" :> "comment" @@ "tty1" :> "absent")]

MCBases ==
  {Bianbu,
   [Bianbu EXCEPT !.conf = [l \in Locations |-> NoConf], !.modules = << >>,
                  !.free = 0, !.env.knl_name = "none",
                  !.env.bootargs = Loud \cup {"console"}],
   [Bianbu EXCEPT !.conf = [l \in Locations |-> NoConf], !.rootfs = FALSE,
                  !.uuid = FALSE, !.has_env = FALSE, !.inittab = << >>],
   [Bianbu EXCEPT !.boot = FALSE],
   [Bianbu EXCEPT !.table = FALSE]}

ScriptsInit ==
  /\ focus \in {"sdk", "kernel", "image"}
  /\ Init /\ KernelInit /\ BuildDirInit /\ ImageInit
  /\ focus # "sdk" => stamp = [b \in Built |-> "none"]
  /\ focus # "kernel" => version = 1 /\ kconfig

ScriptsNext ==
  /\ UNCHANGED focus
  /\ \/ focus = "sdk" /\ Next /\ UNCHANGED <<kernelVars, buildDir, imageVars>>
     \/ focus = "kernel" /\ KernelNext /\ UNCHANGED <<vars, imageVars>>
     \/ focus = "image" /\ ImageNext /\ UNCHANGED <<vars, kernelVars>>

ScriptsSpec == ScriptsInit /\ [][ScriptsNext]_scriptVars
=============================================================================
