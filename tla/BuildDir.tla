------------------------------ MODULE BuildDir ------------------------------
(***************************************************************************)
(* What the build directory offers to those who take a kernel from it: the *)
(* Image, the modules installed for each version, and what the user who    *)
(* read the messages of the scripts believes of them.                      *)
(*                                                                         *)
(* Versions are numbered in the order in which ls sorts their names; those *)
(* in Plus end with a '+'.                                                 *)
(***************************************************************************)
EXTENDS Naturals

CONSTANTS Versions, Plus

ASSUME VersionsAssumption == Versions \subseteq Nat \ {0} /\ Plus \subseteq Versions

VARIABLES
  image,    \* arch/riscv/boot/Image: [ver, evl], version 0 if there is none
  modules,  \* modules_install/lib/modules: for each version there, "partial",
            \* "old" (of an earlier Image) or "full"
  promise   \* "none", "built" (03 ended well) or "evl" (and 02 verified)

buildDir == <<image, modules, promise>>

NoImage == [ver |-> 0, evl |-> FALSE]

BuildDirInit ==
  image = NoImage /\ modules = [v \in {} |-> "full"] /\ promise = "none"

(***************************************************************************)
(* Whatever failed or was interrupted before, once 03-build-kernel.sh says *)
(* "Build Complete" the Image has no '+' in its version and its modules    *)
(* are complete and of the same build; if 02-configure.sh had verified the *)
(* configuration for this source tree, it is an EVL kernel.                *)
(***************************************************************************)
BuildPromise ==
  /\ promise # "none" =>
       /\ image.ver \in Versions \ Plus
       /\ image.ver \in DOMAIN modules /\ modules[image.ver] = "full"
  /\ promise = "evl" => image.evl
=============================================================================
