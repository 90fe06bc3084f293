----------------------------- MODULE MCSdkBuild -----------------------------
(***************************************************************************)
(* kmod.mk takes one sed expression and util-linux.mk two; two Qt          *)
(* directories, which are alike.                                           *)
(***************************************************************************)
EXTENDS SdkBuild, TLC

CONSTANTS kmod, util_linux

MCPackages == {kmod, util_linux}
MCExprs == [p \in MCPackages |-> IF p = kmod THEN 1 ELSE 2]
QtSymmetry == Permutations(QtDirs)
=============================================================================
