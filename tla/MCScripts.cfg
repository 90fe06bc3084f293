SPECIFICATION ScriptsSpec
CONSTANTS
  kmod = kmod
  util_linux = util_linux
  Packages <- MCPackages
  Exprs <- MCExprs
  QtDirs = {qt5, qt6}
  HostCmake = host_cmake
  MaxKills = 2
  Midway = FALSE
  Versions <- MCVersions
  Plus <- MCPlus
  Builds <- MCBuilds
  Bases <- MCBases
  Loops = {1, 2}
  ModulesSize = 1
  Headroom = 1
  GrowExtra = 1
INVARIANTS OriginalKept  SuffixesFromKills ReadyToMake
INVARIANTS BuildPromise  
SYMMETRY QtSymmetry
