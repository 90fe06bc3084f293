SPECIFICATION Spec
CONSTANTS
  kmod = kmod
  util_linux = util_linux
  Packages <- MCPackages
  Exprs <- MCExprs
  QtDirs = {qt5, qt6}
  HostCmake = host_cmake
  MaxKills = 1
  Midway = FALSE
INVARIANT SourceTreeClean
SYMMETRY QtSymmetry
