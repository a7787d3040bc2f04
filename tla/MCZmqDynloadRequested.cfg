SPECIFICATION SessionSpec
CONSTANTS
  current = current
  old = old
  broken = broken
  inCurrent = inCurrent
  inOld = inOld
  inBroken = inBroken
  noDll = noDll
  atRoot = atRoot
  fits = fits
  overlong = overlong
  dCurrent = dCurrent
  dCurrentSlash = dCurrentSlash
  dOld = dOld
  dBroken = dBroken
  dNone = dNone
  dRoot = dRoot
  dEmpty = dEmpty
  dFits = dFits
  dFitsSlashes = dFitsSlashes
  dOverlong = dOverlong
  NoImage = NoImage
  Wild = Wild
  DefaultDir = DefaultDir
  Images <- MCImages
  Exports <- MCExports
  Folders <- MCFolders
  FolderLen <- MCFolderLen
  DllAt <- MCDllAt
  Dirs <- MCDirs
  DirFolder <- MCDirFolder
  DirSlashes <- MCDirSlashes
  MaxPath = 260
  SuffixLen = 11
  MaxThreads = 2
  Handles = {a, b}
  MaxMaps = 2
INVARIANT
  InitLoadsRequested
