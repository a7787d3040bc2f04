SPECIFICATION Spec
CONSTANTS
  current = current
  old = old
  dCurrent = dCurrent
  dOld = dOld
  dNone = dNone
  NoImage = NoImage
  Images <- MCImages
  Exports <- MCExports
  Dirs <- MCDirs
  DirImage <- MCDirImage
  Keywords <- SendKeywords
  Nesting = {}
  MaxDepth = 1
INVARIANT
  SendStrSendsOrFails
