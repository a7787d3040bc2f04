---------------------------- MODULE MCZmqDynload ----------------------------
(***************************************************************************)
(* A small installation for TLC: a current and an older complete libzmq,   *)
(* one that lacks a required export, a folder without the file, and folder *)
(* names at both limits of the path arithmetic.                            *)
(***************************************************************************)
EXTENDS ZmqSession, TLC

CONSTANTS
    current, old, broken,                           \* images
    inCurrent, inOld, inBroken, noDll, atRoot, fits, overlong   \* folders

MCImages == {current, old, broken}
MCExports ==
    current :> Symbols @@ old :> RequiredSymbols
        @@ broken :> Symbols \ {"zmq_ctx_shutdown"}

MCFolders == {inCurrent, inOld, inBroken, noDll, atRoot, fits, overlong}

\* 248 + 11 bytes and a NUL are 260; one byte more no longer fits. The root
\* of the current drive is the empty name that trimming "\" leaves.
MCFolderLen ==
    inCurrent :> 20 @@ inOld :> 22 @@ inBroken :> 23 @@ noDll :> 9
        @@ atRoot :> 0 @@ fits :> 248 @@ overlong :> 249
MCDllAt ==
    inCurrent :> current @@ inOld :> old @@ inBroken :> broken
        @@ noDll :> NoImage @@ atRoot :> NoImage
        @@ fits :> current @@ overlong :> current

CONSTANTS dCurrent, dCurrentSlash, dOld, dBroken, dNone, dRoot, dEmpty,
          dFits, dFitsSlashes, dOverlong

MCDirs == {dCurrent, dCurrentSlash, dOld, dBroken, dNone, dRoot, dEmpty,
           dFits, dFitsSlashes, dOverlong}
MCDirFolder ==
    dCurrent :> inCurrent @@ dCurrentSlash :> inCurrent @@ dOld :> inOld
        @@ dBroken :> inBroken @@ dNone :> noDll @@ dRoot :> atRoot
        @@ dEmpty :> atRoot @@ dFits :> fits @@ dFitsSlashes :> fits
        @@ dOverlong :> overlong
\* 248 bytes and twelve slashes are too long before they are trimmed.
MCDirSlashes ==
    dCurrent :> 0 @@ dCurrentSlash :> 1 @@ dOld :> 0 @@ dBroken :> 0
        @@ dNone :> 0 @@ dRoot :> 1 @@ dEmpty :> 0 @@ dFits :> 11
        @@ dFitsSlashes :> 12 @@ dOverlong :> 0
=============================================================================
