----------------------------- MODULE MCZmqExec -----------------------------
(***************************************************************************)
(* TLC instances of ZmqExec. The directories hold a complete libzmq, an    *)
(* older one without the CURVE and Z85 entries, and no library.            *)
(***************************************************************************)
EXTENDS ZmqExec

CONSTANTS current, old, dCurrent, dOld, dNone

MCImages == {current, old}
MCExports == current :> Symbols @@ old :> RequiredSymbols
MCDirs == {dCurrent, dOld, dNone}
MCDirImage == dCurrent :> current @@ dOld :> old @@ dNone :> NoImage

\* Every keyword, alone ...
MCKeywords == DOMAIN AllKeywords

\* ... and one of each kind in the arguments of another.
MCNesting ==
    {"ZmqLibraryInit", "ZmqLibraryShutdown", "ZmqErrno", "ZmqStrerrorString",
     "ZmqSocket", "ZmqBind", "ZmqSendStr", "ZmqCurvePublicStr"}

\* What the two documented promises are about.
SendKeywords ==
    {"ZmqLibraryInit", "ZmqLibraryShutdown", "ZmqSendStr"}
=============================================================================
