----------------------------- MODULE MCTbModule -----------------------------
(***************************************************************************)
(* TLC instance of TbModule: a complete thinCore.dll, one without the      *)
(* FreeBASIC registration entry and one without a parser entry.            *)
(***************************************************************************)
EXTENDS TbModule

MCCoreBuilds ==
    {CoreFns, CoreFns \ {"thinBasic_LoadSymbol_FB"},
     CoreFns \ {"thinBasic_CheckComma"}}
=============================================================================
