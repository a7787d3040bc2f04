------------------------------ MODULE TbModule ------------------------------
(***************************************************************************)
(* The module's life inside the thinBasic interpreter: the entry points    *)
(* _LoadLocalSymbols and _UnLoadLocalSymbols (thinBasic_ZeroMQ.c) and the  *)
(* table g_tb of pointers into thinCore.dll (tb_thincore.c) through which  *)
(* every keyword parses its arguments and returns its strings.             *)
(*                                                                         *)
(* The thunks tb_* jump through g_tb without looking at it, except the one *)
(* that allocates return strings. `fault` records the jumps through NULL.  *)
(*                                                                         *)
(* External: the interpreter. It calls _UnLoadLocalSymbols and forgets the *)
(* keywords in a later step of its own. In between a keyword may still be  *)
(* called: nothing in this code keeps that from happening. The interpreter *)
(* does not unmap its own thinCore.dll while a module is running.          *)
(***************************************************************************)
EXTENDS Integers

CONSTANTS
    CoreBuilds  \* the sets of exports that builds of thinCore.dll have

\* The exports that tb_thincore_init requires.
RegisterFns == {"_thinBasic_AddEquate", "_thinBasic_LoadSymbol",
                "thinBasic_LoadSymbol_FB"}
ParseFns == {"thinBasic_ParseLong", "thinBasic_ParseString",
             "thinBasic_CheckOpenParens", "thinBasic_CheckCloseParens",
             "thinBasic_CheckComma"}
CoreFns == RegisterFns \cup ParseFns

ASSUME CoreBuildsAssumption == CoreBuilds \subseteq SUBSET CoreFns

VARIABLES
    coreExports,    \* what this process's thinCore.dll exports
    hostRefs,       \* references the interpreter holds on thinCore.dll
    coreRefs,       \* all references on thinCore.dll; mapped while > 0
    oleState,       \* oleaut32.dll: "missing", "unmapped" or "mapped"
    oleOwn,         \* references this module took on oleaut32.dll
    gModule,        \* g_tb.module # NULL
    gLoaded,        \* g_tb.loaded
    gFns,           \* the required pointers of g_tb that are not NULL
    gAlloc,         \* g_tb.alloc_bstr # NULL
    registered,     \* the interpreter knows this module's keywords
    unloaded,       \* ... although the module has been told to unload
    zmqLoaded,      \* g_zmq.loaded (see ZmqDynload)
    answer,         \* what the last keyword returned
    fault           \* when thunks have jumped through a NULL pointer:
                    \* "running", "unloaded" or both

host == <<coreExports, hostRefs>>
gtb == <<gModule, gLoaded, gFns, gAlloc>>
vars == <<coreExports, hostRefs, coreRefs, oleState, oleOwn, gtb, registered,
          unloaded, zmqLoaded, answer, fault>>

Init ==
    /\ coreExports \in CoreBuilds
    /\ hostRefs \in {0, 1}
    /\ coreRefs = hostRefs
    /\ oleState \in {"missing", "unmapped", "mapped"}
    /\ oleOwn = 0
    /\ gModule = FALSE
    /\ gLoaded = FALSE
    /\ gFns = {}
    /\ gAlloc = FALSE
    /\ registered = FALSE
    /\ unloaded = FALSE
    /\ zmqLoaded = FALSE
    /\ answer = "none"
    /\ fault = {}

-----------------------------------------------------------------------------
(* tb_thincore_init and tb_thincore_shutdown.                              *)

\* GetModuleHandleA("thinCore.dll") finds the DLL exactly while it is mapped.
CoreHandle == coreRefs > 0

\* The memset of g_tb.
ClearCore ==
    /\ gModule' = FALSE
    /\ gLoaded' = FALSE
    /\ gFns' = {}
    /\ gAlloc' = FALSE

\* Mutant: the handle is given back whoever owns it.
ReferencesAfterFree(refs, module) == IF module THEN refs - 1 ELSE refs

\* Mutant: a table that has no handle is not noticed.
ReferencesAfterBlindFree(refs, module) == refs - 1

\* Shutdown gives up a handle only if thinCore.dll is no longer mapped under
\* its name; refs counts the references at that moment.
ReferencesAfterShutdown(refs, module) ==
    IF module /\ ~(refs > 0) THEN refs - 1 ELSE refs

\* Mutant: a copy that is already mapped is not looked for.
AcquiredAlways == coreRefs + 1

\* thinCore.dll is used where it is, or loaded if it is not mapped yet.
Acquired == IF CoreHandle THEN coreRefs ELSE coreRefs + 1

\* oleaut32.dll likewise, but without it the module goes on.
AcquireOle ==
    \/ /\ oleState = "mapped"
       /\ UNCHANGED <<oleState, oleOwn>>
    \/ /\ oleState = "unmapped"
       /\ oleState' = "mapped"
       /\ oleOwn' = oleOwn + 1
    \/ /\ oleState = "missing"
       /\ UNCHANGED <<oleState, oleOwn>>

InitAlreadyLoaded ==
    /\ gLoaded
    /\ UNCHANGED <<gtb, coreRefs, oleState, oleOwn>>

InitNoCore ==
    /\ ~gLoaded
    /\ ~CoreHandle
    /\ gModule' = FALSE
    /\ UNCHANGED <<gLoaded, gFns, gAlloc, coreRefs, oleState, oleOwn>>

\* A required export is missing: everything is undone by shutdown.
InitIncomplete ==
    /\ ~gLoaded
    /\ coreExports # CoreFns
    /\ coreRefs' = ReferencesAfterShutdown(Acquired, TRUE)
    /\ AcquireOle
    /\ ClearCore

InitComplete ==
    /\ ~gLoaded
    /\ coreExports = CoreFns
    /\ coreRefs' = Acquired
    /\ AcquireOle
    /\ gModule' = TRUE
    /\ gFns' = coreExports
    /\ gAlloc' = (oleState' = "mapped")
    /\ gLoaded' = TRUE

-----------------------------------------------------------------------------
(* The entry points.                                                       *)

\* Mutant: the keywords are registered whether or not the init succeeded.
LoadFailedRegisters ==
    /\ InitNoCore \/ InitIncomplete
    /\ registered' = TRUE
    /\ UNCHANGED <<host, unloaded, zmqLoaded, answer, fault>>

LoadFailed ==
    /\ InitNoCore \/ InitIncomplete
    /\ UNCHANGED <<host, registered, unloaded, zmqLoaded, answer, fault>>

\* Keywords and equates are registered through three of the thunks.
LoadSucceeded ==
    /\ InitAlreadyLoaded \/ InitComplete
    /\ registered' = TRUE
    /\ unloaded' = FALSE
    /\ fault' = fault \cup (IF RegisterFns \subseteq gFns' THEN {} ELSE {"running"})
    /\ UNCHANGED <<host, zmqLoaded, answer>>

LoadLocalSymbols == LoadFailed \/ LoadSucceeded

\* Mutant: libzmq is left to the script.
UnLoadKeepsLibzmq ==
    /\ coreRefs' = ReferencesAfterShutdown(coreRefs, gModule)
    /\ ClearCore
    /\ unloaded' = registered
    /\ UNCHANGED <<host, oleState, oleOwn, registered, zmqLoaded, answer, fault>>

UnLoadLocalSymbols ==
    /\ zmqLoaded' = FALSE
    /\ coreRefs' = ReferencesAfterShutdown(coreRefs, gModule)
    /\ ClearCore
    /\ unloaded' = registered
    /\ UNCHANGED <<host, oleState, oleOwn, registered, answer, fault>>

\* External: the interpreter forgets the keywords of an unloaded module.
HostForgets ==
    /\ unloaded
    /\ unloaded' = FALSE
    /\ registered' = FALSE
    /\ UNCHANGED <<host, coreRefs, oleState, oleOwn, gtb, zmqLoaded, answer,
                   fault>>

-----------------------------------------------------------------------------
(* Keywords, as far as they use g_tb: every one parses; the five that      *)
(* return a string also allocate; two load and unload libzmq.              *)

Parses == ParseFns \subseteq gFns

\* When a fault happens: before or after the module was told to unload.
Now == IF unloaded THEN "unloaded" ELSE "running"

\* The first thing any keyword does is to ask for a parenthesis, through a
\* thunk that does not look at its pointer. It does not get any further.
KeywordFaults ==
    /\ registered
    /\ ~Parses
    /\ fault' = fault \cup {Now}
    /\ UNCHANGED <<host, coreRefs, oleState, oleOwn, gtb, registered, unloaded,
                   zmqLoaded, answer>>

NumericKeyword ==
    /\ registered
    /\ Parses
    /\ answer' = "long"
    /\ UNCHANGED <<host, coreRefs, oleState, oleOwn, gtb, registered, unloaded,
                   zmqLoaded, fault>>

\* Mutant: the string is allocated without asking for the allocator.
ReturnStringUnchecked ==
    /\ answer' = "string"
    /\ fault' = fault \cup (IF gAlloc THEN {} ELSE {Now})

\* tb_return_string_n answers NULL when there is no allocator.
ReturnString ==
    /\ answer' = IF gAlloc THEN "string" ELSE "null"
    /\ UNCHANGED fault

StringKeyword ==
    /\ registered
    /\ Parses
    /\ ReturnString
    /\ UNCHANGED <<host, coreRefs, oleState, oleOwn, gtb, registered, unloaded,
                   zmqLoaded>>

LibraryKeyword ==
    /\ registered
    /\ Parses
    /\ answer' = "long"
    /\ zmqLoaded' \in BOOLEAN
    /\ UNCHANGED <<host, coreRefs, oleState, oleOwn, gtb, registered, unloaded,
                   fault>>

\* External: a host that had no thinCore.dll mapped maps it.
HostMapsCore ==
    /\ hostRefs = 0
    /\ hostRefs' = 1
    /\ coreRefs' = coreRefs + 1
    /\ UNCHANGED <<coreExports, oleState, oleOwn, gtb, registered, unloaded,
                   zmqLoaded, answer, fault>>

-----------------------------------------------------------------------------
Next ==
    \/ LoadLocalSymbols
    \/ UnLoadLocalSymbols
    \/ HostForgets
    \/ KeywordFaults
    \/ NumericKeyword
    \/ StringKeyword
    \/ LibraryKeyword
    \/ HostMapsCore

Spec == Init /\ [][Next]_vars

-----------------------------------------------------------------------------
(* Properties.                                                             *)

\* Every variable has its type; no reference count goes below zero.
TypeOK ==
    /\ coreExports \in SUBSET CoreFns
    /\ hostRefs \in {0, 1}
    /\ coreRefs \in Nat
    /\ oleState \in {"missing", "unmapped", "mapped"}
    /\ oleOwn \in Nat
    /\ gModule \in BOOLEAN
    /\ gLoaded \in BOOLEAN
    /\ gFns \in SUBSET CoreFns
    /\ gAlloc \in BOOLEAN
    /\ registered \in BOOLEAN
    /\ unloaded \in BOOLEAN
    /\ zmqLoaded \in BOOLEAN
    /\ answer \in {"none", "long", "string", "null"}
    /\ fault \subseteq {"running", "unloaded"}

\* No thunk but the string allocator looks at its pointer, and yet none jumps
\* through NULL, with one exception: a keyword that the interpreter still
\* calls between telling the module to unload and forgetting its keywords.
FaultsOnlyUnloaded == fault \subseteq {"unloaded"}

\* Keywords are known only while g_tb is complete, or for as long as the
\* interpreter takes to forget them after an unload. A table that is not
\* loaded is all zero.
KeywordsNeedCore ==
    /\ registered => gLoaded \/ unloaded
    /\ unloaded => registered /\ ~gLoaded
    /\ gLoaded => gFns = CoreFns /\ gModule
    /\ ~gLoaded => ~gModule /\ gFns = {} /\ ~gAlloc

\* SDK/C/README.md:142: the interpreter's copy of thinCore.dll is never given
\* back for it. In particular a handle in g_tb is always that of a mapped DLL.
InterpreterCopyHeld ==
    /\ coreRefs >= hostRefs
    /\ gModule => coreRefs > 0

\* Loading and unloading the module any number of times takes at most one
\* reference of its own on thinCore.dll and one on oleaut32.dll. (Neither is
\* ever given back: shutdown always finds thinCore.dll mapped.)
OwnReferencesBounded == coreRefs - hostRefs <= 1 /\ oleOwn <= 1

\* libzmq never stays bound behind the module's back: once the module has
\* been told to unload, libzmq is not bound, whether or not the script shut it
\* down, and the keywords that are still known do not get as far as loading it
\* again.
BindingNeedsKeywords == zmqLoaded => registered /\ ~unloaded

=============================================================================
