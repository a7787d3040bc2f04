--------------------------- MODULE TbModuleProofs ---------------------------
(***************************************************************************)
(* Proofs about the module's life in the interpreter, for every set of     *)
(* thinCore.dll builds.                                                    *)
(***************************************************************************)
EXTENDS TbModule, TLAPS

\* An own reference on oleaut32.dll is taken only while it is unmapped, and
\* mapping it is for good.
OleOwnedOnce == oleOwn <= 1 /\ (oleOwn = 1 => oleState = "mapped")

IInv ==
    /\ TypeOK
    /\ FaultsOnlyUnloaded
    /\ KeywordsNeedCore
    /\ InterpreterCopyHeld
    /\ coreRefs - hostRefs <= 1
    /\ OleOwnedOnce
    /\ BindingNeedsKeywords

LEMMA InitIInv == Init => IInv
<1> SUFFICES ASSUME Init PROVE IInv
    OBVIOUS
<1>1. coreExports \in SUBSET CoreFns
    BY CoreBuildsAssumption DEF Init
<1>2. TypeOK
    <2>1. hostRefs \in {0, 1} /\ coreRefs \in Nat /\ oleOwn \in Nat
        BY DEF Init
    <2>2. gFns \in SUBSET CoreFns
        BY DEF Init
    <2>3. /\ oleState \in {"missing", "unmapped", "mapped"}
          /\ answer \in {"none", "long", "string", "null"}
        BY DEF Init
    <2>4. /\ gModule \in BOOLEAN /\ gLoaded \in BOOLEAN /\ gAlloc \in BOOLEAN
          /\ registered \in BOOLEAN /\ unloaded \in BOOLEAN
          /\ zmqLoaded \in BOOLEAN /\ fault = {}
        BY DEF Init
    <2> QED BY <1>1, <2>1, <2>2, <2>3, <2>4 DEF TypeOK
<1> QED
    BY <1>2
       DEF Init, IInv, FaultsOnlyUnloaded, KeywordsNeedCore, InterpreterCopyHeld,
           OleOwnedOnce, BindingNeedsKeywords

\* The module takes at most one reference of its own on thinCore.dll,
\* because it first looks whether the DLL is mapped.
LEMMA AcquiredBounds ==
    ASSUME IInv
    PROVE  /\ Acquired \in Nat /\ Acquired > 0
           /\ Acquired >= hostRefs /\ Acquired - hostRefs <= 1
BY DEF IInv, TypeOK, InterpreterCopyHeld, Acquired, CoreHandle

LEMMA AcquireOleKeeps ==
    ASSUME IInv, AcquireOle
    PROVE  /\ oleOwn' \in Nat /\ OleOwnedOnce'
           /\ oleState' \in {"missing", "unmapped", "mapped"}
<1>1. oleOwn \in Nat /\ OleOwnedOnce
    BY DEF IInv, TypeOK
<1>2. CASE oleState = "unmapped"
    <2>1. oleOwn = 0
        BY <1>1, <1>2 DEF OleOwnedOnce
    <2> QED BY <1>2, <2>1 DEF AcquireOle, OleOwnedOnce
<1>3. CASE oleState # "unmapped"
    BY <1>1, <1>3 DEF AcquireOle, OleOwnedOnce, IInv, TypeOK
<1> QED BY <1>2, <1>3

\* A handle is given back only when its DLL is gone, which is never so.
LEMMA ShutdownKeepsReferences ==
    ASSUME NEW refs \in Nat, NEW module \in BOOLEAN, module => refs > 0
    PROVE  ReferencesAfterShutdown(refs, module) = refs
BY DEF ReferencesAfterShutdown

LEMMA LoadIInv == IInv /\ LoadLocalSymbols => IInv'
<1> SUFFICES ASSUME IInv, LoadLocalSymbols PROVE IInv'
    OBVIOUS
<1>1. CASE LoadFailed /\ InitNoCore
    <2>1. ~gModule /\ gModule' = FALSE
        BY <1>1 DEF InitNoCore, IInv, KeywordsNeedCore
    <2> QED
        BY <1>1, <2>1
           DEF LoadFailed, InitNoCore, host, IInv, TypeOK, FaultsOnlyUnloaded,
               KeywordsNeedCore, InterpreterCopyHeld, OleOwnedOnce,
               BindingNeedsKeywords
<1>2. CASE LoadFailed /\ InitIncomplete
    <2>1. coreRefs' = Acquired
        BY <1>2, AcquiredBounds, ShutdownKeepsReferences DEF InitIncomplete
    <2>2. AcquireOle /\ ~gLoaded
        BY <1>2 DEF InitIncomplete
    <2>3. registered => unloaded
        BY <2>2 DEF IInv, KeywordsNeedCore
    <2>4. /\ ClearCore
          /\ UNCHANGED <<host, registered, unloaded, zmqLoaded, answer, fault>>
        BY <1>2 DEF LoadFailed, InitIncomplete
    <2> QED
        BY <2>1, <2>2, <2>3, <2>4, AcquiredBounds, AcquireOleKeeps
           DEF host, ClearCore, IInv, TypeOK, FaultsOnlyUnloaded, KeywordsNeedCore,
               InterpreterCopyHeld, BindingNeedsKeywords
<1>3. CASE LoadSucceeded /\ InitAlreadyLoaded
    BY <1>3
       DEF LoadSucceeded, InitAlreadyLoaded, host, gtb, IInv, TypeOK, FaultsOnlyUnloaded,
           KeywordsNeedCore, InterpreterCopyHeld, OleOwnedOnce, CoreFns,
           BindingNeedsKeywords
<1>4. CASE LoadSucceeded /\ InitComplete
    <2>1. /\ coreRefs' = Acquired /\ AcquireOle
          /\ gModule' = TRUE /\ gLoaded' = TRUE /\ gFns' = CoreFns
          /\ gAlloc' \in BOOLEAN
        BY <1>4 DEF InitComplete
    <2>2. /\ registered' = TRUE /\ unloaded' = FALSE
          /\ UNCHANGED <<host, zmqLoaded, answer>>
          /\ fault' = fault
        BY <1>4, <2>1 DEF LoadSucceeded, CoreFns
    <2> QED
        BY <2>1, <2>2, AcquiredBounds, AcquireOleKeeps
           DEF host, IInv, TypeOK, FaultsOnlyUnloaded, KeywordsNeedCore,
               InterpreterCopyHeld, BindingNeedsKeywords
<1> QED
    BY <1>1, <1>2, <1>3, <1>4 DEF LoadLocalSymbols, LoadFailed, LoadSucceeded

LEMMA UnLoadIInv == IInv /\ UnLoadLocalSymbols => IInv'
<1> SUFFICES ASSUME IInv, UnLoadLocalSymbols PROVE IInv'
    OBVIOUS
<1>1. coreRefs' = coreRefs
    BY ShutdownKeepsReferences
       DEF UnLoadLocalSymbols, IInv, TypeOK, InterpreterCopyHeld
<1> QED
    BY <1>1
       DEF UnLoadLocalSymbols, ClearCore, host, IInv, TypeOK, FaultsOnlyUnloaded,
           KeywordsNeedCore, InterpreterCopyHeld, OleOwnedOnce,
           BindingNeedsKeywords

LEMMA HostForgetsIInv == IInv /\ HostForgets => IInv'
<1> SUFFICES ASSUME IInv, HostForgets PROVE IInv'
    OBVIOUS
<1>1. UNCHANGED <<host, coreRefs, oleState, oleOwn, gtb, zmqLoaded, answer,
                  fault>>
    BY DEF HostForgets
<1>2. unloaded' = FALSE /\ registered' = FALSE
    BY DEF HostForgets
<1>3. ~zmqLoaded
    BY DEF HostForgets, IInv, BindingNeedsKeywords
<1> QED
    BY <1>1, <1>2, <1>3
       DEF host, gtb, IInv, TypeOK, FaultsOnlyUnloaded, KeywordsNeedCore,
           InterpreterCopyHeld, OleOwnedOnce, BindingNeedsKeywords

\* Until the module is told to unload, there are parsers for its keywords;
\* from then on there are none.
LEMMA KeywordsParse == IInv /\ registered => (Parses <=> ~unloaded)
BY DEF IInv, KeywordsNeedCore, Parses, CoreFns, ParseFns

LEMMA KeywordFaultsIInv == IInv /\ KeywordFaults => IInv'
<1> SUFFICES ASSUME IInv, KeywordFaults PROVE IInv'
    OBVIOUS
<1>1. unloaded
    BY KeywordsParse DEF KeywordFaults, IInv, TypeOK
<1>2. fault' = fault \cup {"unloaded"}
    BY <1>1 DEF KeywordFaults, Now
<1> QED
    BY <1>2
       DEF KeywordFaults, host, gtb, IInv, TypeOK, FaultsOnlyUnloaded,
           KeywordsNeedCore, InterpreterCopyHeld, OleOwnedOnce,
           BindingNeedsKeywords

LEMMA KeywordIInv ==
    ASSUME IInv, NumericKeyword \/ StringKeyword \/ LibraryKeyword
    PROVE  IInv'
<1>1. registered /\ ~unloaded
    BY KeywordsParse DEF NumericKeyword, StringKeyword, LibraryKeyword, IInv,
                         TypeOK
<1>2. UNCHANGED <<host, coreRefs, oleState, oleOwn, gtb, registered, unloaded,
                  fault>>
    BY DEF NumericKeyword, StringKeyword, LibraryKeyword, ReturnString
<1>3. /\ zmqLoaded' \in BOOLEAN
      /\ answer' \in {"none", "long", "string", "null"}
    BY DEF NumericKeyword, StringKeyword, LibraryKeyword, ReturnString, IInv,
           TypeOK
<1> QED
    BY <1>1, <1>2, <1>3
       DEF host, gtb, IInv, TypeOK, FaultsOnlyUnloaded, KeywordsNeedCore,
           InterpreterCopyHeld, OleOwnedOnce, BindingNeedsKeywords

LEMMA StepIInv == IInv /\ [Next]_vars => IInv'
<1>1. ASSUME IInv, HostMapsCore PROVE IInv'
    BY <1>1
       DEF HostMapsCore, gtb, IInv, TypeOK, FaultsOnlyUnloaded, KeywordsNeedCore,
           InterpreterCopyHeld, OleOwnedOnce, BindingNeedsKeywords
<1>2. ASSUME IInv, UNCHANGED vars PROVE IInv'
    BY <1>2
       DEF vars, gtb, IInv, TypeOK, FaultsOnlyUnloaded, KeywordsNeedCore,
           InterpreterCopyHeld, OleOwnedOnce, BindingNeedsKeywords
<1> QED
    BY <1>1, <1>2, LoadIInv, UnLoadIInv, HostForgetsIInv, KeywordFaultsIInv,
       KeywordIInv
       DEF Next

\* The inductive invariant holds in every reachable state.
THEOREM Invariance == Spec => []IInv
<1> QED BY InitIInv, StepIInv, PTL DEF Spec

\* Whatever thinCore.dll exports and however often the module is loaded and
\* unloaded, a tb_* thunk jumps through a NULL pointer only for a keyword used
\* after an unload.
THEOREM FaultsOnlyWhileUnloaded == Spec => []FaultsOnlyUnloaded
<1>1. IInv => FaultsOnlyUnloaded
    BY DEF IInv
<1> QED BY <1>1, Invariance, PTL

\* Keywords are known only while the table they parse through is complete, or
\* until the interpreter forgets those of an unloaded module.
THEOREM KeywordsAlwaysHaveCore == Spec => []KeywordsNeedCore
<1>1. IInv => KeywordsNeedCore
    BY DEF IInv
<1> QED BY <1>1, Invariance, PTL

\* The interpreter's copy of thinCore.dll is never given back for it.
THEOREM InterpreterCopyStaysHeld == Spec => []InterpreterCopyHeld
<1>1. IInv => InterpreterCopyHeld
    BY DEF IInv
<1> QED BY <1>1, Invariance, PTL

\* However often it is loaded, the module holds at most one reference of its
\* own on each system DLL.
THEOREM OwnReferencesStayBounded == Spec => []OwnReferencesBounded
<1>1. IInv => OwnReferencesBounded
    BY DEF IInv, OleOwnedOnce, OwnReferencesBounded
<1> QED BY <1>1, Invariance, PTL

\* From the module's unload on libzmq is not bound, even while the interpreter
\* still knows the keywords.
THEOREM BindingAlwaysNeedsKeywords == Spec => []BindingNeedsKeywords
<1>1. IInv => BindingNeedsKeywords
    BY DEF IInv
<1> QED BY <1>1, Invariance, PTL

\* Every variable keeps its type; no reference count goes below zero.
THEOREM TypeCorrect == Spec => []TypeOK
<1>1. IInv => TypeOK
    BY DEF IInv
<1> QED BY <1>1, Invariance, PTL

=============================================================================
