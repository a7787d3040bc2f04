-------------------------- MODULE ZmqSessionProofs --------------------------
(***************************************************************************)
(* Proofs about the context handles of a session over the loader. The      *)
(* session's calls are calls of the loader, so that everything proved of   *)
(* the loader holds of it too; its own two properties need to know in      *)
(* addition which threads are whose.                                       *)
(***************************************************************************)
EXTENDS ZmqSession, ZmqDynloadProofs, FiniteSetTheorems

\* What is known of a handle.
Handle == [image : Images, map : Nat, shut : Nat, running : BOOLEAN]

SessionTypeOK ==
    /\ maps \in [Images -> Nat]
    /\ shutdowns \in Nat
    /\ IsFiniteSet(DOMAIN made)
    /\ \A h \in DOMAIN made : made[h] \in Handle

\* The contexts whose threads run in an image.
RunningIn(i) == {h \in DOMAIN made : made[h].running /\ made[h].image = i}

\* Every running thread belongs to a context some handle stands for.
ThreadsOwned ==
    \A i \in Images : threads[i] = Cardinality(RunningIn(i))

\* A handle made since the last shutdown is of the library that is bound, and
\* of the mapping it is bound in; no handle is of a later shutdown.
FreshHandlesAtHome ==
    \A h \in DOMAIN made :
        /\ made[h].shut <= shutdowns
        /\ made[h].shut = shutdowns => /\ loaded
                                       /\ gModule = made[h].image
                                       /\ maps[gModule] = made[h].map

RunningMapped ==
    \A h \in DOMAIN made :
        made[h].running => maps[made[h].image] = made[h].map

\* The inductive invariant. That a running context keeps its image mapped is
\* a consequence: its thread is counted in "threads", and those in "refs".
SInv ==
    /\ IInv
    /\ SessionTypeOK
    /\ ThreadsOwned
    /\ FreshHandlesAtHome
    /\ RunningMapped

-----------------------------------------------------------------------------
(* Every call of a session is a call of the loader.                        *)

LEMMA SessionStepsLoader == [SessionNext]_allVars => [Next]_vars
<1> SUFFICES ASSUME SessionNext PROVE Next
    BY DEF allVars
<1>1. ASSUME NEW d \in Dirs, LibraryInit(d) PROVE Next
    BY <1>1 DEF LibraryInit, Next
<1>2. CASE LibraryShutdown
    BY <1>2 DEF LibraryShutdown, Next
<1>3. CASE LibraryLoaded
    BY <1>3 DEF LibraryLoaded, Next
<1>4. ASSUME NEW s \in Symbols, NEW nullArg \in BOOLEAN, OtherCall(s, nullArg)
      PROVE  Next
    BY <1>4 DEF OtherCall, Next
<1>5. ASSUME NEW s \in {"zmq_ctx_new", "zmq_socket", "zmq_ctx_term",
                       "zmq_ctx_shutdown"},
             Call(s, FALSE)
      PROVE  Next
    <2>1. s \in Symbols
        BY DEF Symbols, RequiredSymbols
    <2> QED BY <1>5, <2>1 DEF Next
<1>6. ASSUME NEW h \in Handles,
             \/ CtxNew(h) \/ FirstSocket(h) \/ CtxTerm(h)
             \/ Use(h) \/ UseRefused(h)
      PROVE  Next
    BY <1>5, <1>6 DEF CtxNew, FirstSocket, CtxTerm, Use, UseRefused, Call
<1> QED BY <1>1, <1>2, <1>3, <1>4, <1>6 DEF SessionNext

\* A session makes calls of the loader only: seen without the handles it is a
\* behaviour of the loader.
THEOREM SessionRefinesLoader == SessionSpec => Spec
<1>1. SessionInit => Init
    BY DEF SessionInit
<1> QED BY <1>1, SessionStepsLoader, PTL DEF SessionSpec, Spec

-----------------------------------------------------------------------------
(* The inductive invariant.                                                *)

\* Where a call goes that libzmq serves.
LEMMA ServedByBinding ==
    ASSUME IInv, NEW s \in Symbols, CallDispatched(s, FALSE)
    PROVE  /\ loaded /\ gModule \in Images
           /\ Target(s) = gModule /\ gModule # Wild
           /\ ThreadEffect(s, gModule)
           /\ UNCHANGED table
<1>1. loaded /\ gModule \in Images /\ Target(s) = gModule
    BY DispatchReachesBinding DEF CallDispatched
<1> QED BY <1>1, ImagesAssumption DEF CallDispatched

LEMMA HandleSymbols ==
    {"zmq_ctx_new", "zmq_socket", "zmq_ctx_term", "zmq_ctx_shutdown"}
        \subseteq Symbols
BY DEF Symbols, RequiredSymbols

\* A context whose threads run holds a reference on its image.
LEMMA RunningHoldsImage ==
    ASSUME IInv, SessionTypeOK, ThreadsOwned,
           NEW h \in DOMAIN made, made[h].running
    PROVE  refs[made[h].image] > 0
<1> DEFINE i == made[h].image
<1>1. i \in Images
    BY DEF SessionTypeOK, Handle
<1>2. IsFiniteSet(RunningIn(i)) /\ RunningIn(i) # {}
    <2>1. RunningIn(i) \in SUBSET DOMAIN made /\ h \in RunningIn(i)
        BY DEF RunningIn
    <2> QED BY <2>1, FS_Subset DEF SessionTypeOK
<1>3. Cardinality(RunningIn(i)) \in Nat \ {0}
    BY <1>2, FS_CardinalityType, FS_EmptySet
<1>4. threads[i] > 0
    BY <1>1, <1>3 DEF ThreadsOwned
<1> QED
    BY <1>1, <1>4, BoundsAssumption DEF IInv, TypeOK, ReferencesBalance

\* An image counts as mapped anew only when nothing held it.
LEMMA MapsOfHeldImages ==
    ASSUME IInv, SessionTypeOK, CountMaps, refs' \in [Images -> Nat]
    PROVE  /\ maps' \in [Images -> Nat]
           /\ \A i \in Images : refs[i] > 0 => maps'[i] = maps[i]
           /\ (\A i \in Images : refs'[i] <= refs[i]) => maps' = maps
<1>1. maps \in [Images -> Nat] /\ refs \in [Images -> Nat]
    BY DEF IInv, TypeOK, SessionTypeOK
<1> QED BY <1>1 DEF CountMaps

LEMMA InitSInv == SessionInit => SInv
<1> SUFFICES ASSUME SessionInit PROVE SInv
    OBVIOUS
<1>1. IInv
    BY InitIInv DEF SessionInit
<1>2. DOMAIN made = {}
    BY DEF SessionInit
<1>3. SessionTypeOK
    BY <1>2, FS_EmptySet DEF SessionInit, SessionTypeOK
<1>4. ThreadsOwned
    <2>1. \A i \in Images : RunningIn(i) = {}
        BY <1>2 DEF RunningIn
    <2> QED BY <2>1, FS_EmptySet DEF ThreadsOwned, SessionInit, Init
<1> QED
    BY <1>1, <1>2, <1>3, <1>4 DEF SInv, FreshHandlesAtHome, RunningMapped

\* What most calls leave alone is all the session's part is about.
LEMMA QuietSInv ==
    ASSUME SInv, IInv', UNCHANGED <<table, threads, maps, shutdowns, made>>
    PROVE  SInv'
<1>1. \A i : RunningIn(i)' = RunningIn(i)
    BY DEF RunningIn
<1> QED
    BY <1>1 DEF SInv, SessionTypeOK, ThreadsOwned, FreshHandlesAtHome,
               RunningMapped, table

\* Binding a library maps it anew only if no context's threads run in it, and
\* happens only when nothing is bound, so that no fresh handle is left.
LEMMA LibraryInitSInv ==
    ASSUME SInv, IInv', NEW d \in Dirs, LibraryInit(d) PROVE SInv'
<1> USE DEF SInv
<1>1. LoadDirectory(d) /\ CountMaps /\ UNCHANGED <<shutdowns, made>>
    BY DEF LibraryInit
<1>2. refs' \in [Images -> Nat]
    BY DEF IInv, TypeOK
<1>3. CASE LoadBound(d)
    <2>1. ~loaded /\ threads' = threads
        BY <1>3 DEF LoadBound, MayLoad
    <2>2. SessionTypeOK'
        BY <1>1, <1>2, MapsOfHeldImages DEF SessionTypeOK
    <2>3. ThreadsOwned'
        BY <1>1, <2>1 DEF ThreadsOwned, RunningIn
    <2>4. FreshHandlesAtHome'
        BY <1>1, <2>1 DEF FreshHandlesAtHome
    <2>5. RunningMapped'
        BY <1>1, <1>2, MapsOfHeldImages, RunningHoldsImage
           DEF RunningMapped, SessionTypeOK, Handle
    <2> QED BY <2>2, <2>3, <2>4, <2>5
<1>4. CASE ~LoadBound(d)
    <2>1. UNCHANGED <<table, refs, threads>>
        BY <1>1, <1>4, LoadRefusalsKeepAll
    <2>2. maps' = maps
        BY <1>1, <1>2, <2>1, MapsOfHeldImages DEF IInv, TypeOK
    <2> QED BY <1>1, <2>1, <2>2, QuietSInv
<1> QED BY <1>3, <1>4

\* After a shutdown no handle is fresh. Contexts that run still do.
LEMMA LibraryShutdownSInv ==
    ASSUME SInv, IInv', LibraryShutdown PROVE SInv'
<1> USE DEF SInv
<1>1. /\ Unload /\ CountMaps /\ threads' = threads
      /\ made' = made /\ shutdowns' = shutdowns + 1
    BY DEF LibraryShutdown, Unload
<1>2. refs' \in [Images -> Nat] /\ refs \in [Images -> Nat]
    BY DEF IInv, TypeOK
<1>3. maps' = maps
    <2>1. \A i \in Images : refs'[i] <= refs[i]
        BY <1>1, <1>2 DEF Unload
    <2> QED BY <1>1, <1>2, <2>1, MapsOfHeldImages
<1>4. SessionTypeOK'
    BY <1>1, <1>3 DEF SessionTypeOK
<1>5. ThreadsOwned'
    BY <1>1 DEF ThreadsOwned, RunningIn
<1>6. FreshHandlesAtHome'
    BY <1>1 DEF FreshHandlesAtHome, SessionTypeOK, Handle
<1>7. RunningMapped'
    BY <1>1, <1>3 DEF RunningMapped
<1> QED BY <1>4, <1>5, <1>6, <1>7

\* A new handle is fresh, at home, and has no threads yet.
LEMMA CtxNewSInv ==
    ASSUME SInv, IInv', NEW h \in Handles, CtxNew(h) PROVE SInv'
<1> USE DEF SInv
<1> DEFINE m == Made(gModule, shutdowns)
<1>1. /\ loaded /\ gModule \in Images
      /\ Target("zmq_ctx_new") = gModule
      /\ ThreadEffect("zmq_ctx_new", gModule)
      /\ UNCHANGED table
    BY HandleSymbols, ServedByBinding DEF CtxNew
<1>2. UNCHANGED <<refs, threads, maps, shutdowns>>
    BY <1>1 DEF CtxNew, ThreadEffect
<1>3. /\ h \notin DOMAIN made
      /\ made' = [g \in DOMAIN made \cup {h} |-> IF g = h THEN m ELSE made[g]]
    BY <1>1 DEF CtxNew
<1>4. m = [image |-> gModule, map |-> maps[gModule], shut |-> shutdowns,
           running |-> FALSE]
    BY DEF Made
<1>5. m \in Handle
    BY <1>1, <1>4 DEF SessionTypeOK, Handle
<1> HIDE DEF m
<1>6. SessionTypeOK'
    <2>1. IsFiniteSet(DOMAIN made')
        BY <1>3, FS_AddElement DEF SessionTypeOK
    <2>2. \A g \in DOMAIN made' : made'[g] \in Handle
        BY <1>3, <1>5 DEF SessionTypeOK
    <2> QED BY <1>2, <2>1, <2>2 DEF SessionTypeOK
<1>7. ThreadsOwned'
    <2>1. \A i \in Images : RunningIn(i)' = RunningIn(i)
        BY <1>3, <1>4 DEF RunningIn
    <2> QED BY <1>2, <2>1 DEF ThreadsOwned
<1>8. FreshHandlesAtHome'
    BY <1>1, <1>2, <1>3, <1>4 DEF FreshHandlesAtHome, table, SessionTypeOK
<1>9. RunningMapped'
    BY <1>2, <1>3, <1>4 DEF RunningMapped
<1> QED BY <1>6, <1>7, <1>8, <1>9

\* The first socket adds the context's thread to those of its image.
LEMMA FirstSocketSInv ==
    ASSUME SInv, IInv', NEW h \in Handles, FirstSocket(h) PROVE SInv'
<1> USE DEF SInv
<1> DEFINE i == gModule
<1>1. /\ loaded /\ i \in Images
      /\ Target("zmq_socket") = i
      /\ ThreadEffect("zmq_socket", i)
      /\ UNCHANGED table
    BY HandleSymbols, ServedByBinding DEF FirstSocket
<1>2. /\ h \in DOMAIN made /\ ~made[h].running
      /\ made[h].image = i /\ maps[i] = made[h].map
      /\ made' = [made EXCEPT ![h].running = TRUE]
      /\ UNCHANGED <<maps, shutdowns>>
    BY <1>1 DEF FirstSocket, Home
<1>3. threads' = [threads EXCEPT ![i] = @ + 1]
    BY <1>1 DEF FirstSocket, ThreadEffect
<1> HIDE DEF i
<1>4. /\ DOMAIN made' = DOMAIN made
      /\ \A g \in DOMAIN made :
            /\ g # h => made'[g] = made[g]
            /\ made'[h] = [made[h] EXCEPT !.running = TRUE]
    BY <1>2
<1>5. \A g \in DOMAIN made :
          /\ made'[g] \in Handle
          /\ made'[g].image = made[g].image
          /\ made'[g].map = made[g].map
          /\ made'[g].shut = made[g].shut
          /\ made'[g].running <=> made[g].running \/ g = h
    BY <1>2, <1>4 DEF SessionTypeOK, Handle
<1>6. SessionTypeOK'
    BY <1>2, <1>4, <1>5 DEF SessionTypeOK
<1>7. ThreadsOwned'
    <2>1. \A j \in Images :
              RunningIn(j)' = IF j = i THEN RunningIn(j) \cup {h}
                                       ELSE RunningIn(j)
        BY <1>2, <1>4, <1>5 DEF RunningIn
    <2>2. IsFiniteSet(RunningIn(i))
        <3>1. RunningIn(i) \in SUBSET DOMAIN made
            BY DEF RunningIn
        <3> QED BY <3>1, FS_Subset DEF SessionTypeOK
    <2>3. Cardinality(RunningIn(i) \cup {h}) = Cardinality(RunningIn(i)) + 1
        BY <1>2, <2>2, FS_AddElement DEF RunningIn
    <2>4. threads \in [Images -> 0..MaxThreads]
        BY DEF IInv, TypeOK
    <2> QED BY <1>1, <1>3, <2>1, <2>3, <2>4 DEF ThreadsOwned
<1>8. FreshHandlesAtHome'
    BY <1>1, <1>2, <1>4, <1>5 DEF FreshHandlesAtHome, table
<1>9. RunningMapped'
    BY <1>2, <1>4, <1>5 DEF RunningMapped
<1> QED BY <1>6, <1>7, <1>8, <1>9

\* ZmqCtxTerm takes a context's thread, if it has one, and its handle away.
LEMMA CtxTermSInv ==
    ASSUME SInv, IInv', NEW h \in Handles, CtxTerm(h) PROVE SInv'
<1> USE DEF SInv
<1> DEFINE i == gModule
<1>1. /\ loaded /\ i \in Images
      /\ Target("zmq_ctx_term") = i
      /\ ThreadEffect("zmq_ctx_term", i)
      /\ UNCHANGED table
    BY HandleSymbols, ServedByBinding DEF CtxTerm
<1>2. /\ h \in DOMAIN made /\ made[h].image = i
      /\ (threads' # threads) = made[h].running
      /\ made' = [g \in DOMAIN made \ {h} |-> made[g]]
      /\ CountMaps
      /\ shutdowns' = shutdowns
    BY <1>1 DEF CtxTerm, Home
<1> HIDE DEF i
<1>3. /\ refs \in [Images -> Nat] /\ refs' \in [Images -> Nat]
      /\ threads \in [Images -> 0..MaxThreads]
      /\ threads' \in [Images -> 0..MaxThreads]
    BY DEF IInv, TypeOK
<1>4. maps' = maps
    <2>1. \A j \in Images : refs'[j] <= refs[j]
        BY <1>1, <1>3 DEF ThreadEffect
    <2> QED BY <1>2, <1>3, <2>1, MapsOfHeldImages
<1>5. SessionTypeOK'
    <2>1. IsFiniteSet(DOMAIN made')
        BY <1>2, FS_RemoveElement DEF SessionTypeOK
    <2> QED BY <1>2, <1>4, <2>1 DEF SessionTypeOK
<1>6. ThreadsOwned'
    <2>1. \A j \in Images : RunningIn(j)' = RunningIn(j) \ {h}
        BY <1>2 DEF RunningIn
    <2>2. CASE ~made[h].running
        <3>1. threads' = threads
            BY <1>2, <2>2
        <3>2. \A j \in Images : RunningIn(j)' = RunningIn(j)
            BY <2>1, <2>2 DEF RunningIn
        <3> QED BY <3>1, <3>2 DEF ThreadsOwned
    <2>3. CASE made[h].running
        <3>1. threads' = [threads EXCEPT ![i] = @ - 1]
            BY <1>1, <1>2, <2>3 DEF ThreadEffect
        <3>2. h \in RunningIn(i) /\ \A j \in Images \ {i} : h \notin RunningIn(j)
            BY <1>2, <2>3 DEF RunningIn
        <3>3. IsFiniteSet(RunningIn(i))
            <4>1. RunningIn(i) \in SUBSET DOMAIN made
                BY DEF RunningIn
            <4> QED BY <4>1, FS_Subset DEF SessionTypeOK
        <3>4. Cardinality(RunningIn(i) \ {h}) = Cardinality(RunningIn(i)) - 1
            BY <3>2, <3>3, FS_RemoveElement
        <3>5. \A j \in Images :
                  RunningIn(j)' = IF j = i THEN RunningIn(j) \ {h}
                                           ELSE RunningIn(j)
            BY <2>1, <3>2
        <3> QED BY <1>1, <1>3, <3>1, <3>4, <3>5 DEF ThreadsOwned
    <2> QED BY <2>2, <2>3
<1>7. FreshHandlesAtHome'
    BY <1>1, <1>2, <1>4 DEF FreshHandlesAtHome, table
<1>8. RunningMapped'
    BY <1>2, <1>4 DEF RunningMapped
<1> QED BY <1>5, <1>6, <1>7, <1>8

LEMMA StepSInv == SInv /\ [SessionNext]_allVars => SInv'
<1> SUFFICES ASSUME SInv, [SessionNext]_allVars PROVE SInv'
    OBVIOUS
<1>1. IInv'
    BY SessionStepsLoader, StepIInv DEF SInv
<1>2. ASSUME NEW d \in Dirs, LibraryInit(d) PROVE SInv'
    BY <1>1, <1>2, LibraryInitSInv
<1>3. CASE LibraryShutdown
    BY <1>1, <1>3, LibraryShutdownSInv
<1>4. CASE LibraryLoaded
    BY <1>1, <1>4, QuietSInv DEF LibraryLoaded, IsLoaded
<1>5. ASSUME NEW s \in Symbols, NEW nullArg \in BOOLEAN, OtherCall(s, nullArg)
      PROVE  SInv'
    BY <1>1, <1>5, QuietSInv DEF OtherCall, Call, CallDispatched, CallRefused
<1>6. ASSUME NEW h \in Handles, CtxNew(h) PROVE SInv'
    BY <1>1, <1>6, CtxNewSInv
<1>7. ASSUME NEW h \in Handles, FirstSocket(h) PROVE SInv'
    BY <1>1, <1>7, FirstSocketSInv
<1>8. ASSUME NEW h \in Handles, CtxTerm(h) PROVE SInv'
    BY <1>1, <1>8, CtxTermSInv
<1>9. ASSUME NEW h \in Handles, Use(h) PROVE SInv'
    <2>1. UNCHANGED table /\ ThreadEffect("zmq_ctx_shutdown", gModule)
        BY <1>9, HandleSymbols, ServedByBinding DEF Use, SInv
    <2> QED BY <1>1, <1>9, <2>1, QuietSInv DEF Use, ThreadEffect
<1>10. ASSUME NEW h \in Handles, UseRefused(h) PROVE SInv'
    BY <1>1, <1>10, QuietSInv DEF UseRefused, CallRefused
<1>11. CASE UNCHANGED allVars
    BY <1>1, <1>11, QuietSInv DEF allVars, vars, session, table
<1> QED
    BY <1>2, <1>3, <1>4, <1>5, <1>6, <1>7, <1>8, <1>9, <1>10, <1>11
       DEF SessionNext

\* Every thread of the loader belongs to exactly the handles that say so, and a
\* handle that runs is of a mapping that is still there.
THEOREM SessionInvariance == SessionSpec => []SInv
<1> QED BY InitSInv, StepSInv, PTL DEF SessionSpec

-----------------------------------------------------------------------------
(* What a session's scripts rely on.                                       *)

\* A context whose threads run keeps its image mapped, and in the mapping it
\* was made in, for every number of contexts, shutdowns and libraries.
THEOREM RunningContextsAlwaysStay == SessionSpec => []RunningContextsStay
<1>1. SInv => RunningContextsStay
    BY RunningHoldsImage DEF SInv, RunningMapped, RunningContextsStay
<1> QED BY <1>1, SessionInvariance, PTL

\* What a served keyword reaches with a handle that is fresh is its maker.
LEMMA FreshReachesMaker ==
    ASSUME SInv, NEW s \in Symbols, CallDispatched(s, FALSE),
           NEW h \in DOMAIN made, use' = Reaches(h, s),
           UNCHANGED shutdowns
    PROVE  HandlesReachTheirMaker'
<1>1. Target(s) = gModule /\ gModule # Wild
    BY ServedByBinding DEF SInv
<1>2. use' = [of |-> {made[h]}, image |-> gModule, map |-> maps[gModule]]
    BY <1>1 DEF Reaches
<1> QED
    BY <1>2 DEF SInv, FreshHandlesAtHome, HandlesReachTheirMaker

\* A handle reaches the library that made it, in the mapping it was made in,
\* until the script shuts the library down.
THEOREM HandlesAlwaysReachTheirMaker == SessionSpec => []HandlesReachTheirMaker
<1>1. SessionInit => HandlesReachTheirMaker
    BY DEF SessionInit, NoUse, HandlesReachTheirMaker
<1>2. SInv /\ HandlesReachTheirMaker /\ [SessionNext]_allVars
        => HandlesReachTheirMaker'
    <2> SUFFICES ASSUME SInv, HandlesReachTheirMaker, [SessionNext]_allVars
                 PROVE  HandlesReachTheirMaker'
        OBVIOUS
    <2>1. ASSUME use' = NoUse PROVE HandlesReachTheirMaker'
        BY <2>1 DEF NoUse, HandlesReachTheirMaker
    <2>2. ASSUME NEW h \in Handles, FirstSocket(h) \/ CtxTerm(h) \/ Use(h)
          PROVE  HandlesReachTheirMaker'
        BY <2>2, HandleSymbols, FreshReachesMaker DEF FirstSocket, CtxTerm, Use
    <2>3. CASE UNCHANGED allVars
        BY <2>3 DEF allVars, session, HandlesReachTheirMaker
    <2> QED
        BY <2>1, <2>2, <2>3
           DEF SessionNext, LibraryInit, LibraryShutdown, LibraryLoaded,
               OtherCall, CtxNew, UseRefused
<1> QED BY <1>1, <1>2, SessionInvariance, PTL DEF SessionSpec

\* What is proved of the loader holds of a session, which only makes calls of
\* the loader: no call jumps through a pointer that leads nowhere, whatever
\* contexts the script has and whatever libraries it has bound before.
THEOREM SessionCallsNeverWild == SessionSpec => []CallsNeverWild
<1> QED BY SessionRefinesLoader, CallsAreNeverWild, PTL

\* A session meets the abstract binding that the executors are modelled over.
THEOREM SessionImplementsLibrary == SessionSpec => ImplementsLibrary
<1> QED BY SessionRefinesLoader, LoaderImplementsLibrary, PTL

=============================================================================
