-------------------------- MODULE ZmqDynloadProofs --------------------------
(***************************************************************************)
(* Proofs about the libzmq loader, for every set of images, folders and    *)
(* directory arguments and every bound.                                    *)
(***************************************************************************)
EXTENDS ZmqDynload, TLAPS

\* The inductive invariant. None of its parts is inductive alone: to know
\* that Unload gives back a reference it has, one needs the balance; to know
\* what it unloads, the table; and the table is only as good as its type.
IInv ==
    /\ TypeOK
    /\ TableAllOrNothing
    /\ ReferencesBalance
    /\ SearchDirFollowsBinding

LEMMA AnswerType ==
    ASSUME NEW op \in {"start", "init", "shutdown", "loaded", "call",
                     "null call"},
           NEW arg \in {"none"} \cup Dirs \cup Symbols,
           NEW ok \in BOOLEAN,
           NEW by \in Images \cup {NoImage, Wild}
    PROVE  Answer(op, arg, ok, by) \in Answers
BY DEF Answer, Answers

LEMMA CallAnswerType ==
    ASSUME NEW s \in Symbols, NEW nullArg \in BOOLEAN, NEW ok \in BOOLEAN,
           NEW by \in Images \cup {NoImage, Wild}
    PROVE  Answer(CallKind(nullArg), s, ok, by) \in Answers
<1>1. CallKind(nullArg) \in {"call", "null call"}
    BY DEF CallKind
<1> QED BY <1>1, AnswerType

LEMMA InitIInv == Init => IInv
<1> SUFFICES ASSUME Init PROVE IInv
    OBVIOUS
<1> USE ImagesAssumption, FoldersAssumption, BoundsAssumption DEF Init
<1>1. TypeOK
    <2>1. answer \in Answers
        BY AnswerType
    <2>2. ptr \in [Symbols -> Images \cup {NoImage}]
        BY DEF NullTable
    <2>3. refs \in [Images -> Nat] /\ threads \in [Images -> 0..MaxThreads]
        OBVIOUS
    <2> QED BY <2>1, <2>2, <2>3 DEF TypeOK
<1>2. TableAllOrNothing
    BY DEF TableAllOrNothing
<1>3. ReferencesBalance
    BY DEF ReferencesBalance
<1>4. SearchDirFollowsBinding
    BY DEF SearchDirFollowsBinding
<1> QED BY <1>1, <1>2, <1>3, <1>4 DEF IInv

\* A directory that is not refused may have the loader bind an image: the
\* only way in which the table is filled.
LEMMA LoadBoundIInv ==
    ASSUME IInv, NEW d \in Dirs, LoadBound(d) PROVE IInv'
<1> USE ImagesAssumption, FoldersAssumption, DirsAssumption, BoundsAssumption
<1> DEFINE i == DllAt[DirFolder[d]]
<1>1. /\ i \in Images /\ BindRequiredSymbols(i)
      /\ ~loaded /\ gModule = NoImage
      /\ gModule' = i /\ ptr' = Resolve(i) /\ loaded' = TRUE
      /\ refs' = [refs EXCEPT ![i] = @ + 1]
      /\ dllDir' = DirFolder[d] /\ DirFolder[d] \in Folders
      /\ answer' = Answer("init", d, TRUE, NoImage)
      /\ threads' = threads
    BY DEF LoadBound, MayLoad, IInv, TableAllOrNothing
<1> HIDE DEF i
<1>2. TypeOK'
    <2>1. answer' \in Answers
        BY <1>1, AnswerType
    <2>2. ptr' \in [Symbols -> Images \cup {NoImage}]
        BY <1>1 DEF Resolve
    <2>3. refs' \in [Images -> Nat]
        BY <1>1 DEF IInv, TypeOK
    <2> QED BY <1>1, <2>1, <2>2, <2>3 DEF IInv, TypeOK
<1>3. TableAllOrNothing'
    BY <1>1 DEF TableAllOrNothing, BindRequiredSymbols, Resolve
<1>4. ReferencesBalance'
    BY <1>1 DEF IInv, TypeOK, ReferencesBalance
<1>5. SearchDirFollowsBinding'
    BY <1>1 DEF SearchDirFollowsBinding, i
<1> QED BY <1>2, <1>3, <1>4, <1>5 DEF IInv

\* Every other way out of the load leaves the process as it was.
LEMMA LoadRefusalsKeepAll ==
    ASSUME IInv, NEW d \in Dirs, LoadDirectory(d), ~LoadBound(d)
    PROVE  /\ UNCHANGED <<table, refs, threads, dllDir>>
           /\ \E ok \in BOOLEAN : /\ answer' = Answer("init", d, ok, NoImage)
                                  /\ ok => loaded
<1> USE DEF IInv, TableAllOrNothing, SearchDirFollowsBinding, table
<1>1. CASE LoadRefusedBadDirectory(d)
    BY <1>1 DEF LoadRefusedBadDirectory
<1>2. CASE LoadAlreadyLoaded(d)
    BY <1>2 DEF LoadAlreadyLoaded
<1>3. CASE LoadRefusedLongPath(d)
    BY <1>3 DEF LoadRefusedLongPath
<1>4. CASE LoadNotFound(d)
    BY <1>4 DEF LoadNotFound, MayLoad
<1>5. CASE LoadIncomplete(d)
    BY <1>5 DEF LoadIncomplete, MayLoad, ClearTable, TypeOK
<1> QED BY <1>1, <1>2, <1>3, <1>4, <1>5 DEF LoadDirectory

LEMMA UnloadIInv == IInv /\ Unload => IInv'
<1> SUFFICES ASSUME IInv, Unload PROVE IInv'
    OBVIOUS
<1> USE ImagesAssumption, FoldersAssumption, BoundsAssumption
<1>1. TypeOK'
    <2>1. answer' \in Answers
        BY AnswerType DEF Unload
    <2>2. ptr' \in [Symbols -> Images \cup {NoImage}]
        BY DEF Unload, ClearTable, NullTable
    <2>3. refs' \in [Images -> Nat]
        BY DEF IInv, Unload, TypeOK, ReferencesBalance
    <2> QED BY <2>1, <2>2, <2>3 DEF IInv, Unload, ClearTable, TypeOK
<1>2. TableAllOrNothing'
    BY DEF Unload, ClearTable, TableAllOrNothing
<1>3. ReferencesBalance'
    BY DEF IInv, Unload, ClearTable, TypeOK, ReferencesBalance
<1>4. SearchDirFollowsBinding'
    BY DEF Unload, ClearTable, SearchDirFollowsBinding
<1> QED BY <1>1, <1>2, <1>3, <1>4 DEF IInv

\* A thunk that dispatches reaches the bound image, which has the symbol.
LEMMA DispatchReachesBinding ==
    ASSUME IInv, NEW s \in Symbols, NEW nullArg \in BOOLEAN,
           Dispatches(s, nullArg)
    PROVE  /\ loaded /\ gModule \in Images
           /\ s \in Exports[gModule]
           /\ Target(s) = gModule
<1>1. loaded /\ gModule \in Images /\ ptr = Resolve(gModule)
    BY DEF IInv, TableAllOrNothing, Dispatches
<1>2. s \in Exports[gModule]
    BY <1>1 DEF Dispatches, Symbols, Resolve, IInv, TableAllOrNothing,
                BindRequiredSymbols
<1>3. ptr[s] = gModule
    BY <1>1, <1>2 DEF Resolve
<1>4. refs[gModule] > 0
    BY <1>1, BoundsAssumption DEF IInv, TypeOK, ReferencesBalance
<1> QED BY <1>1, <1>2, <1>3, <1>4, ImagesAssumption DEF Target

\* Threads of an image and references on it come and go together.
LEMMA ThreadsChangeIInv ==
    ASSUME IInv, NEW i \in Images, NEW t \in 0..MaxThreads, NEW r \in Nat,
           threads' = [threads EXCEPT ![i] = t],
           refs' = [refs EXCEPT ![i] = r],
           r - t = refs[i] - threads[i],
           UNCHANGED <<table, dllDir>>,
           answer' \in Answers
    PROVE  IInv'
<1> USE BoundsAssumption
<1>1. /\ threads' \in [Images -> 0..MaxThreads]
      /\ refs' \in [Images -> Nat]
    BY DEF IInv, TypeOK
<1>2. TypeOK'
    BY <1>1 DEF IInv, TypeOK, table
<1>3. ReferencesBalance'
    BY DEF IInv, TypeOK, ReferencesBalance, table
<1>4. TableAllOrNothing' /\ SearchDirFollowsBinding'
    BY DEF IInv, TableAllOrNothing, SearchDirFollowsBinding, table
<1> QED BY <1>2, <1>3, <1>4 DEF IInv

LEMMA CallIInv ==
    ASSUME IInv, NEW s \in Symbols, NEW nullArg \in BOOLEAN, Call(s, nullArg)
    PROVE  IInv'
<1> USE ImagesAssumption, BoundsAssumption
<1>1. UNCHANGED <<table, dllDir>>
    BY DEF Call, CallDispatched, CallRefused
<1>2. ASSUME UNCHANGED <<refs, threads>>, answer' \in Answers
      PROVE  IInv'
    BY <1>1, <1>2 DEF IInv, TypeOK, TableAllOrNothing, ReferencesBalance,
                      SearchDirFollowsBinding, table
<1>3. CASE CallRefused(s, nullArg)
    BY <1>2, <1>3, CallAnswerType DEF CallRefused
<1>4. CASE CallDispatched(s, nullArg)
    <2> DEFINE i == gModule
    <2>1. i \in Images /\ Target(s) = i
        BY <1>4, DispatchReachesBinding DEF CallDispatched
    <2>2. answer' = Answer(CallKind(nullArg), s, TRUE, i) /\ ThreadEffect(s, i)
        BY <1>4, <2>1 DEF CallDispatched
    <2>3. CASE UNCHANGED <<refs, threads>>
        BY <1>2, <2>1, <2>2, <2>3, CallAnswerType
    <2>4. /\ threads[i] \in 0..MaxThreads /\ refs[i] \in Nat
          /\ refs[i] > threads[i]
          /\ answer' \in Answers
        <3>1. answer' \in Answers
            BY <2>1, <2>2, CallAnswerType
        <3>2. threads[i] \in 0..MaxThreads /\ refs[i] \in Nat
            BY <2>1 DEF IInv, TypeOK
        <3>3. refs[i] = threads[i] + 1
            BY <2>1, <3>2 DEF IInv, ReferencesBalance
        <3> QED BY <3>1, <3>2, <3>3
    <2>5. CASE /\ threads[i] < MaxThreads
               /\ threads' = [threads EXCEPT ![i] = @ + 1]
               /\ refs' = [refs EXCEPT ![i] = @ + 1]
        <3> DEFINE t == threads[i] + 1
                   r == refs[i] + 1
        <3>1. t \in 0..MaxThreads /\ r \in Nat /\ r - t = refs[i] - threads[i]
            BY <2>4, <2>5
        <3>2. /\ threads' = [threads EXCEPT ![i] = t]
              /\ refs' = [refs EXCEPT ![i] = r]
            BY <2>5
        <3> HIDE DEF t, r
        <3> QED BY <1>1, <2>1, <2>4, <3>1, <3>2, ThreadsChangeIInv
    <2>6. CASE /\ threads[i] > 0
               /\ threads' = [threads EXCEPT ![i] = @ - 1]
               /\ refs' = [refs EXCEPT ![i] = @ - 1]
        <3> DEFINE t == threads[i] - 1
                   r == refs[i] - 1
        <3>1. t \in 0..MaxThreads /\ r \in Nat /\ r - t = refs[i] - threads[i]
            BY <2>4, <2>6
        <3>2. /\ threads' = [threads EXCEPT ![i] = t]
              /\ refs' = [refs EXCEPT ![i] = r]
            BY <2>6
        <3> HIDE DEF t, r
        <3> QED BY <1>1, <2>1, <2>4, <3>1, <3>2, ThreadsChangeIInv
    <2> QED BY <2>2, <2>3, <2>5, <2>6 DEF ThreadEffect
<1> QED BY <1>3, <1>4 DEF Call

LEMMA StepIInv == IInv /\ [Next]_vars => IInv'
<1> SUFFICES ASSUME IInv, [Next]_vars PROVE IInv'
    OBVIOUS
<1> USE ImagesAssumption, BoundsAssumption
<1>1. ASSUME NEW d \in Dirs, LoadDirectory(d) PROVE IInv'
    <2>1. CASE LoadBound(d)
        BY <2>1, LoadBoundIInv
    <2>2. CASE ~LoadBound(d)
        <3>1. UNCHANGED <<table, refs, threads, dllDir>>
            BY <1>1, <2>2, LoadRefusalsKeepAll
        <3>2. answer' \in Answers
            <4>1. PICK ok \in BOOLEAN : answer' = Answer("init", d, ok, NoImage)
                BY <1>1, <2>2, LoadRefusalsKeepAll
            <4> QED BY <4>1, AnswerType
        <3> QED
            BY <3>1, <3>2 DEF IInv, TypeOK, TableAllOrNothing, table,
                              ReferencesBalance, SearchDirFollowsBinding
    <2> QED BY <2>1, <2>2
<1>2. CASE Unload
    BY <1>2, UnloadIInv
<1>3. CASE IsLoaded
    <2>1. answer' \in Answers
        BY <1>3, AnswerType DEF IsLoaded, IInv, TypeOK
    <2> QED
        BY <1>3, <2>1 DEF IsLoaded, IInv, TypeOK, TableAllOrNothing, table,
                          ReferencesBalance, SearchDirFollowsBinding
<1>4. ASSUME NEW s \in Symbols, NEW nullArg \in BOOLEAN, Call(s, nullArg)
      PROVE  IInv'
    BY <1>4, CallIInv
<1>5. CASE UNCHANGED vars
    BY <1>5 DEF vars, IInv, TypeOK, TableAllOrNothing,
                ReferencesBalance, SearchDirFollowsBinding
<1> QED BY <1>1, <1>2, <1>3, <1>4, <1>5 DEF Next

\* The inductive invariant holds in every reachable state.
THEOREM Invariance == Spec => []IInv
<1> QED BY InitIInv, StepIInv, PTL DEF Spec

\* No sequence of loads, unloads and calls takes a variable out of its type:
\* the reference counts that FreeLibrary lowers never go below zero.
THEOREM TypeCorrect == Spec => []TypeOK
<1>1. IInv => TypeOK
    BY DEF IInv
<1> QED BY <1>1, Invariance, PTL

\* Binding is all or nothing, for every image and every way to fail.
THEOREM TableAlwaysAllOrNothing == Spec => []TableAllOrNothing
<1>1. IInv => TableAllOrNothing
    BY DEF IInv
<1> QED BY <1>1, Invariance, PTL

\* Every reference on an image belongs to the table or to a thread.
THEOREM ReferencesAlwaysBalance == Spec => []ReferencesBalance
<1>1. IInv => ReferencesBalance
    BY DEF IInv
<1> QED BY <1>1, Invariance, PTL

\* No pointer of the table and no thread is ever in an unmapped image.
THEOREM NothingEverDangles == Spec => []NothingDangles
<1>1. ASSUME IInv PROVE NothingDangles
    <2>1. ASSUME NEW s \in Symbols, ptr[s] # NoImage
          PROVE  refs[ptr[s]] > 0
        <3>1. gModule \in Images /\ ptr = Resolve(gModule)
            BY <1>1, <2>1 DEF IInv, TableAllOrNothing, NullTable
        <3>2. ptr[s] = gModule
            BY <2>1, <3>1 DEF Resolve
        <3> QED
            BY <1>1, <3>1, <3>2, BoundsAssumption
               DEF IInv, TypeOK, ReferencesBalance
    <2>2. ASSUME NEW i \in Images, threads[i] > 0 PROVE refs[i] > 0
        BY <1>1, <2>2, BoundsAssumption DEF IInv, TypeOK, ReferencesBalance
    <2> QED BY <2>1, <2>2 DEF NothingDangles
<1> QED BY <1>1, Invariance, PTL

\* The extra search directory always belongs to the bound image.
THEOREM SearchDirAlwaysFollows == Spec => []SearchDirFollowsBinding
<1>1. IInv => SearchDirFollowsBinding
    BY DEF IInv
<1> QED BY <1>1, Invariance, PTL

-----------------------------------------------------------------------------
(* What callers see.                                                       *)

\* No thunk ever jumps through a NULL or dangling pointer.
THEOREM CallsAreNeverWild == Spec => []CallsNeverWild
<1> USE ImagesAssumption
<1>1. Init => CallsNeverWild
    BY DEF Init, CallsNeverWild, Answer
<1>2. IInv /\ CallsNeverWild /\ [Next]_vars => CallsNeverWild'
    <2> SUFFICES ASSUME IInv, CallsNeverWild, [Next]_vars
                 PROVE  CallsNeverWild'
        OBVIOUS
    <2>1. ASSUME NEW d \in Dirs, LoadDirectory(d) PROVE CallsNeverWild'
        BY <2>1 DEF LoadDirectory, LoadRefusedBadDirectory, LoadBound,
                    LoadAlreadyLoaded, LoadRefusedLongPath, LoadNotFound,
                    LoadIncomplete, CallsNeverWild, Answer
    <2>2. CASE Unload
        BY <2>2 DEF Unload, CallsNeverWild, Answer
    <2>3. CASE IsLoaded
        BY <2>3 DEF IsLoaded, CallsNeverWild, Answer
    <2>4. ASSUME NEW s \in Symbols, NEW nullArg \in BOOLEAN,
                 CallDispatched(s, nullArg)
          PROVE  CallsNeverWild'
        <3>1. gModule \in Images /\ Target(s) = gModule
            BY <2>4, DispatchReachesBinding DEF CallDispatched
        <3> QED BY <2>4, <3>1 DEF CallDispatched, CallsNeverWild, Answer
    <2>5. ASSUME NEW s \in Symbols, NEW nullArg \in BOOLEAN,
                 CallRefused(s, nullArg)
          PROVE  CallsNeverWild'
        BY <2>5 DEF CallRefused, CallsNeverWild, Answer
    <2>6. CASE UNCHANGED vars
        BY <2>6 DEF vars, CallsNeverWild
    <2> QED BY <2>1, <2>2, <2>3, <2>4, <2>5, <2>6 DEF Next, Call
<1> QED BY <1>1, <1>2, Invariance, PTL DEF Spec

\* A bound table changes only by being unloaded.
THEOREM BindingStaysStable == Spec => BindingIsStable
<1>1. IInv /\ [Next]_vars =>
        [loaded => \/ UNCHANGED table
                   \/ ~loaded' /\ answer'.op = "shutdown"]_vars
    <2> SUFFICES ASSUME IInv, Next, loaded
                 PROVE  \/ UNCHANGED table
                        \/ ~loaded' /\ answer'.op = "shutdown"
        OBVIOUS
    <2>1. ASSUME NEW d \in Dirs, LoadDirectory(d) PROVE UNCHANGED table
        <3>1. ~LoadBound(d)
            BY DEF LoadBound, MayLoad
        <3> QED BY <2>1, <3>1, LoadRefusalsKeepAll
    <2>2. CASE Unload
        BY <2>2 DEF Unload, ClearTable, Answer
    <2>3. CASE IsLoaded
        BY <2>3 DEF IsLoaded
    <2>4. ASSUME NEW s \in Symbols, NEW nullArg \in BOOLEAN, Call(s, nullArg)
          PROVE  UNCHANGED table
        BY <2>4 DEF Call, CallDispatched, CallRefused
    <2> QED BY <2>1, <2>2, <2>3, <2>4 DEF Next
<1> QED BY <1>1, Invariance, PTL DEF Spec, BindingIsStable

\* An init that reports failure leaves the process as it found it.
THEOREM FailedLoadsChangeNothing == Spec => FailedLoadChangesNothing
<1>1. IInv /\ [Next]_vars =>
        [answer'.op = "init" /\ ~answer'.ok
           => UNCHANGED <<table, refs, threads, dllDir>>]_vars
    <2> SUFFICES ASSUME IInv, Next, answer'.op = "init", ~answer'.ok
                 PROVE  UNCHANGED <<table, refs, threads, dllDir>>
        OBVIOUS
    <2>1. ASSUME NEW d \in Dirs, LoadDirectory(d)
          PROVE  UNCHANGED <<table, refs, threads, dllDir>>
        <3>1. ~LoadBound(d)
            BY DEF LoadBound, Answer
        <3> QED BY <2>1, <3>1, LoadRefusalsKeepAll
    <2>2. ~Unload
        BY DEF Unload, Answer
    <2>3. CASE IsLoaded
        BY <2>3 DEF IsLoaded
    <2>4. ASSUME NEW s \in Symbols, NEW nullArg \in BOOLEAN
          PROVE  ~Call(s, nullArg)
        <3>1. CallKind(nullArg) # "init"
            BY DEF CallKind
        <3> QED BY <3>1 DEF Call, CallDispatched, CallRefused, Answer
    <2> QED BY <2>1, <2>2, <2>3, <2>4 DEF Next
<1> QED BY <1>1, Invariance, PTL DEF Spec, FailedLoadChangesNothing

-----------------------------------------------------------------------------
(* The loader implements the abstract binding.                             *)

LEMMA InitRefines == Init => Library!Init
BY DEF Init, Library!Init, Answer, Library!Answer

\* Both modules name the same exports.
LEMMA SameSymbols ==
    /\ Library!RequiredSymbols = RequiredSymbols
    /\ Library!OptionalSymbols = OptionalSymbols
    /\ Library!Symbols = Symbols
BY DEF Library!RequiredSymbols, RequiredSymbols, Library!OptionalSymbols,
       OptionalSymbols, Library!Symbols, Symbols

LEMMA LoadBoundRefines ==
    ASSUME IInv, NEW d \in Dirs, LoadBound(d) PROVE Library!Open(d)
<1>1. DllAt[DirFolder[d]] # NoImage /\ BindRequiredSymbols(DllAt[DirFolder[d]])
    BY DEF LoadBound
<1> QED
    BY <1>1, SameSymbols DEF LoadBound, MayLoad, Library!Open, Answer,
           BindRequiredSymbols, Library!Complete, Library!Answer

LEMMA LoadRefusalsRefine ==
    ASSUME IInv, NEW d \in Dirs, LoadDirectory(d), ~LoadBound(d)
    PROVE  Library!KeepBinding(d)
<1>1. UNCHANGED <<loaded, gModule>>
    BY LoadRefusalsKeepAll DEF table
<1>2. PICK ok \in BOOLEAN : /\ answer' = Answer("init", d, ok, NoImage)
                            /\ ok => loaded
    BY LoadRefusalsKeepAll
<1>3. loaded => gModule # NoImage
    BY ImagesAssumption DEF IInv, TableAllOrNothing
<1> QED
    BY <1>1, <1>2, <1>3 DEF Library!KeepBinding, Answer, Library!Answer

\* A thunk dispatches exactly when the abstract binding serves the call.
LEMMA DispatchesIffServed ==
    ASSUME IInv, NEW s \in Symbols, NEW nullArg \in BOOLEAN
    PROVE  Dispatches(s, nullArg) <=> Library!Served(s, nullArg)
<1>1. CASE loaded
    <2>1. gModule \in Images /\ gModule # NoImage /\ ptr = Resolve(gModule)
        BY <1>1, ImagesAssumption DEF IInv, TableAllOrNothing
    <2>2. s \in OptionalSymbols => (ptr[s] # NoImage <=> s \in Exports[gModule])
        BY <2>1 DEF Resolve
    <2>3. s \notin OptionalSymbols => s \in Exports[gModule]
        BY <1>1 DEF IInv, TableAllOrNothing, BindRequiredSymbols, Symbols
    <2> QED BY <1>1, <2>1, <2>2, <2>3, SameSymbols
           DEF Dispatches, Library!Served
<1>2. CASE ~loaded
    BY <1>2 DEF Dispatches, Library!Served
<1> QED BY <1>1, <1>2

LEMMA CallRefines ==
    ASSUME IInv, NEW s \in Symbols, NEW nullArg \in BOOLEAN, Call(s, nullArg)
    PROVE  Library!Call(s, nullArg)
<1>1. UNCHANGED <<loaded, gModule>>
    BY DEF Call, CallDispatched, CallRefused, table
<1>2. CASE CallRefused(s, nullArg)
    <2>1. Library!Served(s, nullArg) = FALSE
        <3>1. ~Library!Served(s, nullArg)
            BY <1>2, DispatchesIffServed DEF CallRefused
        <3> QED BY <3>1 DEF Library!Served
    <2> QED
        BY <1>1, <1>2, <2>1
           DEF CallRefused, Library!Call, Answer, Library!Answer,
               CallKind, Library!CallKind
<1>3. CASE CallDispatched(s, nullArg)
    <2>1. Dispatches(s, nullArg) /\ Library!Served(s, nullArg)
        BY <1>3, DispatchesIffServed DEF CallDispatched
    <2>2. loaded /\ Target(s) = gModule
        BY <2>1, DispatchReachesBinding
    <2> QED
        BY <1>1, <1>3, <2>1, <2>2
           DEF CallDispatched, Library!Call, Answer, Library!Answer,
               CallKind, Library!CallKind
<1> QED BY <1>2, <1>3 DEF Call

\* Callers of the thunks see a library that binds one complete image at a
\* time and serves every call it has the symbol for.
THEOREM LoaderImplementsLibrary == Spec => ImplementsLibrary
<1>1. IInv /\ [Next]_vars => [Library!Next]_(Library!vars)
    <2> SUFFICES ASSUME IInv, [Next]_vars
                 PROVE  [Library!Next]_(Library!vars)
        OBVIOUS
    <2>1. ASSUME NEW d \in Dirs, LoadDirectory(d) PROVE Library!Next
        BY <2>1, LoadBoundRefines, LoadRefusalsRefine DEF Library!Next
    <2>2. ASSUME Unload PROVE Library!Next
        BY <2>2 DEF Unload, ClearTable, Library!Next, Library!Close, Answer,
                    Library!Answer
    <2>3. ASSUME IsLoaded PROVE Library!Next
        <3>1. loaded <=> (IF loaded THEN gModule ELSE NoImage) # NoImage
            BY ImagesAssumption DEF IInv, TableAllOrNothing
        <3>2. Library!IsLoaded
            BY <2>3, <3>1 DEF IsLoaded, table, IInv, TypeOK, Answer,
                              Library!IsLoaded, Library!Answer
        <3> QED BY <3>2 DEF Library!Next
    <2>4. ASSUME NEW s \in Symbols, NEW nullArg \in BOOLEAN, Call(s, nullArg)
          PROVE  Library!Next
        BY <2>4, CallRefines, SameSymbols DEF Library!Next
    <2>5. CASE UNCHANGED vars
        BY <2>5 DEF vars, Library!vars
    <2> QED BY <2>1, <2>2, <2>3, <2>4, <2>5 DEF Next
<1> QED
    BY <1>1, InitRefines, Invariance, PTL
       DEF Spec, ImplementsLibrary, Library!Spec

=============================================================================
