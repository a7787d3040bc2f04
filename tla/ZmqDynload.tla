----------------------------- MODULE ZmqDynload -----------------------------
(***************************************************************************)
(* SDK/C/src/zmq_dynload.c: the table g_zmq of function pointers into a    *)
(* libzmq.dll that is loaded at run time, over the state of the Windows    *)
(* loader it works on: how often each image is referenced and which extra  *)
(* directory is searched for dependencies.                                 *)
(*                                                                         *)
(* libzmq starts its I/O threads when a context gets its first socket and  *)
(* ends them in zmq_ctx_term. A running thread holds a reference on the    *)
(* image it executes (external: the C runtime's _beginthreadex).           *)
(***************************************************************************)
EXTENDS ZmqSymbols, Integers

CONSTANTS
    Images, NoImage, Exports,   \* see ZmqLibrary
    Wild,           \* where a NULL or dangling function pointer leads
    Folders,        \* folder names without trailing slashes
    FolderLen,      \* their lengths in bytes
    DllAt,          \* the loadable libzmq.dll in a folder, or NoImage
    DefaultDir,     \* SetDllDirectory(NULL): the default search order
    Dirs,           \* directory arguments a script passes ...
    DirFolder,      \* ... the folder each names
    DirSlashes,     \* ... and its number of trailing slashes
    MaxPath,        \* MAX_PATH
    SuffixLen,      \* the length of "\libzmq.dll"
    MaxThreads      \* bound: contexts of one image with running I/O threads

ASSUME ImagesAssumption ==
    /\ NoImage \notin Images
    /\ Wild \notin Images \cup {NoImage}
    /\ Exports \in [Images -> SUBSET Symbols]
ASSUME FoldersAssumption ==
    /\ DefaultDir \notin Folders
    /\ FolderLen \in [Folders -> Nat]
    /\ DllAt \in [Folders -> Images \cup {NoImage}]
ASSUME DirsAssumption ==
    /\ DirFolder \in [Dirs -> Folders]
    /\ DirSlashes \in [Dirs -> Nat]
ASSUME BoundsAssumption ==
    MaxPath \in Nat /\ SuffixLen \in Nat /\ MaxThreads \in Nat

VARIABLES
    gModule,    \* g_zmq.module
    loaded,     \* g_zmq.loaded
    ptr,        \* the pointers of g_zmq: for each symbol the image it is in
    refs,       \* loader reference count of each image; mapped while > 0
    threads,    \* contexts of each image whose I/O threads are running
    dllDir,     \* the argument of the last SetDllDirectoryA
    answer      \* what the last operation told its caller

table == <<gModule, loaded, ptr>>
vars == <<gModule, loaded, ptr, refs, threads, dllDir, answer>>

Answer(op, arg, ok, by) == [op |-> op, arg |-> arg, ok |-> ok, by |-> by]
CallKind(nullArg) == IF nullArg THEN "null call" ELSE "call"
Answers == [op : {"start", "init", "shutdown", "loaded", "call", "null call"},
            arg : {"none"} \cup Dirs \cup Symbols,
            ok : BOOLEAN,
            by : Images \cup {NoImage, Wild}]

\* memset(&g_zmq, 0, sizeof(g_zmq))
NullTable == [s \in Symbols |-> NoImage]
ClearTable ==
    /\ gModule' = NoImage
    /\ loaded' = FALSE
    /\ ptr' = NullTable

\* GetProcAddress for every symbol of the table.
Resolve(i) == [s \in Symbols |-> IF s \in Exports[i] THEN i ELSE NoImage]
BindRequiredSymbols(i) == RequiredSymbols \subseteq Exports[i]

Init ==
    /\ gModule = NoImage
    /\ loaded = FALSE
    /\ ptr = NullTable
    /\ refs = [i \in Images |-> 0]
    /\ threads = [i \in Images |-> 0]
    /\ dllDir = DefaultDir
    /\ answer = Answer("start", "none", TRUE, NoImage)

-----------------------------------------------------------------------------
(* zmq_dyn_load_directory, one action per way out.                         *)

DirLen(d) == FolderLen[DirFolder[d]] + DirSlashes[d]
BadDirectory(d) == DirLen(d) = 0 \/ DirLen(d) >= MaxPath

\* The path buffer has room for the trimmed folder, the file name and a NUL.
PathFits(d) == FolderLen[DirFolder[d]] + SuffixLen < MaxPath

\* The early returns, taken in this order, that leave everything alone: a
\* directory that is empty or too long; then any other, while loaded.
LoadRefusedBadDirectory(d) ==
    /\ BadDirectory(d)
    /\ answer' = Answer("init", d, FALSE, NoImage)
    /\ UNCHANGED <<table, refs, threads, dllDir>>

LoadAlreadyLoaded(d) ==
    /\ ~BadDirectory(d)
    /\ loaded
    /\ answer' = Answer("init", d, TRUE, NoImage)
    /\ UNCHANGED <<table, refs, threads, dllDir>>

\* Mutant: a library that is already loaded is not noticed.
MayLoadAgain(d) == ~BadDirectory(d)

MayLoad(d) == ~BadDirectory(d) /\ ~loaded

\* _snprintf reports that the path does not fit.
LoadRefusedLongPath(d) ==
    /\ MayLoad(d)
    /\ ~PathFits(d)
    /\ answer' = Answer("init", d, FALSE, NoImage)
    /\ UNCHANGED <<table, refs, threads, dllDir>>

\* Mutant: the search directory is not reset when the load fails.
LoadNotFoundKeepsDir(d) ==
    /\ MayLoad(d)
    /\ gModule' = NoImage
    /\ dllDir' = DirFolder[d]
    /\ answer' = Answer("init", d, FALSE, NoImage)
    /\ UNCHANGED <<loaded, ptr, refs, threads>>

\* LoadLibraryA answers NULL: no loadable file, or one it could not map, or
\* a path that _snprintf cut short without reporting it.
LoadNotFound(d) ==
    /\ MayLoad(d)
    /\ gModule' = NoImage
    /\ dllDir' = DefaultDir
    /\ answer' = Answer("init", d, FALSE, NoImage)
    /\ UNCHANGED <<loaded, ptr, refs, threads>>

\* Mutant: the table is not cleared when binding fails.
LoadIncompleteKeepsTable(d) ==
    LET i == DllAt[DirFolder[d]] IN
    /\ MayLoad(d)
    /\ PathFits(d)
    /\ i # NoImage
    /\ ~BindRequiredSymbols(i)
    /\ gModule' = NoImage
    /\ ptr' = Resolve(i)
    /\ dllDir' = DefaultDir
    /\ answer' = Answer("init", d, FALSE, NoImage)
    /\ UNCHANGED <<loaded, refs, threads>>

\* Mutant: the incomplete image is not released.
LoadIncompleteLeaks(d) ==
    LET i == DllAt[DirFolder[d]] IN
    /\ MayLoad(d)
    /\ PathFits(d)
    /\ i # NoImage
    /\ ~BindRequiredSymbols(i)
    /\ ClearTable
    /\ refs' = [refs EXCEPT ![i] = @ + 1]
    /\ dllDir' = DefaultDir
    /\ answer' = Answer("init", d, FALSE, NoImage)
    /\ UNCHANGED threads

\* The image is mapped but lacks a required symbol: it is released again,
\* which takes back the reference that LoadLibraryA added.
LoadIncomplete(d) ==
    LET i == DllAt[DirFolder[d]] IN
    /\ MayLoad(d)
    /\ PathFits(d)
    /\ i # NoImage
    /\ ~BindRequiredSymbols(i)
    /\ ClearTable
    /\ dllDir' = DefaultDir
    /\ answer' = Answer("init", d, FALSE, NoImage)
    /\ UNCHANGED <<refs, threads>>

LoadBound(d) ==
    LET i == DllAt[DirFolder[d]] IN
    /\ MayLoad(d)
    /\ PathFits(d)
    /\ i # NoImage
    /\ BindRequiredSymbols(i)
    /\ gModule' = i
    /\ ptr' = Resolve(i)
    /\ loaded' = TRUE
    /\ refs' = [refs EXCEPT ![i] = @ + 1]
    /\ dllDir' = DirFolder[d]
    /\ answer' = Answer("init", d, TRUE, NoImage)
    /\ UNCHANGED threads

LoadDirectory(d) ==
    \/ LoadRefusedBadDirectory(d)
    \/ LoadAlreadyLoaded(d)
    \/ LoadRefusedLongPath(d)
    \/ LoadNotFound(d)
    \/ LoadIncomplete(d)
    \/ LoadBound(d)

-----------------------------------------------------------------------------
(* zmq_dyn_unload and zmq_dyn_is_loaded.                                   *)

\* Mutant: only the flag is reset, not the table.
UnloadKeepsTable ==
    /\ refs' = IF gModule # NoImage THEN [refs EXCEPT ![gModule] = @ - 1]
                                    ELSE refs
    /\ loaded' = FALSE
    /\ dllDir' = DefaultDir
    /\ answer' = Answer("shutdown", "none", TRUE, NoImage)
    /\ UNCHANGED <<gModule, ptr, threads>>

Unload ==
    /\ refs' = IF gModule # NoImage THEN [refs EXCEPT ![gModule] = @ - 1]
                                    ELSE refs
    /\ ClearTable
    /\ dllDir' = DefaultDir
    /\ answer' = Answer("shutdown", "none", TRUE, NoImage)
    /\ UNCHANGED threads

IsLoaded ==
    /\ answer' = Answer("loaded", "none", loaded, NoImage)
    /\ UNCHANGED <<table, refs, threads, dllDir>>

-----------------------------------------------------------------------------
(* The zmq_api_* thunks.                                                   *)

\* Mutant: the optional thunks do not look at their pointer.
DispatchesUnchecked(s, nullArg) ==
    /\ loaded
    /\ s \in OptionalSymbols => ~nullArg

\* Mutant: the optional thunks do not look at the caller's buffers.
DispatchesNullArg(s, nullArg) ==
    /\ loaded
    /\ s \in OptionalSymbols => ptr[s] # NoImage

\* Every thunk asks for loaded first. Those of the optional symbols also
\* ask for their own pointer and for the caller's buffers.
Dispatches(s, nullArg) ==
    /\ loaded
    /\ s \in OptionalSymbols => ptr[s] # NoImage /\ ~nullArg

\* Where the jump through a pointer of the table ends up.
Target(s) ==
    IF ptr[s] # NoImage /\ refs[ptr[s]] > 0 THEN ptr[s] ELSE Wild

\* What libzmq does to its image's threads during a call: the first socket
\* of a context starts them, zmq_ctx_term may end them, nothing else does.
ThreadEffect(s, i) ==
    \/ UNCHANGED <<refs, threads>>
    \/ /\ s = "zmq_socket"
       /\ threads[i] < MaxThreads
       /\ threads' = [threads EXCEPT ![i] = @ + 1]
       /\ refs' = [refs EXCEPT ![i] = @ + 1]
    \/ /\ s = "zmq_ctx_term"
       /\ threads[i] > 0
       /\ threads' = [threads EXCEPT ![i] = @ - 1]
       /\ refs' = [refs EXCEPT ![i] = @ - 1]

CallDispatched(s, nullArg) ==
    /\ Dispatches(s, nullArg)
    /\ answer' = Answer(CallKind(nullArg), s, TRUE, Target(s))
    /\ Target(s) # Wild => ThreadEffect(s, Target(s))
    /\ Target(s) = Wild => UNCHANGED <<refs, threads>>
    /\ UNCHANGED <<table, dllDir>>

\* The thunk answers for itself: -1, NULL, zeros or a fixed text.
CallRefused(s, nullArg) ==
    /\ ~Dispatches(s, nullArg)
    /\ answer' = Answer(CallKind(nullArg), s, FALSE, NoImage)
    /\ UNCHANGED <<table, refs, threads, dllDir>>

Call(s, nullArg) == CallDispatched(s, nullArg) \/ CallRefused(s, nullArg)

-----------------------------------------------------------------------------
Next ==
    \/ \E d \in Dirs : LoadDirectory(d)
    \/ Unload
    \/ IsLoaded
    \/ \E s \in Symbols, nullArg \in BOOLEAN : Call(s, nullArg)

Spec == Init /\ [][Next]_vars

-----------------------------------------------------------------------------
(* Properties.                                                             *)

\* Every variable has its type; in particular no reference count goes below
\* zero, however loads, unloads and thread exits are interleaved.
TypeOK ==
    /\ gModule \in Images \cup {NoImage}
    /\ loaded \in BOOLEAN
    /\ ptr \in [Symbols -> Images \cup {NoImage}]
    /\ refs \in [Images -> Nat]
    /\ threads \in [Images -> 0..MaxThreads]
    /\ dllDir \in Folders \cup {DefaultDir}
    /\ answer \in Answers

\* Binding is all or nothing: a loaded table holds exactly the exports of one
\* image that has every required symbol, any other table is all zero. No
\* failed load and no unload leaves a pointer behind.
TableAllOrNothing ==
    IF loaded
    THEN /\ gModule \in Images
         /\ BindRequiredSymbols(gModule)
         /\ ptr = Resolve(gModule)
    ELSE /\ gModule = NoImage
         /\ ptr = NullTable

\* Every reference on an image is accounted for: one while the table is
\* bound to it and one for each context whose I/O threads run in it.
ReferencesBalance ==
    \A i \in Images : refs[i] = threads[i] + (IF gModule = i THEN 1 ELSE 0)

\* The extra search directory is the one the bound image came from, and the
\* default order is back whenever nothing is bound.
SearchDirFollowsBinding ==
    IF loaded THEN dllDir \in Folders /\ DllAt[dllDir] = gModule
              ELSE dllDir = DefaultDir

\* No pointer of the table and no running thread is in an unmapped image.
NothingDangles ==
    /\ \A s \in Symbols : ptr[s] # NoImage => refs[ptr[s]] > 0
    /\ \A i \in Images : threads[i] > 0 => refs[i] > 0

\* No thunk ever jumps through a NULL or dangling pointer. Only the optional
\* thunks check their pointer: the others rely on the table being complete.
CallsNeverWild == answer.by # Wild

\* A bound table changes only by being unloaded: no call to ZmqLibraryInit
\* moves a script to another libzmq under its feet.
BindingIsStable ==
    [][loaded => \/ UNCHANGED table
                 \/ ~loaded' /\ answer'.op = "shutdown"]_vars

\* An init that reports failure leaves the process as it found it: table,
\* reference counts and search directory.
FailedLoadChangesNothing ==
    [][answer'.op = "init" /\ ~answer'.ok
         => UNCHANGED <<table, refs, threads, dllDir>>]_vars

\* The loader implements the abstract binding: its table and reference
\* counting are invisible to callers.
Library == INSTANCE ZmqLibrary WITH
    binding <- IF loaded THEN gModule ELSE NoImage,
    DirImage <- [d \in Dirs |-> DllAt[DirFolder[d]]]
ImplementsLibrary == Library!Spec

\* SDK/C/README.md:151 says ZmqLibraryInit(path) loads libzmq.dll from the
\* directory and returns 1/0: after a 1 the library bound is that one.
InitLoadsRequested ==
    answer.op = "init" /\ answer.ok => gModule = DllAt[DirFolder[answer.arg]]

=============================================================================
