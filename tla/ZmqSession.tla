----------------------------- MODULE ZmqSession -----------------------------
(***************************************************************************)
(* A script's context handles over the loader: scripts hold them as        *)
(* numbers across ZmqLibraryShutdown and ZmqLibraryInit, and every keyword *)
(* passes the number it is given to the library that is bound when it is   *)
(* called. The examples close their sockets and call ZmqCtxShutdown but    *)
(* not ZmqCtxTerm before they shut the library down, so that their         *)
(* contexts' I/O threads are still running.                                *)
(*                                                                         *)
(* Composes ZmqDynload, whose calls are here those that make and use       *)
(* handles. External: a context lives in its image's memory, which is gone *)
(* once the image is unmapped; its first socket starts its threads,        *)
(* zmq_ctx_term ends them, zmq_ctx_shutdown does not.                      *)
(***************************************************************************)
EXTENDS ZmqDynload

CONSTANTS
    Handles,    \* the values a script's context variables can take
    MaxMaps     \* bound: how often an image is mapped

VARIABLES
    maps,       \* how often each image has been mapped so far
    shutdowns,  \* how many ZmqLibraryShutdown there were (bounded by MaxMaps)
    made,       \* for each handle in use, where it was made
    use         \* the last use of a handle: its record, and what it reached

session == <<maps, shutdowns, made, use>>
allVars == <<vars, session>>

\* The image a context lives in, which mapping of it, how many shutdowns there
\* had been, and whether the context's threads run.
Made(i, shut) == [image |-> i, map |-> maps[i], shut |-> shut, running |-> FALSE]

NoUse == [of |-> {}, image |-> NoImage, map |-> 0]

SessionInit ==
    /\ Init
    /\ maps = [i \in Images |-> 0]
    /\ shutdowns = 0
    /\ made = <<>>
    /\ use = NoUse

\* An image is mapped when its first reference is taken.
CountMaps ==
    maps' = [i \in Images |-> maps[i] + (IF refs[i] = 0 /\ refs'[i] > 0 THEN 1 ELSE 0)]

-----------------------------------------------------------------------------
LibraryInit(d) ==
    /\ LoadDirectory(d)
    /\ CountMaps
    /\ \A i \in Images : maps'[i] <= MaxMaps
    /\ use' = NoUse
    /\ UNCHANGED <<shutdowns, made>>

LibraryShutdown ==
    /\ shutdowns < MaxMaps
    /\ Unload
    /\ CountMaps
    /\ shutdowns' = shutdowns + 1
    /\ use' = NoUse
    /\ UNCHANGED made

\* ZmqCtxNew.
CtxNew(h) ==
    /\ h \notin DOMAIN made
    /\ CallDispatched("zmq_ctx_new", FALSE)
    /\ Target("zmq_ctx_new") # Wild
    /\ made' = [g \in DOMAIN made \cup {h} |->
                   IF g = h THEN Made(Target("zmq_ctx_new"), shutdowns)
                            ELSE made[g]]
    /\ use' = NoUse
    /\ UNCHANGED <<maps, shutdowns>>

\* What a keyword reaches with a handle.
Reaches(h, s) ==
    [of |-> {made[h]}, image |-> Target(s),
     map |-> IF Target(s) = Wild THEN 0 ELSE maps[Target(s)]]

Home(h, s) == Target(s) = made[h].image /\ maps[made[h].image] = made[h].map

\* The first ZmqSocket of a context starts its threads.
FirstSocket(h) ==
    /\ h \in DOMAIN made /\ ~made[h].running
    /\ threads[made[h].image] < MaxThreads
    /\ Home(h, "zmq_socket")
    /\ CallDispatched("zmq_socket", FALSE)
    /\ threads' # threads
    /\ made' = [made EXCEPT ![h].running = TRUE]
    /\ use' = Reaches(h, "zmq_socket")
    /\ UNCHANGED <<maps, shutdowns>>

\* ZmqCtxTerm.
CtxTerm(h) ==
    /\ h \in DOMAIN made
    /\ Home(h, "zmq_ctx_term")
    /\ CallDispatched("zmq_ctx_term", FALSE)
    /\ (threads' # threads) = made[h].running
    /\ made' = [g \in DOMAIN made \ {h} |-> made[g]]
    /\ use' = Reaches(h, "zmq_ctx_term")
    /\ CountMaps
    /\ UNCHANGED shutdowns

\* Any other use, ZmqCtxShutdown as well as a further socket: whatever it is,
\* it goes where the table leads now.
Use(h) ==
    /\ h \in DOMAIN made
    /\ CallDispatched("zmq_ctx_shutdown", FALSE)
    /\ use' = Reaches(h, "zmq_ctx_shutdown")
    /\ UNCHANGED <<maps, shutdowns, made>>

\* Nothing is bound: the keyword answers for itself.
UseRefused(h) ==
    /\ h \in DOMAIN made
    /\ CallRefused("zmq_ctx_shutdown", FALSE)
    /\ use' = NoUse
    /\ UNCHANGED <<maps, shutdowns, made>>

\* ZmqLibraryLoaded, and every call that concerns no context.
LibraryLoaded ==
    /\ IsLoaded
    /\ use' = NoUse
    /\ UNCHANGED <<maps, shutdowns, made>>

OtherCall(s, nullArg) ==
    /\ Call(s, nullArg)
    /\ UNCHANGED <<refs, threads>>
    /\ use' = NoUse
    /\ UNCHANGED <<maps, shutdowns, made>>

SessionNext ==
    \/ \E d \in Dirs : LibraryInit(d)
    \/ LibraryShutdown
    \/ LibraryLoaded
    \/ \E s \in Symbols, nullArg \in BOOLEAN : OtherCall(s, nullArg)
    \/ \E h \in Handles :
          \/ CtxNew(h)
          \/ FirstSocket(h)
          \/ CtxTerm(h)
          \/ Use(h)
          \/ UseRefused(h)

SessionSpec == SessionInit /\ [][SessionNext]_allVars

-----------------------------------------------------------------------------
(* Properties.                                                             *)

\* A handle reaches the library that made it, in the very mapping it was made
\* in, as long as the script has not called ZmqLibraryShutdown since: no other
\* call of the keywords, a refused or failing ZmqLibraryInit included, takes
\* the library away from under it.
HandlesReachTheirMaker ==
    \A m \in use.of : m.shut = shutdowns => use.image = m.image /\ use.map = m.map

\* A context whose threads run keeps its image mapped, through shutdowns and
\* loads of other libraries: its memory and its code stay where they were. A
\* script that initialises the same library again, without ZmqCtxTerm, so
\* meets its old contexts intact.
RunningContextsStay ==
    \A h \in DOMAIN made :
        made[h].running => /\ refs[made[h].image] > 0
                           /\ maps[made[h].image] = made[h].map

=============================================================================
