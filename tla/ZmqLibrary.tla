----------------------------- MODULE ZmqLibrary -----------------------------
(***************************************************************************)
(* What the dynamic binding to libzmq promises the rest of the SDK module, *)
(* without its pointer table, its search path and its reference counts: at *)
(* any time at most one complete libzmq image is bound, only Open and      *)
(* Close change which, and every call is either served by the bound image  *)
(* or answered locally.                                                    *)
(***************************************************************************)
EXTENDS ZmqSymbols

CONSTANTS
    Images,     \* the distinct libzmq.dll files that can be mapped
    NoImage,    \* no image: a NULL module or function pointer
    Exports,    \* the symbols each image exports
    Dirs,       \* the directory arguments a script passes
    DirImage    \* the image a directory holds, or NoImage

VARIABLES
    binding,    \* the image in use, or NoImage
    answer      \* what the last operation told its caller

vars == <<binding, answer>>

\* An answer: the operation, its argument, whether it reported success and,
\* for a call, the image that served it (NoImage: answered locally).
Answer(op, arg, ok, by) == [op |-> op, arg |-> arg, ok |-> ok, by |-> by]

\* Calls with and without a NULL buffer are told apart.
CallKind(nullArg) == IF nullArg THEN "null call" ELSE "call"

Complete(i) == i # NoImage /\ RequiredSymbols \subseteq Exports[i]

Init ==
    /\ binding = NoImage
    /\ answer = Answer("start", "none", TRUE, NoImage)

\* A directory with a complete image is bound, unless one is bound already.
Open(d) ==
    /\ binding = NoImage
    /\ Complete(DirImage[d])
    /\ binding' = DirImage[d]
    /\ answer' = Answer("init", d, TRUE, NoImage)

\* Any other request to open leaves the binding alone; success is reported
\* only when something is bound.
KeepBinding(d) ==
    /\ \E ok \in BOOLEAN :
          /\ ok => binding # NoImage
          /\ answer' = Answer("init", d, ok, NoImage)
    /\ UNCHANGED binding

Close ==
    /\ binding' = NoImage
    /\ answer' = Answer("shutdown", "none", TRUE, NoImage)

IsLoaded ==
    /\ answer' = Answer("loaded", "none", binding # NoImage, NoImage)
    /\ UNCHANGED binding

\* A call goes to the bound image if that has the symbol. The optional
\* entries also refuse a NULL buffer before they call.
Served(s, nullArg) ==
    /\ binding # NoImage
    /\ s \in Exports[binding]
    /\ s \in OptionalSymbols => ~nullArg

Call(s, nullArg) ==
    /\ answer' = Answer(CallKind(nullArg), s, Served(s, nullArg),
                        IF Served(s, nullArg) THEN binding ELSE NoImage)
    /\ UNCHANGED binding

Next ==
    \/ \E d \in Dirs : Open(d) \/ KeepBinding(d)
    \/ Close
    \/ IsLoaded
    \/ \E s \in Symbols, nullArg \in BOOLEAN : Call(s, nullArg)

Spec == Init /\ [][Next]_vars

=============================================================================
