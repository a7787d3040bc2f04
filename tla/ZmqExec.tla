------------------------------ MODULE ZmqExec ------------------------------
(***************************************************************************)
(* The keyword executors of SDK/C/src/tb_zmq_exec.c at work: the           *)
(* interpreter evaluates a keyword by calling its executor, which parses   *)
(* its arguments by calling the interpreter back, which may evaluate other *)
(* keywords in them. ZmqStrerrorString(ZmqErrno()) is such an expression.  *)
(* All of it runs on one stack, so a keyword meets whatever state those    *)
(* in its arguments leave behind: a library that is gone, another errno.   *)
(*                                                                         *)
(* The binding to libzmq is the abstract one of ZmqLibrary, which the      *)
(* loader implements (ZmqDynloadProofs).                                   *)
(***************************************************************************)
EXTENDS ZmqKeywords, Naturals, SequencesExt

CONSTANTS
    Images, NoImage, Exports, Dirs, DirImage,   \* see ZmqLibrary
    Keywords,       \* the keywords the script uses
    Nesting,        \* bound: those used in arguments of each other
    MaxDepth        \* bound: how deeply they are nested

ASSUME LibraryAssumption ==
    /\ NoImage \notin Images
    /\ Exports \in [Images -> SUBSET Symbols]
    /\ DirImage \in [Dirs -> Images \cup {NoImage}]
ASSUME KeywordsAssumption ==
    Nesting \subseteq Keywords /\ Keywords \subseteq DOMAIN AllKeywords
ASSUME MaxDepthAssumption == MaxDepth \in Nat \ {0}

VARIABLES
    binding, answer,    \* the library; see ZmqLibrary
    errno,              \* libzmq's errno: the keyword whose call set it last
    stack,              \* the executors under way, innermost last
    result              \* what the executor that has just ended returned

Lib == INSTANCE ZmqLibrary

library == <<binding, answer>>
vars == <<binding, answer, errno, stack, result>>

\* An executor under way: its keyword and how many arguments it has parsed.
Frame(kw, done) == [kw |-> kw, done |-> done]

\* A returned value; whether the arguments were all parsed ("yes"), a string
\* argument was NULL ("null") or the interpreter raised an error ("error");
\* and whether libzmq was reached.
Result(kw, value, parsed, reached) ==
    [kw |-> kw, value |-> value, parsed |-> parsed, reached |-> reached]
NoResult == Result("none", "0", "yes", FALSE)

Init ==
    /\ Lib!Init
    /\ errno = "none"
    /\ stack = <<>>
    /\ result = NoResult

-----------------------------------------------------------------------------
(* Parsing.                                                                *)

Running(kw) == stack # <<>> /\ Last(stack).kw = kw
Params(kw) == AllKeywords[kw].params
Parsed(kw) == Running(kw) /\ Last(stack).done = Len(Params(kw))

\* A statement, or an argument expression of the innermost executor, uses a
\* keyword. An expression may use several, one after the other.
Enter(kw) ==
    /\ Len(stack) < MaxDepth
    /\ stack # <<>> => /\ {kw, Last(stack).kw} \subseteq Nesting
                       /\ Last(stack).done < Len(Params(Last(stack).kw))
    /\ stack' = Append(stack, Frame(kw, 0))
    /\ result' = NoResult
    /\ UNCHANGED <<library, errno>>

\* Mutant: an argument too many is read.
TakeArgumentMore(kw) ==
    /\ Running(kw)
    /\ stack' = Append(Front(stack), Frame(kw, Last(stack).done + 1))
    /\ result' = NoResult
    /\ UNCHANGED <<library, errno>>

\* The expression has been evaluated and the argument is read.
TakeArgument(kw) ==
    /\ Running(kw)
    /\ ~Parsed(kw)
    /\ stack' = Append(Front(stack), Frame(kw, Last(stack).done + 1))
    /\ result' = NoResult
    /\ UNCHANGED <<library, errno>>

Return(kw, value, parsed, reached) ==
    /\ stack' = Front(stack)
    /\ result' = Result(kw, value, parsed, reached)

\* tb_parse_string finds a NULL pointer; the interpreter has no complaint.
NullString(kw) ==
    /\ Running(kw)
    /\ ~Parsed(kw)
    /\ Params(kw)[Last(stack).done + 1] = S
    /\ Return(kw, ParseFailureValue(kw), "null", FALSE)
    /\ UNCHANGED <<library, errno>>

\* A parenthesis or a comma is missing; the interpreter reports it.
SyntaxError(kw) ==
    /\ Running(kw)
    /\ Return(kw, ParseFailureValue(kw), "error", FALSE)
    /\ UNCHANGED <<library, errno>>

\* An argument fails the executor's own check.
Refuse(kw) ==
    /\ Parsed(kw)
    /\ kw \in ChecksArguments
    /\ Return(kw, RefusalValue(kw), "yes", FALSE)
    /\ UNCHANGED <<library, errno>>

-----------------------------------------------------------------------------
(* Dispatch.                                                               *)

LibraryInit ==
    /\ Parsed("ZmqLibraryInit")
    /\ \E d \in Dirs : Lib!Open(d) \/ Lib!KeepBinding(d)
    /\ Return("ZmqLibraryInit", IF answer'.ok THEN "n" ELSE "0", "yes", FALSE)
    /\ UNCHANGED errno

LibraryShutdown ==
    /\ Parsed("ZmqLibraryShutdown")
    /\ Lib!Close
    /\ Return("ZmqLibraryShutdown", "n", "yes", FALSE)
    /\ UNCHANGED errno

LibraryLoaded ==
    /\ Parsed("ZmqLibraryLoaded")
    /\ Lib!IsLoaded
    /\ Return("ZmqLibraryLoaded", IF answer'.ok THEN "n" ELSE "0", "yes", FALSE)
    /\ UNCHANGED errno

\* Mutant: a thunk calls on whatever the table holds.
ReachesAlways(kw) == TRUE

\* The thunks look at the library when they are called, not before.
Reaches(kw) == Lib!Served(AllKeywords[kw].entry, FALSE)

ServedByLibrary == answer'.by # NoImage

\* libzmq succeeds. A call that can fail may change errno all the same.
Succeed(kw) ==
    /\ Reaches(kw)
    /\ \E value \in SuccessValues(kw) : Return(kw, value, "yes", ServedByLibrary)
    /\ \/ UNCHANGED errno
       \/ CanFail(kw) /\ errno' = kw

Fail(kw) ==
    /\ Reaches(kw)
    /\ CanFail(kw)
    /\ Return(kw, FailureValue(AllKeywords[kw].report), "yes",
              ServedByLibrary)
    /\ errno' = kw

Unserved(kw) ==
    /\ ~Reaches(kw)
    /\ Return(kw, UnservedValue(kw), "yes", ServedByLibrary)
    /\ UNCHANGED errno

Dispatch(kw) ==
    /\ kw \notin DOMAIN LibraryKeywords
    /\ Parsed(kw)
    /\ Lib!Call(AllKeywords[kw].entry, FALSE)
    /\ Succeed(kw) \/ Fail(kw) \/ Unserved(kw)

-----------------------------------------------------------------------------
Next ==
    \/ \E kw \in Keywords :
          \/ Enter(kw)
          \/ TakeArgument(kw)
          \/ NullString(kw)
          \/ SyntaxError(kw)
          \/ Refuse(kw)
          \/ Dispatch(kw)
    \/ LibraryInit
    \/ LibraryShutdown
    \/ LibraryLoaded

Spec == Init /\ [][Next]_vars

-----------------------------------------------------------------------------
(* Properties.                                                             *)

Frames == UNION {[kw : {kw}, done : 0..Len(Params(kw))] : kw \in Keywords}

\* Every variable has its type: in particular no executor parses more
\* arguments than it has.
TypeOK ==
    /\ binding \in Images \cup {NoImage}
    /\ errno \in Keywords \cup {"none"}
    /\ Len(stack) <= MaxDepth
    /\ Range(stack) \subseteq Frames
    /\ result \in [kw : Keywords \cup {"none"},
                   value : {"0", "-1", "n", "empty", "text"},
                   parsed : {"yes", "null", "error"},
                   reached : BOOLEAN]

\* The keywords whose value for a parse failure is also one for success.
ZeroIsAmbiguous ==
    {"ZmqCtxTerm", "ZmqCtxShutdown", "ZmqClose", "ZmqBind", "ZmqConnect",
     "ZmqUnbind", "ZmqDisconnect", "ZmqSend", "ZmqRecv", "ZmqSendStr",
     "ZmqSetsockoptInt", "ZmqSetsockoptStr", "ZmqGetsockoptInt"}

\* A keyword never claims a success that libzmq has no part in: whatever its
\* arguments did to the library meanwhile, a value other than that for
\* failure comes from libzmq. The exceptions are a parse failure in one of
\* thirteen keywords, which reads 0.
SuccessIsHonest ==
    CanFail(result.kw) /\ result.value # FailureValue(AllKeywords[result.kw].report)
        => \/ result.reached
           \/ result.parsed # "yes" /\ result.kw \in ZeroIsAmbiguous

\* tb_zmq_exec.c:101 says ZmqErrno is the last error number: once a keyword
\* has reported a failure, errno is what that failure left. (Without a
\* library ZmqErrno has nothing to ask and says -1.)
ErrnoIsOfLastFailure ==
    /\ binding # NoImage
    /\ result.parsed = "yes"
    /\ CanFail(result.kw)
    /\ result.value = "-1"
    => errno = result.kw

\* tb_zmq_exec.c:670 and SDK/C/README.md:158 say ZmqSendStr returns the bytes
\* sent or -1: a value other than -1, without a script error, means sent.
SendStrSendsOrFails ==
    /\ result.kw = "ZmqSendStr"
    /\ result.parsed # "error"
    /\ result.value # "-1"
    => result.reached

=============================================================================
