--------------------------- MODULE ZmqExecProofs ---------------------------
(***************************************************************************)
(* Proofs about the keyword executors, for every set of libraries and      *)
(* directories, every selection of keywords a script uses and nests, and   *)
(* every depth of nesting.                                                 *)
(***************************************************************************)
EXTENDS ZmqExec, SequenceTheorems, TLAPS

-----------------------------------------------------------------------------
(* The table of keywords.                                                  *)

Fallible == {"rc", "count", "option", "handle", "string", "key"}
Reports ==
    Fallible \cup {"library", "errno", "pointer", "message", "number"}

\* The keywords that return -1 when their arguments do not parse.
SayMinusOne ==
    {"ZmqCurveKeypair", "ZmqCurvePublic", "ZmqCtxSet", "ZmqCtxGet"}

\* The parameter lists that occur.
Shapes ==
    {<<>>, <<I>>, <<S>>, <<I, I>>, <<I, S>>, <<I, I, I>>, <<I, I, S>>,
     <<I, S, I>>, <<S, I, I>>, <<I, I, I, I>>}

\* What the proofs need to know of a keyword: its shape, which libzmq entry
\* it has, that an executor with checks of its own has a value for failure,
\* and which keywords read -1 on failure.
KeywordFacts(kw, k) ==
    /\ kw # "none"
    /\ k.params \in Shapes
    /\ k.report \in Reports
    /\ kw \in DOMAIN LibraryKeywords <=> k.report = "library"
    /\ kw \in DOMAIN LibraryKeywords \/ k.entry \in Symbols
    /\ kw \in ChecksArguments => k.report \in Fallible
    /\ k.report \in {"rc", "count", "option"}
         => kw \in ZeroIsAmbiguous \cup SayMinusOne
    /\ kw \in SayMinusOne => k.report \in {"rc", "count", "option"}

LEMMA GroupFacts ==
    ASSUME NEW group \in KeywordGroups, NEW kw \in DOMAIN group
    PROVE  KeywordFacts(kw, group[kw])
<1> USE DEF KeywordFacts, LibraryKeywords, Keyword, Reports, Fallible, ChecksArguments,
            ZeroIsAmbiguous, SayMinusOne, Shapes, Symbols, RequiredSymbols,
            OptionalSymbols
<1>1. CASE group = LibraryKeywords
    BY <1>1
<1>2. CASE group = ErrorKeywords
    BY <1>2 DEF ErrorKeywords
<1>3. CASE group = QueryKeywords
    BY <1>3 DEF QueryKeywords
<1>4. CASE group = ContextKeywords
    BY <1>4 DEF ContextKeywords
<1>5. CASE group = ContextOptionKeywords
    BY <1>5 DEF ContextOptionKeywords
<1>6. CASE group = SocketKeywords
    BY <1>6 DEF SocketKeywords
<1>7. CASE group = BindKeywords
    BY <1>7 DEF BindKeywords
<1>8. CASE group = UnbindKeywords
    BY <1>8 DEF UnbindKeywords
<1>9. CASE group = BufferKeywords
    BY <1>9 DEF BufferKeywords
<1>10. CASE group = TextKeywords
    BY <1>10 DEF TextKeywords
<1>11. CASE group = OptionKeywords
    BY <1>11 DEF OptionKeywords
<1>12. CASE group = CurveKeywords
    BY <1>12 DEF CurveKeywords
<1>13. CASE group = Z85Keywords
    BY <1>13 DEF Z85Keywords
<1>14. CASE group = Z85StrKeywords
    BY <1>14 DEF Z85StrKeywords
<1>15. CASE group = CurveStrKeywords
    BY <1>15 DEF CurveStrKeywords
<1> QED
    BY <1>1, <1>2, <1>3, <1>4, <1>5, <1>6, <1>7, <1>8, <1>9, <1>10, <1>11,
       <1>12, <1>13, <1>14, <1>15 DEF KeywordGroups

LEMMA TableFacts ==
    ASSUME NEW kw \in DOMAIN AllKeywords
    PROVE  KeywordFacts(kw, AllKeywords[kw])
<1>1. PICK group \in KeywordGroups : kw \in DOMAIN group
    BY DEF AllKeywords
<1> DEFINE g == CHOOSE g \in KeywordGroups : kw \in DOMAIN g
<1>2. g \in KeywordGroups /\ kw \in DOMAIN g
    BY <1>1
<1>3. AllKeywords[kw] = g[kw]
    BY DEF AllKeywords
<1> HIDE DEF g
<1> QED BY <1>2, <1>3, GroupFacts

LEMMA KeywordTableFacts ==
    ASSUME NEW kw \in Keywords
    PROVE  /\ KeywordFacts(kw, AllKeywords[kw])
           /\ Len(Params(kw)) \in Nat
<1>1. KeywordFacts(kw, AllKeywords[kw])
    BY KeywordsAssumption, TableFacts
<1>2. \A shape \in Shapes : Len(shape) \in Nat
    BY DEF Shapes
<1> QED BY <1>1, <1>2 DEF KeywordFacts, Params

\* Only the keywords with a value for failure can fail.
LEMMA CanFailIsFallible ==
    ASSUME NEW kw
    PROVE  CanFail(kw) <=> kw \in DOMAIN AllKeywords
                           /\ AllKeywords[kw].report \in Fallible
BY DEF CanFail, Fallible

LEMMA NoneCannotFail == ~CanFail("none")
BY TableFacts DEF CanFail, KeywordFacts

-----------------------------------------------------------------------------
(* The stack of executors.                                                 *)

LEMMA StackTop ==
    ASSUME NEW T, NEW s \in Seq(T), s # <<>>
    PROVE  /\ Last(s) \in T
           /\ Front(s) \in Seq(T)
           /\ Len(Front(s)) = Len(s) - 1
<1>1. Len(s) \in Nat \ {0} /\ \A i \in 1..Len(s) : s[i] \in T
    BY EmptySeq, LenProperties, ElementOfSeq
<1>2. Last(s) \in T
    BY <1>1 DEF Last
<1> DEFINE n == Len(s) - 1
<1>3. n \in Nat /\ \A i \in 1..n : s[i] \in T
    BY <1>1
<1>4. SubSeq(s, 1, n) \in Seq(T) /\ Len(SubSeq(s, 1, n)) = n
    <2> HIDE DEF n
    <2>1. Len(SubSeq(s, 1, n)) = IF 1 <= n THEN n - 1 + 1 ELSE 0
        BY <1>3, SubSeqProperties
    <2>2. SubSeq(s, 1, n) \in Seq(T)
        BY <1>3, SubSeqProperties
    <2> QED BY <1>3, <2>1, <2>2
<1> QED BY <1>2, <1>4 DEF Front

LEMMA RangeInside ==
    ASSUME NEW T, NEW s \in Seq(T)
    PROVE  Range(s) \subseteq T
BY DEF Range

LEMMA FrameFacts ==
    /\ \A f \in Frames : /\ f.kw \in Keywords
                         /\ f.done \in 0..Len(Params(f.kw))
    /\ \A kw \in Keywords : \A n \in 0..Len(Params(kw)) : Frame(kw, n) \in Frames
BY DEF Frames, Frame

Values == {"0", "-1", "n", "empty", "text"}
Results == [kw : Keywords \cup {"none"}, value : Values,
            parsed : {"yes", "null", "error"}, reached : BOOLEAN]

\* The inductive invariant behind the type invariant.
IInv ==
    /\ TypeOK
    /\ stack \in Seq(Frames)

\* What has to be shown of a step for it.
LEMMA TypedStep ==
    ASSUME binding' \in Images \cup {NoImage},
           errno' \in Keywords \cup {"none"},
           stack' \in Seq(Frames), Len(stack') <= MaxDepth,
           result' \in Results
    PROVE  IInv'
BY RangeInside DEF IInv, TypeOK, Results, Values

LEMMA RunningFacts ==
    ASSUME IInv, NEW kw, Running(kw)
    PROVE  /\ kw \in Keywords
           /\ stack # <<>>
           /\ Last(stack).done \in 0..Len(Params(kw))
           /\ Front(stack) \in Seq(Frames)
           /\ Len(Front(stack)) = Len(stack) - 1
<1>1. stack # <<>> /\ stack \in Seq(Frames) /\ Last(stack).kw = kw
    BY DEF IInv, Running
<1> QED BY <1>1, StackTop, FrameFacts

\* An executor that returns.
LEMMA ReturnIInv ==
    ASSUME IInv, NEW kw, Running(kw), NEW value \in Values,
           NEW parsed \in {"yes", "null", "error"}, NEW reached \in BOOLEAN,
           Return(kw, value, parsed, reached),
           binding' \in Images \cup {NoImage},
           errno' \in Keywords \cup {"none"}
    PROVE  IInv'
<1>1. /\ kw \in Keywords
      /\ stack' \in Seq(Frames) /\ Len(stack') = Len(stack) - 1
    BY RunningFacts DEF Return
<1>2. Len(stack') <= MaxDepth
    BY <1>1, MaxDepthAssumption DEF IInv, TypeOK
<1>3. result' \in Results
    BY <1>1 DEF Return, Result, Results
<1> QED BY <1>1, <1>2, <1>3, TypedStep

-----------------------------------------------------------------------------
(* Type correctness.                                                       *)

LEMMA InitIInv == Init => IInv
<1> SUFFICES ASSUME Init PROVE IInv
    OBVIOUS
<1>1. stack \in Seq(Frames) /\ Len(stack) = 0 /\ Range(stack) \subseteq Frames
    <2>1. stack = <<>>
        BY DEF Init
    <2> QED BY <2>1 DEF Range
<1>2. result \in Results
    BY DEF Init, NoResult, Result, Results, Values
<1>3. binding = NoImage /\ errno = "none"
    BY DEF Init, Lib!Init
<1> QED
    BY <1>1, <1>2, <1>3, MaxDepthAssumption
       DEF IInv, TypeOK, Results, Values

LEMMA ParsingIInv ==
    ASSUME IInv, NEW kw \in Keywords, Enter(kw) \/ TakeArgument(kw) PROVE IInv'
<1>1. UNCHANGED <<library, errno>> /\ result' = NoResult
    BY DEF Enter, TakeArgument
<1>2. result' \in Results
    BY <1>1 DEF NoResult, Result, Results, Values
<1>3. stack' \in Seq(Frames) /\ Len(stack') <= MaxDepth
    <2>1. CASE Enter(kw)
        <3>1. Frame(kw, 0) \in Frames
            BY KeywordTableFacts, FrameFacts
        <3> QED
            BY <2>1, <3>1, MaxDepthAssumption, AppendProperties
               DEF Enter, IInv
    <2>2. CASE TakeArgument(kw)
        <3>1. /\ Running(kw)
              /\ Last(stack).done # Len(Params(kw))
              /\ stack' = Append(Front(stack), Frame(kw, Last(stack).done + 1))
            BY <2>2 DEF TakeArgument, Parsed
        <3>2. Last(stack).done + 1 \in 0..Len(Params(kw))
            BY <3>1, RunningFacts, KeywordTableFacts
        <3>3. Frame(kw, Last(stack).done + 1) \in Frames
            BY <3>2, FrameFacts
        <3>4. Front(stack) \in Seq(Frames) /\ Len(Front(stack)) = Len(stack) - 1
            BY <3>1, RunningFacts
        <3>5. stack' \in Seq(Frames) /\ Len(stack') = Len(stack)
            BY <3>1, <3>3, <3>4, AppendProperties DEF IInv
        <3> QED BY <3>5 DEF IInv, TypeOK
    <2> QED BY <2>1, <2>2
<1> QED BY <1>1, <1>2, <1>3, TypedStep DEF library, IInv, TypeOK

\* The executors that return without a call of libzmq.
LEMMA LocalReturnIInv ==
    ASSUME IInv, NEW kw \in Keywords,
           NullString(kw) \/ SyntaxError(kw) \/ Refuse(kw)
    PROVE  IInv'
<1>1. Running(kw) /\ UNCHANGED <<library, errno>>
    BY DEF NullString, SyntaxError, Refuse, Parsed
<1>2. PICK value \in Values, parsed \in {"yes", "null", "error"} :
          Return(kw, value, parsed, FALSE)
    <2>1. ParseFailureValue(kw) \in Values
        BY DEF ParseFailureValue, Values
    <2>2. kw \in ChecksArguments => RefusalValue(kw) \in Values
        BY KeywordTableFacts DEF KeywordFacts, Fallible, RefusalValue,
                                 FailureValue, Values
    <2> QED BY <2>1, <2>2 DEF NullString, SyntaxError, Refuse
<1>3. /\ binding' \in Images \cup {NoImage}
      /\ errno' \in Keywords \cup {"none"}
    BY <1>1 DEF library, IInv, TypeOK
<1> QED BY <1>1, <1>2, <1>3, ReturnIInv

LEMMA LibraryKeywordIInv ==
    ASSUME IInv, LibraryInit \/ LibraryShutdown \/ LibraryLoaded PROVE IInv'
<1>1. \E kw : \E value \in Values :
          Running(kw) /\ Return(kw, value, "yes", FALSE)
    <2>1. {"n", IF answer'.ok THEN "n" ELSE "0"} \subseteq Values
        BY DEF Values
    <2> QED
        BY <2>1 DEF LibraryInit, LibraryShutdown, LibraryLoaded, Parsed
<1>2. binding' \in Images \cup {NoImage}
    BY LibraryAssumption
       DEF LibraryInit, LibraryShutdown, LibraryLoaded, Lib!Open,
           Lib!KeepBinding, Lib!Close, Lib!IsLoaded, IInv, TypeOK
<1>3. errno' \in Keywords \cup {"none"}
    BY DEF LibraryInit, LibraryShutdown, LibraryLoaded, IInv, TypeOK
<1> QED BY <1>1, <1>2, <1>3, ReturnIInv

\* What a keyword can return has a name, whatever libzmq does.
LEMMA OutcomeValues ==
    ASSUME NEW kw \in Keywords, kw \notin DOMAIN LibraryKeywords
    PROVE  /\ SuccessValues(kw) \subseteq Values
           /\ CanFail(kw) => FailureValue(AllKeywords[kw].report) \in Values
           /\ UnservedValue(kw) \in Values
<1>1. AllKeywords[kw].report \in Reports \ {"library"}
    BY KeywordTableFacts DEF KeywordFacts
<1> QED
    BY <1>1 DEF Reports, Fallible, SuccessValues, CanFail, FailureValue,
                UnservedValue, Values

LEMMA DispatchIInv ==
    ASSUME IInv, NEW kw \in Keywords, Dispatch(kw) PROVE IInv'
<1>1. Running(kw) /\ binding' = binding /\ kw \notin DOMAIN LibraryKeywords
    BY DEF Dispatch, Parsed, Lib!Call
<1>2. PICK value \in Values : Return(kw, value, "yes", ServedByLibrary)
    BY <1>1, OutcomeValues DEF Dispatch, Succeed, Fail, Unserved
<1>3. errno' \in Keywords \cup {"none"}
    BY DEF Dispatch, Succeed, Fail, Unserved, IInv, TypeOK
<1>4. ServedByLibrary \in BOOLEAN
    BY DEF ServedByLibrary
<1> QED BY <1>1, <1>2, <1>3, <1>4, ReturnIInv DEF IInv, TypeOK

LEMMA StepIInv == IInv /\ [Next]_vars => IInv'
<1> SUFFICES ASSUME IInv, [Next]_vars PROVE IInv'
    OBVIOUS
<1>1. CASE UNCHANGED vars
    BY <1>1 DEF vars, IInv, TypeOK
<1> QED
    BY <1>1, ParsingIInv, LocalReturnIInv, LibraryKeywordIInv, DispatchIInv
       DEF Next

\* The executors under way are always keywords with as many arguments read as
\* they take or fewer, in a stack of bounded depth.
THEOREM Invariance == Spec => []IInv
<1> QED BY InitIInv, StepIInv, PTL DEF Spec

\* Every variable keeps its type; in particular no executor, however keywords
\* are nested in each other's arguments, parses more arguments than it has.
THEOREM TypeCorrect == Spec => []TypeOK
<1>1. IInv => TypeOK
    BY DEF IInv
<1> QED BY <1>1, Invariance, PTL

-----------------------------------------------------------------------------
(* Honest results.                                                         *)

\* A call that libzmq has a part in says so.
LEMMA ReachedByLibrary ==
    ASSUME NEW kw, Dispatch(kw)
    PROVE  ServedByLibrary = Reaches(kw)
BY DEF Dispatch, Lib!Call, Lib!Answer, Lib!Served, Reaches, ServedByLibrary

\* The result of an executor that gets as far as its libzmq entry.
LEMMA DispatchResult ==
    ASSUME NEW kw, Dispatch(kw)
    PROVE  /\ result'.kw = kw
           /\ Reaches(kw) => result'.reached
           /\ ~Reaches(kw) => result'.value = UnservedValue(kw)
<1>1. CASE Reaches(kw)
    <2>1. ServedByLibrary = TRUE
        BY <1>1, ReachedByLibrary
    <2>2. \E value : Return(kw, value, "yes", TRUE)
        BY <1>1, <2>1 DEF Dispatch, Succeed, Fail, Unserved
    <2> QED BY <1>1, <2>2 DEF Return, Result
<1>2. CASE ~Reaches(kw)
    BY <1>2 DEF Dispatch, Succeed, Fail, Unserved, Return, Result
<1> QED BY <1>1, <1>2

\* A parse failure reads as failure, but for the thirteen ambiguous keywords.
LEMMA ParseFailureHonest ==
    ASSUME NEW kw \in Keywords, CanFail(kw),
           kw \notin ZeroIsAmbiguous
    PROVE  ParseFailureValue(kw) = FailureValue(AllKeywords[kw].report)
<1>1. KeywordFacts(kw, AllKeywords[kw]) /\ AllKeywords[kw].report \in Fallible
    BY KeywordTableFacts, CanFailIsFallible
<1>2. CASE AllKeywords[kw].report \in {"rc", "count", "option"}
    <2>1. kw \in SayMinusOne
        BY <1>1, <1>2 DEF KeywordFacts
    <2> QED
        BY <1>2, <2>1
           DEF SayMinusOne, ParseFailureValue, ReturnsString, FailureValue
<1>3. CASE AllKeywords[kw].report = "handle"
    <2>1. kw \notin SayMinusOne
        BY <1>1, <1>3 DEF KeywordFacts
    <2> QED
        BY <1>3, <2>1
           DEF SayMinusOne, ParseFailureValue, ReturnsString, FailureValue
<1>4. CASE AllKeywords[kw].report \in {"string", "key"}
    BY <1>4 DEF ParseFailureValue, ReturnsString, FailureValue
<1> QED BY <1>1, <1>2, <1>3, <1>4 DEF Fallible

\* A thunk's own default, once converted, reads as failure.
LEMMA UnservedHonest ==
    ASSUME NEW kw, CanFail(kw)
    PROVE  UnservedValue(kw) = FailureValue(AllKeywords[kw].report)
BY DEF CanFail, UnservedValue, FailureValue

\* No keyword claims a success that libzmq has no part in, whatever the
\* keywords in its arguments did to the library.
THEOREM SuccessIsAlwaysHonest == Spec => []SuccessIsHonest
<1>1. Init => SuccessIsHonest
    BY NoneCannotFail DEF Init, NoResult, Result, SuccessIsHonest
<1>2. IInv /\ SuccessIsHonest /\ [Next]_vars => SuccessIsHonest'
    <2> SUFFICES ASSUME IInv, SuccessIsHonest, [Next]_vars
                 PROVE  SuccessIsHonest'
        OBVIOUS
    <2>1. ASSUME NEW kw \in Keywords, Enter(kw) \/ TakeArgument(kw)
          PROVE  SuccessIsHonest'
        BY <2>1, NoneCannotFail
           DEF Enter, TakeArgument, NoResult, Result, SuccessIsHonest
    <2>2. ASSUME NEW kw \in Keywords, NullString(kw) \/ SyntaxError(kw)
          PROVE  SuccessIsHonest'
        BY <2>2, ParseFailureHonest
           DEF NullString, SyntaxError, Return, Result, SuccessIsHonest
    <2>3. ASSUME NEW kw \in Keywords, Refuse(kw) PROVE SuccessIsHonest'
        BY <2>3 DEF Refuse, Return, Result, RefusalValue, SuccessIsHonest
    <2>4. ASSUME NEW kw \in Keywords, Dispatch(kw) PROVE SuccessIsHonest'
        BY <2>4, DispatchResult, UnservedHonest DEF SuccessIsHonest
    <2>5. CASE LibraryInit \/ LibraryShutdown \/ LibraryLoaded
        <3>1. result'.kw \in DOMAIN LibraryKeywords
            BY <2>5 DEF LibraryInit, LibraryShutdown, LibraryLoaded, Return,
                        Result, LibraryKeywords
        <3>2. ~CanFail(result'.kw)
            BY <3>1, TableFacts DEF CanFail, KeywordFacts
        <3> QED BY <3>2 DEF SuccessIsHonest
    <2>6. CASE UNCHANGED vars
        BY <2>6 DEF vars, SuccessIsHonest
    <2> QED BY <2>1, <2>2, <2>3, <2>4, <2>5, <2>6 DEF Next
<1> QED BY <1>1, <1>2, Invariance, PTL DEF Spec

-----------------------------------------------------------------------------
(* The executors over the library.                                         *)

LEMMA SameSymbols == Lib!Symbols = Symbols
BY DEF Lib!RequiredSymbols, RequiredSymbols, Lib!OptionalSymbols,
       OptionalSymbols, Lib!Symbols, Symbols

\* Whatever keywords a script nests, its executors make only calls that the
\* abstract library offers: what the loader implements is what they use.
THEOREM ExecutorsUseLibrary == Spec => Lib!Spec
<1>1. Init => Lib!Init
    BY DEF Init
<1>2. [Next]_vars => [Lib!Next]_(Lib!vars)
    <2> SUFFICES ASSUME Next, ~UNCHANGED library PROVE Lib!Next
        BY DEF vars, library, Lib!vars
    <2>1. ASSUME NEW kw \in Keywords, Dispatch(kw) PROVE Lib!Next
        <3>1. AllKeywords[kw].entry \in Lib!Symbols
            BY <2>1, KeywordTableFacts, SameSymbols DEF Dispatch, KeywordFacts
        <3> QED BY <2>1, <3>1 DEF Dispatch, Lib!Next
    <2>2. CASE LibraryInit \/ LibraryShutdown \/ LibraryLoaded
        BY <2>2 DEF LibraryInit, LibraryShutdown, LibraryLoaded, Lib!Next
    <2> QED
        BY <2>1, <2>2
           DEF Next, Enter, TakeArgument, NullString, SyntaxError, Refuse
<1> QED BY <1>1, <1>2, PTL DEF Spec, Lib!Spec

=============================================================================
