---------------------------- MODULE ZmqKeywords ----------------------------
(***************************************************************************)
(* The 35 keywords that SDK/C/src/thinBasic_ZeroMQ.c registers and the     *)
(* shape of their executors in SDK/C/src/tb_zmq_exec.c: which arguments    *)
(* each parses, which libzmq entry it calls at the end and how it reports. *)
(*                                                                         *)
(* Returned values are told apart as far as scripts tell them apart: "0",  *)
(* "-1", any other number "n", the empty string "empty", any other "text". *)
(***************************************************************************)
EXTENDS ZmqSymbols, Sequences

I == "int"      \* an argument read with tb_parse_int
S == "str"      \* an argument read with tb_parse_string

\* A keyword: its parameters, the libzmq entry behind it and how the outcome
\* of that entry is turned into a value:
\*   "rc"       0, or -1 on failure
\*   "count"    a number that is not negative, or -1 on failure
\*   "option"   any number at all; -1 also stands for failure
\*   "handle"   a pointer, or 0 on failure
\*   "string"   a string; empty on failure and for an empty frame
\*   "key"      a string; empty on failure only
\*   "errno", "number", "pointer", "message": cannot fail
Keyword(params, entry, report) ==
    [params |-> params, entry |-> entry, report |-> report]

\* The three keywords that load, unload and query the library itself.
LibraryKeywords ==
    [ZmqLibraryInit     |-> Keyword(<<S>>, "open", "library"),
     ZmqLibraryShutdown |-> Keyword(<<>>, "close", "library"),
     ZmqLibraryLoaded   |-> Keyword(<<>>, "loaded", "library")]

ErrorKeywords ==
    [ZmqErrno          |-> Keyword(<<>>, "zmq_errno", "errno"),
     ZmqStrerror       |-> Keyword(<<I>>, "zmq_strerror", "pointer"),
     ZmqStrerrorString |-> Keyword(<<I>>, "zmq_strerror", "message")]

QueryKeywords ==
    [ZmqVersionMajor |-> Keyword(<<>>, "zmq_version", "number"),
     ZmqVersionMinor |-> Keyword(<<>>, "zmq_version", "number"),
     ZmqVersionPatch |-> Keyword(<<>>, "zmq_version", "number"),
     ZmqHas          |-> Keyword(<<S>>, "zmq_has", "number")]

ContextKeywords ==
    [ZmqCtxNew      |-> Keyword(<<>>, "zmq_ctx_new", "handle"),
     ZmqCtxTerm     |-> Keyword(<<I>>, "zmq_ctx_term", "rc"),
     ZmqCtxShutdown |-> Keyword(<<I>>, "zmq_ctx_shutdown", "rc")]

ContextOptionKeywords ==
    [ZmqCtxSet |-> Keyword(<<I, I, I>>, "zmq_ctx_set", "rc"),
     ZmqCtxGet |-> Keyword(<<I, I>>, "zmq_ctx_get", "count")]

SocketKeywords ==
    [ZmqSocket |-> Keyword(<<I, I>>, "zmq_socket", "handle"),
     ZmqClose  |-> Keyword(<<I>>, "zmq_close", "rc")]

BindKeywords ==
    [ZmqBind    |-> Keyword(<<I, S>>, "zmq_bind", "rc"),
     ZmqConnect |-> Keyword(<<I, S>>, "zmq_connect", "rc")]

UnbindKeywords ==
    [ZmqUnbind     |-> Keyword(<<I, S>>, "zmq_unbind", "rc"),
     ZmqDisconnect |-> Keyword(<<I, S>>, "zmq_disconnect", "rc")]

BufferKeywords ==
    [ZmqSend |-> Keyword(<<I, I, I, I>>, "zmq_send", "count"),
     ZmqRecv |-> Keyword(<<I, I, I, I>>, "zmq_recv", "count")]

TextKeywords ==
    [ZmqSendStr |-> Keyword(<<I, S, I>>, "zmq_send", "count"),
     ZmqRecvStr |-> Keyword(<<I, I, I>>, "zmq_recv", "string")]

OptionKeywords ==
    [ZmqSetsockoptInt |-> Keyword(<<I, I, I>>, "zmq_setsockopt", "rc"),
     ZmqSetsockoptStr |-> Keyword(<<I, I, S>>, "zmq_setsockopt", "rc"),
     ZmqGetsockoptInt |-> Keyword(<<I, I>>, "zmq_getsockopt", "option")]

CurveKeywords ==
    [ZmqCurveKeypair |-> Keyword(<<I, I>>, "zmq_curve_keypair", "rc"),
     ZmqCurvePublic  |-> Keyword(<<I, S>>, "zmq_curve_public", "rc")]

Z85Keywords ==
    [ZmqZ85Encode |-> Keyword(<<I, I, I>>, "zmq_z85_encode", "handle"),
     ZmqZ85Decode |-> Keyword(<<I, S>>, "zmq_z85_decode", "handle")]

Z85StrKeywords ==
    [ZmqZ85EncodeStr |-> Keyword(<<I, I>>, "zmq_z85_encode", "key"),
     ZmqZ85DecodeStr |-> Keyword(<<S, I, I>>, "zmq_z85_decode", "handle")]

CurveStrKeywords ==
    [ZmqCurvePublicStr |-> Keyword(<<S>>, "zmq_curve_public", "key")]

KeywordGroups ==
    {LibraryKeywords, ErrorKeywords, QueryKeywords, ContextKeywords,
     ContextOptionKeywords, SocketKeywords, BindKeywords, UnbindKeywords,
     BufferKeywords, TextKeywords, OptionKeywords, CurveKeywords, Z85Keywords,
     Z85StrKeywords, CurveStrKeywords}

\* Everything _LoadLocalSymbols registers.
AllKeywords ==
    [kw \in UNION {DOMAIN group : group \in KeywordGroups} |->
        (CHOOSE group \in KeywordGroups : kw \in DOMAIN group)[kw]]

\* The keywords registered with LoadSymbol_FB: they return a string.
ReturnsString(kw) == AllKeywords[kw].report \in {"string", "key", "message"}

-----------------------------------------------------------------------------
(* What an executor returns when it does not get through.                  *)

\* A parenthesis, comma or string argument is missing. Most executors say 0,
\* four of them -1, and those that return a string say "".
ParseFailureValue(kw) ==
    IF ReturnsString(kw) THEN "empty"
    ELSE IF kw \in {"ZmqCurveKeypair", "ZmqCurvePublic", "ZmqCtxSet",
                    "ZmqCtxGet"}
         THEN "-1" ELSE "0"

\* The executors with a check of their own once the arguments are parsed:
\* text too long for the local copy, a NULL buffer, a bad length.
ChecksArguments ==
    {"ZmqBind", "ZmqConnect", "ZmqUnbind", "ZmqDisconnect", "ZmqSendStr",
     "ZmqRecvStr", "ZmqSetsockoptStr", "ZmqCurveKeypair", "ZmqCurvePublic",
     "ZmqZ85Encode", "ZmqZ85Decode", "ZmqZ85EncodeStr", "ZmqZ85DecodeStr",
     "ZmqCurvePublicStr"}

\* The value that stands for failure.
FailureValue(report) ==
    CASE report \in {"rc", "count", "option"} -> "-1"
      [] report = "handle" -> "0"
      [] report \in {"string", "key"} -> "empty"

RefusalValue(kw) == FailureValue(AllKeywords[kw].report)

\* What comes out when the thunk does not reach libzmq: its own default,
\* converted by the executor. The texts are "libzmq not loaded".
UnservedValue(kw) ==
    CASE AllKeywords[kw].report \in {"rc", "count", "option", "errno"} -> "-1"
      [] AllKeywords[kw].report \in {"handle", "number"} -> "0"
      [] AllKeywords[kw].report \in {"string", "key"} -> "empty"
      [] AllKeywords[kw].report = "pointer" -> "n"
      [] AllKeywords[kw].report = "message" -> "text"

-----------------------------------------------------------------------------
(* External: what libzmq can answer, as the executor converts it.          *)

CanFail(kw) ==
    /\ kw \in DOMAIN AllKeywords
    /\ AllKeywords[kw].report \in
           {"rc", "count", "option", "handle", "string", "key"}

SuccessValues(kw) ==
    CASE AllKeywords[kw].report = "rc" -> {"0"}
      [] AllKeywords[kw].report = "count" -> {"0", "n"}
      [] AllKeywords[kw].report = "option" -> {"0", "n", "-1"}
      [] AllKeywords[kw].report \in {"handle", "pointer"} -> {"n"}
      [] AllKeywords[kw].report = "string" -> {"empty", "text"}
      [] AllKeywords[kw].report \in {"key", "message"} -> {"text"}
      [] AllKeywords[kw].report \in {"errno", "number"} -> {"0", "n"}

=============================================================================
