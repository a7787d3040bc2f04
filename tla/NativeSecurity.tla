--------------------------- MODULE NativeSecurity ---------------------------
(***************************************************************************)
(* The Z85 helpers of the native edition (ThinBasicZMQ/Core/Security.inc)  *)
(* beside the executors of the SDK that are to align with them. A step is  *)
(* a call in the SDK, or the same call in both editions, so that a script  *)
(* which moves from one to the other can be asked about.                   *)
(*                                                                         *)
(* The native helpers keep no limit on the text: they allocate what they   *)
(* need (and are taken to get it) and leave the length of a text to        *)
(* zmq_z85_decode, which is external and takes multiples of 5. Sizes are   *)
(* those whose products fit a word. ZmqCurvePublicStr is not compared: the *)
(* native one asks libzmq about keys of any length.                        *)
(***************************************************************************)
EXTENDS ExecBuffers

VARIABLE native     \* what the native edition made of the last call, if made

\* Whether the call succeeded, and the length of the text returned.
Outcome(ok, length) == [ok |-> ok, length |-> length]

SecurityInit == Init /\ native = {}

-----------------------------------------------------------------------------
\* ZmqZ85EncodeStr of Security.inc; Peek$ takes the text up to its NUL.
NativeEncodeAccepts(size) == size > 0 /\ size % 4 = 0

NativeZ85EncodeStr(size) ==
    /\ size >= 0 /\ 5 * size < Word
    /\ Z85EncodeStr(TRUE, size)
    /\ native' = {IF NativeEncodeAccepts(size)
                  THEN Outcome(TRUE, Encoded(size))
                  ELSE Outcome(FALSE, 0)}

\* Mutant: room is asked for the NUL that only the encoder writes.
NativeDecodeAcceptsLess(dest, len, destSize) ==
    dest /\ Decoded(len) > 0 /\ destSize > Decoded(len) /\ len % 5 = 0

\* ZmqZ85DecodeStr of Security.inc, and zmq_z85_decode on the length.
NativeDecodeAccepts(dest, len, destSize) ==
    dest /\ Decoded(len) > 0 /\ destSize >= Decoded(len) /\ len % 5 = 0

NativeZ85DecodeStr(dest, len, destSize) ==
    /\ destSize >= 0 /\ 4 * len < Word
    /\ Z85DecodeStr(dest, len, destSize)
    /\ native' = {Outcome(NativeDecodeAccepts(dest, len, destSize), 0)}

\* Any call of ExecBuffers, in the SDK alone.
SdkAlone == Next /\ native' = {}

SecurityNext ==
    \/ SdkAlone
    \/ \E size \in Lengths : NativeZ85EncodeStr(size)
    \/ \E dest \in BOOLEAN, len \in TextLengths, destSize \in Lengths :
          NativeZ85DecodeStr(dest, len, destSize)

SecuritySpec == SecurityInit /\ [][SecurityNext]_<<call, native>>

-----------------------------------------------------------------------------
(* Properties.                                                             *)

\* The length of the Z85 text of the last call.
TextLength ==
    IF call.kw = "ZmqZ85EncodeStr" THEN Encoded(call.given) ELSE call.given

\* Below the SDK's limit the editions accept the same calls and return the
\* same text, although one checks a length where the other leaves it to
\* libzmq, and they compute the room from different sides; and a text that one
\* edition returns, the other decodes into a buffer of exactly the original size.
EditionsInterchange ==
    \A n \in native :
        /\ TextLength < StrMax => call.asked = n.ok /\ call.length = n.length
        /\ call.kw = "ZmqZ85EncodeStr" =>
              /\ call.asked => NativeDecodeAccepts(TRUE, call.length, call.given)
              /\ n.ok /\ n.length < StrMax
                    => DecodeStrAccepts(n.length, call.given)

=============================================================================
