---------------------------- MODULE ExecBuffers ----------------------------
(***************************************************************************)
(* The length arithmetic of the executors in SDK/C/src/tb_zmq_exec.c: what *)
(* each accepts, how much it writes to which buffer and how much it gives  *)
(* back, in the unsigned arithmetic of a 32-bit process.                   *)
(*                                                                         *)
(* One step is one call that has parsed its arguments. Bytes and texts are *)
(* represented by their lengths. libzmq is external: zmq_recv writes at    *)
(* most the room it is given and answers the length of the whole message,  *)
(* zmq_z85_encode writes 5 characters for every 4 bytes and a NUL,         *)
(* zmq_z85_decode writes 4 bytes for every 5 characters.                   *)
(***************************************************************************)
EXTENDS Integers

CONSTANTS
    Word,       \* unsigned arithmetic is modulo Word (2^32)
    StrMax,     \* TB_RETURN_STRING_MAX
    MaxPath,    \* MAX_PATH: room for an endpoint
    ValueMax,   \* room for an option value, and for text ZmqZ85Decode takes
    KeyLen,     \* ZMQ_CURVE_KEYSIZE_Z85
    Lengths     \* the lengths and sizes a script comes up with

ASSUME BuffersAssumption ==
    /\ Word \in Nat /\ StrMax \in Nat /\ MaxPath \in Nat /\ ValueMax \in Nat
    /\ KeyLen \in Nat
    /\ 0 < KeyLen /\ KeyLen < StrMax
    /\ 5 * StrMax < Word
ASSUME LengthsAssumption == Lengths \subseteq Int

VARIABLE call   \* the last call

\* A call: whether its buffers were given, the length or size it was given,
\* whether libzmq was asked, every buffer of known size that was written to
\* as <<bytes written, room>>, and the length of the text sent or returned.
Call(kw, ptrs, given, asked, writes, length) ==
    [kw |-> kw, ptrs |-> ptrs, given |-> given, asked |-> asked,
     writes |-> writes, length |-> length]

Refused(kw, ptrs, given) == Call(kw, ptrs, given, FALSE, {}, 0)

Init == call = Refused("none", TRUE, 0)

\* Text handed over by tb_parse_string.
TextLengths == Lengths \cap Nat

Least(a, b) == IF a <= b THEN a ELSE b

-----------------------------------------------------------------------------
(* Returned strings.                                                       *)

\* tb_return_string_n: more than the maximum becomes the empty string.
ReturnStringN(len) == IF len > StrMax THEN 0 ELSE len

\* tb_return_string scans for the NUL; one that comes too late is an error,
\* answered with NULL, which a script sees as empty.
ReturnString(len) == IF len >= StrMax THEN 0 ELSE ReturnStringN(len)

-----------------------------------------------------------------------------
(* Text in.                                                                *)

\* Mutant: no room is left for the NUL.
EndpointFitsBarely(len) == len <= MaxPath

\* Endpoints are copied with a NUL.
EndpointFits(len) == len < MaxPath

Endpoint(len) ==
    call' = IF EndpointFits(len)
            THEN Call("endpoint", TRUE, len, TRUE, {<<len + 1, MaxPath>>}, len)
            ELSE Refused("endpoint", TRUE, len)

SetsockoptStr(len) ==
    call' = IF len < ValueMax
            THEN Call("ZmqSetsockoptStr", TRUE, len, TRUE,
                      {<<len + 1, ValueMax>>}, len)
            ELSE Refused("ZmqSetsockoptStr", TRUE, len)

\* A message is copied without a NUL: it may fill the buffer.
SendStr(len) ==
    call' = IF len <= StrMax
            THEN Call("ZmqSendStr", TRUE, len, TRUE, {<<len, StrMax>>}, len)
            ELSE Refused("ZmqSendStr", TRUE, len)

-----------------------------------------------------------------------------
(* Text out.                                                               *)

\* Mutant: the last byte of the buffer is kept for a NUL.
RecvRoomForNul(maxLen) == Least(maxLen, StrMax - 1)

\* The room offered to zmq_recv.
RecvRoom(maxLen) == Least(maxLen, StrMax)

\* Mutant: the length of the message is taken for that of the text received.
ReceivedWhole(n, maxLen) == n

\* zmq_recv answers the length of the message, even of one it cut short.
Received(n, maxLen) == Least(n, RecvRoom(maxLen))

\* A message of n bytes arrives. (A failed zmq_recv, n < 0, gives "".)
RecvStr(maxLen, n) ==
    call' = IF maxLen <= 0
            THEN Refused("ZmqRecvStr", TRUE, n)
            ELSE Call("ZmqRecvStr", TRUE, n, TRUE,
                      {<<Least(n, RecvRoom(maxLen)), StrMax>>},
                      ReturnStringN(Received(n, maxLen)))

-----------------------------------------------------------------------------
(* Keys.                                                                   *)

\* The secret is copied with a NUL.
CurvePublic(publicBuf, len) ==
    call' = IF publicBuf /\ len = KeyLen
            THEN Call("ZmqCurvePublic", publicBuf, len, TRUE,
                      {<<len + 1, KeyLen + 1>>}, 0)
            ELSE Refused("ZmqCurvePublic", publicBuf, len)

\* The public key, as long as the secret one, comes into a second buffer.
CurvePublicStr(len) ==
    call' = IF len = KeyLen
            THEN Call("ZmqCurvePublicStr", TRUE, len, TRUE,
                      {<<len + 1, KeyLen + 1>>}, ReturnString(KeyLen))
            ELSE Refused("ZmqCurvePublicStr", TRUE, len)

-----------------------------------------------------------------------------
(* Z85.                                                                    *)

\* What libzmq writes.
Encoded(size) == (size * 5) \div 4
Decoded(len) == (len * 4) \div 5

\* What the executor computes.
EncodedLen(size) == ((size * 5) % Word) \div 4

EncodeStrAccepts(size) ==
    /\ size > 0
    /\ size % 4 = 0
    /\ EncodedLen(size) # 0
    /\ EncodedLen(size) < StrMax

Z85EncodeStr(data, size) ==
    call' = IF data /\ EncodeStrAccepts(size)
            THEN Call("ZmqZ85EncodeStr", data, size, TRUE,
                      {<<Encoded(size) + 1, StrMax>>},
                      ReturnString(Encoded(size)))
            ELSE Refused("ZmqZ85EncodeStr", data, size)

\* ZmqZ85Encode leaves the room at the destination to its caller.
Z85Encode(bufs, size) ==
    call' = IF bufs /\ size > 0 /\ size % 4 = 0
            THEN Call("ZmqZ85Encode", bufs, size, TRUE, {}, Encoded(size))
            ELSE Refused("ZmqZ85Encode", bufs, size)

\* Text to decode is copied with a NUL.
DecodeAccepts(len) == len # 0 /\ len % 5 = 0 /\ len < ValueMax

Z85Decode(dest, len) ==
    call' = IF dest /\ DecodeAccepts(len)
            THEN Call("ZmqZ85Decode", dest, len, TRUE,
                      {<<len + 1, ValueMax>>}, 0)
            ELSE Refused("ZmqZ85Decode", dest, len)

DecodeNeed(len) == ((len * 4) % Word) \div 5

\* Mutant: room is asked for the NUL that only the encoder writes.
DecodeStrAcceptsMore(len, destSize) ==
    /\ destSize > 0
    /\ len # 0
    /\ len % 5 = 0
    /\ len < StrMax
    /\ DecodeNeed(len) # 0
    /\ destSize >= DecodeNeed(len) + 1

DecodeStrAccepts(len, destSize) ==
    /\ destSize > 0
    /\ len # 0
    /\ len % 5 = 0
    /\ len < StrMax
    /\ DecodeNeed(len) # 0
    /\ destSize >= DecodeNeed(len)

\* This one knows the room at the destination as well.
Z85DecodeStr(dest, len, destSize) ==
    call' = IF dest /\ DecodeStrAccepts(len, destSize)
            THEN Call("ZmqZ85DecodeStr", dest, len, TRUE,
                      {<<len + 1, StrMax>>, <<Decoded(len), destSize>>}, 0)
            ELSE Refused("ZmqZ85DecodeStr", dest, len)

-----------------------------------------------------------------------------
Next ==
    \/ \E len \in TextLengths :
          \/ Endpoint(len)
          \/ SetsockoptStr(len)
          \/ SendStr(len)
          \/ CurvePublicStr(len)
    \/ \E ptrs \in BOOLEAN, len \in TextLengths :
          \/ CurvePublic(ptrs, len)
          \/ Z85Decode(ptrs, len)
    \/ \E ptrs \in BOOLEAN, size \in Lengths :
          \/ Z85EncodeStr(ptrs, size)
          \/ Z85Encode(ptrs, size)
    \/ \E maxLen \in Lengths, n \in TextLengths : RecvStr(maxLen, n)
    \/ \E ptrs \in BOOLEAN, len \in TextLengths, destSize \in Lengths :
          Z85DecodeStr(ptrs, len, destSize)

Spec == Init /\ [][Next]_call

-----------------------------------------------------------------------------
(* Properties.                                                             *)

\* No executor writes more to a buffer than it has room for, at any length,
\* the NUL included. ZmqZ85EncodeStr is held to it for the sizes whose
\* product with 5 fits a word: see EncodedLengthIsCapped.
CopiesFit ==
    \/ \A w \in call.writes : w[1] <= w[2]
    \/ call.kw = "ZmqZ85EncodeStr" /\ 5 * call.given >= Word

\* The text ZmqRecvStr returns is exactly the bytes that zmq_recv wrote: no
\* byte of an uninitialised buffer when a message was cut short, and none
\* dropped, at any combination of message length and maxLen.
ReceivedIsWritten ==
    call.kw = "ZmqRecvStr" /\ call.asked => call.writes = {<<call.length, StrMax>>}

\* What ZmqSendStr sends, ZmqRecvStr with the full maxLen returns in full:
\* both sides agree on the longest text.
TextRoundTrip ==
    call.kw = "ZmqSendStr" /\ call.asked
        => ReturnStringN(Received(call.length, StrMax)) = call.length

\* What ZmqZ85EncodeStr accepts it returns in full (tb_return_string never
\* drops it for want of a NUL), and ZmqZ85DecodeStr takes the text back into
\* a buffer of exactly the original size.
Z85RoundTrip ==
    call.kw = "ZmqZ85EncodeStr" /\ call.asked /\ 5 * call.given < Word
        => /\ call.length = Encoded(call.given)
           /\ DecodeStrAccepts(call.length, call.given)
           /\ Decoded(call.length) = call.given

\* tb_zmq_exec.c:1128: the encoded length is capped so that the result fits.
EncodedLengthIsCapped ==
    call.kw = "ZmqZ85EncodeStr" /\ call.asked => Encoded(call.given) < StrMax

\* SDK/C/README.md:169: ZmqZ85Decode takes an encoded length that is a
\* multiple of 5.
Z85DecodeTakesMultiplesOf5 ==
    /\ call.kw = "ZmqZ85Decode"
    /\ call.ptrs
    /\ call.given > 0 /\ call.given % 5 = 0
    => call.asked

=============================================================================
