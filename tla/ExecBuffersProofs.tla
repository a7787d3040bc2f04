------------------------- MODULE ExecBuffersProofs -------------------------
(***************************************************************************)
(* Proofs about the executors' length arithmetic and about the native      *)
(* helpers beside them, for every buffer size, every word size and every   *)
(* set of lengths.                                                         *)
(***************************************************************************)
EXTENDS NativeSecurity, TLAPS

\* Below the word size, arithmetic modulo the word is arithmetic.
LEMMA NoWrap ==
    ASSUME NEW x \in Nat, x < Word PROVE x % Word = x
BY BuffersAssumption

\* The encoder's text, as the executor computes it, is what is written.
LEMMA EncodedLenExact ==
    ASSUME NEW size \in Nat, 5 * size < Word
    PROVE  EncodedLen(size) = Encoded(size)
<1>1. size * 5 \in Nat /\ size * 5 < Word
    OBVIOUS
<1> QED BY <1>1, NoWrap DEF EncodedLen, Encoded

\* Text short enough to be decoded never wraps.
LEMMA DecodeNeedExact ==
    ASSUME NEW len \in Nat, len < StrMax
    PROVE  DecodeNeed(len) = Decoded(len)
<1>1. len * 4 \in Nat /\ len * 4 < Word
    BY BuffersAssumption
<1> QED BY <1>1, NoWrap DEF DecodeNeed, Decoded

LEMMA LeastBounds ==
    ASSUME NEW a \in Int, NEW b \in Int
    PROVE  Least(a, b) \in Int /\ Least(a, b) <= a /\ Least(a, b) <= b
BY DEF Least

LEMMA LengthsAreInts ==
    /\ \A len \in Lengths : len \in Int
    /\ \A len \in TextLengths : len \in Nat
BY LengthsAssumption DEF TextLengths

\* A call whose writes all fit.
Fits(c) == \A w \in c.writes : w[1] <= w[2]

LEMMA RefusedFits ==
    ASSUME NEW kw, NEW ptrs, NEW given
    PROVE  Fits(Refused(kw, ptrs, given))
BY DEF Fits, Refused, Call

LEMMA OneWriteFits ==
    ASSUME NEW kw, NEW ptrs, NEW given, NEW length,
           NEW wrote \in Int, NEW room \in Int, wrote <= room
    PROVE  Fits(Call(kw, ptrs, given, TRUE, {<<wrote, room>>}, length))
BY DEF Fits, Call

LEMMA TextInFits ==
    ASSUME NEW len \in TextLengths,
           \/ Endpoint(len) \/ SetsockoptStr(len) \/ SendStr(len)
           \/ CurvePublicStr(len)
    PROVE  Fits(call')
<1> USE BuffersAssumption, LengthsAreInts DEF Fits, Call, Refused
<1>1. CASE Endpoint(len)
    <2>1. CASE EndpointFits(len)
        BY <1>1, <2>1 DEF Endpoint, EndpointFits
    <2> QED BY <1>1, <2>1 DEF Endpoint
<1>2. CASE SetsockoptStr(len)
    <2>1. CASE len < ValueMax
        BY <1>2, <2>1 DEF SetsockoptStr
    <2> QED BY <1>2, <2>1 DEF SetsockoptStr
<1>3. CASE SendStr(len)
    <2>1. CASE len <= StrMax
        BY <1>3, <2>1 DEF SendStr
    <2> QED BY <1>3, <2>1 DEF SendStr
<1>4. CASE CurvePublicStr(len)
    <2>1. CASE len = KeyLen
        BY <1>4, <2>1 DEF CurvePublicStr
    <2> QED BY <1>4, <2>1 DEF CurvePublicStr
<1> QED BY <1>1, <1>2, <1>3, <1>4

LEMMA KeysInFit ==
    ASSUME NEW ptrs \in BOOLEAN, NEW len \in TextLengths,
           CurvePublic(ptrs, len) \/ Z85Decode(ptrs, len)
    PROVE  Fits(call')
<1> USE BuffersAssumption, LengthsAreInts DEF Fits, Call, Refused
<1>1. CASE CurvePublic(ptrs, len)
    <2>1. CASE ptrs /\ len = KeyLen
        BY <1>1, <2>1 DEF CurvePublic
    <2> QED BY <1>1, <2>1 DEF CurvePublic
<1>2. CASE Z85Decode(ptrs, len)
    <2>1. CASE ptrs /\ DecodeAccepts(len)
        BY <1>2, <2>1 DEF Z85Decode, DecodeAccepts
    <2> QED BY <1>2, <2>1 DEF Z85Decode
<1> QED BY <1>1, <1>2

\* A message longer than the room offered does not overrun it.
LEMMA RecvStrFits ==
    ASSUME NEW maxLen \in Lengths, NEW n \in TextLengths, RecvStr(maxLen, n)
    PROVE  Fits(call')
<1> DEFINE wrote == Least(n, RecvRoom(maxLen))
<1>1. maxLen \in Int /\ n \in Int /\ StrMax \in Int
    BY LengthsAreInts, BuffersAssumption
<1>2. RecvRoom(maxLen) \in Int /\ RecvRoom(maxLen) <= StrMax
    BY <1>1, LeastBounds DEF RecvRoom
<1>3. wrote \in Int /\ wrote <= RecvRoom(maxLen)
    BY <1>1, <1>2, LeastBounds
<1>4. wrote <= StrMax
    BY <1>1, <1>2, <1>3
<1> HIDE DEF wrote
<1>5. CASE maxLen <= 0
    BY <1>5, RefusedFits DEF RecvStr
<1>6. CASE ~(maxLen <= 0)
    BY <1>1, <1>3, <1>4, <1>6, OneWriteFits DEF RecvStr, wrote
<1> QED BY <1>5, <1>6

\* The decoder fits both its copy of the text and the caller's buffer.
LEMMA Z85DecodeStrFits ==
    ASSUME NEW ptrs \in BOOLEAN, NEW len \in TextLengths,
           NEW destSize \in Lengths, Z85DecodeStr(ptrs, len, destSize)
    PROVE  Fits(call')
<1>1. len \in Nat /\ destSize \in Int
    BY LengthsAreInts
<1>2. CASE ptrs /\ DecodeStrAccepts(len, destSize)
    <2>1. len + 1 <= StrMax /\ DecodeNeed(len) <= destSize
        BY <1>1, <1>2, BuffersAssumption DEF DecodeStrAccepts, DecodeNeed
    <2>2. Decoded(len) <= destSize
        BY <1>1, <1>2, <2>1, DecodeNeedExact DEF DecodeStrAccepts
    <2>3. call'.writes = {<<len + 1, StrMax>>, <<Decoded(len), destSize>>}
        BY <1>2 DEF Z85DecodeStr, Call
    <2> QED BY <2>1, <2>2, <2>3 DEF Fits
<1>3. CASE ~(ptrs /\ DecodeStrAccepts(len, destSize))
    BY <1>3, RefusedFits DEF Z85DecodeStr
<1> QED BY <1>2, <1>3

\* The encoder's local buffer holds the text and its NUL, unless the product
\* that the limit is applied to has wrapped.
LEMMA Z85EncodeStrFits ==
    ASSUME NEW ptrs \in BOOLEAN, NEW size \in Lengths,
           Z85EncodeStr(ptrs, size)
    PROVE  \/ Fits(call')
           \/ call'.kw = "ZmqZ85EncodeStr" /\ 5 * call'.given >= Word
<1>1. size \in Int
    BY LengthsAreInts
<1>2. CASE ptrs /\ EncodeStrAccepts(size)
    <2>1. size \in Nat /\ EncodedLen(size) < StrMax
        BY <1>1, <1>2 DEF EncodeStrAccepts
    <2>2. CASE 5 * size < Word
        <3>1. Encoded(size) < StrMax
            BY <2>1, <2>2, EncodedLenExact
        <3>2. Encoded(size) \in Int
            BY <2>1 DEF Encoded
        <3>3. Encoded(size) + 1 \in Int /\ Encoded(size) + 1 <= StrMax
            BY <3>1, <3>2, BuffersAssumption
        <3>4. StrMax \in Int
            BY BuffersAssumption
        <3> QED
            BY <1>2, <3>3, <3>4, OneWriteFits DEF Z85EncodeStr
    <2>3. CASE ~(5 * size < Word)
        <3>1. 5 * size >= Word
            BY <1>1, <2>3, BuffersAssumption
        <3>2. call'.kw = "ZmqZ85EncodeStr" /\ call'.given = size
            BY <1>2 DEF Z85EncodeStr, Call
        <3> QED BY <3>1, <3>2
    <2> QED BY <2>2, <2>3
<1>3. CASE ~(ptrs /\ EncodeStrAccepts(size))
    BY <1>3, RefusedFits DEF Z85EncodeStr
<1> QED BY <1>2, <1>3

LEMMA Z85EncodeFits ==
    ASSUME NEW ptrs \in BOOLEAN, NEW size \in Lengths, Z85Encode(ptrs, size)
    PROVE  Fits(call')
BY DEF Z85Encode, Fits, Refused, Call

\* No executor overruns a buffer, whatever the lengths.
THEOREM CopiesAlwaysFit == Spec => []CopiesFit
<1>1. Init => CopiesFit
    BY RefusedFits DEF Init, CopiesFit, Fits
<1>2. CopiesFit /\ [Next]_call => CopiesFit'
    <2> SUFFICES ASSUME CopiesFit, [Next]_call PROVE CopiesFit'
        OBVIOUS
    <2>1. CASE UNCHANGED call
        BY <2>1 DEF CopiesFit
    <2>2. CASE Next
        <3>1. \/ Fits(call')
              \/ call'.kw = "ZmqZ85EncodeStr" /\ 5 * call'.given >= Word
            BY <2>2, TextInFits, KeysInFit, RecvStrFits, Z85DecodeStrFits,
               Z85EncodeStrFits, Z85EncodeFits
               DEF Next
        <3> QED BY <3>1 DEF CopiesFit, Fits
    <2> QED BY <2>1, <2>2
<1> QED BY <1>1, <1>2, PTL DEF Spec

\* Encoding and decoding agree: a text that the encoder accepts has the
\* length the decoder wants for a buffer of the original size.
THEOREM Z85LengthsRoundTrip ==
    ASSUME NEW size \in Nat, 5 * size < Word, EncodeStrAccepts(size)
    PROVE  /\ ReturnString(Encoded(size)) = Encoded(size)
           /\ DecodeStrAccepts(Encoded(size), size)
           /\ Decoded(Encoded(size)) = size
<1>1. /\ size > 0 /\ size % 4 = 0
      /\ Encoded(size) # 0 /\ Encoded(size) < StrMax
    BY EncodedLenExact DEF EncodeStrAccepts
<1>2. PICK k \in Nat : size = 4 * k
    <2>1. size = 4 * (size \div 4)
        BY <1>1
    <2>2. size \div 4 \in Nat
        OBVIOUS
    <2> QED BY <2>1, <2>2
<1>3. Encoded(size) = 5 * k
    BY <1>2 DEF Encoded
<1>4. Decoded(5 * k) = 4 * k
    BY <1>2 DEF Decoded
<1>5. DecodeNeed(5 * k) = 4 * k
    BY <1>1, <1>2, <1>3, <1>4, DecodeNeedExact
<1>6. (5 * k) % 5 = 0
    BY <1>2
<1>7. ReturnString(Encoded(size)) = Encoded(size)
    BY <1>1, <1>2, <1>3, BuffersAssumption DEF ReturnString, ReturnStringN
<1>8. DecodeStrAccepts(Encoded(size), size)
    BY <1>1, <1>2, <1>3, <1>5, <1>6 DEF DecodeStrAccepts
<1> QED BY <1>2, <1>3, <1>4, <1>7, <1>8

\* Only ZmqZ85EncodeStr makes calls under its name, with a size that is a
\* natural number when it asks libzmq.
LEMMA EncodeCalls ==
    ASSUME Next, call'.kw = "ZmqZ85EncodeStr", call'.asked
    PROVE  /\ EncodeStrAccepts(call'.given)
           /\ call'.given \in Nat
           /\ call'.length = ReturnString(Encoded(call'.given))
<1>1. PICK data \in BOOLEAN, size \in Lengths : Z85EncodeStr(data, size)
    BY DEF Next, Endpoint, SetsockoptStr, SendStr, CurvePublicStr, CurvePublic,
           Z85Decode, Z85Encode, RecvStr, Z85DecodeStr, Call, Refused
<1>2. data /\ EncodeStrAccepts(size)
    BY <1>1 DEF Z85EncodeStr, Refused, Call
<1>3. size \in Nat
    <2>1. size \in Int /\ size > 0
        BY <1>2, LengthsAreInts DEF EncodeStrAccepts
    <2> QED BY <2>1
<1> QED BY <1>1, <1>2, <1>3 DEF Z85EncodeStr, Call

\* What ZmqZ85EncodeStr returns, ZmqZ85DecodeStr takes back.
THEOREM Z85AlwaysRoundTrips == Spec => []Z85RoundTrip
<1>1. Init => Z85RoundTrip
    BY DEF Init, Refused, Call, Z85RoundTrip
<1>2. Z85RoundTrip /\ [Next]_call => Z85RoundTrip'
    <2> SUFFICES ASSUME Z85RoundTrip, [Next]_call PROVE Z85RoundTrip'
        OBVIOUS
    <2>1. CASE UNCHANGED call
        BY <2>1 DEF Z85RoundTrip
    <2>2. CASE Next
        <3> SUFFICES ASSUME call'.kw = "ZmqZ85EncodeStr", call'.asked,
                            5 * call'.given < Word
                     PROVE  /\ call'.length = Encoded(call'.given)
                            /\ DecodeStrAccepts(call'.length, call'.given)
                            /\ Decoded(call'.length) = call'.given
            BY DEF Z85RoundTrip
        <3>1. /\ EncodeStrAccepts(call'.given)
              /\ call'.given \in Nat
              /\ call'.length = ReturnString(Encoded(call'.given))
            BY <2>2, EncodeCalls
        <3> QED BY <3>1, Z85LengthsRoundTrip
    <2> QED BY <2>1, <2>2
<1> QED BY <1>1, <1>2, PTL DEF Spec

\* ZmqRecvStr returns exactly the bytes that zmq_recv wrote.
THEOREM ReceivedIsAlwaysWritten == Spec => []ReceivedIsWritten
<1>1. Init => ReceivedIsWritten
    BY DEF Init, Refused, Call, ReceivedIsWritten
<1>2. ReceivedIsWritten /\ [Next]_call => ReceivedIsWritten'
    <2> SUFFICES ASSUME ReceivedIsWritten, [Next]_call PROVE ReceivedIsWritten'
        OBVIOUS
    <2>1. CASE UNCHANGED call
        BY <2>1 DEF ReceivedIsWritten
    <2>2. CASE Next
        <3> SUFFICES ASSUME call'.kw = "ZmqRecvStr", call'.asked
                     PROVE  call'.writes = {<<call'.length, StrMax>>}
            BY DEF ReceivedIsWritten
        <3>1. PICK maxLen \in Lengths, n \in TextLengths : RecvStr(maxLen, n)
            BY <2>2
               DEF Next, Endpoint, SetsockoptStr, SendStr, CurvePublicStr,
                   CurvePublic, Z85Decode, Z85Encode, Z85EncodeStr,
                   Z85DecodeStr, Call, Refused
        <3>2. ~(maxLen <= 0)
            BY <3>1 DEF RecvStr, Refused, Call
        <3>3. /\ call'.writes = {<<Received(n, maxLen), StrMax>>}
              /\ call'.length = ReturnStringN(Received(n, maxLen))
            BY <3>1, <3>2 DEF RecvStr, Received, Call
        <3>4. Received(n, maxLen) \in Int /\ Received(n, maxLen) <= StrMax
            <4>1. maxLen \in Int /\ n \in Int /\ StrMax \in Int
                BY LengthsAreInts, BuffersAssumption
            <4>2. RecvRoom(maxLen) \in Int /\ RecvRoom(maxLen) <= StrMax
                BY <4>1, LeastBounds DEF RecvRoom
            <4>3. /\ Received(n, maxLen) \in Int
                  /\ Received(n, maxLen) <= RecvRoom(maxLen)
                BY <4>1, <4>2, LeastBounds DEF Received
            <4> QED BY <4>1, <4>2, <4>3
        <3>5. ReturnStringN(Received(n, maxLen)) = Received(n, maxLen)
            BY <3>4, BuffersAssumption DEF ReturnStringN
        <3> QED BY <3>3, <3>5
    <2> QED BY <2>1, <2>2
<1> QED BY <1>1, <1>2, PTL DEF Spec

-----------------------------------------------------------------------------
(* Texts sent and received.                                                *)

\* What ZmqSendStr sends, ZmqRecvStr with the full maxLen returns in full.
THEOREM TextAlwaysRoundTrips == Spec => []TextRoundTrip
<1>1. Init => TextRoundTrip
    BY DEF Init, Refused, Call, TextRoundTrip
<1>2. TextRoundTrip /\ [Next]_call => TextRoundTrip'
    <2> SUFFICES ASSUME TextRoundTrip, [Next]_call PROVE TextRoundTrip'
        OBVIOUS
    <2>1. CASE UNCHANGED call
        BY <2>1 DEF TextRoundTrip
    <2>2. CASE Next
        <3> SUFFICES ASSUME call'.kw = "ZmqSendStr", call'.asked
                     PROVE  ReturnStringN(Received(call'.length, StrMax))
                              = call'.length
            BY DEF TextRoundTrip
        <3>1. PICK len \in TextLengths : SendStr(len)
            BY <2>2
               DEF Next, Endpoint, SetsockoptStr, CurvePublicStr, CurvePublic,
                   Z85Decode, Z85Encode, Z85EncodeStr, Z85DecodeStr, RecvStr,
                   Call, Refused
        <3>2. call'.length = len /\ len <= StrMax
            BY <3>1 DEF SendStr, Call, Refused
        <3>3. len \in Int /\ StrMax \in Int
            BY LengthsAreInts, BuffersAssumption
        <3> QED BY <3>2, <3>3 DEF Received, RecvRoom, Least, ReturnStringN
    <2> QED BY <2>1, <2>2
<1> QED BY <1>1, <1>2, PTL DEF Spec

-----------------------------------------------------------------------------
(* The two editions.                                                       *)

\* A session that also makes native calls makes calls of the executors: all
\* that is proved of these holds of it.
THEOREM SecurityCallsExecutors == SecuritySpec => Spec
<1>1. SecurityInit => Init
    BY DEF SecurityInit
<1>2. [SecurityNext]_<<call, native>> => [Next]_call
    <2>1. ASSUME NEW size \in Lengths, NativeZ85EncodeStr(size) PROVE Next
        BY <2>1 DEF NativeZ85EncodeStr, Next
    <2>2. ASSUME NEW dest \in BOOLEAN, NEW len \in TextLengths,
                 NEW destSize \in Lengths,
                 NativeZ85DecodeStr(dest, len, destSize)
          PROVE  Next
        BY <2>2 DEF NativeZ85DecodeStr, Next
    <2> QED BY <2>1, <2>2 DEF SecurityNext, SdkAlone
<1> QED BY <1>1, <1>2, PTL DEF SecuritySpec, Spec

\* Below the SDK's limit both editions encode the same sizes.
LEMMA EncodersAgree ==
    ASSUME NEW size \in Nat, 5 * size < Word, Encoded(size) < StrMax
    PROVE  EncodeStrAccepts(size) <=> NativeEncodeAccepts(size)
<1>1. EncodedLen(size) = Encoded(size)
    BY EncodedLenExact
<1>2. ASSUME size > 0, size % 4 = 0 PROVE Encoded(size) # 0
    BY <1>2 DEF Encoded
<1> QED BY <1>1, <1>2 DEF EncodeStrAccepts, NativeEncodeAccepts

\* Beyond the limit the SDK refuses, whatever the native edition does.
LEMMA EncoderLimit ==
    ASSUME NEW size \in Nat, 5 * size < Word, EncodeStrAccepts(size)
    PROVE  Encoded(size) < StrMax /\ NativeEncodeAccepts(size)
BY EncodedLenExact DEF EncodeStrAccepts, NativeEncodeAccepts

\* Below the SDK's limit both editions decode the same texts into the same
\* buffers.
LEMMA DecodersAgree ==
    ASSUME NEW dest \in BOOLEAN, NEW len \in Nat, NEW destSize \in Nat,
           len < StrMax
    PROVE  (dest /\ DecodeStrAccepts(len, destSize))
             = NativeDecodeAccepts(dest, len, destSize)
<1>1. DecodeNeed(len) = Decoded(len)
    BY DecodeNeedExact
<1>2. Decoded(len) \in Nat /\ (len = 0 => Decoded(len) = 0)
    BY DEF Decoded
<1> QED BY <1>1, <1>2 DEF DecodeStrAccepts, NativeDecodeAccepts

\* A text that the encoders return, both decoders take back into a buffer of
\* the original size.
LEMMA EncodedDecodes ==
    ASSUME NEW size \in Nat, 5 * size < Word, EncodeStrAccepts(size)
    PROVE  /\ DecodeStrAccepts(Encoded(size), size)
           /\ NativeDecodeAccepts(TRUE, Encoded(size), size)
<1>1. /\ DecodeStrAccepts(Encoded(size), size)
      /\ Encoded(size) < StrMax
    BY Z85LengthsRoundTrip, EncoderLimit
<1>2. Encoded(size) \in Nat
    BY DEF Encoded
<1> QED BY <1>1, <1>2, DecodersAgree

\* What has to be shown when a call was made in both editions.
LEMMA BothEditions ==
    ASSUME NEW n, native' = {n},
           TextLength' < StrMax => call'.asked = n.ok /\ call'.length = n.length,
           call'.kw = "ZmqZ85EncodeStr" =>
              /\ call'.asked => NativeDecodeAccepts(TRUE, call'.length, call'.given)
              /\ n.ok /\ n.length < StrMax
                    => DecodeStrAccepts(n.length, call'.given)
    PROVE  EditionsInterchange'
BY DEF EditionsInterchange

LEMMA OutcomeFields ==
    \A ok, length : /\ Outcome(ok, length).ok = ok
                    /\ Outcome(ok, length).length = length
BY DEF Outcome

LEMMA EncodeInterchange ==
    ASSUME NEW size \in Lengths, NativeZ85EncodeStr(size)
    PROVE  EditionsInterchange'
<1>1. size \in Nat /\ 5 * size < Word
    BY LengthsAreInts DEF NativeZ85EncodeStr
<1>2. native' = {IF NativeEncodeAccepts(size)
                 THEN Outcome(TRUE, Encoded(size)) ELSE Outcome(FALSE, 0)}
    BY DEF NativeZ85EncodeStr
<1>3. /\ call'.kw = "ZmqZ85EncodeStr" /\ call'.given = size
      /\ call'.asked = EncodeStrAccepts(size)
      /\ call'.length = IF EncodeStrAccepts(size)
                        THEN ReturnString(Encoded(size)) ELSE 0
    BY DEF NativeZ85EncodeStr, Z85EncodeStr, Call, Refused, EncodeStrAccepts
<1>4. TextLength' = Encoded(size)
    BY <1>3 DEF TextLength
<1>5. CASE EncodeStrAccepts(size)
    <2>1. call'.asked = TRUE /\ call'.length = Encoded(size)
        BY <1>1, <1>3, <1>5, Z85LengthsRoundTrip
    <2>2. native' = {Outcome(TRUE, Encoded(size))}
        BY <1>1, <1>2, <1>5, EncoderLimit
    <2>3. /\ DecodeStrAccepts(Encoded(size), size)
          /\ NativeDecodeAccepts(TRUE, Encoded(size), size)
        BY <1>1, <1>5, EncodedDecodes
    <2> QED
        BY <1>3, <2>1, <2>2, <2>3, OutcomeFields, BothEditions
<1>6. CASE ~EncodeStrAccepts(size)
    <2>1. call'.asked = FALSE /\ call'.length = 0
        BY <1>3, <1>6 DEF EncodeStrAccepts
    <2>2. CASE NativeEncodeAccepts(size)
        <3>1. ~(Encoded(size) < StrMax)
            BY <1>1, <1>6, <2>2, EncodersAgree
        <3>2. native' = {Outcome(TRUE, Encoded(size))}
            BY <1>2, <2>2
        <3>3. ~(TextLength' < StrMax)
            BY <1>4, <3>1
        <3>4. ~(Outcome(TRUE, Encoded(size)).length < StrMax)
            BY <3>1, OutcomeFields
        <3> QED BY <2>1, <3>2, <3>3, <3>4, BothEditions
    <2>3. CASE ~NativeEncodeAccepts(size)
        <3>1. native' = {Outcome(FALSE, 0)}
            BY <1>2, <2>3
        <3>2. Outcome(FALSE, 0).ok = FALSE /\ Outcome(FALSE, 0).length = 0
            BY OutcomeFields
        <3> QED BY <2>1, <3>1, <3>2, BothEditions
    <2> QED BY <2>2, <2>3
<1> QED BY <1>5, <1>6

LEMMA DecodeInterchange ==
    ASSUME NEW dest \in BOOLEAN, NEW len \in TextLengths,
           NEW destSize \in Lengths, NativeZ85DecodeStr(dest, len, destSize)
    PROVE  EditionsInterchange'
<1>1. len \in Nat /\ destSize \in Nat
    BY LengthsAreInts DEF NativeZ85DecodeStr
<1>2. native' = {Outcome(NativeDecodeAccepts(dest, len, destSize), 0)}
    BY DEF NativeZ85DecodeStr
<1>3. /\ call'.kw = "ZmqZ85DecodeStr" /\ call'.given = len
      /\ call'.length = 0
      /\ call'.asked = (dest /\ DecodeStrAccepts(len, destSize))
    BY DEF NativeZ85DecodeStr, Z85DecodeStr, Call, Refused
<1>4. TextLength' = len
    BY <1>3 DEF TextLength
<1>5. len < StrMax => call'.asked = NativeDecodeAccepts(dest, len, destSize)
    BY <1>1, <1>3, DecodersAgree
<1> QED BY <1>2, <1>3, <1>4, <1>5 DEF EditionsInterchange, Outcome

\* Below the SDK's limit the editions accept the same calls and return the
\* same texts, and each decodes what the other encodes, at every size.
THEOREM EditionsAlwaysInterchange == SecuritySpec => []EditionsInterchange
<1>1. SecurityInit => EditionsInterchange
    BY DEF SecurityInit, EditionsInterchange
<1>2. EditionsInterchange /\ [SecurityNext]_<<call, native>>
        => EditionsInterchange'
    <2> SUFFICES ASSUME EditionsInterchange, [SecurityNext]_<<call, native>>
                 PROVE  EditionsInterchange'
        OBVIOUS
    <2>1. CASE SdkAlone
        BY <2>1 DEF SdkAlone, EditionsInterchange
    <2>2. CASE UNCHANGED <<call, native>>
        BY <2>2 DEF EditionsInterchange, TextLength
    <2> QED
        BY <2>1, <2>2, EncodeInterchange, DecodeInterchange DEF SecurityNext
<1> QED BY <1>1, <1>2, PTL DEF SecuritySpec

=============================================================================
