--------------------------- MODULE MultipartScript ---------------------------
(***************************************************************************)
(* ZmqSdkMultipart.tbasic: one thread sends a request of two frames from a *)
(* REQ to a REP socket and a reply of two frames back. The result of each  *)
(* first send is ignored, and a second frame is received only if           *)
(* ZMQ_RCVMORE says so. The script sets no timeouts and does not look at   *)
(* the results of ZmqCtxNew, ZmqSocket, ZmqBind and ZmqConnect.            *)
(*                                                                         *)
(* External: every call on a handle of 0 fails. A frame sent with          *)
(* ZMQ_SNDMORE waits for the last one; a message arrives whole or not at   *)
(* all; a socket that is to send refuses to receive. A send or an option   *)
(* query may fail (out of memory).                                         *)
(***************************************************************************)
EXTENDS Naturals, Sequences, SequencesExt

VARIABLES
    usable,     \* the sides that got a context and a socket: no script looks
    bound,      \* whether the port could be had
    turn,         \* the script's next call, named by who makes it
    sent,       \* the frames that "client" and "server" have sent so far
    under,      \* whether the message of each is on its way or has arrived
    unread,     \* the frames that each has still to receive of the other's
    more,       \* rcvm
    got         \* what each has received: its lpszRecv1 and lpszRecv2

vars == <<usable, bound, turn, sent, under, unread, more, got>>

Sides == {"client", "server"}
Peer(side) == IF side = "client" THEN "server" ELSE "client"

Init ==
    /\ usable \in SUBSET Sides
    /\ bound \in BOOLEAN
    /\ turn = <<"client", "send1">>
    /\ sent = [side \in Sides |-> <<>>]
    /\ under = [side \in Sides |-> "not-sent"]
    /\ unread = [side \in Sides |-> <<>>]
    /\ more = FALSE
    /\ got = [side \in Sides |-> <<"empty", "empty">>]

\* Whose turn it is to send: a REQ socket's before its request is out and
\* after it has read the whole reply, a REP socket's after it has read the
\* whole request. A socket that has begun to receive may go on.
MaySend(side) ==
    /\ side \in usable
    /\ under[side] = "not-sent"
    /\ side = "server" => under["client"] = "arrived" /\ unread["server"] = <<>>

MayReceive(side) ==
    /\ side \in usable
    /\ \/ unread[side] # <<>>
       \/ under[Peer(side)] # "arrived" /\ (side = "client" => under["client"] # "not-sent")

-----------------------------------------------------------------------------
(* Sending.                                                                *)

\* Lines 64 and 92: a failure is not noticed.
SendFirst(side) ==
    /\ turn = <<side, "send1">>
    /\ \/ MaySend(side) /\ sent' = [sent EXCEPT ![side] = <<"frame1">>]
       \/ UNCHANGED sent
    /\ turn' = <<side, "send2">>
    /\ UNCHANGED <<usable, bound, under, unread, more, got>>

\* Lines 65 and 93: the message is complete.
SendLast(side) ==
    /\ turn = <<side, "send2">>
    /\ MaySend(side)
    /\ sent' = [sent EXCEPT ![side] = Append(@, "frame2")]
    /\ under' = [under EXCEPT ![side] = "under-way"]
    /\ turn' = <<Peer(side), "recv1">>
    /\ UNCHANGED <<usable, bound, unread, more, got>>

\* Lines 66 and 94: Stop, with everything left open.
SendLastFails(side) ==
    /\ turn = <<side, "send2">>
    /\ turn' = <<side, "stopped">>
    /\ UNCHANGED <<usable, bound, sent, under, unread, more, got>>

\* The I/O thread.
Transmit(side) ==
    /\ bound
    /\ usable = Sides
    /\ under[side] = "under-way"
    /\ under' = [under EXCEPT ![side] = "arrived"]
    /\ unread' = [unread EXCEPT ![Peer(side)] = sent[side]]
    /\ UNCHANGED <<usable, bound, turn, sent, more, got>>

-----------------------------------------------------------------------------
(* Receiving.                                                              *)

\* Lines 72 and 100: waits without limit.
RecvFirst(side) ==
    /\ turn = <<side, "recv1">>
    /\ unread[side] # <<>>
    /\ got' = [got EXCEPT ![side] = <<Head(unread[side]), "empty">>]
    /\ unread' = [unread EXCEPT ![side] = Tail(@)]
    /\ turn' = <<side, "more">>
    /\ UNCHANGED <<usable, bound, sent, under, more>>

\* The handle is 0: the empty string at once.
RecvFirstFails(side) ==
    /\ turn = <<side, "recv1">>
    /\ side \notin usable
    /\ turn' = <<side, "more">>
    /\ UNCHANGED <<usable, bound, sent, under, unread, more, got>>

\* Mutant: -1 is taken for "no more frames", like 0.
AskMoreIsOne(side) ==
    /\ turn = <<side, "more">>
    /\ more' \in (IF side \in usable THEN {unread[side] # <<>>} ELSE {}) \cup {FALSE}
    /\ turn' = <<side, "recv2">>
    /\ UNCHANGED <<usable, bound, sent, under, unread, got>>

\* Lines 73 and 101: ZmqGetsockoptInt gives 1, 0, or -1 for a failure; the
\* script asks whether it is 0.
AskMore(side) ==
    /\ turn = <<side, "more">>
    /\ more' \in (IF side \in usable THEN {unread[side] # <<>>} ELSE {}) \cup {TRUE}
    /\ turn' = <<side, "recv2">>
    /\ UNCHANGED <<usable, bound, sent, under, unread, got>>

After(side) == IF side = "server" THEN <<"server", "send1">> ELSE <<"client", "done">>

\* Mutant: the second frame replaces the first.
RecvSecondOverFirst(side) ==
    /\ turn = <<side, "recv2">>
    /\ more /\ unread[side] # <<>>
    /\ got' = [got EXCEPT ![side] = <<Head(unread[side]), "empty">>]
    /\ unread' = [unread EXCEPT ![side] = Tail(@)]
    /\ turn' = After(side)
    /\ UNCHANGED <<usable, bound, sent, under, more>>

\* Lines 77 and 105.
RecvSecond(side) ==
    /\ turn = <<side, "recv2">>
    /\ more /\ unread[side] # <<>>
    /\ got' = [got EXCEPT ![side][2] = Head(unread[side])]
    /\ unread' = [unread EXCEPT ![side] = Tail(@)]
    /\ turn' = After(side)
    /\ UNCHANGED <<usable, bound, sent, under, more>>

\* Mutant: a receive out of turn would wait instead of being refused.
RecvNoSecondOnlyTold(side) ==
    /\ turn = <<side, "recv2">>
    /\ ~more
    /\ turn' = After(side)
    /\ UNCHANGED <<usable, bound, sent, under, unread, more, got>>

\* Lines 79 and 107, or a receive that is refused as out of turn: empty.
RecvNoSecond(side) ==
    /\ turn = <<side, "recv2">>
    /\ ~more \/ ~MayReceive(side)
    /\ turn' = After(side)
    /\ UNCHANGED <<usable, bound, sent, under, unread, more, got>>

-----------------------------------------------------------------------------
Ended == turn[2] \in {"stopped", "done"}

ScriptStep ==
    \E side \in Sides :
        \/ SendFirst(side)
        \/ SendLast(side)
        \/ SendLastFails(side)
        \/ RecvFirst(side)
        \/ RecvFirstFails(side)
        \/ AskMore(side)
        \/ RecvSecond(side)
        \/ RecvNoSecond(side)

IoStep == \E side \in Sides : Transmit(side)

Next == ScriptStep \/ IoStep

Spec == Init /\ [][Next]_vars /\ WF_vars(ScriptStep) /\ WF_vars(IoStep)

-----------------------------------------------------------------------------
(* Properties.                                                             *)

\* Every variable has its type.
TypeOK ==
    /\ turn \in Sides \X {"send1", "send2", "recv1", "more", "recv2",
                        "stopped", "done"}
    /\ \A side \in Sides :
          /\ Len(sent[side]) <= 2 /\ Len(unread[side]) <= 2
          /\ Range(sent[side]) \subseteq {"frame1", "frame2"}
          /\ under[side] \in {"not-sent", "under-way", "arrived"}
          /\ got[side] \in {"empty", "frame1", "frame2"} \X {"empty", "frame1", "frame2"}

\* Whatever frames failed to be sent, and even if the option cannot be read,
\* a server that has a socket has read the whole request when it begins to
\* reply, so that its replies are never refused as out of turn.
RepliesInTurn ==
    "server" \in usable /\ turn \in {<<"server", "send1">>, <<"server", "send2">>}
        => MaySend("server")

\* The frames of a message, in their places, and "empty" for one it has not.
Shown(message) ==
    LET frame(i) == IF i <= Len(message) THEN message[i] ELSE "empty"
    IN  <<frame(1), frame(2)>>

\* What a side goes on to print is exactly the message the other has sent:
\* a first frame that failed moves the second into its place, and no frame is
\* lost, left over, or read twice.
PrintsWhatWasSent ==
    /\ "server" \in usable /\ turn[1] = "server" /\ turn[2] \in {"send1", "send2"}
         => got["server"] = Shown(sent["client"])
    /\ turn = <<"client", "done">>
         => got["client"] = Shown(sent["server"])

\* The script ends, unless the port was not to be had: an option query that
\* fails makes it ask for a frame that never comes, but out of turn, so that
\* the missing timeout does no harm; and without a socket every call returns.
Terminates == bound \/ "server" \notin usable => <>Ended

=============================================================================
