--------------------------- MODULE LoopbackReqRep ---------------------------
(***************************************************************************)
(* The scripts that are client and server in one: a single thread sends on *)
(* its REQ socket, receives on its REP socket, replies, and receives the   *)
(* reply. ZmqSdkCurve.tbasic and Curve.tbasic ("curve"), Plain.tbasic      *)
(* ("plain"), the second half of Thread.tbasic ("thread") and Msg.tbasic   *)
(* ("msg") differ in their timeouts, in what they do after a failure and   *)
(* in how a connection is admitted. In Plain.tbasic the script itself has  *)
(* to answer the ZAP request that the handshake waits for, in between.     *)
(*                                                                         *)
(* External: libzmq's I/O thread connects, transmits and delivers. It may  *)
(* be prompt, so that a timeout never expires while it has work to do, or  *)
(* slow without limit. A guest is another process that connects to the     *)
(* port, has no valid password, and sends a text each time it has heard    *)
(* (what an empty request does is the subject of ReqRepService).           *)
(***************************************************************************)
EXTENDS Naturals, Sequences

CONSTANTS
    Guests,     \* other processes that know the port
    Rounds,     \* For nLoop = 1 To 3 (5 in Msg.tbasic)
    ZapPolls    \* HandleZapOnce is called so often at first (40)

VARIABLES
    script,     \* which script it is
    io,         \* whether the I/O thread is "prompt" or "slow"
    bound,      \* whether the port could be had: no script looks
    pc,         \* the script's next call
    loop,       \* its loop counter
    printed,    \* the replies it has printed: in which loop, to which round
    conn,       \* the connection of the script's REQ socket and of the guests
    req,        \* where the request of each is, and the round it is of
    rep         \* whether REP is to receive or to send, and to whom

vars == <<script, io, bound, pc, loop, printed, conn, req, rep>>
static == <<script, io, bound>>

Scripts == {"curve", "plain", "thread", "msg"}

\* Mutant: Curve.tbasic goes on after a failure, like Thread.tbasic.
ExitsOnFailurePlain == script = "plain"

\* Exit For after a failure; ZMQ_RCVTIMEO on both sockets.
ExitsOnFailure == script \in {"curve", "plain"}
HasTimeouts == script # "msg"

\* CURVE keeps out who does not know the server's key.
Ends == {"own"} \cup (IF script = "curve" THEN {} ELSE Guests)

Request(where, round) == [where |-> where, round |-> round]
Reply(inLoop, round) == [loop |-> inLoop, round |-> round]

Init ==
    /\ script \in Scripts
    /\ io \in {"prompt", "slow"}
    /\ bound \in BOOLEAN
    /\ pc = IF script = "plain" THEN "zap-loop" ELSE "req-send"
    /\ loop = 1
    /\ printed = <<>>
    /\ conn = [p \in Ends |-> "none"]
    /\ req = [p \in Ends |-> Request("none", 0)]
    /\ rep = [turn |-> "recv", from |-> "own"]

-----------------------------------------------------------------------------
(* The I/O thread and the guests.                                          *)

\* A connection is open once its handshake has completed; under PLAIN that
\* takes a ZAP request that somebody answers.
Connect(p) ==
    /\ bound
    /\ conn[p] = "none"
    /\ conn' = [conn EXCEPT ![p] = IF script = "plain" THEN "zap" ELSE "open"]
    /\ UNCHANGED <<static, pc, loop, printed, req, rep>>

Transmit(p) ==
    /\ conn[p] = "open"
    /\ req[p].where = "pipe"
    /\ req' = [req EXCEPT ![p].where = "rep"]
    /\ UNCHANGED <<static, pc, loop, printed, conn, rep>>

Deliver(p) ==
    /\ req[p].where = "answered"
    /\ req' = [req EXCEPT ![p].where = "back"]
    /\ UNCHANGED <<static, pc, loop, printed, conn, rep>>

GuestAsks(g) ==
    /\ req[g].where = "none"
    /\ req' = [req EXCEPT ![g].where = "pipe"]
    /\ UNCHANGED <<static, pc, loop, printed, conn, rep>>

GuestHears(g) ==
    /\ req[g].where = "back"
    /\ req' = [req EXCEPT ![g].where = "none"]
    /\ UNCHANGED <<static, pc, loop, printed, conn, rep>>

\* What the I/O thread still has to do for the script.
IoBusy ==
    \/ bound /\ conn["own"] = "none"
    \/ \E p \in Ends : conn[p] = "open" /\ req[p].where = "pipe"
    \/ \E p \in Ends : req[p].where = "answered"

\* A timeout of the script may expire.
Expires == io = "slow" \/ ~IoBusy

-----------------------------------------------------------------------------
(* The ZAP handler.                                                        *)

\* Mutant: the comparison of the credentials is lost.
AdmitsAll(p) == TRUE

\* Mutant: the credentials are read from the wrong frames.
AdmitsNobody(p) == FALSE

\* sUser = lpszUsername And sPass = lpszPassword.
Admits(p) == p = "own"

\* HandleZapOnce: zmq_poll for 50 ms; if there is a request its eight frames
\* are read and its six reply frames sent, with status 200 or 400.
HandleZapOnce ==
    \/ \E p \in Ends :
          /\ conn[p] = "zap"
          /\ conn' = [conn EXCEPT ![p] = IF Admits(p) THEN "open" ELSE "refused"]
    \/ /\ \A p \in Ends : conn[p] # "zap"
       /\ Expires
       /\ UNCHANGED conn

\* For nLoop = 1 To 40: HandleZapOnce.
ZapLoop ==
    /\ pc = "zap-loop"
    /\ HandleZapOnce
    /\ IF loop < ZapPolls
       THEN loop' = loop + 1 /\ UNCHANGED pc
       ELSE loop' = 1 /\ pc' = "zap-before-send"
    /\ UNCHANGED <<static, printed, req, rep>>

\* HandleZapOnce between the steps of a round, and before giving up.
ZapBetween ==
    /\ pc \in {"zap-before-send", "zap-before-recv", "zap-before-exit"}
    /\ HandleZapOnce
    /\ pc' = CASE pc = "zap-before-send" -> "req-send"
               [] pc = "zap-before-recv" -> "rep-recv"
               [] pc = "zap-before-exit" -> "done"
    /\ UNCHANGED <<static, loop, printed, req, rep>>

-----------------------------------------------------------------------------
(* A round.                                                                *)

AfterSend == IF script = "plain" THEN "zap-before-recv" ELSE "rep-recv"

ReqSend ==
    /\ pc = "req-send"
    /\ req["own"].where = "none"
    /\ req' = [req EXCEPT !["own"] = Request("pipe", loop)]
    /\ pc' = AfterSend
    /\ UNCHANGED <<static, loop, printed, conn, rep>>

\* The reply to an earlier request is still due: EFSM.
ReqSendFails ==
    /\ pc = "req-send"
    /\ req["own"].where # "none"
    /\ pc' = CASE ~ExitsOnFailure -> AfterSend
               [] ExitsOnFailure /\ script = "plain" -> "zap-before-exit"
               [] OTHER -> "done"
    /\ UNCHANGED <<static, loop, printed, conn, req, rep>>

RepRecv ==
    /\ pc = "rep-recv"
    /\ rep.turn = "recv"
    /\ \E p \in Ends :
          /\ req[p].where = "rep"
          /\ req' = [req EXCEPT ![p].where = "taken"]
          /\ rep' = [turn |-> "send", from |-> p]
    /\ pc' = "rep-send"
    /\ UNCHANGED <<static, loop, printed, conn>>

\* Mutant: without timeouts on the REP socket.
RepRecvNeverExpires ==
    /\ pc = "rep-recv"
    /\ rep.turn = "send"
    /\ pc' = IF ExitsOnFailure THEN "done" ELSE "req-recv"
    /\ UNCHANGED <<static, loop, printed, conn, req, rep>>

\* Mutant: Thread.tbasic replies although it has received nothing.
RepRecvExpiresUnnoticed ==
    /\ pc = "rep-recv"
    /\ HasTimeouts
    /\ \A p \in Ends : req[p].where # "rep"
    /\ Expires
    /\ pc' = IF ExitsOnFailure THEN "done" ELSE "rep-send"
    /\ UNCHANGED <<static, loop, printed, conn, req, rep>>

RepRecvExpires ==
    /\ pc = "rep-recv"
    /\ HasTimeouts
    /\ \A p \in Ends : req[p].where # "rep"
    /\ Expires
    /\ pc' = IF ExitsOnFailure THEN "done" ELSE "req-recv"
    /\ UNCHANGED <<static, loop, printed, conn, req, rep>>

RepSend ==
    /\ pc = "rep-send"
    /\ IF rep.turn = "send"
       THEN /\ req' = [req EXCEPT ![rep.from].where = "answered"]
            /\ rep' = [rep EXCEPT !.turn = "recv"]
       ELSE UNCHANGED <<req, rep>>
    /\ pc' = "req-recv"
    /\ UNCHANGED <<static, loop, printed, conn>>

\* Mutant: the loop counter runs on past its limit.
NextRoundTooFar ==
    /\ pc' = IF loop = Rounds THEN "done" ELSE "req-send"
    /\ loop' = loop + 1

NextRound ==
    /\ pc' = CASE loop = Rounds -> "done"
               [] loop < Rounds /\ script = "plain" -> "zap-before-send"
               [] OTHER -> "req-send"
    /\ loop' = IF loop = Rounds THEN loop ELSE loop + 1

ReqRecv ==
    /\ pc = "req-recv"
    /\ req["own"].where = "back"
    /\ req' = [req EXCEPT !["own"] = Request("none", 0)]
    /\ printed' = Append(printed, Reply(loop, req["own"].round))
    /\ NextRound
    /\ UNCHANGED <<static, conn, rep>>

ReqRecvExpires ==
    /\ pc = "req-recv"
    /\ HasTimeouts
    /\ req["own"].where # "back"
    /\ Expires
    /\ IF ExitsOnFailure THEN pc' = "done" /\ UNCHANGED loop ELSE NextRound
    /\ UNCHANGED <<static, printed, conn, req, rep>>

-----------------------------------------------------------------------------
ScriptStep ==
    \/ ZapLoop
    \/ ZapBetween
    \/ ReqSend
    \/ ReqSendFails
    \/ RepRecv
    \/ RepRecvExpires
    \/ RepSend
    \/ ReqRecv
    \/ ReqRecvExpires

IoStep ==
    \/ Connect("own")
    \/ \E p \in Ends : Transmit(p) \/ Deliver(p)

GuestStep ==
    \E g \in Ends \ {"own"} : Connect(g) \/ GuestAsks(g) \/ GuestHears(g)

Next == ScriptStep \/ IoStep \/ GuestStep

\* The script goes on where it can. Of the I/O thread nothing is asked unless
\* it is prompt; the guests do as they like.
Fairness == WF_vars(ScriptStep) /\ WF_vars(io = "prompt" /\ IoStep)

Spec == Init /\ [][Next]_vars /\ Fairness

-----------------------------------------------------------------------------
(* Properties.                                                             *)

\* Every variable has its type.
TypeOK ==
    /\ pc \in {"zap-loop", "zap-before-send", "zap-before-recv",
               "zap-before-exit", "req-send", "rep-recv", "rep-send",
               "req-recv", "done"}
    /\ loop \in 1..(IF pc = "zap-loop" THEN ZapPolls ELSE Rounds)
    /\ printed \in Seq([loop : 1..Rounds, round : 1..Rounds])
    /\ \A p \in Ends : /\ conn[p] \in {"none", "zap", "open", "refused"}
                       /\ req[p].where \in {"none", "pipe", "rep", "taken",
                                            "answered", "back"}
    /\ rep.turn \in {"recv", "send"} /\ rep.from \in Ends

GuestEntered == \E g \in Ends \ {"own"} : conn[g] = "open"

\* The sockets' turns and the script's statements stay together although
\* results are ignored and receives time out: REP is never read out of turn
\* and never replies without a request, and REQ is never read without one
\* under way. No send on REQ is out of turn either, but in Thread.tbasic,
\* which goes on after a timeout: its send then fails, and it does not look.
SocketsFollowScript ==
    /\ pc = "rep-recv" => rep.turn = "recv"
    /\ pc = "rep-send" => rep.turn = "send"
    /\ pc = "req-recv" => req["own"].where # "none"
    /\ pc = "req-send" /\ script # "thread" => req["own"].where = "none"

\* No reply is printed twice, before it was asked for, or after that to a
\* later round. Each is printed in the loop it belongs to, but in
\* Thread.tbasic: once a receive there has timed out, a late reply is printed
\* in a later loop, as if it were that loop's. That takes an I/O thread that is
\* slow, or a guest that the script has served instead of itself.
RepliesInOrder ==
    /\ \A i \in 1..Len(printed) : printed[i].round <= printed[i].loop
    /\ \A i \in 1..(Len(printed) - 1) :
          /\ printed[i].loop < printed[i + 1].loop
          /\ printed[i].round < printed[i + 1].round
    /\ script # "thread" \/ (io = "prompt" /\ ~GuestEntered) =>
          \A i \in 1..Len(printed) : printed[i] = Reply(i, i)

\* Plain.tbasic: nothing any guest sends reaches the REP socket.
OnlyAuthenticatedRead ==
    script = "plain" =>
        \A g \in Ends \ {"own"} : req[g].where \in {"none", "pipe"}

\* With timeouts a script ends whatever the I/O thread and the guests do, a
\* handshake that nobody serves while the script blocks included. Msg.tbasic
\* has none: it needs the port, a prompt I/O thread, and nobody else there.
Terminates ==
    \/ <>(pc = "done")
    \/ script = "msg" /\ (~bound \/ io = "slow" \/ <>GuestEntered)

\* If the port could be had and the I/O thread is prompt, every round is
\* answered, in particular HandleZapOnce serves the handshake in time, unless
\* a guest gets through to the socket.
AllRoundsIfPrompt ==
    \/ <>(Len(printed) = Rounds)
    \/ ~bound
    \/ io = "slow"
    \/ <>GuestEntered

=============================================================================
