---------------------------- MODULE SocketMonitor ----------------------------
(***************************************************************************)
(* Monitor.tbasic: one thread monitors its own REP socket. It connects a   *)
(* PAIR socket to the monitor, binds, connects a REQ socket, makes one     *)
(* exchange with timeouts, and then polls the PAIR socket for events: two  *)
(* frames each, the event's number with its value and its address.         *)
(*                                                                         *)
(* External: libzmq sends the events LISTENING or CLOSED (in zmq_bind, on  *)
(* the script's own thread, as it succeeds or fails) and ACCEPTED (on the  *)
(* I/O thread, before anything of that connection is delivered) as whole   *)
(* messages, and waits while the monitor has no peer. Others may connect   *)
(* to the port. The I/O thread is prompt, or slow without limit: then any  *)
(* timeout may expire. What is reported as the sockets are closed at the   *)
(* end, nobody reads.                                                      *)
(***************************************************************************)
EXTENDS Naturals, Sequences, SequencesExt

CONSTANTS
    Guests,     \* other processes that connect to the port
    Polls       \* For nLoop = 1 To 8

VARIABLES
    usable,     \* the sockets that could be created: no script looks
    free,       \* whether the port could be had
    io,         \* "prompt" or "slow"
    pc,         \* the script's next call
    peer,       \* whether the monitor has a peer: the PAIR socket
    loop,       \* nLoop
    accepted,   \* the connections to REP
    exchange,   \* where the request or its reply is
    events,     \* the events sent so far
    frames,     \* the frames that wait at the PAIR socket
    head,       \* the first frame of the event being read, if any
    printed     \* the events printed: what was read for number and address

vars == <<usable, free, io, pc, peer, loop, accepted, exchange, events, frames,
          head, printed>>
static == <<usable, free, io>>

Sockets == {"rep", "req", "monitor"}
Ends == Guests \cup {"own"}

\* Events and their frames.
Listening == [name |-> "LISTENING", of |-> "own"]
Closed == [name |-> "CLOSED", of |-> "own"]
Accepted(p) == [name |-> "ACCEPTED", of |-> p]
Message(e) == <<[kind |-> "event", event |-> e], [kind |-> "address", event |-> e]>>

Emit(e) ==
    /\ events' = Append(events, e)
    /\ frames' = frames \o Message(e)

\* Mutant: the PAIR socket is connected after the bind.
SetupBindFirst == <<"bind", "connect-monitor", "connect">>

Setup == <<"connect-monitor", "bind", "connect">>

AfterSetup == LET i == CHOOSE i \in 1..Len(Setup) : Setup[i] = pc
              IN  IF i = Len(Setup) THEN "req-send" ELSE Setup[i + 1]

Init ==
    /\ usable \in SUBSET Sockets
    /\ free \in BOOLEAN
    /\ io \in {"prompt", "slow"}
    /\ pc = Setup[1]
    /\ peer = FALSE
    /\ loop = 1
    /\ accepted = {}
    /\ exchange = "none"
    /\ events = <<>>
    /\ frames = <<>>
    /\ head = <<>>
    /\ printed = <<>>

-----------------------------------------------------------------------------
(* The script up to the exchange.                                          *)

ConnectMonitor ==
    /\ pc = "connect-monitor"
    /\ peer' = ("monitor" \in usable)
    /\ pc' = AfterSetup
    /\ UNCHANGED <<static, loop, accepted, exchange, events, frames, head, printed>>

\* zmq_bind reports LISTENING and waits until it can.
Bind ==
    /\ pc = "bind"
    /\ "rep" \in usable /\ free
    /\ peer
    /\ Emit(Listening)
    /\ pc' = AfterSetup
    /\ UNCHANGED <<static, peer, loop, accepted, exchange, head, printed>>

\* The port is taken. The socket that was opened for it is closed again,
\* which is reported, and waited for, in the same way.
BindFails ==
    /\ pc = "bind"
    /\ "rep" \in usable /\ ~free
    /\ peer
    /\ Emit(Closed)
    /\ pc' = AfterSetup
    /\ UNCHANGED <<static, peer, loop, accepted, exchange, head, printed>>

\* A bind of the handle 0.
BindNothing ==
    /\ pc = "bind"
    /\ "rep" \notin usable
    /\ pc' = AfterSetup
    /\ UNCHANGED <<static, peer, loop, accepted, exchange, events, frames, head, printed>>

Bound == events # <<>> /\ Head(events) = Listening

Connect ==
    /\ pc = "connect"
    /\ pc' = AfterSetup
    /\ UNCHANGED <<static, peer, loop, accepted, exchange, events, frames, head, printed>>

-----------------------------------------------------------------------------
(* The I/O thread and the guests.                                          *)

\* A connection of the script's REQ socket, or of a guest.
Accept(p) ==
    /\ Bound /\ pc # "done"
    /\ p \notin accepted
    /\ p = "own" => "req" \in usable /\ pc \notin Range(Setup)
    /\ accepted' = accepted \cup {p}
    /\ Emit(Accepted(p))
    /\ UNCHANGED <<static, pc, peer, loop, exchange, head, printed>>

Deliver ==
    /\ "own" \in accepted
    /\ exchange \in {"request", "reply"}
    /\ exchange' = IF exchange = "request" THEN "at-rep" ELSE "back"
    /\ UNCHANGED <<static, pc, peer, loop, accepted, events, frames, head, printed>>

IoBusy ==
    Bound /\ "req" \in usable
          /\ ("own" \notin accepted \/ exchange \in {"request", "reply"})

Expires == io = "slow" \/ ~IoBusy

-----------------------------------------------------------------------------
(* The exchange: one request, with timeouts.                               *)

ReqSend ==
    /\ pc = "req-send"
    /\ exchange' = IF "req" \in usable THEN "request" ELSE "none"
    /\ pc' = "rep-recv"
    /\ UNCHANGED <<static, peer, loop, accepted, events, frames, head, printed>>

\* The reply is sent only if something was received.
RepRecv ==
    /\ pc = "rep-recv"
    /\ exchange = "at-rep"
    /\ exchange' = "reply"
    /\ pc' = "req-recv"
    /\ UNCHANGED <<static, peer, loop, accepted, events, frames, head, printed>>

ReqRecv ==
    /\ pc = "req-recv"
    /\ exchange = "back"
    /\ exchange' = "printed"
    /\ pc' = "poll"
    /\ UNCHANGED <<static, peer, loop, accepted, events, frames, head, printed>>

\* A timeout, or a call on a handle of 0.
RecvFails ==
    /\ \/ pc = "rep-recv" /\ exchange # "at-rep" /\ pc' = "req-recv"
       \/ pc = "req-recv" /\ exchange # "back" /\ pc' = "poll"
    /\ Expires
    /\ UNCHANGED <<static, peer, loop, accepted, exchange, events, frames, head, printed>>

-----------------------------------------------------------------------------
(* The events.                                                             *)

\* Mutant: the first event or timeout ends the loop.
NextPollNone == pc' = "done" /\ UNCHANGED loop

NextPoll ==
    IF loop = Polls THEN pc' = "done" /\ UNCHANGED loop
                    ELSE pc' = "poll" /\ loop' = loop + 1

Poll ==
    /\ pc = "poll"
    /\ "monitor" \in usable /\ frames # <<>>
    /\ pc' = "read-event"
    /\ UNCHANGED <<static, peer, loop, accepted, exchange, events, frames, head, printed>>

\* 200 ms pass without an event, or the handle is 0.
PollExpires ==
    /\ pc = "poll"
    /\ "monitor" \notin usable \/ frames = <<>>
    /\ NextPoll
    /\ UNCHANGED <<static, peer, accepted, exchange, events, frames, head, printed>>

\* The first of two receives with ZMQ_DONTWAIT.
ReadEvent ==
    /\ pc = "read-event"
    /\ head' = Head(frames)
    /\ frames' = Tail(frames)
    /\ pc' = "read-address"
    /\ UNCHANGED <<static, peer, loop, accepted, exchange, events, printed>>

\* Mutant: the frame with the address is left in the socket.
ReadAddressNot ==
    /\ pc = "read-address"
    /\ printed' = Append(printed, <<head, head>>)
    /\ head' = <<>>
    /\ NextPoll
    /\ UNCHANGED <<static, peer, accepted, exchange, events, frames>>

ReadAddress ==
    /\ pc = "read-address"
    /\ printed' = Append(printed, <<head, Head(frames)>>)
    /\ head' = <<>>
    /\ frames' = Tail(frames)
    /\ NextPoll
    /\ UNCHANGED <<static, peer, accepted, exchange, events>>

-----------------------------------------------------------------------------
ScriptStep ==
    \/ ConnectMonitor
    \/ Bind
    \/ BindFails
    \/ BindNothing
    \/ Connect
    \/ ReqSend
    \/ RepRecv
    \/ ReqRecv
    \/ RecvFails
    \/ Poll
    \/ PollExpires
    \/ ReadEvent
    \/ ReadAddress

Next ==
    \/ ScriptStep
    \/ Deliver
    \/ \E p \in Ends : Accept(p)

PromptIoStep == io = "prompt" /\ (Accept("own") \/ Deliver)

\* The script goes on where it can; of the I/O thread nothing is asked unless
\* it is prompt.
Spec == Init /\ [][Next]_vars /\ WF_vars(ScriptStep) /\ WF_vars(PromptIoStep)

-----------------------------------------------------------------------------
(* Properties.                                                             *)

\* Every variable has its type.
TypeOK ==
    /\ usable \subseteq Sockets /\ free \in BOOLEAN /\ peer \in BOOLEAN
    /\ pc \in Range(Setup) \cup {"req-send", "rep-recv", "req-recv", "poll",
                                "read-event", "read-address", "done"}
    /\ loop \in 1..Polls
    /\ accepted \subseteq Ends
    /\ exchange \in {"none", "request", "at-rep", "reply", "back", "printed"}
    /\ Len(frames) <= 2 * Len(events)

\* The events are printed as they happened, none left out and each with its
\* own address, although two receives that do not wait fetch one event and
\* other events arrive in between.
EventsPrintedWhole ==
    \A i \in 1..Len(printed) : printed[i] = Message(events[i])

\* A reply cannot arrive before the connection it came by is reported, and the
\* polls begin after the exchange: if the script has printed the reply it
\* prints, before it ends, LISTENING and the ACCEPTED of its own connection,
\* unless more events than polls came before it.
ExchangeIsReported ==
    pc = "done" /\ exchange = "printed" =>
        \/ \E i \in 1..Len(printed) : printed[i] = Message(Accepted("own"))
        \/ Len(printed) = Polls

\* The outcome of the bind, which the script does not look at, is the first
\* event it prints: LISTENING or CLOSED.
BindIsReported ==
    pc = "done" /\ {"rep", "monitor"} \subseteq usable =>
        /\ printed # <<>>
        /\ Head(printed) = Message(IF free THEN Listening ELSE Closed)

\* Nobody else would read the events: because the PAIR socket is connected
\* before the bind, the script is never stuck in its own bind, unless there is
\* no PAIR socket, and it ends whatever the I/O thread does.
EndsIfMonitorConnects ==
    <>(pc = "done") \/ ("monitor" \notin usable /\ "rep" \in usable)

=============================================================================
