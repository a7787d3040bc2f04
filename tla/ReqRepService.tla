--------------------------- MODULE ReqRepService ---------------------------
(***************************************************************************)
(* The request/reply scripts: a server (ZmqSdkRepServer.tbasic, or the     *)
(* native RepServer.tbasic) that loops for ever, the clients that belong   *)
(* to it, and other programs that connect to its port. The scripts ignore  *)
(* the results of their sends and have no timeouts; the server is stopped  *)
(* by closing its console. How a client's set-up calls come out is an      *)
(* initial choice.                                                         *)
(*                                                                         *)
(* External, as the scripts use it: a REQ socket has at most one exchange  *)
(* under way, so a connection is described by where that exchange is. A    *)
(* REP socket reads all frames of one request, then sends one reply; a     *)
(* call out of turn fails at once (EFSM). Requests wait in the client      *)
(* while the server is away; what a server holds dies with it.             *)
(***************************************************************************)
EXTENDS Naturals, Sequences

CONSTANTS
    Clients,    \* the client scripts
    Others,     \* other programs with a REQ socket
    None,       \* no peer
    LastRound,  \* a client asks in rounds 0..LastRound (10)
    Requests,   \* what others send: sequences of "text" and "empty" frames
    MaxStarts   \* bound: how often the server is started

ASSUME PeersAssumption == Clients \cap Others = {} /\ None \notin Clients \cup Others
ASSUME RoundsAssumption == LastRound \in Nat
ASSUME RequestsAssumption == Requests \subseteq Seq({"text", "empty"}) \ {<<>>}

Peers == Clients \cup Others

VARIABLES
    script,     \* the server's script: "sdk" or "native"
    starts,     \* how often it was started
    at,         \* the server's next statement: "recv" or "send"; or "down"
    rep,        \* the server's REP socket
    link,       \* for each peer, its exchange under way
    client      \* for each client, how it is set up and where it stands

vars == <<script, starts, at, rep, link, client>>

\* A REP socket that is to receive or to send, the peer it is talking to, the
\* frames of its request still to be read, and the last frame that was.
Rep(turn, from, rest, last) ==
    [turn |-> turn, from |-> from, rest |-> rest, last |-> last]
FreshRep == Rep("recv", None, <<>>, "none")

\* An exchange is nowhere, in the client's pipe, at the server, being read or
\* answered there, answered, or back at the client; or lost.
Link(where, frames) == [where |-> where, frames |-> frames]
Idle == Link("none", <<>>)

\* The SDK's client ends when libzmq does not load or its ZmqConnect fails, as
\* it does on a socket that could not be made. The native one looks at no
\* result: without a socket all its calls fail, and with one that is not
\* connected its first ZmqSend waits for ever.
SetUps == IF script = "sdk" THEN {"ready", "ended"}
                            ELSE {"ready", "no socket", "unconnected"}

Init ==
    /\ script \in {"sdk", "native"}
    /\ starts = 0
    /\ at = "down"
    /\ rep = FreshRep
    /\ link = [p \in Peers |-> Idle]
    /\ \E setup \in [Clients -> SetUps] :
          client = [c \in Clients |->
                      [setup |-> setup[c],
                       pc |-> IF setup[c] = "ended" THEN "done" ELSE "send",
                       round |-> 0, printed |-> 0]]

-----------------------------------------------------------------------------
(* The server.                                                             *)

\* The server is started. If the port is taken the SDK's script ends, and the
\* native one waits on a socket nobody can reach: down, either way.
Start ==
    /\ at = "down"
    /\ starts < MaxStarts
    /\ starts' = starts + 1
    /\ at' \in {"recv", "down"}
    /\ rep' = FreshRep
    /\ UNCHANGED <<script, link, client>>

\* Mutant: the SDK's script answers what it should not.
AnswersEmpty(frame) == script = "native" \/ frame = "empty"

\* The SDK's script answers only if Len(lpszRecv) > 0; the native one does
\* not look at what it received.
Answers(frame) == script = "native" \/ frame = "text"

\* One ZmqRecv or ZmqRecvStr has returned a frame of p's request.
Read(p, frames) ==
    /\ rep' = Rep(IF Len(frames) = 1 THEN "send" ELSE "recv",
                  p, Tail(frames), Head(frames))
    /\ at' = IF Answers(Head(frames)) THEN "send" ELSE "recv"

\* The first frame of a request of p.
Take(p) ==
    /\ at = "recv" /\ rep.turn = "recv" /\ rep.rest = <<>>
    /\ link[p].where = "server"
    /\ Read(p, link[p].frames)
    /\ link' = [link EXCEPT ![p].where = "reading"]
    /\ UNCHANGED <<script, starts, client>>

\* The next frame of the request already begun.
TakeMore ==
    /\ at = "recv" /\ rep.turn = "recv" /\ rep.rest # <<>>
    /\ Read(rep.from, rep.rest)
    /\ UNCHANGED <<script, starts, link, client>>

\* Out of turn the receive fails at once: the SDK's loop goes round without
\* doing anything, the native script sends all the same.
TakeFails ==
    /\ at = "recv" /\ rep.turn = "send"
    /\ at' = IF script = "native" THEN "send" ELSE "recv"
    /\ UNCHANGED <<script, starts, rep, link, client>>

\* Mutant: a reply that could not be sent is tried again.
ReplyRetried ==
    /\ at = "send"
    /\ rep.turn = "send"
    /\ at' = "recv"
    /\ link' = [link EXCEPT ![rep.from].where = "answered"]
    /\ rep' = [rep EXCEPT !.turn = "recv"]
    /\ UNCHANGED <<script, starts, client>>

\* The reply is sent, or refused since the request has more frames.
Reply ==
    /\ at = "send"
    /\ at' = "recv"
    /\ IF rep.turn = "send"
       THEN /\ link' = [link EXCEPT ![rep.from].where = "answered"]
            /\ rep' = [rep EXCEPT !.turn = "recv"]
       ELSE UNCHANGED <<link, rep>>
    /\ UNCHANGED <<script, starts, client>>

\* The console is closed: what the server held is gone.
Kill ==
    /\ at # "down"
    /\ at' = "down"
    /\ rep' = FreshRep
    /\ link' = [p \in Peers |->
                  IF link[p].where \in {"server", "reading", "answered"}
                  THEN Link("lost", <<>>) ELSE link[p]]
    /\ UNCHANGED <<script, starts, client>>

-----------------------------------------------------------------------------
(* Transport.                                                              *)

Transmit(p) ==
    /\ at # "down"
    /\ link[p].where = "pipe"
    /\ link' = [link EXCEPT ![p].where = "server"]
    /\ UNCHANGED <<script, starts, at, rep, client>>

Deliver(p) ==
    /\ link[p].where = "answered"
    /\ link' = [link EXCEPT ![p] = Link("back", <<>>)]
    /\ UNCHANGED <<script, starts, at, rep, client>>

-----------------------------------------------------------------------------
(* The clients and the others.                                             *)

\* ZmqSend: out of turn or without a socket it fails, which the script does not
\* notice.
Ask(c) ==
    /\ client[c].pc = "send" /\ client[c].setup # "unconnected"
    /\ client' = [client EXCEPT ![c].pc = "recv"]
    /\ link' = IF client[c].setup = "ready" /\ link[c] = Idle
               THEN [link EXCEPT ![c] = Link("pipe", <<"text">>)] ELSE link
    /\ UNCHANGED <<script, starts, at, rep>>

NextRound(c, printed) ==
    client' = [client EXCEPT ![c] =
                 [setup |-> @.setup,
                  pc |-> IF @.round = LastRound THEN "done" ELSE "send",
                  round |-> IF @.round = LastRound THEN @.round ELSE @.round + 1,
                  printed |-> @.printed + printed]]

\* Mutant: the client goes on without a reply.
HearOrGiveUp(c) ==
    /\ client[c].pc = "recv"
    /\ NextRound(c, IF link[c].where = "back" THEN 1 ELSE 0)
    /\ link' = IF link[c].where = "back" THEN [link EXCEPT ![c] = Idle] ELSE link
    /\ UNCHANGED <<script, starts, at, rep>>

\* ZmqRecv: there is no timeout.
Hear(c) ==
    /\ client[c].pc = "recv" /\ client[c].setup = "ready"
    /\ link[c].where = "back"
    /\ NextRound(c, 1)
    /\ link' = [link EXCEPT ![c] = Idle]
    /\ UNCHANGED <<script, starts, at, rep>>

\* Without a socket the receive fails at once too, and the loop goes on.
HearNothing(c) ==
    /\ client[c].pc = "recv" /\ client[c].setup = "no socket"
    /\ NextRound(c, 0)
    /\ UNCHANGED <<script, starts, at, rep, link>>

OtherAsks(p) ==
    /\ link[p] = Idle
    /\ \E r \in Requests : link' = [link EXCEPT ![p] = Link("pipe", r)]
    /\ UNCHANGED <<script, starts, at, rep, client>>

OtherHears(p) ==
    /\ link[p].where = "back"
    /\ link' = [link EXCEPT ![p] = Idle]
    /\ UNCHANGED <<script, starts, at, rep, client>>

-----------------------------------------------------------------------------
Next ==
    \/ Start
    \/ TakeMore
    \/ TakeFails
    \/ Reply
    \/ Kill
    \/ \E p \in Peers : Take(p) \/ Transmit(p) \/ Deliver(p)
    \/ \E c \in Clients : Ask(c) \/ Hear(c) \/ HearNothing(c)
    \/ \E p \in Others : OtherAsks(p) \/ OtherHears(p)

\* The server and the clients go on where they can, the transport delivers
\* while both ends are there, and a REP socket takes its peers in turn. Nobody
\* has to start or stop a server, or to ask from elsewhere.
Fairness ==
    /\ WF_vars(TakeMore) /\ WF_vars(TakeFails) /\ WF_vars(Reply)
    /\ \A p \in Peers :
          SF_vars(Take(p)) /\ WF_vars(Transmit(p)) /\ WF_vars(Deliver(p))
    /\ \A c \in Clients :
          WF_vars(Ask(c)) /\ WF_vars(Hear(c)) /\ WF_vars(HearNothing(c))

Spec == Init /\ [][Next]_vars /\ Fairness

-----------------------------------------------------------------------------
(* Properties.                                                             *)

\* The server receives from a socket that waits for it to send.
Jammed == at = "recv" /\ rep.turn = "send"

\* ZmqSdkRepServer.tbasic:46 skips the reply to an empty text. The server
\* gets stuck in no other way than by a request whose last frame is empty:
\* never by one of its own clients, never by an empty frame followed by
\* others, and never in the native script, which answers blindly.
JamNeedsEmptyLastFrame ==
    Jammed => script = "sdk" /\ rep.from \in Others /\ rep.last = "empty"

\* A client that has come to its end has printed a reply for every request,
\* although it checks no result of a send and its server may be killed under
\* it; one whose set-up failed, and that ends all the same, has printed none.
DoneMeansAnswered ==
    \A c \in Clients :
        client[c].pc = "done" =>
            client[c].printed = IF client[c].setup = "ready" THEN LastRound + 1 ELSE 0

\* Every client completes, whatever else asks, restarts included, unless its
\* own request or reply died with a server, or the server stays down, or an
\* empty frame has jammed it, or it was never connected. ReqClient has no
\* timeout: in these four cases it waits for ever.
EveryClientCompletes ==
    \A c \in Clients : \/ <>(client[c].pc = "done")
                       \/ client[c].setup = "unconnected"
                       \/ <>(link[c].where = "lost")
                       \/ <>[](at = "down")
                       \/ <>[]Jammed

=============================================================================
