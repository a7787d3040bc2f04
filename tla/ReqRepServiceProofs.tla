------------------------ MODULE ReqRepServiceProofs ------------------------
(***************************************************************************)
(* Proofs about the request/reply scripts, for every number of clients and *)
(* of other programs, of rounds and of starts, and whatever requests the   *)
(* others send. (That clients complete is a matter of fairness: TLC.)      *)
(***************************************************************************)
EXTENDS ReqRepService, SequenceTheorems, TLAPS

Contents == {"text", "empty"}

Links == [where : {"none", "pipe", "server", "reading", "answered", "back",
                   "lost"},
          frames : Seq(Contents)]

Reps == [turn : {"recv", "send"}, from : Peers \cup {None},
         rest : Seq(Contents), last : Contents \cup {"none"}]

Standings == [setup : {"ready", "ended", "no socket", "unconnected"},
              pc : {"send", "recv", "done"}, round : 0..LastRound, printed : Nat]

TypeOK ==
    /\ script \in {"sdk", "native"}
    /\ at \in {"recv", "send", "down"}
    /\ rep \in Reps
    /\ link \in [Peers -> Links]
    /\ client \in [Clients -> Standings]

\* A request on its way has a frame, and a client's is its one text.
RequestsWhole ==
    \A p \in Peers : link[p].where \in {"pipe", "server"} =>
        /\ link[p].frames # <<>>
        /\ p \in Clients => link[p].frames = <<"text">>

\* Frames wait to be read only of a request that is still being received, and
\* only of one from elsewhere.
RestFromOthers ==
    rep.rest # <<>> => rep.turn = "recv" /\ rep.from \in Others

\* What a client has printed goes with its round; without a connected socket it
\* has printed nothing.
PrintedFollowsRound ==
    \A c \in Clients :
        IF client[c].setup = "ready"
        THEN IF client[c].pc = "done"
             THEN client[c].round = LastRound /\ client[c].printed = LastRound + 1
             ELSE client[c].printed = client[c].round
        ELSE client[c].printed = 0

\* The inductive invariant. Who can jam the server depends on whose frame it
\* read last, hence on whose requests have more than one frame.
IInv ==
    /\ TypeOK
    /\ RequestsWhole
    /\ RestFromOthers
    /\ PrintedFollowsRound
    /\ JamNeedsEmptyLastFrame

LEMMA InitIInv == Init => IInv
<1> SUFFICES ASSUME Init PROVE IInv
    OBVIOUS
<1>1. <<>> \in Seq(Contents)
    OBVIOUS
<1>2. rep \in Reps
    BY <1>1 DEF Init, FreshRep, Rep, Reps
<1>3. link \in [Peers -> Links]
    BY <1>1 DEF Init, Idle, Link, Links
<1> PICK setup \in [Clients -> SetUps] :
          client = [c \in Clients |->
                      [setup |-> setup[c],
                       pc |-> IF setup[c] = "ended" THEN "done" ELSE "send",
                       round |-> 0, printed |-> 0]]
    BY DEF Init
<1>8. \A c \in Clients : setup[c] \in {"ready", "ended", "no socket", "unconnected"}
    BY DEF SetUps
<1>4. client \in [Clients -> Standings]
    <2>1. 0 \in 0..LastRound /\ 0 \in Nat
        BY RoundsAssumption
    <2>2. ASSUME NEW c \in Clients PROVE client[c] \in Standings
        <3> DEFINE where == IF setup[c] = "ended" THEN "done" ELSE "send"
        <3>1. client[c] = [setup |-> setup[c], pc |-> where, round |-> 0, printed |-> 0]
            OBVIOUS
        <3>2. where \in {"send", "recv", "done"}
            OBVIOUS
        <3> HIDE DEF where
        <3> QED BY <1>8, <2>1, <3>1, <3>2 DEF Standings
    <2> QED BY <2>2
<1>5. RequestsWhole
    BY DEF Init, RequestsWhole, Idle, Link
<1>6. RestFromOthers
    BY DEF Init, RestFromOthers, FreshRep, Rep
<1>7. PrintedFollowsRound
    BY DEF PrintedFollowsRound
<1> QED
    BY <1>2, <1>3, <1>4, <1>5, <1>6, <1>7
       DEF Init, IInv, TypeOK, JamNeedsEmptyLastFrame, Jammed

-----------------------------------------------------------------------------
(* The server.                                                             *)

\* A step that has nothing to do with the clients' own state.
LEMMA ClientsKept ==
    ASSUME IInv, UNCHANGED client
    PROVE  client' \in [Clients -> Standings] /\ PrintedFollowsRound'
BY DEF IInv, TypeOK, PrintedFollowsRound

\* A fresh or stopped server holds nothing and owes nothing.
LEMMA FreshServer ==
    ASSUME rep' = FreshRep
    PROVE  rep' \in Reps /\ RestFromOthers' /\ JamNeedsEmptyLastFrame'
<1>1. <<>> \in Seq(Contents)
    OBVIOUS
<1> QED
    BY <1>1 DEF FreshRep, Rep, Reps, RestFromOthers, JamNeedsEmptyLastFrame,
                Jammed

\* Reading a frame leaves a jam only in the SDK's script and only when the
\* frame is empty and the last one of its request.
LEMMA ReadServer ==
    ASSUME IInv, UNCHANGED script,
           NEW p \in Peers, NEW frames \in Seq(Contents), frames # <<>>,
           p \in Clients => frames = <<"text">>,
           Read(p, frames)
    PROVE  /\ at' \in {"recv", "send"} /\ rep' \in Reps
           /\ RestFromOthers' /\ JamNeedsEmptyLastFrame'
<1>1. /\ Head(frames) \in Contents
      /\ Tail(frames) \in Seq(Contents)
      /\ Len(Tail(frames)) = Len(frames) - 1
      /\ Len(frames) \in Nat \ {0}
    BY HeadTailProperties, LenProperties, EmptySeq
<1>2. /\ rep' = Rep(IF Len(frames) = 1 THEN "send" ELSE "recv", p,
                    Tail(frames), Head(frames))
      /\ at' = IF Answers(Head(frames)) THEN "send" ELSE "recv"
    BY DEF Read
<1>3. rep' \in Reps /\ at' \in {"recv", "send"}
    BY <1>1, <1>2 DEF Rep, Reps
<1>4. RestFromOthers'
    <2>1. ASSUME Tail(frames) # <<>> PROVE Len(frames) # 1
        BY <1>1, <2>1, EmptySeq
    <2>2. ASSUME Tail(frames) # <<>> PROVE p \in Others
        BY <2>1, <2>2 DEF Peers
    <2> QED BY <1>2, <2>1, <2>2 DEF Rep, RestFromOthers
<1>5. JamNeedsEmptyLastFrame'
    <2>1. SUFFICES ASSUME at' = "recv" /\ rep'.turn = "send"
                   PROVE  /\ script = "sdk"
                          /\ rep'.from \in Others /\ rep'.last = "empty"
        BY DEF JamNeedsEmptyLastFrame, Jammed
    <2>2. ~Answers(Head(frames))
        BY <1>2, <2>1
    <2>3. script = "sdk" /\ Head(frames) = "empty"
        BY <1>1, <2>2 DEF Answers, Contents, IInv, TypeOK
    <2>4. p \in Others
        BY <2>3 DEF Peers
    <2> QED BY <1>2, <2>3, <2>4 DEF Rep
<1> QED BY <1>3, <1>4, <1>5

LEMMA TakeIInv ==
    ASSUME IInv, NEW p \in Peers, Take(p) PROVE IInv'
<1>1. /\ link[p].frames \in Seq(Contents)
      /\ link[p].frames # <<>>
      /\ p \in Clients => link[p].frames = <<"text">>
    BY DEF Take, IInv, TypeOK, Links, RequestsWhole
<1>2. /\ at' \in {"recv", "send"} /\ rep' \in Reps
      /\ RestFromOthers' /\ JamNeedsEmptyLastFrame'
    BY <1>1, ReadServer DEF Take
<1>3. link' = [link EXCEPT ![p] = [@ EXCEPT !.where = "reading"]]
    BY DEF Take
<1>4. link' \in [Peers -> Links] /\ RequestsWhole'
    BY <1>3 DEF IInv, TypeOK, Links, RequestsWhole
<1> QED BY <1>2, <1>4, ClientsKept DEF Take, IInv, TypeOK

LEMMA TakeMoreIInv ==
    ASSUME IInv, TakeMore PROVE IInv'
<1>1. /\ rep.rest \in Seq(Contents) /\ rep.rest # <<>>
      /\ rep.from \in Others
    BY DEF TakeMore, IInv, TypeOK, Reps, RestFromOthers
<1>2. rep.from \in Peers /\ rep.from \notin Clients
    BY <1>1, PeersAssumption DEF Peers
<1>3. /\ at' \in {"recv", "send"} /\ rep' \in Reps
      /\ RestFromOthers' /\ JamNeedsEmptyLastFrame'
    BY <1>1, <1>2, ReadServer DEF TakeMore
<1> QED BY <1>3, ClientsKept DEF TakeMore, IInv, TypeOK, RequestsWhole

LEMMA TakeFailsIInv ==
    ASSUME IInv, TakeFails PROVE IInv'
<1>1. script = "sdk" /\ at' = "recv" /\ UNCHANGED <<rep, link, client, script>>
    BY DEF TakeFails, IInv, TypeOK, JamNeedsEmptyLastFrame, Jammed
<1> QED
    BY <1>1, ClientsKept
       DEF TakeFails, IInv, TypeOK, RequestsWhole, RestFromOthers,
           JamNeedsEmptyLastFrame, Jammed

\* A reply puts the socket back in its turn; one that is refused finds it so.
LEMMA ReplyIInv ==
    ASSUME IInv, Reply PROVE IInv'
<1>1. at' = "recv" /\ UNCHANGED <<script, starts, client>>
    BY DEF Reply
<1>2. CASE rep.turn = "send"
    <2>1. /\ link' = [link EXCEPT ![rep.from] = [@ EXCEPT !.where = "answered"]]
          /\ rep' = [rep EXCEPT !.turn = "recv"]
        BY <1>2 DEF Reply
    <2>2. rep' \in Reps /\ rep'.turn = "recv" /\ RestFromOthers'
        BY <1>2, <2>1 DEF IInv, TypeOK, Reps, RestFromOthers
    <2>3. link' \in [Peers -> Links] /\ RequestsWhole'
        BY <2>1 DEF IInv, TypeOK, Links, RequestsWhole
    <2> QED
        BY <1>1, <2>2, <2>3, ClientsKept
           DEF IInv, TypeOK, JamNeedsEmptyLastFrame, Jammed
<1>3. CASE rep.turn # "send"
    <2>1. UNCHANGED <<link, rep>>
        BY <1>3 DEF Reply
    <2> QED
        BY <1>1, <1>3, <2>1, ClientsKept
           DEF IInv, TypeOK, RequestsWhole, RestFromOthers,
               JamNeedsEmptyLastFrame, Jammed
<1> QED BY <1>2, <1>3

LEMMA StartIInv ==
    ASSUME IInv, Start PROVE IInv'
BY FreshServer, ClientsKept DEF Start, IInv, TypeOK, RequestsWhole

LEMMA KillIInv ==
    ASSUME IInv, Kill PROVE IInv'
<1>1. link' = [p \in Peers |->
                 IF link[p].where \in {"server", "reading", "answered"}
                 THEN Link("lost", <<>>) ELSE link[p]]
    BY DEF Kill
<1>2. Link("lost", <<>>) \in Links /\ Link("lost", <<>>).where = "lost"
    BY DEF Link, Links
<1>3. link' \in [Peers -> Links] /\ RequestsWhole'
    BY <1>1, <1>2 DEF IInv, TypeOK, RequestsWhole
<1> QED BY <1>3, FreshServer, ClientsKept DEF Kill, IInv, TypeOK

-----------------------------------------------------------------------------
(* Transport, clients and others.                                          *)

\* What happens between a peer and its link leaves the server as it is.
LEMMA LinkIInv ==
    ASSUME IInv, UNCHANGED <<script, at, rep>>,
           link' \in [Peers -> Links], RequestsWhole',
           client' \in [Clients -> Standings], PrintedFollowsRound'
    PROVE  IInv'
BY DEF IInv, TypeOK, RestFromOthers, JamNeedsEmptyLastFrame, Jammed

LEMMA IdleFacts ==
    /\ Idle \in Links /\ Idle.where = "none"
    /\ Link("back", <<>>) \in Links /\ Link("back", <<>>).where = "back"
BY DEF Idle, Link, Links

LEMMA TransportIInv ==
    ASSUME IInv, NEW p \in Peers, Transmit(p) \/ Deliver(p) PROVE IInv'
<1>1. UNCHANGED <<script, at, rep, client>>
    BY DEF Transmit, Deliver
<1>2. CASE Transmit(p)
    <2>1. /\ link[p].where = "pipe"
          /\ link' = [link EXCEPT ![p] = [@ EXCEPT !.where = "server"]]
        BY <1>2 DEF Transmit
    <2>2. link' \in [Peers -> Links] /\ RequestsWhole'
        BY <2>1 DEF IInv, TypeOK, Links, RequestsWhole
    <2> QED BY <1>1, <2>2, LinkIInv, ClientsKept
<1>3. CASE Deliver(p)
    <2>1. link' \in [Peers -> Links] /\ RequestsWhole'
        BY <1>3, IdleFacts DEF Deliver, IInv, TypeOK, RequestsWhole
    <2> QED BY <1>1, <2>1, LinkIInv, ClientsKept
<1> QED BY <1>2, <1>3

LEMMA AskIInv ==
    ASSUME IInv, NEW c \in Clients, Ask(c) PROVE IInv'
<1>1. Link("pipe", <<"text">>) \in Links /\ c \in Peers
    BY DEF Link, Links, Contents, Peers
<1>2. link' \in [Peers -> Links] /\ RequestsWhole'
    BY <1>1 DEF Ask, IInv, TypeOK, RequestsWhole, Link
<1>3. /\ client[c].pc = "send"
      /\ client' = [client EXCEPT ![c] = [@ EXCEPT !.pc = "recv"]]
    BY DEF Ask
<1>4. client' \in [Clients -> Standings] /\ PrintedFollowsRound'
    BY <1>3 DEF IInv, TypeOK, Standings, PrintedFollowsRound
<1> QED BY <1>2, <1>4, LinkIInv DEF Ask

\* Where a client may stand, and what it has printed there.
Stands(s) ==
    /\ s \in Standings
    /\ s.printed = IF s.setup # "ready" THEN 0
                   ELSE IF s.pc = "done" THEN LastRound + 1 ELSE s.round
    /\ s.setup = "ready" /\ s.pc = "done" => s.round = LastRound

LEMMA StandingKept ==
    ASSUME IInv, NEW c \in Clients, NEW s, Stands(s), client' = [client EXCEPT ![c] = s]
    PROVE  client' \in [Clients -> Standings] /\ PrintedFollowsRound'
BY DEF Stands, IInv, TypeOK, PrintedFollowsRound

LEMMA HearIInv ==
    ASSUME IInv, NEW c \in Clients, Hear(c) PROVE IInv'
<1>1. link' \in [Peers -> Links] /\ RequestsWhole'
    BY IdleFacts DEF Hear, IInv, TypeOK, RequestsWhole
<1>2. /\ client[c].round \in 0..LastRound
      /\ client[c].printed = client[c].round
      /\ client[c].setup = "ready"
    BY DEF Hear, IInv, TypeOK, Standings, PrintedFollowsRound
<1>3. CASE client[c].round = LastRound
    <2>1. client' = [client EXCEPT ![c] =
              [setup |-> "ready", pc |-> "done",
               round |-> LastRound, printed |-> LastRound + 1]]
        BY <1>2, <1>3 DEF Hear, NextRound, IInv, TypeOK
    <2>2. LastRound \in 0..LastRound /\ LastRound + 1 \in Nat
        BY RoundsAssumption
    <2>3. Stands([setup |-> "ready", pc |-> "done",
                  round |-> LastRound, printed |-> LastRound + 1])
        BY <2>2 DEF Stands, Standings
    <2>4. client' \in [Clients -> Standings] /\ PrintedFollowsRound'
        BY <2>1, <2>3, StandingKept
    <2> QED BY <1>1, <2>4, LinkIInv DEF Hear
<1>4. CASE client[c].round # LastRound
    <2> DEFINE n == client[c].round + 1
    <2>1. client' = [client EXCEPT ![c] =
              [setup |-> "ready", pc |-> "send", round |-> n, printed |-> n]]
        BY <1>2, <1>4 DEF Hear, NextRound, IInv, TypeOK
    <2>2. n \in 0..LastRound /\ n \in Nat
        BY <1>2, <1>4, RoundsAssumption
    <2> HIDE DEF n
    <2>3. Stands([setup |-> "ready", pc |-> "send", round |-> n, printed |-> n])
        BY <2>2 DEF Stands, Standings
    <2>4. client' \in [Clients -> Standings] /\ PrintedFollowsRound'
        BY <2>1, <2>3, StandingKept
    <2> QED BY <1>1, <2>4, LinkIInv DEF Hear
<1> QED BY <1>3, <1>4

LEMMA HearNothingIInv ==
    ASSUME IInv, NEW c \in Clients, HearNothing(c) PROVE IInv'
<1>1. UNCHANGED <<script, at, rep, link>> /\ NextRound(c, 0)
    BY DEF HearNothing
<1>2. /\ client[c].round \in 0..LastRound /\ client[c].printed = 0
      /\ client[c].setup = "no socket"
    BY DEF HearNothing, IInv, TypeOK, Standings, PrintedFollowsRound
<1>7. client' = [client EXCEPT ![c] =
                   [setup |-> client[c].setup,
                    pc |-> IF client[c].round = LastRound THEN "done" ELSE "send",
                    round |-> IF client[c].round = LastRound
                              THEN client[c].round ELSE client[c].round + 1,
                    printed |-> client[c].printed + 0]]
    BY <1>1 DEF NextRound, IInv, TypeOK
<1>8. client[c].printed + 0 = 0
    <2>1. client[c].printed = 0
        BY <1>2
    <2> QED BY <2>1
<1>3. PICK call \in {"send", "done"}, n \in 0..LastRound :
         client' = [client EXCEPT ![c] =
                      [setup |-> "no socket", pc |-> call, round |-> n, printed |-> 0]]
    <2>1. CASE client[c].round = LastRound
        <3>1. client' = [client EXCEPT ![c] =
                           [setup |-> "no socket", pc |-> "done",
                            round |-> client[c].round, printed |-> 0]]
            BY <1>2, <1>7, <1>8, <2>1
        <3> QED BY <1>2, <3>1
    <2>2. CASE client[c].round # LastRound
        <3> DEFINE m == client[c].round + 1
        <3>1. client' = [client EXCEPT ![c] =
                           [setup |-> "no socket", pc |-> "send",
                            round |-> m, printed |-> 0]]
            BY <1>2, <1>7, <1>8, <2>2
        <3>2. client[c].round \in 0..LastRound
            BY <1>2
        <3>3. m \in 0..LastRound
            BY <2>2, <3>2, RoundsAssumption
        <3> HIDE DEF m
        <3> QED BY <3>1, <3>3
    <2> QED BY <2>1, <2>2
<1>4. Stands([setup |-> "no socket", pc |-> call, round |-> n, printed |-> 0])
    BY DEF Stands, Standings
<1>5. client' \in [Clients -> Standings] /\ PrintedFollowsRound'
    BY <1>3, <1>4, StandingKept
<1>6. link' \in [Peers -> Links] /\ RequestsWhole'
    BY <1>1 DEF IInv, TypeOK, RequestsWhole
<1> QED BY <1>1, <1>5, <1>6, LinkIInv

LEMMA OthersIInv ==
    ASSUME IInv, NEW p \in Others, OtherAsks(p) \/ OtherHears(p) PROVE IInv'
<1>1. p \in Peers /\ p \notin Clients /\ UNCHANGED <<script, at, rep, client>>
    BY PeersAssumption DEF OtherAsks, OtherHears, Peers
<1>2. CASE OtherAsks(p)
    <2>1. PICK r \in Requests : link' = [link EXCEPT ![p] = Link("pipe", r)]
        BY <1>2 DEF OtherAsks
    <2>2. r \in Seq(Contents) /\ r # <<>>
        BY RequestsAssumption DEF Contents
    <2>3. Link("pipe", r) \in Links /\ Link("pipe", r).frames = r
        BY <2>2 DEF Link, Links
    <2>4. link' \in [Peers -> Links] /\ RequestsWhole'
        BY <1>1, <2>1, <2>2, <2>3 DEF IInv, TypeOK, RequestsWhole
    <2> QED BY <1>1, <2>4, LinkIInv, ClientsKept
<1>3. CASE OtherHears(p)
    <2>1. link' \in [Peers -> Links] /\ RequestsWhole'
        BY <1>3, IdleFacts DEF OtherHears, IInv, TypeOK, RequestsWhole
    <2> QED BY <1>1, <2>1, LinkIInv, ClientsKept
<1> QED BY <1>2, <1>3

-----------------------------------------------------------------------------
LEMMA StepIInv == IInv /\ [Next]_vars => IInv'
<1> SUFFICES ASSUME IInv, [Next]_vars PROVE IInv'
    OBVIOUS
<1>1. CASE UNCHANGED vars
    BY <1>1, LinkIInv, ClientsKept DEF vars, IInv, TypeOK, RequestsWhole
<1> QED
    BY <1>1, StartIInv, TakeIInv, TakeMoreIInv, TakeFailsIInv, ReplyIInv,
       KillIInv, TransportIInv, AskIInv, HearIInv, HearNothingIInv,
       OthersIInv DEF Next

\* A request on its way is whole, and a client's request is one text; what is
\* left of one while the server reads it is of another program.
THEOREM Invariance == Spec => []IInv
<1> QED BY InitIInv, StepIInv, PTL DEF Spec

\* The server gets stuck only by a request from elsewhere whose last frame is
\* empty, whatever the number of peers and the frames of their requests; the
\* native script never does.
THEOREM JamsOnlyByEmptyLastFrame == Spec => []JamNeedsEmptyLastFrame
<1>1. IInv => JamNeedsEmptyLastFrame
    BY DEF IInv
<1> QED BY <1>1, Invariance, PTL

\* A client that has come to its end has printed a reply for every request,
\* however often its server was killed and started again, and none if its
\* set-up failed.
THEOREM DoneAlwaysMeansAnswered == Spec => []DoneMeansAnswered
<1>1. IInv => DoneMeansAnswered
    BY DEF IInv, PrintedFollowsRound, DoneMeansAnswered
<1> QED BY <1>1, Invariance, PTL

=============================================================================
