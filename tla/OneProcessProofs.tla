-------------------------- MODULE OneProcessProofs --------------------------
(***************************************************************************)
(* Proofs about the scripts that talk to themselves, for every number of   *)
(* rounds, polls and ZAP polls and any set of guests. Each model has its   *)
(* own inductive invariant; while another one runs, nothing is to be shown *)
(* of it. (That the scripts end is a matter of fairness: TLC.)             *)
(***************************************************************************)
EXTENDS MCOneProcessScripts, SequenceTheorems, TLAPS

-----------------------------------------------------------------------------
(* WorkerThreads.                                                          *)

\* The index of a script's ZmqThreadJoin among its calls, and one beyond the
\* last of them.
JoinAt == IF script = "proxy" THEN 5 ELSE 2
EndAt == IF script = "proxy" THEN 11 ELSE 4

WorkersTypes ==
    /\ script \in {"proxy", "thread"}
    /\ at \in 1..EndAt
    /\ native \in BOOLEAN
    /\ worker \in {"none", "starting", "entry", "call", "exit", "ended"}
    /\ Workers!TypeOK

\* The worker exists from its start on and has ended before the join returns.
WorkerLifetime ==
    /\ worker = "none" <=> at = 1 /\ ~native
    /\ at > JoinAt => worker = "ended"

\* One TERMINATE is sent, by the call that is the third.
ControlSentOnce ==
    /\ control \in Seq({"TERMINATE"})
    /\ at < 3 \/ (at = 3 /\ ~native) \/ script = "thread" => control = <<>>

\* What the worker has stored by where it is, and the main thread read.
WorkerStores ==
    script = "thread" =>
        /\ worker \in {"call", "exit", "ended"} => nWorkerArg = 42
        /\ worker = "ended" => nWorkerDone = 1
        /\ at > JoinAt => read = [arg |-> 42, done |-> 1]

WorkersInv ==
    model = "workers" =>
        WorkersTypes /\ WorkerLifetime /\ ControlSentOnce /\ WorkerStores

\* Which call is at which index.
LEMMA CallsByIndex ==
    ASSUME WorkersTypes
    PROVE  /\ Workers!Done <=> at = EndAt
           /\ Workers!Call("start") <=> at = 1
           /\ Workers!Call("send") <=> at = 3 /\ script = "proxy"
           /\ Workers!Call("join") <=> at = JoinAt
           /\ \A name \in {"close-peer", "close-control", "close-backend",
                           "close-frontend"} :
                  Workers!Call(name) => at > JoinAt
<1> USE DEF WorkersTypes, EndAt, JoinAt
<1>1. CASE script = "thread"
    <2>1. Workers!Calls = <<"start", "join", "loops">>
        BY <1>1 DEF Workers!Calls, Workers!ThreadCalls
    <2> QED
        BY <1>1, <2>1 DEF Workers!Done, Workers!Call
<1>2. CASE script = "proxy"
    <2>1. Workers!Calls = <<"start", "sleep", "send", "sleep", "join",
                            "close-peer", "close-control", "close-backend",
                            "close-frontend", "shutdown">>
        BY <1>2 DEF Workers!Calls, Workers!ProxyCalls
    <2>2. at \in 1..11 /\ Len(Workers!Calls) = 10
        BY <1>2, <2>1
    <2>3. CASE at \in 1..5
        BY <1>2, <2>1, <2>2, <2>3 DEF Workers!Done, Workers!Call
    <2>4. CASE at \in 6..11
        BY <1>2, <2>1, <2>2, <2>4 DEF Workers!Done, Workers!Call
    <2> QED
        BY <2>2, <2>3, <2>4
<1> QED
    BY <1>1, <1>2

LEMMA InitWorkersInv == Init => WorkersInv
<1> SUFFICES ASSUME Init, model = "workers" PROVE
        WorkersTypes /\ WorkerLifetime /\ ControlSentOnce /\ WorkerStores
    BY DEF WorkersInv
<1>1. Workers!Init
    BY DEF Init
<1>2. control \in Seq({"TERMINATE"}) /\ Len(control) = 0
    BY <1>1 DEF Workers!Init
<1>3. script \in {"proxy", "thread"} /\ usable \subseteq Workers!Sockets
    BY <1>1 DEF Workers!Init
<1>6. native \in BOOLEAN
    BY <1>1, Zenon DEF Workers!Init
<1>8. Workers!TypeOK
    BY <1>1, <1>2, <1>3, <1>6 DEF Workers!Init, Workers!TypeOK
<1>7. WorkersTypes
    BY <1>1, <1>3, <1>6, <1>8 DEF Workers!Init, WorkersTypes, EndAt
<1>4. WorkerLifetime
    BY <1>1 DEF Workers!Init, WorkerLifetime, JoinAt
<1>5. ControlSentOnce /\ WorkerStores
    BY <1>1, <1>2 DEF Workers!Init, ControlSentOnce, WorkerStores, JoinAt
<1> QED
    BY <1>7, <1>4, <1>5

\* Of the worker's model only its own steps change anything.
LEMMA WorkersFrame ==
    ASSUME model = "workers", [Next]_vars
    PROVE  /\ model' = "workers"
           /\ Workers!Next \/ UNCHANGED Workers!vars
    BY DEF Next, vars, workersOnly, WorkersStep, Workers!vars, Workers!flags

LEMMA StepWorkersInv == WorkersInv /\ [Next]_vars => WorkersInv'
<1> SUFFICES ASSUME WorkersInv, [Next]_vars, model' = "workers"
             PROVE  (WorkersTypes /\ WorkerLifetime /\ ControlSentOnce
                        /\ WorkerStores)'
    BY DEF WorkersInv
<1>1. model = "workers"
    BY DEF Next, vars, LoopbackScript, LoopbackIo, LoopbackGuest,
           MultipartStep, WorkersStep, MonitorStep
<1>2. Workers!Next \/ UNCHANGED Workers!vars
    BY <1>1, WorkersFrame
<1>3. WorkersTypes /\ WorkerLifetime /\ ControlSentOnce /\ WorkerStores
    BY <1>1 DEF WorkersInv
<1> USE <1>3
<1>4. /\ Workers!Done <=> at = EndAt
      /\ Workers!Call("start") <=> at = 1
      /\ Workers!Call("send") <=> at = 3 /\ script = "proxy"
      /\ Workers!Call("join") <=> at = JoinAt
    BY CallsByIndex
<1> USE DEF WorkersTypes, Workers!TypeOK, EndAt, JoinAt, WorkerLifetime,
            ControlSentOnce, WorkerStores, Workers!flags
<1>5. CASE Workers!EnterCall
    <2> USE <1>5 DEF Workers!EnterCall
    <2>1. at # EndAt /\ ~native /\ native' = TRUE
        BY <1>4
    <2>2. worker' = IF at = 1 THEN "starting" ELSE worker
        BY <1>4
    <2>3. (WorkerLifetime /\ WorkerStores)'
        BY <2>1, <2>2
    <2>4. ControlSentOnce' /\ Len(control') <= 1
        <3>1. CASE at = 3 /\ script = "proxy" /\ Workers!Delivers
            <4>1. control = <<>> /\ control' = Append(control, "TERMINATE")
                BY <1>4, <2>1, <3>1
            <4>2. control' = <<"TERMINATE">>
                BY <4>1
            <4>3. control' \in Seq({"TERMINATE"}) /\ Len(control') = 1
                BY <4>2
            <4> QED
                BY <2>1, <3>1, <4>3
        <3>2. CASE ~(at = 3 /\ script = "proxy" /\ Workers!Delivers)
            <4>1. control' = control
                BY <1>4, <3>2
            <4> QED
                BY <2>1, <4>1
        <3> QED
            BY <3>1, <3>2
    <2> QED
        BY <2>1, <2>2, <2>3, <2>4
<1>6. CASE Workers!ReturnFromCall
    <2> USE <1>6 DEF Workers!ReturnFromCall, Workers!MayReturn
    <2>1. at # EndAt /\ native /\ native' = FALSE /\ at' = at + 1
        BY <1>4
    <2>2. at = JoinAt => worker = "ended" /\ read' = [arg |-> nWorkerArg, done |-> nWorkerDone]
        BY <1>4
    <2>3. at # JoinAt => read' = read
        BY <1>4
    <2>4. at' \in 1..EndAt
        BY <2>1
    <2>5. (WorkerLifetime /\ ControlSentOnce)'
        BY <2>1, <2>2
    <2>6. WorkerStores'
        BY <2>1, <2>2, <2>3
    <2>7. native' \in BOOLEAN
        BY <2>1, Zenon
    <2> QED
        BY <2>4, <2>5, <2>6, <2>7
<1>12. CASE Workers!WorkerStarts
    BY <1>12 DEF Workers!WorkerStarts
<1>7. CASE Workers!WorkerBegins
    BY <1>7 DEF Workers!WorkerBegins
<1>8. CASE Workers!CallEnds
    BY <1>8 DEF Workers!CallEnds
<1>9. CASE Workers!ProxyTerminates
    <2> USE <1>9 DEF Workers!ProxyTerminates
    <2>1. control' = <<>>
        BY <1>9
    <2> QED
        BY <2>1
<1>10. CASE Workers!WorkerEnds
    BY <1>10 DEF Workers!WorkerEnds
<1>11. CASE UNCHANGED Workers!vars
    BY <1>11 DEF Workers!vars
<1> QED
    BY <1>2, <1>5, <1>6, <1>7, <1>8, <1>9, <1>10, <1>11, <1>12 DEF Workers!Next

LEMMA WorkersInvGivesJoin == WorkersInv => JoinSeparates
<1> SUFFICES ASSUME WorkersInv, model = "workers"
             PROVE  /\ Workers!NoSocketShared /\ Workers!JoinSeesWorker
                    /\ Workers!JoinEndsOverlap
    BY DEF JoinSeparates
<1>1. WorkersTypes /\ WorkerLifetime /\ WorkerStores
    BY DEF WorkersInv
<1>2. Workers!JoinSeesWorker
    BY <1>1 DEF WorkerStores, JoinAt, Workers!JoinSeesWorker
<1>3. Workers!NoSocketShared
    <2>1. CASE \E name \in {"close-peer", "close-control", "close-backend",
                             "close-frontend"} : Workers!Call(name)
        <3>1. worker = "ended"
            BY <1>1, <2>1, CallsByIndex DEF WorkerLifetime
        <3> QED
            BY <3>1 DEF Workers!NoSocketShared, Workers!WorkerUses
    <2>2. CASE ~\E name \in {"close-peer", "close-control", "close-backend",
                              "close-frontend"} : Workers!Call(name)
        BY <2>2 DEF Workers!NoSocketShared, Workers!MainUses, Workers!WorkerUses
    <2> QED
        BY <2>1, <2>2
<1>4. Workers!JoinEndsOverlap
    <2> SUFFICES ASSUME Workers!BothEvaluate
                 PROVE  \E i \in at..Len(Workers!Calls) :
                            /\ Workers!Calls[i] = "join"
                            /\ script = "thread" => i = at
        BY DEF Workers!JoinEndsOverlap
    <2>1. script \in {"proxy", "thread"} /\ at \in 2..JoinAt
        BY <1>1 DEF Workers!BothEvaluate, WorkersTypes, WorkerLifetime, EndAt, JoinAt
    <2>2. CASE script = "thread"
        <3>1. Workers!Calls = <<"start", "join", "loops">>
            BY <2>2 DEF Workers!Calls, Workers!ThreadCalls
        <3>2. Len(Workers!Calls) = 3 /\ Workers!Calls[2] = "join"
            BY <3>1
        <3> QED
            BY <2>1, <2>2, <3>2 DEF JoinAt
    <2>3. CASE script = "proxy"
        <3>1. Workers!Calls = <<"start", "sleep", "send", "sleep", "join",
                                "close-peer", "close-control", "close-backend",
                                "close-frontend", "shutdown">>
            BY <2>3 DEF Workers!Calls, Workers!ProxyCalls
        <3>2. Len(Workers!Calls) = 10 /\ Workers!Calls[5] = "join"
            BY <3>1
        <3> QED
            BY <2>1, <2>3, <3>2 DEF JoinAt
    <2> QED
        BY <2>1, <2>2, <2>3
<1> QED
    BY <1>2, <1>3, <1>4

-----------------------------------------------------------------------------
(* LoopbackReqRep.                                                         *)

Requests == [where : {"none", "pipe", "rep", "taken", "answered", "back"},
             round : Nat]

LoopbackTypes ==
    /\ script \in Loopback!Scripts
    /\ conn \in [Loopback!Ends -> {"none", "zap", "open", "refused"}]
    /\ req \in [Loopback!Ends -> Requests]
    /\ rep \in [turn : {"recv", "send"}, from : Loopback!Ends]
    /\ Loopback!TypeOK
    /\ pc \in {"zap-loop", "zap-before-send", "zap-before-recv",
              "zap-before-exit"} => script = "plain"

\* REP is to send exactly between the two statements, and what it is to reply
\* to is the request it has taken.
ReplyDue ==
    /\ rep.turn = "send" <=> pc = "rep-send"
    /\ rep.turn = "send" => req[rep.from].where = "taken"

\* A script is in step if no receive can time out and the script still go on:
\* all but Thread.tbasic are, and Thread.tbasic where the port could be had,
\* the I/O thread is prompt and no guest has entered.
InStep ==
    \/ script # "thread"
    \/ io = "prompt" /\ bound /\ ~Loopback!GuestEntered

\* The script's own request is under way from its send to its receive, and in
\* a script that is in step not before.
OwnUnderWay ==
    /\ pc \in {"zap-before-recv", "rep-recv", "rep-send", "req-recv"} =>
          req["own"].where # "none"
    /\ InStep /\ pc \in {"zap-loop", "zap-before-send", "req-send"} =>
          req["own"].where = "none"

\* What has been printed is of rounds before that of the request under way,
\* which is one of the rounds so far, and was printed in loops before this one.
PrintedBefore ==
    /\ req["own"].where # "none" =>
          /\ req["own"].round \in 1..loop
          /\ \A i \in 1..Len(printed) : printed[i].round < req["own"].round
    /\ pc # "done" => \A i \in 1..Len(printed) : printed[i].loop < loop
    /\ pc = "zap-loop" => printed = <<>>
    /\ Loopback!RepliesInOrder

\* In step, every round before this one has been printed.
PrintedEvery ==
    InStep =>
        /\ pc \notin {"zap-loop", "done"} => Len(printed) = loop - 1
        /\ req["own"].where # "none" /\ pc # "done" => req["own"].round = loop

\* Thread.tbasic in step: its own request is all that can reach REP, and while
\* the script waits for it or for its reply the I/O thread has work to do.
PromptRound ==
    script = "thread" /\ InStep =>
        /\ conn["own"] \in {"none", "open"}
        /\ \A g \in Loopback!Ends \ {"own"} : req[g].where \in {"none", "pipe"}
        /\ pc = "rep-recv" => req["own"].where \in {"pipe", "rep"}
        /\ pc = "rep-send" => rep.from = "own"
        /\ pc = "req-recv" => req["own"].where \in {"answered", "back"}

\* Without the port there are no connections, and nothing is printed.
Unbound ==
    ~bound =>
        /\ \A p \in Loopback!Ends :
              conn[p] = "none" /\ req[p].where \in {"none", "pipe"}
        /\ printed = <<>>

\* No guest is admitted by Plain.tbasic.
GuestOutside ==
    script = "plain" =>
        /\ \A g \in Loopback!Ends \ {"own"} : conn[g] # "open"
        /\ Loopback!OnlyAuthenticatedRead

LoopbackParts ==
    /\ LoopbackTypes
    /\ ReplyDue
    /\ OwnUnderWay
    /\ PrintedBefore
    /\ PrintedEvery
    /\ PromptRound
    /\ Unbound
    /\ GuestOutside

LoopbackInv == model = "loopback" => LoopbackParts

LEMMA OwnIsAnEnd == "own" \in Loopback!Ends
BY DEF Loopback!Ends

\* The replies: in which loop each was printed, and of which round it is.
Replies == [loop : 1..Rounds, round : 1..Rounds]

LEMMA InitLoopbackInv == Init => LoopbackInv
<1> SUFFICES ASSUME Init, model = "loopback" PROVE LoopbackParts
    BY DEF LoopbackInv
<1>1. Loopback!Init
    BY DEF Init
<1> USE <1>1, OwnIsAnEnd, BoundsAssumption
<1> USE DEF Loopback!Init, Loopback!Request
<1>2. req \in [Loopback!Ends -> Requests]
    BY DEF Requests
<1>3. printed = <<>> /\ Len(printed) = 0 /\ printed \in Seq(Replies)
    OBVIOUS
<1>4. LoopbackTypes
    BY <1>2, <1>3 DEF LoopbackTypes, Loopback!TypeOK, Requests, Replies
<1>5. ReplyDue /\ OwnUnderWay
    BY DEF ReplyDue, OwnUnderWay
<1>6. PrintedBefore
    BY <1>3 DEF PrintedBefore, Loopback!RepliesInOrder
<1>7. PrintedEvery
    BY <1>3 DEF PrintedEvery
<1>8. GuestOutside
    BY DEF GuestOutside, Loopback!OnlyAuthenticatedRead
<1>9. PromptRound /\ Unbound
    BY DEF PromptRound, Unbound
<1> QED
    BY <1>4, <1>5, <1>6, <1>7, <1>8, <1>9 DEF LoopbackParts

\* Of the loops' model only its own steps change anything.
LEMMA LoopbackFrame ==
    ASSUME model = "loopback", [Next]_vars
    PROVE  Loopback!Next \/ UNCHANGED Loopback!vars
BY DEF Next, vars, loopbackOnly, LoopbackScript, LoopbackIo, LoopbackGuest,
       Loopback!Next, Loopback!vars

\* A request that moves on keeps its round.
LEMMA RequestMoves ==
    ASSUME LoopbackTypes, UNCHANGED script,
           NEW p \in Loopback!Ends,
           NEW where \in {"none", "pipe", "rep", "taken", "answered", "back"},
           req' = [req EXCEPT ![p].where = where]
    PROVE  /\ req' \in [Loopback!Ends -> Requests]
           /\ req'[p].where = where /\ req'[p].round = req[p].round
           /\ \A q \in Loopback!Ends : q # p => req'[q] = req[q]
<1>1. req' = [req EXCEPT ![p] = [@ EXCEPT !.where = where]]
    OBVIOUS
<1>2. req \in [Loopback!Ends -> Requests]
    BY DEF LoopbackTypes
<1>3. [req[p] EXCEPT !.where = where] \in Requests
    BY <1>2 DEF Requests
<1>4. req[p] \in Requests
    BY <1>2
<1> QED
    BY <1>1, <1>2, <1>3, <1>4 DEF Requests

\* What the I/O thread and a guest do leaves the script's affairs in order.
LEMMA IoLeavesScript ==
    ASSUME LoopbackParts,
           UNCHANGED <<Loopback!static, pc, loop, printed, rep>>,
           conn' \in [Loopback!Ends -> {"none", "zap", "open", "refused"}],
           req' \in [Loopback!Ends -> Requests],
           req'["own"].where = "none" <=> req["own"].where = "none",
           req'["own"].round = req["own"].round,
           req[rep.from].where = "taken" => req'[rep.from].where = "taken",
           Loopback!GuestEntered => Loopback!GuestEntered',
           PromptRound', Unbound', GuestOutside'
    PROVE  LoopbackParts'
<1> USE OwnIsAnEnd DEF LoopbackParts, Loopback!static
<1>1. Loopback!Ends' = Loopback!Ends
    BY DEF Loopback!Ends
<1>2. Loopback!TypeOK'
    BY <1>1 DEF LoopbackTypes, Loopback!TypeOK, Requests
<1>3. LoopbackTypes'
    BY <1>1, <1>2 DEF LoopbackTypes
<1>4. ReplyDue'
    BY DEF ReplyDue
<1>8. InStep' => InStep
    BY DEF InStep
<1>5. OwnUnderWay'
    BY <1>8 DEF OwnUnderWay
<1>6. PrintedBefore'
    BY DEF PrintedBefore, Loopback!RepliesInOrder
<1>7. PrintedEvery'
    BY <1>8 DEF PrintedEvery
<1> QED
    BY <1>3, <1>4, <1>5, <1>6, <1>7

\* A connection that is open stays so.
LEMMA EnteredStays ==
    ASSUME LoopbackTypes, UNCHANGED script,
           \A p \in Loopback!Ends : conn[p] = "open" => conn'[p] = "open"
    PROVE  Loopback!GuestEntered => Loopback!GuestEntered'
BY DEF Loopback!GuestEntered, Loopback!Ends

LEMMA IoAndGuestKeep ==
    ASSUME LoopbackParts, Loopback!IoStep \/ Loopback!GuestStep
    PROVE  LoopbackParts'
<1> USE OwnIsAnEnd
<1>1. /\ LoopbackTypes /\ PromptRound /\ Unbound
      /\ conn \in [Loopback!Ends -> {"none", "zap", "open", "refused"}]
      /\ req \in [Loopback!Ends -> Requests]
      /\ \A p \in Loopback!Ends : req[p] \in Requests
      /\ rep.from \in Loopback!Ends
    BY DEF LoopbackParts, LoopbackTypes
<1>2. script = "plain" =>
        \A g \in Loopback!Ends \ {"own"} :
            conn[g] # "open" /\ req[g].where \in {"none", "pipe"}
    BY DEF LoopbackParts, GuestOutside, Loopback!OnlyAuthenticatedRead
<1>3. /\ UNCHANGED <<script, io, bound, pc, loop, printed, rep>>
      /\ Loopback!Ends' = Loopback!Ends
    BY DEF Loopback!IoStep, Loopback!GuestStep, Loopback!Connect,
           Loopback!Transmit, Loopback!Deliver, Loopback!GuestAsks,
           Loopback!GuestHears, Loopback!static, Loopback!Ends
<1>4. ASSUME NEW p \in Loopback!Ends, Loopback!Connect(p)
      PROVE  LoopbackParts'
    <2>1. /\ bound /\ req' = req
          /\ conn' = [conn EXCEPT ![p] = IF script = "plain" THEN "zap" ELSE "open"]
          /\ conn[p] = "none"
        BY <1>4 DEF Loopback!Connect
    <2>2. conn' \in [Loopback!Ends -> {"none", "zap", "open", "refused"}]
        BY <1>1, <2>1
    <2>3. Loopback!GuestEntered => Loopback!GuestEntered'
        BY <1>1, <1>3, <2>1, EnteredStays
    <2>4. GuestOutside' /\ Unbound'
        BY <1>1, <1>2, <1>3, <2>1
           DEF GuestOutside, Loopback!OnlyAuthenticatedRead, Unbound
    <2>5. PromptRound'
        <3> SUFFICES ASSUME script = "thread", InStep'
                     PROVE  InStep /\ conn'["own"] \in {"none", "open"}
            BY <1>1, <1>3, <2>1 DEF PromptRound
        <3>1. InStep
            BY <1>3, <2>3 DEF InStep
        <3> QED
            BY <1>1, <2>1, <3>1 DEF PromptRound
    <2> QED
        BY <1>1, <1>3, <2>1, <2>2, <2>3, <2>4, <2>5, IoLeavesScript
           DEF Loopback!static
<1>5. ASSUME UNCHANGED conn,
             NEW p \in Loopback!Ends,
             NEW where \in {"none", "pipe", "rep", "back"},
             req' = [req EXCEPT ![p].where = where],
             \/ /\ p = "own" /\ conn[p] = "open"
                /\ req[p].where = "pipe" /\ where = "rep"
             \/ p = "own" /\ req[p].where = "answered" /\ where = "back"
             \/ /\ p # "own" /\ req[p].where \in {"none", "answered", "back"}
                /\ req[p].where = "none" => where = "pipe"
             \/ p # "own" /\ conn[p] = "open" /\ req[p].where = "pipe"
      PROVE  LoopbackParts'
    <2>1. /\ req' \in [Loopback!Ends -> Requests]
          /\ req'[p].where = where /\ req'[p].round = req[p].round
          /\ \A q \in Loopback!Ends : q # p => req'[q] = req[q]
        BY <1>1, <1>3, <1>5, RequestMoves
    <2>2. Loopback!GuestEntered <=> Loopback!GuestEntered'
        BY <1>3, <1>5 DEF Loopback!GuestEntered
    <2>3. /\ req'["own"].where = "none" <=> req["own"].where = "none"
          /\ req'["own"].round = req["own"].round
          /\ req[rep.from].where = "taken" => req'[rep.from].where = "taken"
        BY <1>1, <1>5, <2>1
    <2>4. GuestOutside' /\ Unbound'
        BY <1>1, <1>2, <1>3, <1>5, <2>1
           DEF GuestOutside, Loopback!OnlyAuthenticatedRead, Unbound
    <2>5. PromptRound'
        <3> SUFFICES ASSUME script = "thread", InStep
                     PROVE  PromptRound'
            BY <1>3, <2>2 DEF PromptRound, InStep
        <3>1. p # "own" => conn[p] # "open"
            BY <1>1 DEF InStep, Loopback!GuestEntered
        <3> QED
            BY <1>1, <1>3, <1>5, <2>1, <3>1 DEF PromptRound
    <2> QED
        BY <1>1, <1>3, <1>5, <2>1, <2>2, <2>3, <2>4, <2>5, IoLeavesScript
           DEF Loopback!static
<1>6. ASSUME NEW p \in Loopback!Ends,
             Loopback!Transmit(p) \/ Loopback!Deliver(p)
      PROVE  LoopbackParts'
    BY <1>5, <1>6 DEF Loopback!Transmit, Loopback!Deliver
<1>7. ASSUME NEW g \in Loopback!Ends \ {"own"},
             Loopback!GuestAsks(g) \/ Loopback!GuestHears(g)
      PROVE  LoopbackParts'
    BY <1>5, <1>7 DEF Loopback!GuestAsks, Loopback!GuestHears
<1> QED
    BY <1>4, <1>6, <1>7 DEF Loopback!IoStep, Loopback!GuestStep

\* The ZAP handler admits no guest.
LEMMA ZapAdmitsNoGuest ==
    ASSUME LoopbackParts, Loopback!HandleZapOnce,
           UNCHANGED <<script, bound, req, printed>>
    PROVE  /\ conn' \in [Loopback!Ends -> {"none", "zap", "open", "refused"}]
           /\ GuestOutside' /\ Unbound'
<1>1. conn \in [Loopback!Ends -> {"none", "zap", "open", "refused"}]
    BY DEF LoopbackParts, LoopbackTypes
<1>2. GuestOutside
    BY DEF LoopbackParts
<1>3. conn' = conn \/ \E p \in Loopback!Ends :
        /\ conn[p] = "zap"
        /\ conn' = [conn EXCEPT ![p] = IF p = "own" THEN "open" ELSE "refused"]
    BY DEF Loopback!HandleZapOnce, Loopback!Admits
<1>4. Loopback!Ends' = Loopback!Ends /\ Unbound
    BY DEF Loopback!Ends, LoopbackParts
<1> QED
    BY <1>1, <1>2, <1>3, <1>4, OwnIsAnEnd
       DEF GuestOutside, Loopback!OnlyAuthenticatedRead, Unbound

LEMMA ZapStepsKeep ==
    ASSUME LoopbackParts, Loopback!ZapLoop \/ Loopback!ZapBetween
    PROVE  LoopbackParts'
<1> USE DEF LoopbackParts
<1> USE OwnIsAnEnd, BoundsAssumption
<1>1. /\ UNCHANGED <<Loopback!static, script, bound, printed, req, rep>>
      /\ Loopback!HandleZapOnce
    BY DEF Loopback!ZapLoop, Loopback!ZapBetween, Loopback!static
<1>2. /\ conn' \in [Loopback!Ends -> {"none", "zap", "open", "refused"}]
      /\ GuestOutside' /\ Unbound'
    BY <1>1, ZapAdmitsNoGuest
<1>3. Loopback!Ends' = Loopback!Ends
    BY <1>1 DEF Loopback!Ends
<1>4. script = "plain"
    BY DEF LoopbackTypes, Loopback!ZapLoop, Loopback!ZapBetween
<1>8. InStep /\ InStep' /\ PromptRound'
    BY <1>1, <1>4 DEF InStep, PromptRound
<1>5. loop \in Nat /\ Rounds \in Nat \ {0} /\ ZapPolls \in Nat \ {0}
    BY DEF LoopbackTypes, Loopback!TypeOK
<1>6. CASE Loopback!ZapLoop
    <2>1. pc = "zap-loop" /\ printed = <<>> /\ req["own"].where = "none"
        BY <1>6, <1>8 DEF Loopback!ZapLoop, PrintedBefore, OwnUnderWay
    <2>2. \/ loop < ZapPolls /\ loop' = loop + 1 /\ pc' = pc
          \/ loop' = 1 /\ pc' = "zap-before-send"
        BY <1>6 DEF Loopback!ZapLoop
    <2>3. LoopbackTypes'
        BY <1>1, <1>2, <1>3, <1>4, <1>5, <2>1, <2>2
           DEF LoopbackTypes, Loopback!TypeOK
    <2>4. ReplyDue' /\ OwnUnderWay'
        BY <1>1, <2>1, <2>2 DEF ReplyDue, OwnUnderWay
    <2>5. Len(printed) = 0
        BY <2>1
    <2>6. PrintedBefore'
        BY <1>1, <1>5, <2>1, <2>2, <2>5
           DEF PrintedBefore, Loopback!RepliesInOrder
    <2>7. PrintedEvery'
        BY <1>1, <2>1, <2>2, <2>5 DEF PrintedEvery
    <2> QED
        BY <1>2, <1>8, <2>3, <2>4, <2>6, <2>7
<1>7. CASE Loopback!ZapBetween
    <2>1. /\ loop' = loop
          /\ \/ pc = "zap-before-send" /\ pc' = "req-send"
             \/ pc = "zap-before-recv" /\ pc' = "rep-recv"
             \/ pc = "zap-before-exit" /\ pc' = "done"
        BY <1>7 DEF Loopback!ZapBetween
    <2>2. LoopbackTypes'
        BY <1>1, <1>2, <1>3, <1>5, <2>1 DEF LoopbackTypes, Loopback!TypeOK
    <2>3. ReplyDue' /\ OwnUnderWay'
        BY <1>1, <1>8, <2>1 DEF ReplyDue, OwnUnderWay
    <2>4. PrintedBefore'
        BY <1>1, <1>4, <2>1 DEF PrintedBefore, Loopback!RepliesInOrder
    <2>5. PrintedEvery'
        BY <1>1, <1>8, <2>1 DEF PrintedEvery
    <2> QED
        BY <1>2, <1>8, <2>2, <2>3, <2>4, <2>5
<1> QED
    BY <1>6, <1>7

\* The steps of a round that touch neither a connection nor what is printed.
LEMMA RoundStepsKeep ==
    ASSUME LoopbackParts,
           \/ Loopback!ReqSend \/ Loopback!ReqSendFails
           \/ Loopback!RepRecv \/ Loopback!RepRecvExpires \/ Loopback!RepSend
    PROVE  LoopbackParts'
<1> USE OwnIsAnEnd, BoundsAssumption
<1> USE DEF LoopbackParts
<1>1. UNCHANGED <<script, io, bound, loop, printed, conn>>
    BY DEF Loopback!ReqSend, Loopback!ReqSendFails, Loopback!RepRecv,
           Loopback!RepRecvExpires, Loopback!RepSend, Loopback!static
<1>2. /\ Loopback!Ends' = Loopback!Ends /\ (InStep' <=> InStep)
      /\ Loopback!RepliesInOrder' <=> Loopback!RepliesInOrder
    BY <1>1 DEF Loopback!Ends, InStep, Loopback!GuestEntered,
                Loopback!RepliesInOrder, Loopback!Reply
<1>3. /\ loop \in Nat /\ Rounds \in Nat \ {0}
      /\ req \in [Loopback!Ends -> Requests]
      /\ rep \in [turn : {"recv", "send"}, from : Loopback!Ends]
      /\ rep.from \in Loopback!Ends
    BY DEF LoopbackTypes, Loopback!TypeOK
<1>4. ASSUME req' \in [Loopback!Ends -> Requests],
             rep' \in [turn : {"recv", "send"}, from : Loopback!Ends],
             pc # "zap-loop", pc' # "zap-loop",
             pc' \in {"zap-before-recv", "zap-before-exit", "rep-recv",
                      "rep-send", "req-recv", "done"},
             pc' \in {"zap-before-recv", "zap-before-exit"} => script = "plain"
      PROVE  LoopbackTypes'
    <2>1. Loopback!TypeOK'
        BY <1>1, <1>2, <1>3, <1>4 DEF LoopbackTypes, Loopback!TypeOK, Requests
    <2> QED
        BY <1>1, <1>2, <1>4, <2>1 DEF LoopbackTypes
<1>5. CASE Loopback!ReqSend
    <2> USE <1>5 DEF Loopback!ReqSend
    <2>1. /\ pc = "req-send" /\ req["own"].where = "none"
          /\ pc' = IF script = "plain" THEN "zap-before-recv" ELSE "rep-recv"
          /\ rep' = rep
        BY DEF Loopback!AfterSend
    <2>2. /\ req' \in [Loopback!Ends -> Requests]
          /\ req'["own"].where = "pipe" /\ req'["own"].round = loop
          /\ \A p \in Loopback!Ends : p # "own" => req'[p] = req[p]
        BY <1>3 DEF Loopback!Request, Requests
    <2>3. LoopbackTypes'
        BY <1>3, <1>4, <2>1, <2>2
    <2>4. ReplyDue' /\ OwnUnderWay'
        BY <1>1, <1>3, <2>1, <2>2 DEF ReplyDue, OwnUnderWay
    <2>5. loop \in 1..Rounds
        BY <2>1 DEF LoopbackTypes, Loopback!TypeOK
    <2>8. \A i \in 1..Len(printed) : printed[i].round < loop
        <3> SUFFICES ASSUME NEW i \in 1..Len(printed)
                     PROVE  printed[i].round < loop
            OBVIOUS
        <3>1. printed[i] \in Replies
            <4>1. printed \in Seq(Replies)
                BY DEF LoopbackTypes, Loopback!TypeOK, Replies
            <4> QED
                BY <4>1
        <3>2. printed[i].loop < loop /\ printed[i].round <= printed[i].loop
            BY <2>1 DEF PrintedBefore, Loopback!RepliesInOrder
        <3> QED
            BY <1>3, <3>1, <3>2 DEF Replies
    <2>6. PrintedBefore' /\ PrintedEvery'
        BY <1>1, <1>2, <1>3, <2>1, <2>2, <2>5, <2>8
           DEF PrintedBefore, PrintedEvery
    <2>7. GuestOutside' /\ Unbound'
        BY <1>1, <1>2, <2>2
           DEF GuestOutside, Loopback!OnlyAuthenticatedRead, Unbound
    <2>9. PromptRound'
        BY <1>1, <1>2, <2>1, <2>2 DEF PromptRound
    <2> QED
        BY <2>3, <2>4, <2>6, <2>7, <2>9
<1>6. ASSUME UNCHANGED req, pc \notin {"zap-loop", "done"}, pc' # "zap-loop"
      PROVE  PrintedBefore' /\ PrintedEvery' /\ GuestOutside' /\ Unbound'
    BY <1>1, <1>2, <1>6 DEF PrintedBefore, PrintedEvery, GuestOutside, Unbound,
        Loopback!OnlyAuthenticatedRead
<1>7. CASE Loopback!ReqSendFails
    <2> USE <1>7 DEF Loopback!ReqSendFails
    <2>1. /\ pc = "req-send" /\ req["own"].where # "none"
          /\ req' = req /\ rep' = rep
          /\ ~InStep
        BY DEF OwnUnderWay
    <2>2. pc' = "rep-recv"
        BY <2>1 DEF Loopback!AfterSend, Loopback!ExitsOnFailure, InStep
    <2>3. LoopbackTypes'
        BY <1>3, <1>4, <2>1, <2>2
    <2>4. ReplyDue' /\ OwnUnderWay' /\ PromptRound'
        BY <1>1, <1>2, <2>1, <2>2 DEF ReplyDue, OwnUnderWay, PromptRound
    <2> QED
        BY <1>6, <2>1, <2>2, <2>3, <2>4
<1>8. CASE Loopback!RepRecv
    <2> USE <1>8 DEF Loopback!RepRecv
    <2>1. pc = "rep-recv" /\ pc' = "rep-send"
        OBVIOUS
    <2>2. PICK p \in Loopback!Ends :
            /\ req[p].where = "rep"
            /\ req' = [req EXCEPT ![p].where = "taken"]
            /\ rep' = [turn |-> "send", from |-> p]
        OBVIOUS
    <2>3. /\ req' \in [Loopback!Ends -> Requests]
          /\ req'[p].where = "taken" /\ req'[p].round = req[p].round
          /\ \A q \in Loopback!Ends : q # p => req'[q] = req[q]
        BY <1>1, <2>2, RequestMoves
    <2>4. LoopbackTypes'
        BY <1>3, <1>4, <2>1, <2>2, <2>3
    <2>5. ReplyDue'
        BY <2>1, <2>2, <2>3 DEF ReplyDue
    <2>6. /\ req["own"].where # "none" /\ req'["own"].where # "none"
          /\ req'["own"].round = req["own"].round
        BY <2>1, <2>3 DEF OwnUnderWay
    <2>7. OwnUnderWay'
        BY <2>1, <2>6 DEF OwnUnderWay
    <2>8. PrintedBefore' /\ PrintedEvery'
        BY <1>1, <1>2, <2>1, <2>6 DEF PrintedBefore, PrintedEvery
    <2>9. GuestOutside' /\ Unbound'
        BY <1>1, <1>2, <2>2, <2>3
           DEF GuestOutside, Loopback!OnlyAuthenticatedRead, Unbound
    <2>10. PromptRound'
        BY <1>1, <1>2, <2>1, <2>2, <2>3 DEF PromptRound
    <2> QED
        BY <2>4, <2>5, <2>7, <2>8, <2>9, <2>10
<1>9. CASE Loopback!RepRecvExpires
    <2> USE <1>9 DEF Loopback!RepRecvExpires
    <2>1. pc = "rep-recv" /\ pc' \in {"done", "req-recv"} /\ req' = req /\ rep' = rep
        OBVIOUS
    <2>2. LoopbackTypes'
        BY <1>3, <1>4, <2>1
    <2>3. ReplyDue' /\ OwnUnderWay'
        BY <1>1, <2>1 DEF ReplyDue, OwnUnderWay
    <2>4. ~(script = "thread" /\ InStep)
        <3> SUFFICES ASSUME script = "thread", InStep PROVE FALSE
            OBVIOUS
        <3>1. req["own"].where = "pipe" /\ conn["own"] \in {"none", "open"}
            BY <2>1 DEF PromptRound
        <3>2. Loopback!IoBusy
            BY <3>1 DEF InStep, Loopback!IoBusy
        <3> QED
            BY <3>2 DEF InStep, Loopback!Expires
    <2>5. PromptRound'
        BY <1>1, <1>2, <2>4 DEF PromptRound
    <2> QED
        BY <1>6, <2>1, <2>2, <2>3, <2>5
<1>10. CASE Loopback!RepSend
    <2> USE <1>10 DEF Loopback!RepSend
    <2>1. pc = "rep-send" /\ pc' = "req-recv"
        OBVIOUS
    <2>2. rep.turn = "send" /\ req[rep.from].where = "taken"
        BY <2>1 DEF ReplyDue
    <2>3. /\ req' = [req EXCEPT ![rep.from].where = "answered"]
          /\ rep' = [rep EXCEPT !.turn = "recv"]
        BY <2>2
    <2>4. /\ req' \in [Loopback!Ends -> Requests]
          /\ req'[rep.from].where = "answered"
          /\ req'[rep.from].round = req[rep.from].round
          /\ \A q \in Loopback!Ends : q # rep.from => req'[q] = req[q]
        BY <1>1, <1>3, <2>3, RequestMoves
    <2>5. /\ rep' \in [turn : {"recv", "send"}, from : Loopback!Ends]
          /\ rep'.turn = "recv"
        BY <1>3, <2>3
    <2>6. LoopbackTypes'
        BY <1>3, <1>4, <2>1, <2>4, <2>5
    <2>7. ReplyDue'
        BY <2>1, <2>5 DEF ReplyDue
    <2>8. /\ req["own"].where # "none" /\ req'["own"].where # "none"
          /\ req'["own"].round = req["own"].round
        BY <2>1, <2>4 DEF OwnUnderWay
    <2>9. OwnUnderWay'
        BY <2>1, <2>8 DEF OwnUnderWay
    <2>10. PrintedBefore' /\ PrintedEvery'
        BY <1>1, <1>2, <2>1, <2>8 DEF PrintedBefore, PrintedEvery
    <2>11. GuestOutside' /\ Unbound'
        BY <1>1, <1>2, <1>3, <2>2, <2>4
           DEF GuestOutside, Loopback!OnlyAuthenticatedRead, Unbound
    <2>12. PromptRound'
        BY <1>1, <1>2, <1>3, <2>1, <2>4 DEF PromptRound
    <2> QED
        BY <2>6, <2>7, <2>9, <2>10, <2>11, <2>12
<1> QED
    BY <1>5, <1>7, <1>8, <1>9, <1>10

LEMMA NextRoundKeepsPlace ==
    ASSUME LoopbackTypes, Loopback!NextRound, pc = "req-recv"
    PROVE  \/ loop = Rounds /\ loop' = loop /\ pc' = "done"
           \/ /\ loop < Rounds /\ loop' = loop + 1 /\ loop' \in 1..Rounds
              /\ \/ pc' = "req-send"
                 \/ pc' = "zap-before-send" /\ script = "plain"
BY BoundsAssumption DEF LoopbackTypes, Loopback!TypeOK, Loopback!NextRound

\* The end of a round.
LEMMA ReceivesKeep ==
    ASSUME LoopbackParts, Loopback!ReqRecv \/ Loopback!ReqRecvExpires
    PROVE  LoopbackParts'
<1> USE OwnIsAnEnd, BoundsAssumption
<1> USE DEF LoopbackParts
<1>1. pc = "req-recv" /\ UNCHANGED <<script, io, bound, conn, rep>>
    BY DEF Loopback!ReqRecv, Loopback!ReqRecvExpires, Loopback!static
<1>2. Loopback!Ends' = Loopback!Ends /\ (InStep' <=> InStep)
    BY <1>1 DEF Loopback!Ends, InStep, Loopback!GuestEntered
<1>3. /\ loop \in 1..Rounds /\ Rounds \in Nat \ {0}
      /\ req \in [Loopback!Ends -> Requests]
      /\ printed \in Seq(Replies) /\ Len(printed) \in Nat
      /\ \A i \in 1..Len(printed) : printed[i] \in Replies
    <2>1. printed \in Seq(Replies)
        BY DEF LoopbackTypes, Loopback!TypeOK, Replies
    <2> QED
        BY <1>1, <2>1 DEF LoopbackTypes, Loopback!TypeOK
<1>4. /\ rep.turn = "recv" /\ req["own"].where # "none"
      /\ \A i \in 1..Len(printed) : /\ printed[i].round < req["own"].round
                                     /\ printed[i].loop < loop
                                     /\ printed[i].round <= printed[i].loop
      /\ req["own"].round \in 1..loop
      /\ \A i \in 1..(Len(printed) - 1) : /\ printed[i].loop < printed[i + 1].loop
                                           /\ printed[i].round < printed[i + 1].round
    BY <1>1 DEF ReplyDue, OwnUnderWay, PrintedBefore, LoopbackTypes,
                Loopback!RepliesInOrder
<1>8. script # "thread" \/ (io = "prompt" /\ ~Loopback!GuestEntered) =>
        \A i \in 1..Len(printed) : printed[i] = Loopback!Reply(i, i)
    BY DEF PrintedBefore, Loopback!RepliesInOrder
<1>5. InStep => Len(printed) = loop - 1 /\ req["own"].round = loop
    BY <1>1, <1>4 DEF PrintedEvery
<1>6. CASE Loopback!ReqRecv
    <2> DEFINE round == req["own"].round
               reply == Loopback!Reply(loop, round)
    <2>1. /\ req["own"].where = "back"
          /\ req' = [req EXCEPT !["own"] = Loopback!Request("none", 0)]
          /\ printed' = Append(printed, reply)
          /\ Loopback!NextRound
        BY <1>6 DEF Loopback!ReqRecv
    <2>2. /\ req' \in [Loopback!Ends -> Requests]
          /\ req'["own"].where = "none"
          /\ \A p \in Loopback!Ends : p # "own" => req'[p] = req[p]
        BY <1>3, <2>1 DEF Loopback!Request, Requests
    <2>3. \/ loop' = loop /\ pc' = "done"
          \/ /\ loop' = loop + 1 /\ loop' \in 1..Rounds
             /\ \/ pc' = "req-send"
                \/ pc' = "zap-before-send" /\ script = "plain"
        BY <1>1, <2>1, NextRoundKeepsPlace
    <2>4. /\ round \in 1..loop /\ reply \in Replies
          /\ reply.loop = loop /\ reply.round = round
        BY <1>3, <1>4 DEF Replies, Loopback!Reply
    <2> HIDE DEF round, reply
    <2>5. /\ printed' \in Seq(Replies)
          /\ Len(printed') = Len(printed) + 1
          /\ \A i \in 1..Len(printed) : printed'[i] = printed[i]
          /\ printed'[Len(printed) + 1] = reply
        BY <1>3, <2>1, <2>4, AppendProperties
    <2>6. LoopbackTypes'
        BY <1>1, <1>2, <1>3, <2>2, <2>3, <2>5
           DEF LoopbackTypes, Loopback!TypeOK, Requests, Replies
    <2>7. ReplyDue'
        BY <1>1, <1>4, <2>3 DEF ReplyDue
    <2>8. OwnUnderWay'
        BY <2>2, <2>3 DEF OwnUnderWay
    <2>9. \A i \in 1..Len(printed') :
            \/ i \in 1..Len(printed) /\ printed'[i] = printed[i]
            \/ i = Len(printed) + 1 /\ printed'[i] = reply
        <3> SUFFICES ASSUME NEW i \in 1..Len(printed')
                     PROVE  \/ i \in 1..Len(printed) /\ printed'[i] = printed[i]
                            \/ i = Len(printed) + 1 /\ printed'[i] = reply
            OBVIOUS
        <3>1. i \in 1..(Len(printed) + 1)
            BY <2>5
        <3>2. i \in 1..Len(printed) \/ i = Len(printed) + 1
            BY <1>3, <3>1
        <3> QED
            BY <2>5, <3>2
    <2>10. \A i \in 1..Len(printed') : printed'[i].round <= printed'[i].loop
        <3> SUFFICES ASSUME NEW i \in 1..Len(printed')
                     PROVE  printed'[i].round <= printed'[i].loop
            OBVIOUS
        <3>1. CASE i \in 1..Len(printed) /\ printed'[i] = printed[i]
            BY <1>4, <3>1
        <3>2. CASE printed'[i] = reply
            BY <2>4, <3>2
        <3> QED
            BY <2>9, <3>1, <3>2
    <2>11. \A i \in 1..(Len(printed') - 1) :
            /\ printed'[i].loop < printed'[i + 1].loop
            /\ printed'[i].round < printed'[i + 1].round
        <3> SUFFICES ASSUME NEW i \in 1..Len(printed)
                     PROVE  /\ printed'[i].loop < printed'[i + 1].loop
                            /\ printed'[i].round < printed'[i + 1].round
            BY <1>3, <2>5
        <3>1. CASE i = Len(printed)
            BY <1>3, <1>4, <2>4, <2>5, <3>1 DEF round
        <3>2. CASE i # Len(printed)
            <4>1. i \in 1..(Len(printed) - 1) /\ i + 1 \in 1..Len(printed)
                BY <1>3, <3>2
            <4> QED
                BY <1>4, <2>5, <4>1
        <3> QED
            BY <3>1, <3>2
    <2>12. bound
        BY <2>1 DEF Unbound
    <2>13. script # "thread" \/ (io = "prompt" /\ ~Loopback!GuestEntered) =>
            \A i \in 1..Len(printed') : printed'[i] = Loopback!Reply(i, i)
        <3> SUFFICES ASSUME script # "thread" \/ (io = "prompt" /\ ~Loopback!GuestEntered),
                            NEW i \in 1..Len(printed')
                     PROVE  printed'[i] = Loopback!Reply(i, i)
            OBVIOUS
        <3>1. CASE i \in 1..Len(printed) /\ printed'[i] = printed[i]
            BY <1>8, <3>1
        <3>2. CASE i = Len(printed) + 1 /\ printed'[i] = reply
            <4>1. i = loop /\ round = loop
                BY <1>3, <1>5, <2>12, <3>2 DEF InStep, round
            <4> QED
                BY <3>2, <4>1 DEF reply
        <3> QED
            BY <2>9, <3>1, <3>2
    <2>14. PrintedBefore'
        <3>1. pc' # "done" => \A i \in 1..Len(printed') : printed'[i].loop < loop'
            <4> SUFFICES ASSUME pc' # "done", NEW i \in 1..Len(printed')
                         PROVE  printed'[i].loop < loop'
                OBVIOUS
            <4>1. loop' = loop + 1
                BY <2>3
            <4>2. CASE i \in 1..Len(printed) /\ printed'[i] = printed[i]
                BY <1>3, <1>4, <4>1, <4>2 DEF Replies
            <4>3. CASE printed'[i] = reply
                BY <1>3, <2>4, <4>1, <4>3
            <4> QED
                BY <2>9, <4>2, <4>3
        <3>2. Loopback!RepliesInOrder'
            <4>1. Loopback!GuestEntered' <=> Loopback!GuestEntered
                BY <1>1, <1>2 DEF Loopback!GuestEntered
            <4> QED
                BY <1>1, <2>10, <2>11, <2>13, <4>1
                   DEF Loopback!RepliesInOrder, Loopback!Reply
        <3> QED
            BY <2>2, <2>3, <3>1, <3>2 DEF PrintedBefore
    <2>15. PrintedEvery'
        BY <1>2, <1>3, <1>5, <2>2, <2>3, <2>5 DEF PrintedEvery
    <2>16. GuestOutside' /\ Unbound'
        BY <1>1, <1>2, <2>2, <2>12
           DEF GuestOutside, Loopback!OnlyAuthenticatedRead, Unbound
    <2>17. PromptRound'
        BY <1>1, <1>2, <2>2, <2>3 DEF PromptRound
    <2> QED
        BY <2>6, <2>7, <2>8, <2>14, <2>15, <2>16, <2>17
<1>7. CASE Loopback!ReqRecvExpires
    <2>1. req' = req /\ printed' = printed
        BY <1>7 DEF Loopback!ReqRecvExpires
    <2>2. ~(script = "thread" /\ InStep)
        <3> SUFFICES ASSUME script = "thread", InStep PROVE FALSE
            OBVIOUS
        <3>1. req["own"].where = "answered"
            BY <1>1, <1>7 DEF Loopback!ReqRecvExpires, PromptRound
        <3>2. Loopback!IoBusy
            BY <3>1 DEF Loopback!IoBusy
        <3> QED
            BY <1>7, <3>2 DEF Loopback!ReqRecvExpires, InStep, Loopback!Expires
    <2>3. \/ pc' = "done" /\ loop' = loop
          \/ /\ ~InStep /\ script # "plain"
             /\ loop' = loop + 1 /\ loop' \in 1..Rounds /\ pc' = "req-send"
        BY <1>1, <1>7, <2>2, NextRoundKeepsPlace
           DEF Loopback!ReqRecvExpires, Loopback!ExitsOnFailure,
               Loopback!HasTimeouts, InStep, LoopbackTypes, Loopback!Scripts
    <2>4. LoopbackTypes'
        BY <1>1, <1>2, <1>3, <2>1, <2>3 DEF LoopbackTypes, Loopback!TypeOK
    <2>5. ReplyDue' /\ OwnUnderWay' /\ PromptRound'
        BY <1>1, <1>2, <2>1, <2>2, <2>3 DEF ReplyDue, OwnUnderWay, PromptRound
    <2>6. PrintedBefore'
        <3>1. Loopback!RepliesInOrder'
            BY <1>1, <1>2, <2>1
               DEF PrintedBefore, Loopback!RepliesInOrder,
                   Loopback!GuestEntered, Loopback!Reply
        <3>2. pc' # "done" => \A i \in 1..Len(printed') : printed'[i].loop < loop'
            BY <1>3, <1>4, <2>1, <2>3 DEF Replies
        <3>3. req'["own"].where # "none" =>
                /\ req'["own"].round \in 1..loop'
                /\ \A i \in 1..Len(printed') : printed'[i].round < req'["own"].round
            BY <1>3, <1>4, <2>1, <2>3
        <3> QED
            BY <2>3, <3>1, <3>2, <3>3 DEF PrintedBefore
    <2>7. PrintedEvery'
        BY <1>2, <1>3, <1>5, <2>1, <2>3 DEF PrintedEvery
    <2>8. GuestOutside' /\ Unbound'
        BY <1>1, <1>2, <2>1
           DEF GuestOutside, Loopback!OnlyAuthenticatedRead, Unbound
    <2> QED
        BY <2>4, <2>5, <2>6, <2>7, <2>8
<1> QED
    BY <1>6, <1>7

LEMMA StepLoopbackInv == LoopbackInv /\ [Next]_vars => LoopbackInv'
<1> SUFFICES ASSUME LoopbackInv, [Next]_vars, model' = "loopback"
             PROVE  LoopbackParts'
    BY DEF LoopbackInv
<1>1. model = "loopback"
    BY DEF Next, vars, LoopbackScript, LoopbackIo, LoopbackGuest,
           MultipartStep, WorkersStep, MonitorStep
<1>2. LoopbackParts
    BY <1>1 DEF LoopbackInv
<1>3. CASE Loopback!IoStep \/ Loopback!GuestStep
    BY <1>2, <1>3, IoAndGuestKeep
<1>4. CASE Loopback!ScriptStep
    BY <1>2, <1>4, ZapStepsKeep, RoundStepsKeep, ReceivesKeep
       DEF Loopback!ScriptStep
<1>5. CASE UNCHANGED Loopback!vars
    BY <1>2, <1>5, IoLeavesScript
       DEF Loopback!vars, Loopback!static, LoopbackParts, LoopbackTypes,
           GuestOutside, Loopback!OnlyAuthenticatedRead, InStep,
           Loopback!GuestEntered, PromptRound, Unbound, Loopback!Ends
<1> QED
    BY <1>1, <1>3, <1>4, <1>5, LoopbackFrame DEF Loopback!Next

-----------------------------------------------------------------------------
(* SocketMonitor.                                                          *)

MonitorEvents ==
    {Monitor!Listening, Monitor!Closed}
        \cup {Monitor!Accepted(p) : p \in Monitor!Ends}

EventFrame(e) == [kind |-> "event", event |-> e]
AddressFrame(e) == [kind |-> "address", event |-> e]
MonitorFrames == [kind : {"event", "address"}, event : MonitorEvents]

MonitorPairs == MonitorFrames \X MonitorFrames

BeforePolls == {"connect-monitor", "bind", "connect",
                "req-send", "rep-recv", "req-recv"}
WhilePolls == {"poll", "read-event", "read-address"}

MonitorTypes ==
    /\ usable \subseteq Monitor!Sockets /\ free \in BOOLEAN /\ peer \in BOOLEAN
    /\ pc \in BeforePolls \cup WhilePolls \cup {"done"}
    /\ loop \in 1..Polls
    /\ accepted \subseteq Monitor!Ends
    /\ exchange \in {"none", "request", "at-rep", "reply", "back", "printed"}
    /\ events \in Seq(MonitorEvents)
    /\ frames \in Seq(MonitorFrames)
    /\ printed \in Seq(MonitorPairs)
    /\ pc = "read-address" => head \in MonitorFrames

\* One frame of the first event not printed yet has been read.
Half == IF pc = "read-address" THEN 1 ELSE 0

\* The frames that wait are those of the events not printed, in order; of the
\* first of them, while it is being read, only the second.
FramesCounted == Len(frames) + 2 * Len(printed) + Half = 2 * Len(events)
FramesInOrder ==
    \A i \in 1..(Len(events) - Len(printed)) :
        /\ i > 1 \/ Half = 0 =>
              frames[2 * i - 1 - Half] = EventFrame(events[Len(printed) + i])
        /\ frames[2 * i - Half] = AddressFrame(events[Len(printed) + i])
FramesWait ==
    /\ FramesCounted
    /\ FramesInOrder
    /\ pc = "read-event" => frames # <<>>
    /\ pc = "read-address" => head = EventFrame(events[Len(printed) + 1])

\* Events come only if there is a PAIR socket, and the own connection's event
\* comes before anything of that connection.
OwnEventComes ==
    /\ peer \/ events # <<>> => "monitor" \in usable
    /\ "own" \in accepted =>
          \E i \in 1..Len(events) : events[i] = Monitor!Accepted("own")
    /\ exchange \in {"at-rep", "reply", "back", "printed"} => "own" \in accepted

OwnPrinted ==
    \E i \in 1..Len(printed) : printed[i] = Monitor!Message(Monitor!Accepted("own"))

\* A poll prints an event unless there is none left, and after the exchange
\* that is when the own connection's has been printed.
PollsPrint ==
    /\ pc \in BeforePolls => loop = 1 /\ printed = <<>>
    /\ pc \in WhilePolls /\ exchange = "printed" =>
          OwnPrinted \/ Len(printed) = loop - 1
    /\ Monitor!ExchangeIsReported

\* The bind's outcome is the first event, sent by the time the script goes on;
\* from the second poll on it has been printed.
Outcome == IF free THEN Monitor!Listening ELSE Monitor!Closed
OutcomeComes ==
    /\ pc \in {"connect-monitor", "bind"} => events = <<>>
    /\ events # <<>> => events[1] = Outcome
    /\ "rep" \in usable /\ pc \notin {"connect-monitor", "bind"} => events # <<>>
    /\ {"rep", "monitor"} \subseteq usable /\ (loop > 1 \/ pc = "done") =>
          printed # <<>>

MonitorParts ==
    /\ MonitorTypes
    /\ FramesWait
    /\ OwnEventComes
    /\ PollsPrint
    /\ OutcomeComes
    /\ Monitor!EventsPrintedWhole

MonitorInv == model = "monitor" => MonitorParts

LEMMA MonitorSetup ==
    /\ Range(Monitor!Setup) = {"connect-monitor", "bind", "connect"}
    /\ pc = "connect-monitor" => Monitor!AfterSetup = "bind"
    /\ pc = "bind" => Monitor!AfterSetup = "connect"
    /\ pc = "connect" => Monitor!AfterSetup = "req-send"
<1> DEFINE steps == <<"connect-monitor", "bind", "connect">>
<1>1. Monitor!Setup = steps
    BY DEF Monitor!Setup
<1>2. /\ steps[1] = "connect-monitor" /\ steps[2] = "bind"
      /\ steps[3] = "connect"
      /\ DOMAIN steps = {1, 2, 3} /\ Len(steps) = 3
    OBVIOUS
<1> HIDE DEF steps
<1>3. Range(steps) = {"connect-monitor", "bind", "connect"}
    BY <1>2 DEF Range
<1>4. ASSUME NEW k \in 1..3, pc = steps[k]
      PROVE  Monitor!AfterSetup = IF k = 3 THEN "req-send" ELSE steps[k + 1]
    <2> DEFINE i == CHOOSE j \in 1..3 : steps[j] = pc
    <2>1. i \in 1..3 /\ steps[i] = pc
        BY <1>4
    <2>2. i = k
        BY <1>2, <1>4, <2>1
    <2>3. Monitor!AfterSetup = IF i = 3 THEN "req-send" ELSE steps[i + 1]
        BY <1>1, <1>2 DEF Monitor!AfterSetup
    <2> HIDE DEF i
    <2> QED
        BY <2>2, <2>3
<1>5. /\ pc = "connect-monitor" => Monitor!AfterSetup = steps[2]
      /\ pc = "bind" => Monitor!AfterSetup = steps[3]
      /\ pc = "connect" => Monitor!AfterSetup = "req-send"
    BY <1>2, <1>4
<1> QED
    BY <1>1, <1>2, <1>3, <1>5

LEMMA MonitorSequences ==
    ASSUME MonitorTypes
    PROVE  /\ events \in Seq(MonitorEvents) /\ Len(events) \in Nat
           /\ frames \in Seq(MonitorFrames) /\ Len(frames) \in Nat
           /\ printed \in Seq(MonitorPairs) /\ Len(printed) \in Nat
<1>1. /\ events \in Seq(MonitorEvents)
      /\ frames \in Seq(MonitorFrames)
      /\ printed \in Seq(MonitorPairs)
    BY DEF MonitorTypes
<1> QED
    BY <1>1, LenProperties

LEMMA InitMonitorInv == Init => MonitorInv
<1> SUFFICES ASSUME Init, model = "monitor" PROVE MonitorParts
    BY DEF MonitorInv
<1>1. Monitor!Init
    BY DEF Init
<1>2. pc = "connect-monitor"
    BY <1>1 DEF Monitor!Init, Monitor!Setup
<1>3. /\ Len(events) = 0 /\ Len(frames) = 0 /\ Len(printed) = 0
      /\ events \in Seq(MonitorEvents) /\ frames \in Seq(MonitorFrames)
      /\ printed \in Seq(MonitorPairs)
    BY <1>1 DEF Monitor!Init
<1>4. free \in BOOLEAN /\ peer \in BOOLEAN
    BY <1>1, Zenon DEF Monitor!Init
<1>5. MonitorTypes
    BY <1>1, <1>2, <1>3, <1>4, BoundsAssumption
       DEF Monitor!Init, MonitorTypes, BeforePolls
<1>6. FramesWait
    BY <1>2, <1>3 DEF FramesWait, FramesCounted, FramesInOrder, Half
<1>7. OwnEventComes
    BY <1>1 DEF Monitor!Init, OwnEventComes
<1>8. PollsPrint
    BY <1>1, <1>2 DEF Monitor!Init, PollsPrint, WhilePolls,
                      Monitor!ExchangeIsReported
<1>9. Monitor!EventsPrintedWhole
    BY <1>3 DEF Monitor!EventsPrintedWhole
<1>10. OutcomeComes
    BY <1>1, <1>2 DEF Monitor!Init, OutcomeComes
<1> QED
    BY <1>5, <1>6, <1>7, <1>8, <1>9, <1>10 DEF MonitorParts

LEMMA MonitorFrame ==
    ASSUME model = "monitor", [Next]_vars
    PROVE  Monitor!Next \/ UNCHANGED Monitor!vars
BY DEF Next, vars, monitorOnly, MonitorStep, Monitor!vars, Monitor!static

\* Steps of the script before the polls, and of the I/O thread after an accept.
LEMMA QuietStepsKeep ==
    ASSUME MonitorParts,
           \/ Monitor!ConnectMonitor \/ Monitor!BindNothing \/ Monitor!Connect
           \/ Monitor!ReqSend \/ Monitor!RepRecv \/ Monitor!ReqRecv
           \/ Monitor!RecvFails \/ Monitor!Deliver \/ UNCHANGED Monitor!vars
    PROVE  MonitorParts'
<1> USE DEF MonitorParts
<1>1. UNCHANGED <<usable, free, loop, accepted, events, frames, head, printed>>
    BY DEF Monitor!ConnectMonitor, Monitor!BindNothing, Monitor!Connect,
           Monitor!ReqSend, Monitor!RepRecv, Monitor!ReqRecv,
           Monitor!RecvFails, Monitor!Deliver, Monitor!vars, Monitor!static
<1>2. \/ pc \in BeforePolls /\ pc' \in BeforePolls \ {"connect-monitor"}
      \/ pc = "req-recv" /\ pc' = "poll"
      \/ pc' = pc
    BY MonitorSetup
       DEF Monitor!ConnectMonitor, Monitor!BindNothing, Monitor!Connect,
           Monitor!ReqSend, Monitor!RepRecv, Monitor!ReqRecv, BeforePolls,
           Monitor!RecvFails, Monitor!Deliver, Monitor!vars, Monitor!static
<1>3. peer' \in BOOLEAN /\ (peer' => peer \/ "monitor" \in usable)
    <2>1. peer \in BOOLEAN
        BY DEF MonitorTypes
    <2>2. peer' = peer \/ peer' = ("monitor" \in usable)
        BY DEF Monitor!ConnectMonitor, Monitor!BindNothing, Monitor!Connect,
               Monitor!ReqSend, Monitor!RepRecv, Monitor!ReqRecv,
               Monitor!RecvFails, Monitor!Deliver, Monitor!vars, Monitor!static
    <2>3. CASE peer' = peer
        BY <2>1, <2>3, Zenon
    <2>4. CASE peer' = ("monitor" \in usable)
        <3>1. ("monitor" \in usable) \in BOOLEAN
            OBVIOUS
        <3>2. peer' \in BOOLEAN
            BY <2>4, <3>1, Zenon
        <3>3. peer' => "monitor" \in usable
            BY <2>4
        <3> QED
            BY <3>2, <3>3
    <2> QED
        BY <2>2, <2>3, <2>4
<1>4. \/ exchange' = exchange
      \/ exchange' \in {"none", "request"}
      \/ /\ "own" \in accepted /\ exchange # "printed"
         /\ exchange' \in {"at-rep", "reply", "back"}
      \/ "own" \in accepted /\ pc \in BeforePolls /\ exchange' = "printed"
    BY DEF Monitor!ConnectMonitor, Monitor!BindNothing, Monitor!Connect,
           Monitor!ReqSend, Monitor!RepRecv, Monitor!ReqRecv, OwnEventComes,
           Monitor!RecvFails, Monitor!Deliver, Monitor!vars, Monitor!static,
           BeforePolls
<1>6. MonitorTypes'
    BY <1>1, <1>2, <1>3, <1>4 DEF MonitorTypes, BeforePolls, WhilePolls
<1>7. Half' = Half /\ (pc' = "read-event" => pc = "read-event")
      /\ (pc' = "read-address" => pc = "read-address")
    BY <1>2 DEF Half, BeforePolls
<1>8. FramesWait'
    BY <1>1, <1>7 DEF FramesWait, FramesCounted, FramesInOrder
<1>9. OwnEventComes'
    BY <1>1, <1>3, <1>4 DEF OwnEventComes
<1>10. PollsPrint'
    <2>1. pc \in BeforePolls => loop = 1 /\ Len(printed) = 0
        BY DEF PollsPrint
    <2>2. pc' \in BeforePolls => pc \in BeforePolls
        BY <1>2 DEF BeforePolls
    <2>3. pc' \in WhilePolls => pc \in BeforePolls \/ pc \in WhilePolls
        BY <1>2 DEF BeforePolls, WhilePolls
    <2>4. pc' = "done" => pc = "done"
        BY <1>2 DEF BeforePolls
    <2>5. exchange' = "printed" => exchange = "printed" \/ pc \in BeforePolls
        BY <1>4
    <2>6. OwnPrinted' <=> OwnPrinted
        BY <1>1 DEF OwnPrinted
    <2>7. Monitor!ExchangeIsReported'
        BY <1>1, <2>4, <2>5 DEF PollsPrint, Monitor!ExchangeIsReported, BeforePolls
    <2> QED
        BY <1>1, <2>1, <2>2, <2>3, <2>5, <2>6, <2>7 DEF PollsPrint
<1>11. Monitor!EventsPrintedWhole'
    BY <1>1 DEF Monitor!EventsPrintedWhole
<1>12. OutcomeComes'
    <2>1. /\ pc' \in {"connect-monitor", "bind"} => pc \in {"connect-monitor", "bind"}
          /\ pc \in {"connect-monitor", "bind"} =>
                pc' \in {"connect-monitor", "bind"} \/ "rep" \notin usable
          /\ pc' = "done" => pc = "done"
        BY MonitorSetup
           DEF Monitor!ConnectMonitor, Monitor!BindNothing, Monitor!Connect,
               Monitor!ReqSend, Monitor!RepRecv, Monitor!ReqRecv,
               Monitor!RecvFails, Monitor!Deliver, Monitor!vars, Monitor!static
    <2> QED
        BY <1>1, <2>1 DEF OutcomeComes, Outcome
<1> QED
    BY <1>6, <1>8, <1>9, <1>10, <1>11, <1>12

\* An event is two more frames behind those that wait.
LEMMA EmitKeepsFrames ==
    ASSUME MonitorTypes, FramesWait, Monitor!EventsPrintedWhole,
           NEW e \in MonitorEvents, Monitor!Emit(e),
           UNCHANGED <<printed, head>>,
           Half' = Half, pc' = "read-event" => pc = "read-event",
           pc' = "read-address" => pc = "read-address"
    PROVE  /\ FramesWait' /\ Monitor!EventsPrintedWhole'
           /\ events' \in Seq(MonitorEvents)
           /\ frames' \in Seq(MonitorFrames)
           /\ Len(events') = Len(events) + 1 /\ events'[Len(events) + 1] = e
           /\ \A i \in 1..Len(events) : events'[i] = events[i]
<1> DEFINE m == <<EventFrame(e), AddressFrame(e)>>
           left == Len(events) - Len(printed)
<1>1. /\ events \in Seq(MonitorEvents) /\ frames \in Seq(MonitorFrames)
      /\ Len(events) \in Nat /\ Len(frames) \in Nat /\ Len(printed) \in Nat
      /\ Half \in {0, 1}
    BY MonitorSequences DEF Half
<1>2. Len(frames) = 2 * left - Half /\ left \in Nat
    BY <1>1 DEF FramesWait, FramesCounted
<1>3. /\ events' \in Seq(MonitorEvents)
      /\ Len(events') = Len(events) + 1 /\ events'[Len(events) + 1] = e
      /\ \A i \in 1..Len(events) : events'[i] = events[i]
    <2>1. events' = Append(events, e)
        BY DEF Monitor!Emit
    <2> QED
        BY <1>1, <2>1, AppendProperties
<1>4. frames' = frames \o m
    BY DEF Monitor!Emit, Monitor!Message, EventFrame, AddressFrame
<1>5. /\ m \in Seq(MonitorFrames) /\ Len(m) = 2
      /\ m[1] = EventFrame(e) /\ m[2] = AddressFrame(e)
    <2>1. EventFrame(e) \in MonitorFrames /\ AddressFrame(e) \in MonitorFrames
        BY DEF MonitorFrames, EventFrame, AddressFrame
    <2> QED
        BY <2>1
<1> HIDE DEF m
<1>6. /\ frames' \in Seq(MonitorFrames) /\ Len(frames') = Len(frames) + 2
      /\ \A i \in 1..Len(frames) : frames'[i] = frames[i]
      /\ frames'[Len(frames) + 1] = EventFrame(e)
      /\ frames'[Len(frames) + 2] = AddressFrame(e)
    <2>1. /\ frames' \in Seq(MonitorFrames) /\ Len(frames') = Len(frames) + 2
          /\ \A i \in 1..(Len(frames) + 2) :
                frames'[i] = IF i <= Len(frames) THEN frames[i] ELSE m[i - Len(frames)]
        <3>1. /\ frames \o m \in Seq(MonitorFrames)
              /\ Len(frames \o m) = Len(frames) + Len(m)
              /\ \A i \in 1..(Len(frames) + Len(m)) :
                    (frames \o m)[i] = IF i <= Len(frames) THEN frames[i]
                                       ELSE m[i - Len(frames)]
            BY <1>1, <1>5, ConcatProperties
        <3> QED
            BY <1>4, <1>5, <3>1
    <2>2. \A i \in 1..Len(frames) : frames'[i] = frames[i]
        BY <1>1, <2>1
    <2>3. frames'[Len(frames) + 1] = m[1] /\ frames'[Len(frames) + 2] = m[2]
        <3>1. /\ frames'[Len(frames) + 1] = m[Len(frames) + 1 - Len(frames)]
              /\ frames'[Len(frames) + 2] = m[Len(frames) + 2 - Len(frames)]
            BY <1>1, <2>1
        <3> QED
            BY <1>1, <3>1
    <2> QED
        BY <1>5, <2>1, <2>2, <2>3
<1>7. Len(frames') + 2 * Len(printed') + Half' = 2 * Len(events')
    BY <1>1, <1>2, <1>3, <1>6
<1>8. ASSUME NEW i \in 1..(Len(events') - Len(printed'))
      PROVE  /\ i > 1 \/ Half' = 0 =>
                  frames'[2 * i - 1 - Half'] = EventFrame(events'[Len(printed') + i])
             /\ frames'[2 * i - Half'] = AddressFrame(events'[Len(printed') + i])
    <2>1. Len(events') - Len(printed') = left + 1
        BY <1>1, <1>3
    <2>2. CASE i = left + 1
        <3>1. /\ 2 * i - 1 - Half' = Len(frames) + 1
              /\ 2 * i - Half' = Len(frames) + 2
              /\ Len(printed') + i = Len(events) + 1
            BY <1>1, <1>2, <2>2
        <3> QED
            BY <1>3, <1>6, <3>1
    <2>3. CASE i # left + 1
        <3>1. i \in 1..left /\ Len(printed') + i \in 1..Len(events)
            BY <1>1, <1>2, <2>1, <2>3
        <3>2. /\ 2 * i - Half' \in 1..Len(frames)
              /\ i > 1 \/ Half' = 0 => 2 * i - 1 - Half' \in 1..Len(frames)
            BY <1>1, <1>2, <3>1
        <3>3. events'[Len(printed') + i] = events[Len(printed) + i]
            BY <1>3, <3>1
        <3> QED
            BY <1>6, <3>1, <3>2, <3>3 DEF FramesWait, FramesInOrder
    <2> QED
        BY <2>2, <2>3
<1>9. pc' = "read-event" => frames' # <<>>
    BY <1>1, <1>6
<1>10. pc' = "read-address" => head' = EventFrame(events'[Len(printed') + 1])
    <2> SUFFICES ASSUME pc' = "read-address"
                 PROVE  head' = EventFrame(events'[Len(printed') + 1])
        OBVIOUS
    <2>1. head = EventFrame(events[Len(printed) + 1]) /\ Half = 1
        BY DEF FramesWait, Half
    <2>2. Len(printed) + 1 \in 1..Len(events)
        BY <1>1, <1>2, <2>1
    <2> QED
        BY <1>3, <2>1, <2>2
<1>11. Monitor!EventsPrintedWhole'
    <2>1. \A i \in 1..Len(printed) : events'[i] = events[i]
        BY <1>1, <1>2, <1>3
    <2> QED
        BY <2>1 DEF Monitor!EventsPrintedWhole
<1> QED
    BY <1>3, <1>6, <1>7, <1>8, <1>9, <1>10, <1>11
       DEF FramesWait, FramesCounted, FramesInOrder

LEMMA EventsKeep ==
    ASSUME MonitorParts,
           \/ Monitor!Bind \/ Monitor!BindFails
           \/ \E p \in Monitor!Ends : Monitor!Accept(p)
    PROVE  MonitorParts'
<1> USE DEF MonitorParts
<1>1. UNCHANGED <<usable, free, peer, loop, exchange, head, printed>>
    BY DEF Monitor!Bind, Monitor!BindFails, Monitor!Accept, Monitor!static
<1>2. CASE Monitor!Bind \/ Monitor!BindFails
    <2>1. /\ pc = "bind" /\ pc' = "connect" /\ peer /\ accepted' = accepted
          /\ Monitor!Emit(Outcome)
        BY <1>2, MonitorSetup DEF Monitor!Bind, Monitor!BindFails, Outcome
    <2>2. Outcome \in MonitorEvents
        BY DEF MonitorEvents, Outcome
    <2>3. Half' = Half
        BY <2>1 DEF Half
    <2>4. /\ FramesWait' /\ Monitor!EventsPrintedWhole'
          /\ events' \in Seq(MonitorEvents) /\ frames' \in Seq(MonitorFrames)
          /\ Len(events') = Len(events) + 1
          /\ events'[Len(events) + 1] = Outcome
          /\ \A i \in 1..Len(events) : events'[i] = events[i]
        BY <1>1, <2>1, <2>2, <2>3, EmitKeepsFrames
    <2>5. MonitorTypes'
        BY <1>1, <2>1, <2>4 DEF MonitorTypes, BeforePolls
    <2>6. OwnEventComes'
        BY <1>1, <2>1, <2>4 DEF OwnEventComes, MonitorTypes
    <2>7. PollsPrint'
        BY <1>1, <2>1 DEF PollsPrint, BeforePolls, WhilePolls,
                          Monitor!ExchangeIsReported
    <2>8. OutcomeComes'
        <3>1. Len(events) = 0 /\ loop = 1
            BY <2>1 DEF OutcomeComes, PollsPrint, BeforePolls
        <3>2. events'[1] = Outcome /\ events' # <<>>
            <4>1. Len(events') = 1 /\ events'[1] = Outcome
                BY <2>4, <3>1, Len(events) + 1 = 1
            <4> QED
                BY <4>1
        <3>3. Outcome' = Outcome
            BY <1>1 DEF Outcome, Monitor!Listening, Monitor!Closed
        <3> QED
            BY <1>1, <2>1, <3>1, <3>2, <3>3 DEF OutcomeComes
    <2> QED
        BY <2>4, <2>5, <2>6, <2>7, <2>8
<1>3. ASSUME NEW p \in Monitor!Ends, Monitor!Accept(p)
      PROVE  MonitorParts'
    <2>1. /\ pc' = pc /\ events # <<>> /\ accepted' = accepted \cup {p}
          /\ Monitor!Emit(Monitor!Accepted(p))
        BY <1>3 DEF Monitor!Accept, Monitor!Bound
    <2>2. Monitor!Accepted(p) \in MonitorEvents
        BY DEF MonitorEvents
    <2>3. Half' = Half
        BY <2>1 DEF Half
    <2>4. /\ FramesWait' /\ Monitor!EventsPrintedWhole'
          /\ events' \in Seq(MonitorEvents) /\ frames' \in Seq(MonitorFrames)
          /\ Len(events') = Len(events) + 1
          /\ events'[Len(events) + 1] = Monitor!Accepted(p)
          /\ \A i \in 1..Len(events) : events'[i] = events[i]
        BY <1>1, <2>1, <2>2, <2>3, EmitKeepsFrames
    <2>5. MonitorTypes'
        BY <1>1, <2>1, <2>4 DEF MonitorTypes
    <2>6. OwnEventComes'
        <3>1. "own" \in accepted' =>
                \E i \in 1..Len(events') : events'[i] = Monitor!Accepted("own")
            BY <2>1, <2>4 DEF OwnEventComes, MonitorTypes
        <3> QED
            BY <1>1, <2>1, <3>1 DEF OwnEventComes
    <2>7. PollsPrint'
        BY <1>1, <2>1 DEF PollsPrint, OwnPrinted, Monitor!ExchangeIsReported
    <2>8. OutcomeComes'
        <3>1. Len(events) \in Nat \ {0}
            BY <2>1, MonitorSequences
        <3>2. events'[1] = events[1] /\ events' # <<>>
            BY <2>4, <3>1
        <3>3. Outcome' = Outcome
            BY <1>1 DEF Outcome, Monitor!Listening, Monitor!Closed
        <3> QED
            BY <1>1, <2>1, <3>2, <3>3 DEF OutcomeComes
    <2> QED
        BY <2>4, <2>5, <2>6, <2>7, <2>8
<1> QED
    BY <1>2, <1>3

LEMMA NextPollGoesOn ==
    ASSUME MonitorTypes, Monitor!NextPoll
    PROVE  \/ loop = Polls /\ pc' = "done" /\ loop' = loop
           \/ loop # Polls /\ pc' = "poll" /\ loop' = loop + 1 /\ loop' \in 1..Polls
BY BoundsAssumption DEF MonitorTypes, Monitor!NextPoll

\* What an exchange with a printed reply leaves to be read.
LEMMA AllPrintedWithOwn ==
    ASSUME MonitorParts, frames = <<>>, pc = "poll", exchange = "printed"
    PROVE  OwnPrinted
<1> USE DEF MonitorParts
<1>1. PICK i \in 1..Len(events) : events[i] = Monitor!Accepted("own")
    BY DEF OwnEventComes
<1>2. Len(printed) = Len(events)
    BY MonitorSequences DEF FramesWait, FramesCounted, Half
<1>3. printed[i] = Monitor!Message(events[i])
    BY <1>2 DEF Monitor!EventsPrintedWhole
<1> QED
    BY <1>1, <1>2, <1>3 DEF OwnPrinted

LEMMA PollsKeep ==
    ASSUME MonitorParts, Monitor!Poll \/ Monitor!PollExpires
    PROVE  MonitorParts'
<1> USE DEF MonitorParts
<1>1. /\ UNCHANGED <<usable, free, peer, accepted, exchange, events, frames,
                     head, printed>>
      /\ pc = "poll"
    BY DEF Monitor!Poll, Monitor!PollExpires, Monitor!static
<1>2. \/ pc' = "read-event" /\ loop' = loop /\ frames # <<>>
      \/ pc' = "done" /\ loop' = loop
      \/ pc' = "poll" /\ loop' = loop + 1 /\ loop' \in 1..Polls
    BY NextPollGoesOn DEF Monitor!Poll, Monitor!PollExpires
<1>3. MonitorTypes'
    BY <1>1, <1>2 DEF MonitorTypes, WhilePolls
<1>4. Half' = Half /\ pc' # "read-address"
    BY <1>1, <1>2 DEF Half
<1>5. FramesWait'
    BY <1>1, <1>2, <1>4 DEF FramesWait, FramesCounted, FramesInOrder
<1>6. OwnEventComes' /\ Monitor!EventsPrintedWhole'
    BY <1>1 DEF OwnEventComes, Monitor!EventsPrintedWhole
<1>8. OutcomeComes'
    <2>1. ASSUME {"rep", "monitor"} \subseteq usable, pc' # "read-event"
          PROVE  printed # <<>>
        <3>1. frames = <<>> /\ events # <<>>
            BY <1>1, <2>1 DEF Monitor!Poll, Monitor!PollExpires, OutcomeComes
        <3>2. Len(printed) = Len(events)
            BY <1>1, <3>1, MonitorSequences DEF FramesWait, FramesCounted, Half
        <3> QED
            BY <3>1, <3>2, MonitorSequences
    <2> QED
        BY <1>1, <1>2, <2>1 DEF OutcomeComes, Outcome
<1>7. PollsPrint'
    <2>1. OwnPrinted' <=> OwnPrinted
        BY <1>1 DEF OwnPrinted
    <2>2. CASE Monitor!Poll
        BY <1>1, <2>1, <2>2
           DEF Monitor!Poll, PollsPrint, BeforePolls, WhilePolls,
               Monitor!ExchangeIsReported
    <2>3. CASE Monitor!PollExpires
        <3>1. exchange = "printed" => "monitor" \in usable
            BY DEF OwnEventComes, MonitorTypes
        <3>2. exchange = "printed" => OwnPrinted
            BY <1>1, <2>3, <3>1, AllPrintedWithOwn DEF Monitor!PollExpires
        <3>3. pc' \notin BeforePolls
            BY <1>2 DEF BeforePolls
        <3>4. exchange' = "printed" => OwnPrinted'
            BY <1>1, <2>1, <3>2
        <3>5. Monitor!ExchangeIsReported'
            BY <3>4 DEF OwnPrinted, Monitor!ExchangeIsReported
        <3> QED
            BY <3>3, <3>4, <3>5 DEF PollsPrint
    <2> QED
        BY <2>2, <2>3
<1> QED
    BY <1>3, <1>5, <1>6, <1>7, <1>8

LEMMA ReadsKeep ==
    ASSUME MonitorParts, Monitor!ReadEvent \/ Monitor!ReadAddress
    PROVE  MonitorParts'
<1> USE DEF MonitorParts
<1> DEFINE left == Len(events) - Len(printed)
<1>1. /\ UNCHANGED <<usable, free, peer, accepted, exchange, events>>
      /\ frames' = Tail(frames)
    BY DEF Monitor!ReadEvent, Monitor!ReadAddress, Monitor!static
<1>2. /\ events \in Seq(MonitorEvents) /\ frames \in Seq(MonitorFrames)
      /\ Len(events) \in Nat /\ Len(frames) \in Nat /\ Len(printed) \in Nat
      /\ printed \in Seq(MonitorPairs)
    BY MonitorSequences
<1>3. OwnEventComes'
    BY <1>1 DEF OwnEventComes
<1>4. ASSUME frames # <<>>
      PROVE  /\ Head(frames) = frames[1] /\ Head(frames) \in MonitorFrames
             /\ frames' \in Seq(MonitorFrames)
             /\ Len(frames') = Len(frames) - 1
             /\ \A k \in 1..(Len(frames) - 1) : frames'[k] = frames[k + 1]
    BY <1>1, <1>2, <1>4, HeadTailProperties
<1>5. CASE Monitor!ReadEvent
    <2>1. /\ pc = "read-event" /\ pc' = "read-address" /\ loop' = loop
          /\ printed' = printed /\ head' = Head(frames) /\ frames # <<>>
        BY <1>5 DEF Monitor!ReadEvent, FramesWait
    <2>2. Half = 0 /\ Half' = 1
        BY <2>1 DEF Half
    <2>3. Len(frames) = 2 * left /\ left \in Nat \ {0}
        <3>1. Len(frames) = 2 * left
            BY <1>2, <2>2 DEF FramesWait, FramesCounted
        <3>2. Len(frames) > 0
            BY <1>2, <2>1
        <3> QED
            BY <1>2, <3>1, <3>2
    <2>4. MonitorTypes'
        BY <1>1, <1>4, <2>1 DEF MonitorTypes, WhilePolls
    <2>5. head' = EventFrame(events[Len(printed) + 1])
        <3>1. frames[2 * 1 - 1 - 0] = EventFrame(events[Len(printed) + 1])
            BY <2>2, <2>3 DEF FramesWait, FramesInOrder
        <3> QED
            BY <1>4, <2>1, <3>1
    <2>6. ASSUME NEW i \in 1..left
          PROVE  /\ i > 1 => frames'[2 * i - 2] = EventFrame(events[Len(printed) + i])
                 /\ frames'[2 * i - 1] = AddressFrame(events[Len(printed) + i])
        <3>1. /\ i > 1 => 2 * i - 2 \in 1..(Len(frames) - 1)
              /\ 2 * i - 1 \in 1..(Len(frames) - 1)
              /\ 2 * i - 2 + 1 = 2 * i - 1 /\ 2 * i - 1 + 1 = 2 * i
            BY <1>2, <2>3
        <3>2. /\ i > 1 => frames'[2 * i - 2] = frames[2 * i - 1]
              /\ frames'[2 * i - 1] = frames[2 * i]
            BY <1>4, <2>1, <3>1
        <3>3. /\ frames[2 * i - 1] = EventFrame(events[Len(printed) + i])
              /\ frames[2 * i] = AddressFrame(events[Len(printed) + i])
            BY <1>2, <2>2 DEF FramesWait, FramesInOrder
        <3> QED
            BY <3>2, <3>3
    <2>7. FramesWait'
        <3>1. FramesCounted'
            <4>1. Len(frames') = Len(frames) - 1
                BY <1>4, <2>1
            <4>2. Len(frames) + 2 * Len(printed) + 0 = 2 * Len(events)
                BY <2>2 DEF FramesWait, FramesCounted
            <4>3. Len(frames') + 2 * Len(printed) + 1 = 2 * Len(events)
                BY <1>2, <4>1, <4>2
            <4>4. printed' = printed /\ events' = events /\ Half' = 1
                BY <1>1, <2>1, <2>2
            <4> QED
                BY <4>3, <4>4 DEF FramesCounted
        <3> QED
            BY <1>1, <1>2, <2>1, <2>2, <2>5, <2>6, <3>1
               DEF FramesWait, FramesCounted, FramesInOrder
    <2>8. PollsPrint' /\ Monitor!EventsPrintedWhole'
        BY <1>1, <2>1 DEF PollsPrint, OwnPrinted, BeforePolls, WhilePolls,
            Monitor!ExchangeIsReported, Monitor!EventsPrintedWhole
    <2>9. OutcomeComes'
        BY <1>1, <2>1 DEF OutcomeComes, Outcome
    <2> QED
        BY <1>3, <2>4, <2>7, <2>8, <2>9
<1>6. CASE Monitor!ReadAddress
    <2> DEFINE e == events[Len(printed) + 1]
    <2>1. /\ pc = "read-address" /\ printed' = Append(printed, <<head, Head(frames)>>)
          /\ Monitor!NextPoll
        BY <1>6 DEF Monitor!ReadAddress
    <2>2. \/ loop = Polls /\ pc' = "done" /\ loop' = loop
          \/ loop # Polls /\ pc' = "poll" /\ loop' = loop + 1 /\ loop' \in 1..Polls
        BY <2>1, NextPollGoesOn
    <2>3. Half = 1 /\ Half' = 0
        BY <2>1, <2>2 DEF Half
    <2>4. Len(frames) = 2 * left - 1 /\ left \in Nat \ {0} /\ frames # <<>>
        <3>1. Len(frames) = 2 * left - 1
            BY <1>2, <2>3 DEF FramesWait, FramesCounted
        <3>2. left \in Nat \ {0}
            BY <1>2, <3>1
        <3> QED
            BY <3>1, <3>2
    <2>5. head = EventFrame(e) /\ frames[1] = AddressFrame(e)
        BY <1>2, <2>1, <2>3, <2>4 DEF FramesWait, FramesInOrder
    <2>6. <<head, Head(frames)>> = Monitor!Message(e)
        BY <1>4, <2>4, <2>5 DEF Monitor!Message, EventFrame, AddressFrame
    <2>7. <<head, Head(frames)>> \in MonitorPairs
        BY <1>4, <2>1, <2>4 DEF MonitorTypes, MonitorPairs
    <2>8. /\ printed' \in Seq(MonitorPairs)
          /\ Len(printed') = Len(printed) + 1
          /\ \A i \in 1..Len(printed) : printed'[i] = printed[i]
          /\ printed'[Len(printed) + 1] = Monitor!Message(e)
        <3> DEFINE message == <<head, Head(frames)>>
        <3>1. printed' = Append(printed, message) /\ message \in MonitorPairs
            BY <2>1, <2>7
        <3>2. message = Monitor!Message(e)
            BY <2>6
        <3> HIDE DEF message
        <3>3. /\ printed' \in Seq(MonitorPairs)
              /\ Len(printed') = Len(printed) + 1
              /\ \A i \in 1..Len(printed) : printed'[i] = printed[i]
              /\ printed'[Len(printed) + 1] = message
            BY <1>2, <3>1, AppendProperties
        <3> QED
            BY <3>2, <3>3
    <2> HIDE DEF e
    <2>9. MonitorTypes'
        <3>1. frames' \in Seq(MonitorFrames)
            BY <1>4, <2>4
        <3>2. printed' \in Seq(MonitorPairs)
            BY <2>8
        <3>3. pc' \in {"poll", "done"} /\ loop' \in 1..Polls
            BY <2>2 DEF MonitorTypes
        <3> QED
            BY <1>1, <3>1, <3>2, <3>3 DEF MonitorTypes, WhilePolls
    <2>10. ASSUME NEW i \in 1..(left - 1)
           PROVE  /\ frames'[2 * i - 1] = EventFrame(events[Len(printed) + 1 + i])
                  /\ frames'[2 * i] = AddressFrame(events[Len(printed) + 1 + i])
        <3>1. /\ 2 * i - 1 \in 1..(Len(frames) - 1) /\ 2 * i \in 1..(Len(frames) - 1)
              /\ i + 1 \in 1..left /\ i + 1 > 1
              /\ 2 * i - 1 + 1 = 2 * (i + 1) - 1 - 1 /\ 2 * i + 1 = 2 * (i + 1) - 1
              /\ Len(printed) + (i + 1) = Len(printed) + 1 + i
            BY <1>2, <2>4
        <3>2. /\ frames'[2 * i - 1] = frames[2 * (i + 1) - 1 - 1]
              /\ frames'[2 * i] = frames[2 * (i + 1) - 1]
            BY <1>4, <2>4, <3>1
        <3>3. /\ frames[2 * (i + 1) - 1 - 1] = EventFrame(events[Len(printed) + (i + 1)])
              /\ frames[2 * (i + 1) - 1] = AddressFrame(events[Len(printed) + (i + 1)])
            BY <2>3, <3>1 DEF FramesWait, FramesInOrder
        <3> QED
            BY <3>1, <3>2, <3>3
    <2>11. FramesWait'
        <3>1. FramesCounted'
            <4>1. Len(frames') = Len(frames) - 1
                BY <1>4, <2>4
            <4>2. Len(printed') = Len(printed) + 1
                BY <2>8
            <4>3. Len(events') = Len(events)
                BY <1>1
            <4> QED
                BY <1>2, <2>3, <2>4, <4>1, <4>2, <4>3 DEF FramesCounted
        <3>2. Len(events') - Len(printed') = left - 1
            BY <1>1, <1>2, <2>8
        <3>3. pc' # "read-event" /\ pc' # "read-address"
            BY <2>2
        <3>4. ASSUME NEW i \in 1..(Len(events') - Len(printed'))
              PROVE  /\ frames'[2 * i - 1 - Half'] = EventFrame(events'[Len(printed') + i])
                     /\ frames'[2 * i - Half'] = AddressFrame(events'[Len(printed') + i])
            <4>1. i \in 1..(left - 1)
                BY <3>2
            <4>2. 2 * i - 1 - Half' = 2 * i - 1 /\ 2 * i - Half' = 2 * i
                BY <2>3, <4>1
            <4> QED
                BY <1>1, <2>8, <2>10, <4>1, <4>2
        <3> QED
            BY <3>1, <3>3, <3>4 DEF FramesWait, FramesInOrder
    <2>12. Monitor!EventsPrintedWhole'
        <3> SUFFICES ASSUME NEW i \in 1..(Len(printed) + 1)
                     PROVE  printed'[i] = Monitor!Message(events[i])
            BY <1>1, <2>8 DEF Monitor!EventsPrintedWhole
        <3>1. CASE i \in 1..Len(printed)
            BY <2>8, <3>1 DEF Monitor!EventsPrintedWhole
        <3>2. CASE i = Len(printed) + 1
            BY <2>8, <3>2 DEF e
        <3> QED
            BY <1>2, <3>1, <3>2
    <2>13. PollsPrint'
        <3>1. OwnPrinted => OwnPrinted'
            BY <1>2, <2>8 DEF OwnPrinted
        <3>2. exchange' = "printed" =>
                \/ OwnPrinted' \/ Len(printed') = loop
            BY <1>1, <1>2, <2>1, <2>8, <3>1
               DEF PollsPrint, WhilePolls, MonitorTypes
        <3>3. pc' \notin BeforePolls
            BY <2>2 DEF BeforePolls
        <3>4. pc' \in WhilePolls => loop = loop' - 1
            BY <2>2 DEF WhilePolls, MonitorTypes
        <3>5. pc' = "done" => loop = Polls
            BY <2>2
        <3>6. Monitor!ExchangeIsReported'
            BY <3>2, <3>5 DEF OwnPrinted, Monitor!ExchangeIsReported
        <3> QED
            BY <3>2, <3>3, <3>4, <3>6 DEF PollsPrint
    <2>14. OutcomeComes'
        <3>1. printed' # <<>>
            BY <1>2, <2>8
        <3> QED
            BY <1>1, <2>1, <2>2, <3>1 DEF OutcomeComes, Outcome
    <2> QED
        BY <1>3, <2>9, <2>11, <2>12, <2>13, <2>14
<1> QED
    BY <1>5, <1>6

LEMMA StepMonitorInv == MonitorInv /\ [Next]_vars => MonitorInv'
<1> SUFFICES ASSUME MonitorInv, [Next]_vars, model' = "monitor"
             PROVE  MonitorParts'
    BY DEF MonitorInv
<1>1. model = "monitor"
    BY DEF Next, vars, LoopbackScript, LoopbackIo, LoopbackGuest,
           MultipartStep, WorkersStep, MonitorStep
<1>2. MonitorParts
    BY <1>1 DEF MonitorInv
<1> QED
    BY <1>1, <1>2, MonitorFrame, QuietStepsKeep, EventsKeep, PollsKeep, ReadsKeep
       DEF Monitor!Next, Monitor!ScriptStep

-----------------------------------------------------------------------------
(* MultipartScript.                                                        *)

Messages == {<<"frame2">>, <<"frame1", "frame2">>}
Frames == {"frame1", "frame2"}

\* Where the script is, by the name of the side: the side's message is
\* complete; the side has received the first frame; it has received the whole.
Complete(side) ==
    \/ turn[1] = "client" /\ turn[2] \in {"recv1", "more", "recv2", "done"}
    \/ turn[1] = "server" /\ side = "client"
Reading(side) == turn[1] = side /\ turn[2] \in {"more", "recv2"}
HasRead(side) ==
    IF side = "server"
    THEN \/ turn[1] = "server" /\ turn[2] \in {"send1", "send2", "stopped"}
         \/ turn[1] = "client" /\ turn[2] \in {"recv1", "more", "recv2", "done"}
    ELSE turn[1] = "client" /\ turn[2] = "done"

MultipartTypes ==
    /\ usable \subseteq Multipart!Sides
    /\ turn \in {"client"} \X {"send1", "send2", "stopped", "recv1", "more",
                               "recv2", "done"}
             \cup {"server"} \X {"recv1", "more", "recv2", "send1", "send2",
                                 "stopped"}
    /\ sent \in [Multipart!Sides -> Messages \cup {<<>>, <<"frame1">>}]
    /\ under \in [Multipart!Sides -> {"not-sent", "under-way", "arrived"}]
    /\ unread \in [Multipart!Sides -> Messages \cup {<<>>}]
    /\ more \in BOOLEAN
    /\ got \in [Multipart!Sides -> (Frames \cup {"empty"}) \X (Frames \cup {"empty"})]

\* Sending: the last frame makes the message complete, and needs a socket.
SendsWhole ==
    \A side \in Multipart!Sides :
        IF Complete(side)
        THEN /\ under[side] # "not-sent" /\ sent[side] \in Messages
             /\ side \in usable
        ELSE /\ under[side] = "not-sent"
             /\ sent[side] \in {<<>>, <<"frame1">>}
             /\ turn[1] # side \/ turn[2] \notin {"send2", "stopped"} =>
                   sent[side] = <<>>

\* Receiving: what is unread is what has arrived and has not been received.
ReceivesWhole ==
    \A side \in Multipart!Sides :
        LET message == sent[Multipart!Peer(side)]
            arrived == under[Multipart!Peer(side)] = "arrived"
        IN  /\ ~arrived => unread[side] = <<>>
            /\ arrived => side \in usable
            /\ arrived /\ turn = <<side, "recv1">> => unread[side] = message
            /\ side \in usable /\ Reading(side) =>
                  /\ arrived
                  /\ got[side] = <<Head(message), "empty">>
                  /\ unread[side] = Tail(message)
                  /\ turn[2] = "recv2" => more \/ unread[side] = <<>>
            /\ side \in usable /\ HasRead(side) =>
                  /\ arrived
                  /\ unread[side] = <<>>
                  /\ got[side] = Multipart!Shown(message)

MultipartParts == MultipartTypes /\ SendsWhole /\ ReceivesWhole
MultipartInv == model = "multipart" => MultipartParts

LEMMA MessageShapes ==
    ASSUME NEW m \in Messages
    PROVE  /\ m # <<>> /\ m \in Seq(Frames) /\ Head(m) \in Frames
           /\ Tail(m) = <<>> \/ Tail(m) = <<"frame2">>
           /\ Tail(m) \in Messages \cup {<<>>} /\ Tail(Tail(m)) = <<>>
           /\ Tail(m) # <<>> => Head(Tail(m)) = "frame2"
           /\ Tail(m) = <<>> => Multipart!Shown(m) = <<Head(m), "empty">>
           /\ Tail(m) # <<>> => Multipart!Shown(m) = <<Head(m), "frame2">>
<1>1. CASE m = <<"frame2">>
    <2>1. Tail(m) = <<>> /\ Head(m) = "frame2" /\ Len(m) = 1 /\ m[1] = "frame2"
        BY <1>1
    <2>2. Multipart!Shown(m) = <<"frame2", "empty">>
        BY <2>1 DEF Multipart!Shown
    <2>3. m # <<>> /\ m \in Seq(Frames)
        BY <1>1 DEF Frames
    <2>4. Tail(Tail(m)) = <<>> /\ Tail(m) \in Messages \cup {<<>>}
        BY <2>1
    <2> QED
        BY <2>1, <2>2, <2>3, <2>4 DEF Frames
<1>2. CASE m = <<"frame1", "frame2">>
    <2>1. /\ Head(m) = "frame1" /\ Len(m) = 2
          /\ m[1] = "frame1" /\ m[2] = "frame2"
        BY <1>2
    <2>2. Tail(m) = <<"frame2">>
        BY <1>2
    <2>3. Multipart!Shown(m) = <<"frame1", "frame2">>
        BY <2>1 DEF Multipart!Shown
    <2>4. m # <<>> /\ m \in Seq(Frames)
        BY <1>2 DEF Frames
    <2>5. /\ Tail(Tail(m)) = <<>> /\ Head(Tail(m)) = "frame2" /\ Tail(m) # <<>>
          /\ Tail(m) \in Messages \cup {<<>>}
        BY <2>2 DEF Messages
    <2> QED
        BY <2>1, <2>2, <2>3, <2>4, <2>5 DEF Frames
<1> QED
    BY <1>1, <1>2 DEF Messages

LEMMA AppendToOne == ASSUME NEW a, NEW b PROVE Append(<<a>>, b) = <<a, b>>
<1> DEFINE one == Append(<<a>>, b)
           two == <<a, b>>
<1>1. <<a>> \in Seq({a, b}) /\ Len(<<a>>) = 1 /\ <<a>>[1] = a
    OBVIOUS
<1>2. one \in Seq({a, b}) /\ Len(one) = 2 /\ one[1] = a /\ one[2] = b
    BY <1>1, AppendProperties
<1>3. two \in Seq({a, b}) /\ Len(two) = 2 /\ two[1] = a /\ two[2] = b
    OBVIOUS
<1> HIDE DEF one, two
<1>4. \A i \in 1..Len(one) : one[i] = two[i]
    BY <1>2, <1>3
<1>5. one = two
    BY <1>2, <1>3, <1>4, SeqEqual
<1> QED
    BY <1>5 DEF one, two

LEMMA SecondOfPair ==
    ASSUME NEW a, NEW b, NEW c PROVE [<<a, b>> EXCEPT ![2] = c] = <<a, c>>
OBVIOUS

LEMMA LastFrameCompletes ==
    ASSUME NEW begun \in {<<>>, <<"frame1">>}
    PROVE  Append(begun, "frame2") \in Messages
<1>1. CASE begun = <<>>
    BY <1>1 DEF Messages
<1>2. CASE begun = <<"frame1">>
    <2>1. Append(begun, "frame2") = <<"frame1", "frame2">>
        BY <1>2, AppendToOne
    <2> QED
        BY <2>1 DEF Messages
<1> QED
    BY <1>1, <1>2

LEMMA InitMultipartInv == Init => MultipartInv
<1> SUFFICES ASSUME Init, model = "multipart" PROVE MultipartParts
    BY DEF MultipartInv
<1>1. Multipart!Init
    BY DEF Init
<1> USE DEF Multipart!Init, Multipart!Sides
<1>2. more \in BOOLEAN
    BY <1>1, Zenon
<1>3. MultipartTypes
    BY <1>1, <1>2 DEF MultipartTypes
<1>4. SendsWhole
    BY <1>1 DEF SendsWhole, Complete
<1>5. ReceivesWhole
    <2>1. turn[1] = "client" /\ turn[2] = "send1"
        BY <1>1
    <2>2. \A side \in Multipart!Sides :
            ~Reading(side) /\ ~HasRead(side) /\ turn # <<side, "recv1">>
        BY <1>1, <2>1 DEF Reading, HasRead
    <2>3. \A side \in Multipart!Sides :
            under[Multipart!Peer(side)] = "not-sent" /\ unread[side] = <<>>
        BY <1>1 DEF Multipart!Peer
    <2> QED
        BY <2>2, <2>3 DEF ReceivesWhole
<1> QED
    BY <1>3, <1>4, <1>5 DEF MultipartParts

LEMMA MultipartFrame ==
    ASSUME model = "multipart", [Next]_vars
    PROVE  Multipart!Next \/ UNCHANGED Multipart!vars
BY DEF Next, vars, multipartOnly, MultipartStep, Multipart!vars

LEMMA SendsKeep ==
    ASSUME MultipartParts, NEW side \in Multipart!Sides,
           \/ Multipart!SendFirst(side) \/ Multipart!SendLast(side)
           \/ Multipart!SendLastFails(side) \/ Multipart!Transmit(side)
    PROVE  MultipartParts'
<1> USE DEF MultipartParts
<1>1. side \in {"client", "server"}
    BY DEF Multipart!Sides
<1> USE DEF Multipart!Sides
<1>2. CASE Multipart!SendFirst(side)
    <2>1. MultipartTypes'
        BY <1>1, <1>2 DEF MultipartTypes, Multipart!SendFirst
    <2>2. SendsWhole'
        BY <1>1, <1>2 DEF MultipartTypes, Multipart!SendFirst, SendsWhole, Complete
    <2>3. ReceivesWhole'
        BY <1>1, <1>2
           DEF MultipartTypes, Multipart!SendFirst, SendsWhole, Complete,
               ReceivesWhole, Reading, HasRead, Multipart!Peer
    <2> QED
        BY <2>1, <2>2, <2>3
<1>3. CASE Multipart!SendLast(side)
    <2>0. /\ turn = <<side, "send2">> /\ turn' = <<Multipart!Peer(side), "recv1">>
          /\ under[side] = "not-sent" /\ under' = [under EXCEPT ![side] = "under-way"]
          /\ sent' = [sent EXCEPT ![side] = Append(sent[side], "frame2")]
          /\ side \in usable /\ usable' = usable
        BY <1>3 DEF Multipart!SendLast, Multipart!MaySend
    <2>4. sent[side] \in {<<>>, <<"frame1">>}
        BY <1>1, <2>0 DEF SendsWhole, Complete
    <2>5. /\ sent' \in [Multipart!Sides -> Messages \cup {<<>>, <<"frame1">>}]
          /\ sent'[side] \in Messages
          /\ \A other \in Multipart!Sides : other # side => sent'[other] = sent[other]
        BY <2>0, <2>4, LastFrameCompletes DEF MultipartTypes
    <2>6. /\ side = "client" => turn' = <<"server", "recv1">>
          /\ side = "server" => turn' = <<"client", "recv1">>
        BY <2>0 DEF Multipart!Peer
    <2>1. MultipartTypes'
        BY <1>1, <1>3, <2>0, <2>5, <2>6 DEF MultipartTypes, Multipart!SendLast
    <2>2. SendsWhole'
        <3>1. CASE side = "client"
            BY <2>0, <2>5, <2>6, <3>1 DEF MultipartTypes, SendsWhole, Complete
        <3>2. CASE side = "server"
            BY <2>0, <2>5, <2>6, <3>2 DEF MultipartTypes, SendsWhole, Complete
        <3> QED
            BY <1>1, <3>1, <3>2
    <2>3. ReceivesWhole'
        BY <1>1, <1>3
           DEF MultipartTypes, Multipart!SendLast, SendsWhole, Complete,
               ReceivesWhole, Reading, HasRead, Multipart!Peer
    <2> QED
        BY <2>1, <2>2, <2>3
<1>4. CASE Multipart!SendLastFails(side)
    <2>1. MultipartTypes'
        BY <1>1, <1>4 DEF MultipartTypes, Multipart!SendLastFails
    <2>2. SendsWhole'
        BY <1>1, <1>4 DEF MultipartTypes, Multipart!SendLastFails, SendsWhole, Complete
    <2>3. ReceivesWhole'
        BY <1>1, <1>4
           DEF MultipartTypes, Multipart!SendLastFails, ReceivesWhole, Reading,
               HasRead, Multipart!Peer
    <2> QED
        BY <2>1, <2>2, <2>3
<1>5. CASE Multipart!Transmit(side)
    <2>1. MultipartTypes'
        BY <1>1, <1>5 DEF MultipartTypes, Multipart!Transmit, SendsWhole, Multipart!Peer
    <2>2. SendsWhole'
        BY <1>1, <1>5 DEF MultipartTypes, Multipart!Transmit, SendsWhole, Complete
    <2>3. ReceivesWhole'
        BY <1>1, <1>5
           DEF MultipartTypes, Multipart!Transmit, SendsWhole, Complete,
               ReceivesWhole, Reading, HasRead, Multipart!Peer
    <2> QED
        BY <2>1, <2>2, <2>3
<1> QED
    BY <1>2, <1>3, <1>4, <1>5

LEMMA ReceivesFirstKeep ==
    ASSUME MultipartParts, NEW side \in Multipart!Sides,
           \/ Multipart!RecvFirst(side) \/ Multipart!RecvFirstFails(side)
           \/ Multipart!AskMore(side)
    PROVE  MultipartParts'
<1> USE DEF MultipartParts
<1>1. side \in {"client", "server"}
    BY DEF Multipart!Sides
<1> USE DEF Multipart!Sides
<1>2. CASE Multipart!RecvFirst(side)
    <2>0. /\ unread[side] \in Messages
          /\ unread' = [unread EXCEPT ![side] = Tail(unread[side])]
          /\ got' = [got EXCEPT ![side] = <<Head(unread[side]), "empty">>]
          /\ turn' = <<side, "more">>
        BY <1>1, <1>2 DEF MultipartTypes, Multipart!RecvFirst
    <2>4. Tail(unread[side]) \in Messages \cup {<<>>} /\ Head(unread[side]) \in Frames
        BY <2>0, MessageShapes
    <2>1. MultipartTypes'
        BY <1>1, <1>2, <2>0, <2>4 DEF MultipartTypes, Multipart!RecvFirst
    <2>2. SendsWhole'
        BY <1>1, <1>2 DEF MultipartTypes, Multipart!RecvFirst, SendsWhole, Complete
    <2>3. ReceivesWhole'
        BY <1>1, <1>2, MessageShapes
           DEF MultipartTypes, Multipart!RecvFirst, SendsWhole, Complete,
               ReceivesWhole, Reading, HasRead, Multipart!Peer
    <2> QED
        BY <2>1, <2>2, <2>3
<1>3. CASE Multipart!RecvFirstFails(side)
    <2>1. MultipartTypes'
        BY <1>1, <1>3 DEF MultipartTypes, Multipart!RecvFirstFails
    <2>2. SendsWhole'
        BY <1>1, <1>3 DEF MultipartTypes, Multipart!RecvFirstFails, SendsWhole, Complete
    <2>3. ReceivesWhole'
        BY <1>1, <1>3
           DEF MultipartTypes, Multipart!RecvFirstFails, ReceivesWhole, Reading,
               HasRead, Multipart!Peer
    <2> QED
        BY <2>1, <2>2, <2>3
<1>4. CASE Multipart!AskMore(side)
    <2>1. MultipartTypes'
        BY <1>1, <1>4 DEF MultipartTypes, Multipart!AskMore
    <2>2. SendsWhole'
        BY <1>1, <1>4 DEF MultipartTypes, Multipart!AskMore, SendsWhole, Complete
    <2>3. ReceivesWhole'
        BY <1>1, <1>4
           DEF MultipartTypes, Multipart!AskMore, ReceivesWhole, Reading,
               HasRead, Multipart!Peer
    <2> QED
        BY <2>1, <2>2, <2>3
<1> QED
    BY <1>2, <1>3, <1>4

LEMMA ReceivesSecondKeep ==
    ASSUME MultipartParts, NEW side \in Multipart!Sides,
           Multipart!RecvSecond(side) \/ Multipart!RecvNoSecond(side)
    PROVE  MultipartParts'
<1> USE DEF MultipartParts
<1>1. side \in {"client", "server"}
    BY DEF Multipart!Sides
<1> USE DEF Multipart!Sides
<1>2. CASE Multipart!RecvSecond(side)
    <2> DEFINE message == sent[Multipart!Peer(side)]
               second == Head(unread[side])
    <2>0. /\ unread[side] \in Messages
          /\ unread' = [unread EXCEPT ![side] = Tail(unread[side])]
          /\ got' = [got EXCEPT ![side] = [@ EXCEPT ![2] = second]]
          /\ UNCHANGED <<usable, sent, under, more>>
          /\ Reading(side) /\ turn[1] = side /\ turn[2] = "recv2"
        BY <1>1, <1>2 DEF MultipartTypes, Multipart!RecvSecond, Reading
    <2>4. /\ side = "client" => turn' = <<"client", "done">>
          /\ side = "server" => turn' = <<"server", "send1">>
        BY <1>2 DEF Multipart!RecvSecond, Multipart!After
    <2>5. under[Multipart!Peer(side)] = "arrived" /\ side \in usable
        BY <1>1, <2>0, MessageShapes DEF ReceivesWhole
    <2>6. unread[side] = Tail(message) /\ got[side] = <<Head(message), "empty">>
        BY <1>1, <2>0, <2>5 DEF ReceivesWhole
    <2>7. message \in Messages
        BY <1>1, <2>5 DEF SendsWhole, Multipart!Peer
    <2>8. Tail(message) # <<>>
        BY <2>0, <2>6, MessageShapes
    <2>9. second = "frame2" /\ Tail(unread[side]) = <<>>
        BY <2>6, <2>7, <2>8, MessageShapes
    <2>10. [got[side] EXCEPT ![2] = second] = Multipart!Shown(message)
        <3>1. [<<Head(message), "empty">> EXCEPT ![2] = second] = <<Head(message), second>>
            BY SecondOfPair
        <3> QED
            BY <2>6, <2>7, <2>8, <2>9, <3>1, MessageShapes
    <2>11. Multipart!Shown(message) \in (Frames \cup {"empty"}) \X (Frames \cup {"empty"})
        <3>1. Head(message) \in Frames /\ Multipart!Shown(message) = <<Head(message), "frame2">>
            BY <2>7, <2>8, MessageShapes
        <3> HIDE DEF message
        <3> QED
            BY <3>1 DEF Frames
    <2> HIDE DEF message, second
    <2>12. /\ got' = [got EXCEPT ![side] = Multipart!Shown(message)]
           /\ unread' = [unread EXCEPT ![side] = <<>>]
        BY <2>0, <2>9, <2>10
    <2>1. MultipartTypes'
        BY <1>1, <2>0, <2>4, <2>11, <2>12 DEF MultipartTypes
    <2>2. SendsWhole'
        BY <1>1, <2>0, <2>4 DEF MultipartTypes, SendsWhole, Complete
    <2>3. ReceivesWhole'
        BY <1>1, <2>0, <2>4, <2>5, <2>12
           DEF message, MultipartTypes, ReceivesWhole, Reading, HasRead, Multipart!Peer
    <2> QED
        BY <2>1, <2>2, <2>3
<1>3. CASE Multipart!RecvNoSecond(side)
    <2>1. MultipartTypes'
        BY <1>1, <1>3 DEF MultipartTypes, Multipart!RecvNoSecond, Multipart!After
    <2> DEFINE message == sent[Multipart!Peer(side)]
    <2>0. /\ UNCHANGED <<usable, sent, under, unread, more, got>>
          /\ turn = <<side, "recv2">>
          /\ ~more \/ ~Multipart!MayReceive(side)
        BY <1>3 DEF Multipart!RecvNoSecond
    <2>4. /\ side = "client" => turn' = <<"client", "done">>
          /\ side = "server" => turn' = <<"server", "send1">>
        BY <1>3 DEF Multipart!RecvNoSecond, Multipart!After
    <2>5. ASSUME side \in usable
          PROVE  /\ under[Multipart!Peer(side)] = "arrived"
                 /\ unread[side] = <<>>
                 /\ got[side] = Multipart!Shown(message)
        <3>1. /\ under[Multipart!Peer(side)] = "arrived"
              /\ unread[side] = Tail(message) /\ got[side] = <<Head(message), "empty">>
              /\ more \/ unread[side] = <<>>
            BY <1>1, <2>0, <2>5 DEF ReceivesWhole, Reading
        <3>2. unread[side] = <<>>
            BY <2>0, <2>5, <3>1 DEF Multipart!MayReceive
        <3>3. message \in Messages
            BY <1>1, <3>1 DEF SendsWhole, Multipart!Peer
        <3> QED
            BY <3>1, <3>2, <3>3, MessageShapes
    <2>2. SendsWhole'
        BY <1>1, <2>0, <2>4 DEF MultipartTypes, SendsWhole, Complete
    <2>3. ReceivesWhole'
        BY <1>1, <2>0, <2>4, <2>5
           DEF MultipartTypes, ReceivesWhole, Reading, HasRead, Multipart!Peer
    <2> QED
        BY <2>1, <2>2, <2>3
<1> QED
    BY <1>2, <1>3

LEMMA StepMultipartInv == MultipartInv /\ [Next]_vars => MultipartInv'
<1> SUFFICES ASSUME MultipartInv, [Next]_vars, model' = "multipart"
             PROVE  MultipartParts'
    BY DEF MultipartInv
<1>1. model = "multipart"
    BY DEF Next, vars, LoopbackScript, LoopbackIo, LoopbackGuest,
           MultipartStep, WorkersStep, MonitorStep
<1>2. MultipartParts
    BY <1>1 DEF MultipartInv
<1>3. CASE UNCHANGED Multipart!vars
    BY <1>2, <1>3
       DEF Multipart!vars, MultipartParts, MultipartTypes, SendsWhole, Complete,
           ReceivesWhole, Reading, HasRead
<1>4. CASE Multipart!Next
    BY <1>2, <1>4, SendsKeep, ReceivesFirstKeep, ReceivesSecondKeep
       DEF Multipart!Next, Multipart!ScriptStep, Multipart!IoStep
<1> QED
    BY <1>1, <1>3, <1>4, MultipartFrame

LEMMA MultipartTypesHold == MultipartTypes => Multipart!TypeOK
<1> SUFFICES ASSUME MultipartTypes PROVE Multipart!TypeOK
    OBVIOUS
<1> USE DEF Multipart!Sides
<1>1. ASSUME NEW m \in Messages \cup {<<>>, <<"frame1">>}
      PROVE  Len(m) <= 2 /\ Multipart!Range(m) \subseteq {"frame1", "frame2"}
    <2>1. m \in Seq(Frames)
        <3>1. /\ <<>> \in Seq(Frames) /\ <<"frame1">> \in Seq(Frames)
              /\ <<"frame2">> \in Seq(Frames) /\ <<"frame1", "frame2">> \in Seq(Frames)
            BY DEF Frames
        <3> QED
            BY <1>1, <3>1 DEF Messages
    <2>2. Multipart!Range(m) \subseteq Frames
        BY <2>1 DEF Multipart!Range
    <2>3. Len(m) <= 2
        BY <1>1 DEF Messages
    <2> QED
        BY <2>2, <2>3 DEF Frames
<1>2. turn \in Multipart!Sides \X {"send1", "send2", "recv1", "more", "recv2",
                                  "stopped", "done"}
    BY DEF MultipartTypes
<1>3. ASSUME NEW side \in Multipart!Sides
      PROVE  /\ sent[side] \in Messages \cup {<<>>, <<"frame1">>}
             /\ unread[side] \in Messages \cup {<<>>, <<"frame1">>}
             /\ under[side] \in {"not-sent", "under-way", "arrived"}
             /\ got[side] \in {"empty", "frame1", "frame2"} \X {"empty", "frame1", "frame2"}
    <2>1. Frames \cup {"empty"} = {"empty", "frame1", "frame2"}
        BY DEF Frames
    <2> QED
        BY <2>1 DEF MultipartTypes
<1>4. ASSUME NEW side \in Multipart!Sides
      PROVE  /\ Len(sent[side]) <= 2 /\ Len(unread[side]) <= 2
             /\ Multipart!Range(sent[side]) \subseteq {"frame1", "frame2"}
    BY <1>1, <1>3
<1>5. \A side \in Multipart!Sides :
        /\ Len(sent[side]) <= 2 /\ Len(unread[side]) <= 2
        /\ Multipart!Range(sent[side]) \subseteq {"frame1", "frame2"}
        /\ under[side] \in {"not-sent", "under-way", "arrived"}
        /\ got[side] \in {"empty", "frame1", "frame2"} \X {"empty", "frame1", "frame2"}
    BY <1>3, <1>4
<1> QED
    BY <1>2, <1>5, Zenon DEF Multipart!TypeOK

LEMMA RepliesFollowRequest == MultipartParts => Multipart!RepliesInTurn
BY DEF MultipartParts, SendsWhole, ReceivesWhole, HasRead, Complete,
       Multipart!RepliesInTurn, Multipart!MaySend, Multipart!Sides, Multipart!Peer

LEMMA WholeMessagesPrinted == MultipartParts => Multipart!PrintsWhatWasSent
<1> SUFFICES ASSUME MultipartParts PROVE Multipart!PrintsWhatWasSent
    OBVIOUS
<1>1. ASSUME NEW side \in Multipart!Sides, side \in usable, HasRead(side)
      PROVE  got[side] = Multipart!Shown(sent[Multipart!Peer(side)])
    BY <1>1 DEF MultipartParts, ReceivesWhole
<1>2. turn[1] = "server" /\ turn[2] \in {"send1", "send2"} => HasRead("server")
    BY DEF HasRead
<1>3. turn = <<"client", "done">> => HasRead("client") /\ "client" \in usable
    BY DEF HasRead, Complete, MultipartParts, SendsWhole, Multipart!Sides
<1> QED
    BY <1>1, <1>2, <1>3
       DEF Multipart!PrintsWhatWasSent, Multipart!Sides, Multipart!Peer

LEMMA BindOutcomePrinted == MonitorParts => Monitor!BindIsReported
<1> SUFFICES ASSUME MonitorParts, pc = "done", {"rep", "monitor"} \subseteq usable
             PROVE  printed # <<>> /\ Head(printed) = Monitor!Message(Outcome)
    BY DEF Monitor!BindIsReported, Outcome
<1>1. printed # <<>> /\ events[1] = Outcome
    BY DEF MonitorParts, OutcomeComes
<1>2. printed \in Seq(MonitorPairs) /\ Len(printed) \in Nat \ {0}
    BY <1>1, MonitorSequences DEF MonitorParts
<1>3. printed[1] = Monitor!Message(events[1])
    BY <1>2 DEF MonitorParts, Monitor!EventsPrintedWhole
<1> QED
    BY <1>1, <1>2, <1>3

LEMMA MonitorTypesHold == MonitorTypes /\ FramesCounted => Monitor!TypeOK
<1> SUFFICES ASSUME MonitorTypes, FramesCounted PROVE Monitor!TypeOK
    OBVIOUS
<1>1. Len(frames) <= 2 * Len(events)
    BY MonitorSequences DEF FramesCounted, Half
<1>2. pc \in Monitor!Range(Monitor!Setup) \cup {"req-send", "rep-recv", "req-recv", "poll",
                                        "read-event", "read-address", "done"}
    <2>1. Monitor!Range(Monitor!Setup) = Range(Monitor!Setup)
        BY DEF Range, Monitor!Range
    <2> QED
        BY <2>1, MonitorSetup DEF MonitorTypes, BeforePolls, WhilePolls
<1>3. /\ usable \subseteq Monitor!Sockets /\ free \in BOOLEAN /\ peer \in BOOLEAN
      /\ loop \in 1..Polls /\ accepted \subseteq Monitor!Ends
      /\ exchange \in {"none", "request", "at-rep", "reply", "back", "printed"}
    BY DEF MonitorTypes
<1> QED
    BY <1>1, <1>2, <1>3, Zenon DEF Monitor!TypeOK

-----------------------------------------------------------------------------
(* The theorems.                                                           *)

IInv == LoopbackInv /\ MultipartInv /\ WorkersInv /\ MonitorInv

\* Each model's inductive invariant holds of every behaviour: the turns of the
\* sockets, where each request is and of which round, what has been received
\* of each message, where the worker is, and which frames of which events wait.
THEOREM Invariance == Spec => []IInv
<1>1. Init => IInv
    BY InitLoopbackInv, InitMultipartInv, InitWorkersInv, InitMonitorInv DEF IInv
<1>2. IInv /\ [Next]_vars => IInv'
    BY StepLoopbackInv, StepMultipartInv, StepWorkersInv, StepMonitorInv DEF IInv
<1> QED
    BY <1>1, <1>2, PTL DEF Spec

\* Every variable has its type, for any number of rounds and polls.
THEOREM TypeCorrect == Spec => []TypeOK
<1>1. LoopbackInv => (model = "loopback" => Loopback!TypeOK)
    BY DEF LoopbackInv, LoopbackParts, LoopbackTypes
<1>2. MultipartInv => (model = "multipart" => Multipart!TypeOK)
    BY MultipartTypesHold DEF MultipartInv, MultipartParts
<1>3. WorkersInv => (model = "workers" => Workers!TypeOK)
    BY DEF WorkersInv, WorkersTypes
<1>4. MonitorInv => (model = "monitor" => Monitor!TypeOK)
    BY MonitorTypesHold DEF MonitorInv, MonitorParts, FramesWait
<1>5. IInv => TypeOK
    BY <1>1, <1>2, <1>3, <1>4 DEF IInv, TypeOK
<1> QED
    BY <1>5, Invariance, PTL

\* Sockets and statements stay together: the loops with timeouts never read
\* REP out of turn, reply without a request or wait on REQ for a reply that is
\* not due; only Thread.tbasic can come to a send on REQ out of turn; and
\* ZmqSdkMultipart.tbasic has read the whole request when it replies.
THEOREM SocketsAlwaysFollowScript == Spec => []SocketsFollowScript
<1>1. LoopbackInv => (model = "loopback" => Loopback!SocketsFollowScript)
    BY DEF LoopbackInv, LoopbackParts, LoopbackTypes, ReplyDue, OwnUnderWay,
           InStep, Loopback!SocketsFollowScript
<1>2. MultipartInv => (model = "multipart" => Multipart!RepliesInTurn)
    BY RepliesFollowRequest DEF MultipartInv
<1>3. IInv => SocketsFollowScript
    BY <1>1, <1>2 DEF IInv, SocketsFollowScript
<1> QED
    BY <1>3, Invariance, PTL

\* What a script prints is what was said: replies at most once, in order, and
\* never to a later round than the loop's; of the loop's own round everywhere
\* but in Thread.tbasic, and there too while the I/O thread is prompt and no
\* guest has entered; the frames that were sent; the events as they happened,
\* each with its own address, the outcome of the bind first, and after a whole
\* exchange the own connection's among them.
THEOREM PrintsAlwaysWhatWasSaid == Spec => []PrintsWhatWasSaid
<1>1. LoopbackInv => (model = "loopback" => Loopback!RepliesInOrder)
    BY DEF LoopbackInv, LoopbackParts, PrintedBefore
<1>2. MultipartInv => (model = "multipart" => Multipart!PrintsWhatWasSent)
    BY WholeMessagesPrinted DEF MultipartInv
<1>3. MonitorInv => (model = "monitor" => /\ Monitor!EventsPrintedWhole
                                           /\ Monitor!ExchangeIsReported
                                           /\ Monitor!BindIsReported)
    BY BindOutcomePrinted DEF MonitorInv, MonitorParts, PollsPrint
<1>4. IInv => PrintsWhatWasSaid
    BY <1>1, <1>2, <1>3 DEF IInv, PrintsWhatWasSaid
<1> QED
    BY <1>4, Invariance, PTL

\* In Plain.tbasic nothing that any guest sends, however many there are and
\* however often they ask, ever reaches the REP socket.
THEOREM OnlyAuthenticatedIsRead == Spec => []OnlyAuthenticatedRead
<1>1. IInv => OnlyAuthenticatedRead
    BY DEF IInv, LoopbackInv, LoopbackParts, GuestOutside, OnlyAuthenticatedRead,
           Loopback!OnlyAuthenticatedRead
<1> QED
    BY <1>1, Invariance, PTL

\* The join separates the worker from the main thread, whatever sockets could
\* be created and however late the worker is: no socket is used by both, what
\* the worker stored is read after it, and the two evaluate script at once only
\* while the join is still to come.
THEOREM JoinAlwaysSeparates == Spec => []JoinSeparates
<1>1. IInv => JoinSeparates
    BY WorkersInvGivesJoin DEF IInv
<1> QED
    BY <1>1, Invariance, PTL

=============================================================================
