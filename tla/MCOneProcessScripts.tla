------------------------ MODULE MCOneProcessScripts ------------------------
(***************************************************************************)
(* TLC instance of the scripts that talk to themselves: a behaviour is one *)
(* of LoopbackReqRep, of MultipartScript, of WorkerThreads or of           *)
(* SocketMonitor, whichever "model" says, with its own fairness. The       *)
(* variables of the others rest.                                           *)
(***************************************************************************)
EXTENDS Naturals, Sequences

CONSTANTS Rounds, ZapPolls, Guests, Polls

ASSUME BoundsAssumption ==
    /\ {Rounds, ZapPolls, Polls} \subseteq Nat \ {0}
    /\ "own" \notin Guests

VARIABLES
    model,
    script, usable, pc, io, bound, loop, printed,   \* of two and more
    conn, req, rep,                                 \* of LoopbackReqRep
    turn, sent, under, unread, more, got,                 \* of MultipartScript
    at, native, worker, control,                    \* of WorkerThreads
    nWorkerArg, nWorkerDone, read,
    free, peer, accepted, exchange, events, frames, head    \* of SocketMonitor

Loopback == INSTANCE LoopbackReqRep
Multipart == INSTANCE MultipartScript
Workers == INSTANCE WorkerThreads
Monitor == INSTANCE SocketMonitor

loopbackOnly == <<conn, req, rep>>
multipartOnly == <<turn, sent, under, unread, more, got>>
workersOnly == <<at, native, worker, control, nWorkerArg, nWorkerDone, read>>
monitorOnly == <<free, peer, accepted, exchange, events, frames, head>>

notLoopback == <<usable, multipartOnly, workersOnly, monitorOnly>>
notMultipart == <<script, pc, io, loop, printed, loopbackOnly, workersOnly, monitorOnly>>
notWorkers == <<pc, io, bound, loop, printed, loopbackOnly, multipartOnly, monitorOnly>>
notMonitor == <<script, bound, loopbackOnly, multipartOnly, workersOnly>>

vars == <<model, script, usable, pc, io, bound, loop, printed,
          loopbackOnly, multipartOnly, workersOnly, monitorOnly>>

\* What their variables rest at is nothing a property of the others sees.
NoLoopback ==
    /\ conn = [p \in {"own"} \cup Guests |-> "none"]
    /\ req = 0 /\ rep = 0
NoMultipart ==
    /\ turn = <<"client", "send1">>
    /\ sent = 0 /\ under = 0 /\ unread = 0 /\ more = FALSE /\ got = 0
NoWorkers ==
    /\ at = 1 /\ native = FALSE /\ worker = 0 /\ control = 0
    /\ nWorkerArg = 0 /\ nWorkerDone = 0 /\ read = 0
NoMonitor ==
    /\ free = FALSE /\ peer = FALSE /\ accepted = 0 /\ exchange = 0
    /\ events = 0 /\ frames = 0 /\ head = 0

NoScript == script = "none"
NoPc == pc = "none"
NoLoop == io = "slow" /\ loop = 0 /\ printed = <<>>

Init ==
    \/ /\ model = "loopback" /\ Loopback!Init
       /\ usable = {} /\ NoMultipart /\ NoWorkers /\ NoMonitor
    \/ /\ model = "multipart" /\ Multipart!Init
       /\ NoScript /\ NoPc /\ NoLoop /\ NoLoopback /\ NoWorkers /\ NoMonitor
    \/ /\ model = "workers" /\ Workers!Init
       /\ NoPc /\ NoLoop /\ bound = FALSE
       /\ NoLoopback /\ NoMultipart /\ NoMonitor
    \/ /\ model = "monitor" /\ Monitor!Init
       /\ NoScript /\ bound = FALSE
       /\ NoLoopback /\ NoMultipart /\ NoWorkers

\* One step of the model, in an action per actor.
LoopbackScript == Loopback!ScriptStep /\ UNCHANGED <<model, notLoopback>>
LoopbackIo == Loopback!IoStep /\ UNCHANGED <<model, notLoopback>>
LoopbackGuest == Loopback!GuestStep /\ UNCHANGED <<model, notLoopback>>
MultipartStep == Multipart!Next /\ UNCHANGED <<model, notMultipart>>
WorkersStep == Workers!Next /\ UNCHANGED <<model, notWorkers>>
MonitorStep == Monitor!Next /\ UNCHANGED <<model, notMonitor>>

Next ==
    \/ model = "loopback" /\ LoopbackScript
    \/ model = "loopback" /\ LoopbackIo
    \/ model = "loopback" /\ LoopbackGuest
    \/ model = "multipart" /\ MultipartStep
    \/ model = "workers" /\ WorkersStep
    \/ model = "monitor" /\ MonitorStep

Fairness ==
    /\ WF_vars(model = "loopback" /\ LoopbackScript)
    /\ WF_vars(model = "loopback" /\ io = "prompt" /\ LoopbackIo)
    /\ WF_vars(model = "multipart" /\ Multipart!ScriptStep /\ UNCHANGED <<model, notMultipart>>)
    /\ WF_vars(model = "multipart" /\ Multipart!IoStep /\ UNCHANGED <<model, notMultipart>>)
    /\ WF_vars(model = "workers" /\ Workers!MainStep /\ UNCHANGED <<model, notWorkers>>)
    /\ WF_vars(model = "workers" /\ Workers!WorkerStep /\ UNCHANGED <<model, notWorkers>>)
    /\ WF_vars(model = "monitor" /\ Monitor!ScriptStep /\ UNCHANGED <<model, notMonitor>>)
    /\ WF_vars(model = "monitor" /\ Monitor!PromptIoStep /\ UNCHANGED <<model, notMonitor>>)

Spec == Init /\ [][Next]_vars /\ Fairness

-----------------------------------------------------------------------------
(* Properties: each states of every model what that module states of it.   *)

\* Every variable of the model has its type.
TypeOK ==
    /\ model = "loopback" => Loopback!TypeOK
    /\ model = "multipart" => Multipart!TypeOK
    /\ model = "workers" => Workers!TypeOK
    /\ model = "monitor" => Monitor!TypeOK

\* Sockets and statements stay together: the turns of REQ and REP in the loops
\* with timeouts, and the whole request read before the reply is sent.
SocketsFollowScript ==
    /\ model = "loopback" => Loopback!SocketsFollowScript
    /\ model = "multipart" => Multipart!RepliesInTurn

\* What a script prints is what was said: the replies in order and, but for
\* late ones in Thread.tbasic, of this loop's request; the frames the other
\* side sent; the events as they happened with their addresses.
PrintsWhatWasSaid ==
    /\ model = "loopback" => Loopback!RepliesInOrder
    /\ model = "multipart" => Multipart!PrintsWhatWasSent
    /\ model = "monitor" => /\ Monitor!EventsPrintedWhole
                            /\ Monitor!ExchangeIsReported
                            /\ Monitor!BindIsReported

\* In Plain.tbasic nothing that guests send reaches the REP socket.
OnlyAuthenticatedRead == model = "loopback" => Loopback!OnlyAuthenticatedRead

\* Joining the worker separates it from the main thread: they never use the
\* same socket, what it stored is read only after it ended, and both are in
\* the interpreter only while the join is still to come.
JoinSeparates ==
    model = "workers" => /\ Workers!NoSocketShared
                         /\ Workers!JoinSeesWorker
                         /\ Workers!JoinEndsOverlap

\* The scripts end, the ones with timeouts whatever the I/O thread and the
\* guests do, the others exactly where the port and the sockets let them.
ScriptsEnd ==
    /\ model = "loopback" => Loopback!Terminates
    /\ model = "multipart" => Multipart!Terminates
    /\ model = "workers" => Workers!EndsIffSteerable
    /\ model = "monitor" => Monitor!EndsIfMonitorConnects

\* With the port and a prompt I/O thread every round is answered.
AllRoundsIfPrompt == model = "loopback" => Loopback!AllRoundsIfPrompt

=============================================================================
