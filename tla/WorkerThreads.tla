---------------------------- MODULE WorkerThreads ----------------------------
(***************************************************************************)
(* The scripts with a second thread. Proxy.tbasic starts a worker that     *)
(* runs a steerable proxy, stops it through a PAIR of inproc sockets,      *)
(* joins it and closes the sockets; Thread.tbasic starts a worker that     *)
(* sets two variables, joins it and reads them. A thread is either in the  *)
(* interpreter, evaluating script, or inside a libzmq call.                *)
(*                                                                         *)
(* External: zmq_threadstart creates the thread (where it cannot, libzmq   *)
(* ends the process, which is not modelled) and returns before or after    *)
(* the worker begins; zmq_threadclose waits for its end. A message sent to *)
(* an inproc address is kept, also before the other end is bound or read.  *)
(* The proxy ends when it reads TERMINATE, at once if it has no front or   *)
(* back end, and without a control socket never.                           *)
(***************************************************************************)
EXTENDS Naturals, Sequences, SequencesExt

VARIABLES
    script,     \* "proxy" or "thread"
    usable,     \* the sockets that could be created: no script looks
    at,         \* the main thread's current or next call, an index of Calls
    native,     \* whether it is inside that call
    worker,     \* where the worker is: in script at "entry" and "exit"
    control,    \* the messages on their way to the control socket
    nWorkerArg, \* variables of Thread.tbasic
    nWorkerDone,
    read        \* what the main thread has read of them

vars == <<script, usable, at, native, worker, control,
          nWorkerArg, nWorkerDone, read>>
flags == <<nWorkerArg, nWorkerDone, read>>

Sockets == {"frontend", "backend", "control", "peer"}

\* The calls after the sockets have been set up.
ProxyCalls == <<"start", "sleep", "send", "sleep", "join", "close-peer",
                "close-control", "close-backend", "close-frontend", "shutdown">>
ThreadCalls == <<"start", "join", "loops">>

\* Mutant: the sockets are closed before the join.
CallsCloseFirst ==
    IF script = "proxy"
    THEN <<"start", "sleep", "send", "sleep", "close-peer", "close-control",
           "close-backend", "close-frontend", "join", "shutdown">>
    ELSE ThreadCalls

\* Mutant: nobody joins.
CallsWithoutJoin ==
    SelectSeq(IF script = "proxy" THEN ProxyCalls ELSE ThreadCalls,
              LAMBDA c : c # "join")

Calls == IF script = "proxy" THEN ProxyCalls ELSE ThreadCalls

Done == at > Len(Calls)
Call(name) == ~Done /\ Calls[at] = name

Init ==
    /\ \/ script = "proxy" /\ usable \in SUBSET Sockets
       \/ script = "thread" /\ usable = {}
    /\ at = 1
    /\ native = FALSE
    /\ worker = "none"
    /\ control = <<>>
    /\ nWorkerArg = 0
    /\ nWorkerDone = 0
    /\ read = [arg |-> 0, done |-> 0]

-----------------------------------------------------------------------------
(* The main thread.                                                        *)

\* Mutant: TERMINATE reaches a proxy that is already there only.
DeliversNow ==
    /\ {"control", "peer"} \subseteq usable
    /\ worker = "call"

\* zmq_send on the peer; a peer whose address was never bound keeps it.
Delivers == {"control", "peer"} \subseteq usable

\* The call is made. Its effect may come at any time until it returns.
EnterCall ==
    /\ ~Done /\ ~native
    /\ native' = TRUE
    /\ worker' = IF Call("start") THEN "starting" ELSE worker
    /\ control' = IF Call("send") /\ Delivers THEN Append(control, "TERMINATE")
                                              ELSE control
    /\ UNCHANGED <<script, usable, at, flags>>

\* Only zmq_threadclose waits for something.
MayReturn == Call("join") => worker = "ended"

\* The call returns and script goes on; after its join Thread.tbasic prints
\* the two variables.
ReturnFromCall ==
    /\ ~Done /\ native
    /\ MayReturn
    /\ native' = FALSE
    /\ at' = at + 1
    /\ read' = IF Call("join") THEN [arg |-> nWorkerArg, done |-> nWorkerDone]
                               ELSE read
    /\ UNCHANGED <<script, usable, worker, control, nWorkerArg, nWorkerDone>>

-----------------------------------------------------------------------------
(* The worker.                                                             *)

\* The thread calls back into the interpreter: the CodePtr.
WorkerStarts ==
    /\ worker = "starting"
    /\ worker' = "entry"
    /\ UNCHANGED <<script, usable, at, native, control, flags>>

\* ProxyWorker prints, TestZmqThreadWorker stores its argument; then the one
\* calls ZmqProxySteerable and the other ZmqSleep.
WorkerBegins ==
    /\ worker = "entry"
    /\ worker' = "call"
    /\ nWorkerArg' = IF script = "thread" THEN 42 ELSE nWorkerArg
    /\ UNCHANGED <<script, usable, at, native, control, nWorkerDone, read>>

HasEnds == {"frontend", "backend"} \subseteq usable

\* ZmqSleep, or a proxy that has nothing to do, returns by itself.
CallEnds ==
    /\ worker = "call"
    /\ script = "proxy" => ~HasEnds
    /\ worker' = "exit"
    /\ UNCHANGED <<script, usable, at, native, control, flags>>

ProxyTerminates ==
    /\ worker = "call"
    /\ script = "proxy" /\ HasEnds
    /\ control # <<>>
    /\ control' = Tail(control)
    /\ worker' = "exit"
    /\ UNCHANGED <<script, usable, at, native, flags>>

\* It prints again, or sets nWorkerDone, and returns.
WorkerEnds ==
    /\ worker = "exit"
    /\ worker' = "ended"
    /\ nWorkerDone' = IF script = "thread" THEN 1 ELSE nWorkerDone
    /\ UNCHANGED <<script, usable, at, native, control, nWorkerArg, read>>

-----------------------------------------------------------------------------
MainStep == EnterCall \/ ReturnFromCall
WorkerStep ==
    WorkerStarts \/ WorkerBegins \/ CallEnds \/ ProxyTerminates \/ WorkerEnds

Next ==
    \/ EnterCall
    \/ ReturnFromCall
    \/ WorkerStarts
    \/ WorkerBegins
    \/ CallEnds
    \/ ProxyTerminates
    \/ WorkerEnds

\* Both threads are scheduled.
Spec == Init /\ [][Next]_vars /\ WF_vars(MainStep) /\ WF_vars(WorkerStep)

-----------------------------------------------------------------------------
(* Properties.                                                             *)

\* Every variable has its type.
TypeOK ==
    /\ usable \subseteq Sockets
    /\ at \in 1..11 /\ native \in BOOLEAN
    /\ worker \in {"none", "starting", "entry", "call", "exit", "ended"}
    /\ Len(control) <= 1
    /\ nWorkerArg \in {0, 42} /\ nWorkerDone \in {0, 1}

\* The sockets a thread is using: all those of a proxy, all the time.
MainUses ==
    IF ~native THEN {}
    ELSE CASE Call("send") -> {"peer"}
           [] Call("close-peer") -> {"peer"}
           [] Call("close-control") -> {"control"}
           [] Call("close-backend") -> {"backend"}
           [] Call("close-frontend") -> {"frontend"}
           [] OTHER -> {}
WorkerUses ==
    IF script = "proxy" /\ worker \in {"starting", "entry", "call"}
    THEN {"frontend", "backend", "control"} ELSE {}

\* No socket is used by two threads, and none is closed while the proxy runs
\* or before it has begun: the join comes between, however late the worker is.
NoSocketShared == MainUses \cap WorkerUses = {}

\* What Thread.tbasic prints after the join is what the worker stored: the
\* join separates its last write from the read.
JoinSeesWorker ==
    script = "thread" /\ at > 2 => read = [arg |-> 42, done |-> 1]

\* Both threads are in the interpreter, which is not made for that.
BothEvaluate == ~native /\ worker \in {"entry", "exit"}

\* Thread.tbasic:12-15 wants the worker to run alone. Nothing keeps it apart
\* from the main thread but the join: both may be in the interpreter, but not
\* once the join has been entered, and in Thread.tbasic only between the
\* return from ZmqThreadstart and the join that is the next call. Everything
\* else the main thread does, it does while the worker is gone or not there.
JoinEndsOverlap ==
    BothEvaluate =>
        \E i \in at..Len(Calls) :
            Calls[i] = "join" /\ (script = "thread" => i = at)

Steerable ==
    script = "proxy" /\ HasEnds => {"control", "peer"} \subseteq usable

\* Proxy.tbasic looks at no result. It ends, however late its worker starts,
\* exactly if it can tell the proxy to end or there is no proxy to be told: a
\* control socket or a peer that could not be created, while the others could,
\* leaves it waiting in zmq_threadclose for ever. Thread.tbasic always ends.
EndsIffSteerable ==
    /\ Steerable => <>Done
    /\ ~Steerable => []~Done

=============================================================================
