------------------------------ MODULE PushPull ------------------------------
(***************************************************************************)
(* The pipeline scripts. A client (ZmqSdkPushClient.tbasic) pushes its     *)
(* jobs, disconnects and closes with ZMQ_LINGER 0. What serves them is one *)
(* of three scripts: "pull" (ZmqSdkPullServer.tbasic) receives for ever,   *)
(* "poll" (Poll.tbasic) receives after each of five polls that found       *)
(* something, and "lockstep" (ZmqSdkPushPull.tbasic) pushes its own jobs   *)
(* and pulls after each, with a receive timeout, on the port that the      *)
(* clients push to as well, 1743. No script of the repository pushes to    *)
(* Poll.tbasic, which binds 1712: its clients are other programs, taken to *)
(* push as ZmqSdkPushClient.tbasic does.                                   *)
(*                                                                         *)
(* External: a PUSH socket never waits for a peer to take so few jobs; its *)
(* I/O thread transmits them in order. Disconnecting with LINGER 0 drops   *)
(* those that have not been. A PULL socket takes its connections in turn   *)
(* and each connection's jobs in order.                                    *)
(***************************************************************************)
EXTENDS Naturals, Sequences, SequencesExt

CONSTANTS
    Clients,    \* the push clients
    Self,       \* the lockstep script as a pusher
    LastJob,    \* a client pushes jobs 0..LastJob (10)
    Rounds,     \* polls, and jobs of the lockstep script (5)
    MaxStarts   \* bound: how often the server is started

Pushers == Clients \cup {Self}

VARIABLES
    script,     \* "pull", "poll" or "lockstep"
    starts,     \* how often the server was started
    server,     \* its next call, whether it has the port, its loop counter
    client,     \* each client's next call and job
    pipe,       \* each pusher's jobs that are still in its own process
    inbox,      \* each pusher's jobs that have arrived at the server
    pulled,     \* each pusher's jobs that the server has received
    lost,       \* each pusher's jobs dropped by a disconnect or a kill
    pushed      \* each pusher's jobs that were sent: "Pushed"

vars == <<script, starts, server, client, pipe, inbox, pulled, lost, pushed>>
jobs == <<pipe, inbox, pulled, lost, pushed>>

Init ==
    /\ script \in {"pull", "poll", "lockstep"}
    /\ starts = 0
    /\ server = [pc |-> "down", bound |-> FALSE, loop |-> 1]
    /\ client = [c \in Clients |-> [pc |-> "push", job |-> 0]]
    /\ pipe = [p \in Pushers |-> <<>>]
    /\ inbox = [p \in Pushers |-> <<>>]
    /\ pulled = [p \in Pushers |-> <<>>]
    /\ lost = [p \in Pushers |-> {}]
    /\ pushed = [p \in Pushers |-> <<>>]

Send(p, job) ==
    /\ pipe' = [pipe EXCEPT ![p] = Append(@, job)]
    /\ pushed' = [pushed EXCEPT ![p] = Append(@, job)]

Drop(p) ==
    /\ pipe' = [pipe EXCEPT ![p] = <<>>]
    /\ lost' = [lost EXCEPT ![p] = @ \cup Range(pipe[p])]

-----------------------------------------------------------------------------
(* A client.                                                               *)

AfterJob(r) == IF r.job = LastJob THEN [r EXCEPT !.pc = "disconnect"]
                                  ELSE [r EXCEPT !.job = r.job + 1]

\* Mutant: as with ZMQ_IMMEDIATE, a job waits for a server.
PushToServer(c) ==
    /\ client[c].pc = "push"
    /\ server.pc \notin {"down", "done"}
    /\ Send(c, client[c].job)
    /\ client' = [client EXCEPT ![c] = AfterJob(@)]
    /\ UNCHANGED <<script, starts, server, inbox, pulled, lost>>

Push(c) ==
    /\ client[c].pc = "push"
    /\ Send(c, client[c].job)
    /\ client' = [client EXCEPT ![c] = AfterJob(@)]
    /\ UNCHANGED <<script, starts, server, inbox, pulled, lost>>

\* Mutant: the loop goes on after a failed send.
PushFailsUnnoticed(c) ==
    /\ client[c].pc = "push"
    /\ client' = [client EXCEPT ![c] = AfterJob(@)]
    /\ UNCHANGED <<script, starts, server, jobs>>

\* Exit For.
PushFails(c) ==
    /\ client[c].pc = "push"
    /\ client' = [client EXCEPT ![c].pc = "disconnect"]
    /\ UNCHANGED <<script, starts, server, jobs>>

Disconnect(c) ==
    /\ client[c].pc = "disconnect"
    /\ client' = [client EXCEPT ![c].pc = "done"]
    /\ Drop(c)
    /\ UNCHANGED <<script, starts, server, inbox, pulled, pushed>>

-----------------------------------------------------------------------------
(* The I/O threads.                                                        *)

Connected == server.bound /\ server.pc \notin {"down", "done"}

Transmit(p) ==
    /\ Connected
    /\ pipe[p] # <<>>
    /\ inbox' = [inbox EXCEPT ![p] = Append(@, Head(pipe[p]))]
    /\ pipe' = [pipe EXCEPT ![p] = Tail(@)]
    /\ UNCHANGED <<script, starts, server, client, pulled, lost, pushed>>

Waiting == {p \in Pushers : inbox[p] # <<>>}

-----------------------------------------------------------------------------
(* The servers.                                                            *)

FirstCall == CASE script = "pull" -> "recv"
               [] script = "poll" -> "poll"
               [] script = "lockstep" -> "push"

\* Without the port two of the scripts end, while Poll.tbasic, which does not
\* look, polls a socket that nobody can reach.
Start ==
    /\ server.pc = "down"
    /\ starts < MaxStarts
    /\ starts' = starts + 1
    /\ server' \in {[pc |-> FirstCall, bound |-> TRUE, loop |-> 1],
                   [pc |-> IF script = "poll" THEN "poll" ELSE "down",
                    bound |-> FALSE, loop |-> 1]}
    /\ UNCHANGED <<script, client, jobs>>

\* The pull server's console is closed.
Kill ==
    /\ script = "pull" /\ server.pc = "recv"
    /\ server' = [server EXCEPT !.pc = "down"]
    /\ inbox' = [p \in Pushers |-> <<>>]
    /\ lost' = [p \in Pushers |-> lost[p] \cup Range(inbox[p])]
    /\ UNCHANGED <<script, starts, client, pipe, pulled, pushed>>

\* Mutant: revents is not looked at.
PollUnchecked ==
    /\ server.pc = "poll"
    /\ server' = [server EXCEPT !.pc = "recv"]
    /\ UNCHANGED <<script, starts, client, jobs>>

Poll ==
    /\ server.pc = "poll"
    /\ Waiting # {}
    /\ server' = [server EXCEPT !.pc = "recv"]
    /\ UNCHANGED <<script, starts, client, jobs>>

\* Mutant: the sink ends after a job.
NextRoundNone == server' = [server EXCEPT !.pc = "close"]

NextRound ==
    server' = CASE script = "pull" -> server
                [] script # "pull" /\ server.loop = Rounds -> [server EXCEPT !.pc = "close"]
                [] OTHER -> [server EXCEPT !.pc = FirstCall, !.loop = @ + 1]

\* Timed out, or an error.
PollFails ==
    /\ server.pc = "poll"
    /\ NextRound
    /\ UNCHANGED <<script, starts, client, jobs>>

\* Mutant: the last job is received instead of the first.
RecvNewest ==
    /\ server.pc = "recv"
    /\ \E p \in Waiting :
          /\ pulled' = [pulled EXCEPT ![p] = Append(@, Last(inbox[p]))]
          /\ inbox' = [inbox EXCEPT ![p] = Front(@)]
    /\ NextRound
    /\ UNCHANGED <<script, starts, client, pipe, lost, pushed>>

Recv ==
    /\ server.pc = "recv"
    /\ \E p \in Waiting :
          /\ pulled' = [pulled EXCEPT ![p] = Append(@, Head(inbox[p]))]
          /\ inbox' = [inbox EXCEPT ![p] = Tail(@)]
    /\ NextRound
    /\ UNCHANGED <<script, starts, client, pipe, lost, pushed>>

LockstepPush ==
    /\ server.pc = "push"
    /\ Send(Self, server.loop)
    /\ server' = [server EXCEPT !.pc = "recv"]
    /\ UNCHANGED <<script, starts, client, inbox, pulled, lost>>

\* Exit For.
LockstepPushFails ==
    /\ server.pc = "push"
    /\ server' = [server EXCEPT !.pc = "close"]
    /\ UNCHANGED <<script, starts, client, jobs>>

\* Mutant: no Exit For when nothing was received.
LockstepRecvExpiresUnnoticed ==
    /\ script = "lockstep" /\ server.pc = "recv"
    /\ Waiting = {}
    /\ NextRound
    /\ UNCHANGED <<script, starts, client, jobs>>

\* ZMQ_RCVTIMEO of two seconds.
LockstepRecvExpires ==
    /\ script = "lockstep" /\ server.pc = "recv"
    /\ Waiting = {}
    /\ server' = [server EXCEPT !.pc = "close"]
    /\ UNCHANGED <<script, starts, client, jobs>>

\* Disconnect, unbind and close: what was not received is gone.
Close ==
    /\ server.pc = "close"
    /\ server' = [server EXCEPT !.pc = "done"]
    /\ pipe' = [pipe EXCEPT ![Self] = <<>>]
    /\ inbox' = [p \in Pushers |-> <<>>]
    /\ lost' = [p \in Pushers |->
                  lost[p] \cup Range(inbox[p])
                          \cup (IF p = Self THEN Range(pipe[p]) ELSE {})]
    /\ UNCHANGED <<script, starts, client, pulled, pushed>>

-----------------------------------------------------------------------------
ServerStep ==
    \/ Poll
    \/ PollFails
    \/ Recv
    \/ LockstepPush
    \/ LockstepPushFails
    \/ LockstepRecvExpires
    \/ Close

\* A client's step, without counting on a failure.
ClientStep(c) == Push(c) \/ Disconnect(c)

Next ==
    \/ Start
    \/ Kill
    \/ ServerStep
    \/ \E c \in Clients : Push(c) \/ PushFails(c) \/ Disconnect(c)
    \/ \E p \in Pushers : Transmit(p)

\* Each script goes on where it can, and the I/O threads transmit while there
\* is a connection. Nobody has to start or stop a server.
Fairness ==
    /\ WF_vars(ServerStep)
    /\ \A c \in Clients : WF_vars(ClientStep(c))
    /\ \A p \in Pushers : WF_vars(Transmit(p))

Spec == Init /\ [][Next]_vars /\ Fairness

-----------------------------------------------------------------------------
(* Properties.                                                             *)

Job == 0..(LastJob + Rounds)

\* Every variable has its type.
TypeOK ==
    /\ starts \in 0..MaxStarts
    /\ server.pc \in {"down", "push", "poll", "recv", "close", "done"}
    /\ server.bound \in BOOLEAN /\ server.loop \in 1..Rounds
    /\ \A c \in Clients : client[c].pc \in {"push", "disconnect", "done"}
                          /\ client[c].job \in 0..LastJob
    /\ \A p \in Pushers : /\ pipe[p] \in Seq(Job) /\ inbox[p] \in Seq(Job)
                           /\ pushed[p] \in Seq(Job) /\ lost[p] \subseteq Job
                           /\ pulled[p] \in Seq(Job)

Increasing(s) == \A i, j \in 1..Len(s) : i < j => s[i] < s[j]

\* The jobs that are pulled, wait at the server, or wait at their pusher.
Kept(p) == pulled[p] \o inbox[p] \o pipe[p]

\* Every job that was reported as pushed is kept or lost with a socket, never
\* both, and the kept ones are in the order of their numbers, each once.
JobsBalance ==
    \A p \in Pushers :
        /\ Increasing(Kept(p))
        /\ Range(Kept(p)) \cup lost[p] = Range(pushed[p])
        /\ Range(Kept(p)) \cap lost[p] = {}

\* A disconnect with LINGER 0 costs the last jobs only: without a restart what
\* a server has pulled of a client are its first jobs, without a gap, although
\* sends may fail and the server may end.
PulledWithoutGap ==
    starts <= 1 => \A c \in Clients : \A i \in 1..Len(pulled[c]) :
                      pulled[c][i] = i - 1

PulledOfClients == UNION {{c} \X (1..Len(pulled[c])) : c \in Clients}

\* ZmqSdkPushPull.tbasic takes turns: one job is pulled for each one pushed. But
\* its receive takes what is there, and each client's job that it takes leaves
\* one more of its own behind: so many are outstanding when it pushes, and one
\* more when it receives, and what it has pulled of its own are its first jobs
\* in their order, be it late. A receive may find nothing; it ends the script,
\* which then leaves one job more than the clients' behind.
LockstepTakesTurns ==
    script = "lockstep" =>
        LET outstanding == Len(pushed[Self]) - Len(pulled[Self])
            taken == Cardinality(PulledOfClients)
        IN  /\ outstanding \in {taken, taken + 1}
            /\ server.pc = "push" => outstanding = taken
            /\ server.pc = "recv" => outstanding = taken + 1
            /\ \A i \in 1..Len(pulled[Self]) : pulled[Self][i] = i

\* Poll.tbasic has no receive timeout and needs none: what a poll has found is
\* still there when it is received.
PolledIsReceived == script = "poll" /\ server.pc = "recv" => Waiting # {}

\* A client completes whatever becomes of the server: it never waits for one.
ClientsComplete == \A c \in Clients : <>(client[c].pc = "done")

\* A server with a bounded loop ends once it is started, with or without the
\* port and whatever the clients do.
BoundedServersEnd ==
    script # "pull" => (server.pc # "down" ~> server.pc = "done")

\* A job that has arrived at the sink is pulled in the end, however many
\* clients push and come and go, unless the sink is killed before.
SinkPullsWhatArrives ==
    \A c \in Clients, job \in 0..LastJob :
        script = "pull" /\ Contains(inbox[c], job)
            ~> Contains(pulled[c], job) \/ server.pc = "down"

=============================================================================
