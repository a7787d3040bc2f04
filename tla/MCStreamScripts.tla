-------------------------- MODULE MCStreamScripts --------------------------
(***************************************************************************)
(* TLC instance of the scripts whose messages flow one way: a behaviour is *)
(* one of PubSub or one of PushPull, as its script says, with its own      *)
(* fairness. The variables of the other stay at their initial values.      *)
(***************************************************************************)
EXTENDS Naturals, Sequences

CONSTANTS
    Subs, PubRounds, SubRounds, Backlog, MaxFailures, MaxKills,
    Clients, Self, LastJob, Rounds, MaxStarts

ASSUME BoundsAssumption ==
    /\ {PubRounds, SubRounds, Backlog, Rounds} \subseteq Nat \ {0}
    /\ {MaxFailures, MaxKills, LastJob, MaxStarts} \subseteq Nat
    /\ Self \notin Clients

VARIABLES
    script,
    pub, round, open, audience, joined, queue, sub, failed, kills,
    starts, server, client, pipe, inbox, pulled, lost, pushed

Publish == INSTANCE PubSub
Pipeline == INSTANCE PushPull

publish == <<pub, round, open, audience, joined, queue, sub, failed, kills>>
pipeline == <<starts, server, client, pipe, inbox, pulled, lost, pushed>>
vars == <<script, publish, pipeline>>

Publishes == script \in {"quotes", "weather"}
Pipelines == script \in {"pull", "poll", "lockstep"}

NoPublish ==
    /\ pub = "down" /\ round = 1 /\ open = <<>>
    /\ audience = {} /\ joined = {}
    /\ queue = [s \in Subs |-> <<>>]
    /\ sub = [s \in Subs |-> Publish!FreshSub]
    /\ failed = [topic |-> 0, payload |-> 0] /\ kills = 0

NoPipeline ==
    /\ starts = 0
    /\ server = [pc |-> "down", bound |-> FALSE, loop |-> 1]
    /\ client = [c \in Clients |-> [pc |-> "push", job |-> 0]]
    /\ pipe = [p \in Clients \cup {Self} |-> <<>>] /\ inbox = pipe
    /\ pulled = pipe
    /\ lost = [p \in Clients \cup {Self} |-> {}] /\ pushed = pipe

Init ==
    \/ Publish!Init /\ NoPipeline
    \/ Pipeline!Init /\ NoPublish

Next ==
    \/ Publishes /\ Publish!Next /\ UNCHANGED pipeline
    \/ Pipelines /\ Pipeline!Next /\ UNCHANGED publish

Fairness ==
    /\ \A s \in Subs :
          WF_vars(Publishes /\ Publish!SubStep(s) /\ UNCHANGED pipeline)
    /\ WF_vars(Pipelines /\ Pipeline!ServerStep /\ UNCHANGED publish)
    /\ \A c \in Clients :
          WF_vars(Pipelines /\ Pipeline!ClientStep(c) /\ UNCHANGED publish)
    /\ \A p \in Clients \cup {Self} :
          WF_vars(Pipelines /\ Pipeline!Transmit(p) /\ UNCHANGED publish)

Spec == Init /\ [][Next]_vars /\ Fairness

-----------------------------------------------------------------------------
(* Properties: those of the two modules.                                   *)

\* Every variable of the module has its type.
TypeOK ==
    /\ Publishes => Publish!TypeOK
    /\ Pipelines => Pipeline!TypeOK

\* Until the send of a payload fails, a subscriber prints payloads only, each
\* once and in order, all but the ones it has missed.
HearsAllButMissed == Publishes => Publish!PrintsPayloads /\ Publish!HearsAllButMissed

\* Only a failed payload brings the receives of a subscriber out of step with
\* the frames, and only it lets a timeout expire inside a message.
OnlyFailureChangesStep ==
    Publish!ExpiresBetweenMessages /\ Publish!QuotesChangeStepOnlyByFailure

\* Every pushed job is somewhere or lost with a socket, and what is lost
\* without a restart are the last jobs of a client.
JobsBalance == Pipelines => Pipeline!JobsBalance /\ Pipeline!PulledWithoutGap

\* The lockstep script pulls a job for each one it pushes, and each client's
\* job that it pulls leaves one more of its own behind; what a poll has found
\* is still there when it is received.
ReceivesInTurn == Pipelines => Pipeline!LockstepTakesTurns /\ Pipeline!PolledIsReceived

\* The weather client, the push clients and the bounded servers end, and the
\* sink pulls what arrives at it.
EveryoneGetsOn ==
    /\ Publishes => Publish!WeatherSubCompletes
    /\ Pipelines => /\ Pipeline!ClientsComplete
                    /\ Pipeline!BoundedServersEnd
                    /\ Pipeline!SinkPullsWhatArrives

=============================================================================
