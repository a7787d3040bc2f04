------------------------------- MODULE PubSub -------------------------------
(***************************************************************************)
(* The publish/subscribe scripts. A publisher sends a topic frame with     *)
(* ZMQ_SNDMORE and then a payload frame, and either send may fail; a       *)
(* subscriber receives by turns what it takes for a topic and for a        *)
(* payload, and asks neither the frame nor ZMQ_RCVMORE which it is. The    *)
(* "quotes" scripts (ZmqSdkPubServer.tbasic, ZmqSdkSubClient.tbasic and    *)
(* the native pair) loop for ever without timeouts, the "weather" scripts  *)
(* have 20 and 10 rounds and a receive timeout.                            *)
(*                                                                         *)
(* External: a PUB socket hands a message over when its last frame has     *)
(* been sent, whole, to those who had joined before its first frame; it    *)
(* never waits but drops for a subscriber that is behind. A frame whose    *)
(* send failed is not part of the message; those before it still are.      *)
(***************************************************************************)
EXTENDS Naturals, Sequences, SequencesExt

CONSTANTS
    Subs,       \* the subscribers
    PubRounds,  \* weather: For nLoop = 1 To 20; else a bound on the model
    SubRounds,  \* weather: For nLoop = 1 To 10
    Backlog,    \* bound: messages queued for one subscriber
    MaxFailures,\* bound: failing sends
    MaxKills    \* bound: how often the publisher's console is closed

\* The topic frame; the payload of round n is n.
Topic == 0

VARIABLES
    script,     \* "quotes" or "weather"
    pub,        \* the publisher's next call: "topic", "payload"; "down", "done"
    round,      \* its round
    open,       \* the frames of the message that has been begun
    audience,   \* who gets that message: those who had joined
    joined,     \* the subscribers connected to the publisher
    queue,      \* the messages delivered to each subscriber's socket
    sub,        \* each subscriber
    failed,     \* how many sends have failed: of topics and of payloads
    kills

vars == <<script, pub, round, open, audience, joined, queue, sub, failed, kills>>
subSide == <<script, pub, round, open, audience, joined, failed, kills>>

\* A subscriber: its next call, the frames of the message it is in, its round,
\* what it has printed, and the payloads that were not handed to it.
FreshSub == [pc |-> "topic", rest |-> <<>>, loop |-> 1,
             printed |-> <<>>, missed |-> {}]

Init ==
    /\ script \in {"quotes", "weather"}
    /\ pub = "down"
    /\ round = 1
    /\ open = <<>>
    /\ audience = {}
    /\ joined = {}
    /\ queue = [s \in Subs |-> <<>>]
    /\ sub = [s \in Subs |-> FreshSub]
    /\ failed = [topic |-> 0, payload |-> 0]
    /\ kills = 0

-----------------------------------------------------------------------------
(* The publisher.                                                          *)

Start ==
    /\ pub = "down"
    /\ pub' = "topic"
    /\ UNCHANGED <<script, round, open, audience, joined, queue, sub, failed, kills>>

\* Its console is closed; an unfinished message goes with it. The next quotes
\* publisher goes on to other quotes, so the rounds are counted on; a weather
\* publisher is not started again (a bound).
Kill ==
    /\ pub \in {"topic", "payload"}
    /\ kills < MaxKills
    /\ kills' = kills + 1
    /\ pub' = IF script = "quotes" THEN "down" ELSE "done"
    /\ round' = IF pub = "payload" THEN round + 1 ELSE round
    /\ open' = <<>>
    /\ audience' = {}
    /\ joined' = {}
    /\ UNCHANGED <<script, queue, sub, failed>>

MaySend == round <= PubRounds

\* Mutant: the topic is sent without SNDMORE.
SendTopicAlone ==
    /\ pub = "topic" /\ MaySend
    /\ queue' = [s \in Subs |-> IF s \in joined /\ Len(queue[s]) < Backlog
                                THEN Append(queue[s], Append(open, Topic))
                                ELSE queue[s]]
    /\ open' = <<>>
    /\ pub' = "payload"
    /\ UNCHANGED <<script, round, audience, joined, sub, failed, kills>>

SendTopic ==
    /\ pub = "topic" /\ MaySend
    /\ audience' = IF open = <<>> THEN joined ELSE audience
    /\ open' = Append(open, Topic)
    /\ pub' = "payload"
    /\ UNCHANGED <<script, round, joined, queue, sub, failed, kills>>

Sleep(n) ==
    /\ round' = n + 1
    /\ pub' = IF script = "weather" /\ n = PubRounds THEN "done" ELSE "topic"

MayFail == failed.topic + failed.payload < MaxFailures

\* Mutant: the payload is sent although its topic could not be.
SendTopicFailsUnnoticed ==
    /\ pub = "topic" /\ MaySend /\ MayFail
    /\ failed' = [failed EXCEPT !.topic = @ + 1]
    /\ audience' = IF open = <<>> THEN joined ELSE audience
    /\ pub' = "payload"
    /\ UNCHANGED <<script, round, open, joined, queue, sub, kills>>

\* Then the payload is not sent either.
SendTopicFails ==
    /\ pub = "topic" /\ MaySend /\ MayFail
    /\ failed' = [failed EXCEPT !.topic = @ + 1]
    /\ Sleep(round)
    /\ UNCHANGED <<script, open, audience, joined, queue, sub, kills>>

\* Who is given the finished message: a subscriber with a backlog may not be,
\* one whose queue is full is not.
Recipients(given) ==
    /\ given \subseteq audience \cap joined
    /\ \A s \in audience \cap joined :
          /\ queue[s] = <<>> => s \in given
          /\ Len(queue[s]) = Backlog => s \notin given

SendPayload ==
    /\ pub = "payload"
    /\ \E given \in SUBSET Subs :
          /\ Recipients(given)
          /\ queue' = [s \in Subs |-> IF s \in given
                                      THEN Append(queue[s], Append(open, round))
                                      ELSE queue[s]]
          /\ sub' = [s \in Subs |-> IF s \in given THEN sub[s]
                                    ELSE [sub[s] EXCEPT !.missed = @ \cup {round}]]
    /\ open' = <<>>
    /\ audience' = {}
    /\ Sleep(round)
    /\ UNCHANGED <<script, joined, failed, kills>>

\* The message stays begun: the next topic becomes its next frame.
SendPayloadFails ==
    /\ pub = "payload" /\ MayFail
    /\ failed' = [failed EXCEPT !.payload = @ + 1]
    /\ Sleep(round)
    /\ UNCHANGED <<script, open, audience, joined, queue, sub, kills>>

\* A connection is up and the publisher has read the subscription.
Join(s) ==
    /\ pub # "down" /\ s \notin joined
    /\ joined' = joined \cup {s}
    /\ UNCHANGED <<script, pub, round, open, audience, queue, sub, failed, kills>>

-----------------------------------------------------------------------------
(* A subscriber.                                                           *)

Available(s) == sub[s].rest # <<>> \/ queue[s] # <<>>

\* The message the next frame is read from.
Frames(s) == IF sub[s].rest # <<>> THEN sub[s].rest ELSE Head(queue[s])

TakeFrame(s) ==
    queue' = IF sub[s].rest # <<>> THEN queue ELSE [queue EXCEPT ![s] = Tail(@)]

\* Mutant: For nLoop = 1 To 10 takes one round more.
AfterRoundTooMany(s, r) ==
    IF script = "weather" /\ r.loop > SubRounds THEN [r EXCEPT !.pc = "done"]
    ELSE [r EXCEPT !.pc = "topic", !.loop = @ + 1]

AfterRound(s, r) ==
    IF script = "quotes" THEN [r EXCEPT !.pc = "topic"]
    ELSE IF r.loop = SubRounds THEN [r EXCEPT !.pc = "done"]
    ELSE [r EXCEPT !.pc = "topic", !.loop = @ + 1]

\* Mutant: the topic is received into the buffer of the whole message.
RecvTopicOnly(s) ==
    /\ sub[s].pc = "topic" /\ Available(s)
    /\ TakeFrame(s)
    /\ sub' = [sub EXCEPT ![s].pc = "payload", ![s].rest = <<>>]
    /\ UNCHANGED subSide

RecvTopic(s) ==
    /\ sub[s].pc = "topic" /\ Available(s)
    /\ TakeFrame(s)
    /\ sub' = [sub EXCEPT ![s].pc = "payload", ![s].rest = Tail(Frames(s))]
    /\ UNCHANGED subSide

RecvPayload(s) ==
    /\ sub[s].pc = "payload" /\ Available(s)
    /\ TakeFrame(s)
    /\ sub' = [sub EXCEPT ![s] = AfterRound(s, [sub[s] EXCEPT
                 !.rest = Tail(Frames(s)),
                 !.printed = Append(sub[s].printed, Head(Frames(s)))])]
    /\ UNCHANGED subSide

\* Mutant: without ZMQ_RCVTIMEO.
RecvNeverExpires(s) ==
    /\ sub[s].pc = "payload"
    /\ script = "weather" /\ ~Available(s)
    /\ sub' = [sub EXCEPT ![s] = AfterRound(s, @)]
    /\ UNCHANGED <<subSide, queue>>

\* ZMQ_RCVTIMEO: the round is over, whichever of the two frames was awaited.
RecvExpires(s) ==
    /\ sub[s].pc \in {"topic", "payload"}
    /\ script = "weather" /\ ~Available(s)
    /\ sub' = [sub EXCEPT ![s] = AfterRound(s, @)]
    /\ UNCHANGED <<subSide, queue>>

-----------------------------------------------------------------------------
SubStep(s) == RecvTopic(s) \/ RecvPayload(s) \/ RecvExpires(s)

Next ==
    \/ Start
    \/ Kill
    \/ SendTopic
    \/ SendTopicFails
    \/ SendPayload
    \/ SendPayloadFails
    \/ \E s \in Subs : Join(s)
    \/ \E s \in Subs : RecvTopic(s) \/ RecvPayload(s) \/ RecvExpires(s)

\* Only the subscribers have to go on; nobody has to start a publisher, and it
\* may stop at any point.
Spec == Init /\ [][Next]_vars /\ \A s \in Subs : WF_vars(SubStep(s))

-----------------------------------------------------------------------------
(* Properties.                                                             *)

Frame == 0..PubRounds

\* Every variable has its type.
TypeOK ==
    /\ pub \in {"topic", "payload", "down", "done"}
    /\ round \in 1..(PubRounds + 1)
    /\ open \in Seq({Topic})
    /\ audience \subseteq Subs /\ joined \subseteq Subs
    /\ \A s \in Subs :
          /\ Len(queue[s]) <= Backlog
          /\ \A i \in 1..Len(queue[s]) : queue[s][i] \in Seq(Frame)
          /\ sub[s].pc \in {"topic", "payload", "done"}
          /\ sub[s].loop \in 1..SubRounds
          /\ sub[s].rest \in Seq(Frame) /\ sub[s].printed \in Seq(Frame)

\* Late joins, drops, restarts and failing topic sends never put a subscriber
\* out of step: until the send of a payload fails, whatever is printed is a
\* payload. (After that the quotes scripts can print topics for ever.)
PrintsPayloads ==
    failed.payload = 0 =>
        \A s \in Subs : \A i \in 1..Len(sub[s].printed) : sub[s].printed[i] # Topic

Increasing(s) == \A i, j \in 1..Len(s) : i < j => s[i] < s[j]

\* The payloads that wait for a subscriber: the last frames of its messages.
Waiting(s) == [i \in 1..Len(queue[s]) |-> Last(queue[s][i])]

\* What a subscriber has printed, is in the middle of, and has in its queue.
Heard(s) == sub[s].printed \o sub[s].rest \o Waiting(s)

\* Until a payload fails, a subscriber hears every payload exactly once and in
\* order, over restarts of the publisher too, but for those it was not there
\* for and those that were dropped because it was behind.
HearsAllButMissed ==
    failed.payload = 0 =>
        \A s \in Subs :
            /\ Increasing(Heard(s))
            /\ Range(Heard(s)) \cap sub[s].missed = {}
            /\ failed.topic = 0 /\ kills = 0 =>
                  Range(Heard(s)) \cup sub[s].missed = 1..(round - 1)

\* WeatherSubClient.tbasic has one timeout for both receives of a round. It
\* expires only between messages, so that it loses no step, unless a payload
\* failed: then it may expire in the middle, and bring the two back in step.
ExpiresBetweenMessages ==
    [][\A s \in Subs :
          /\ sub[s].pc = "payload" /\ sub'[s].pc # "payload"
          /\ sub'[s].printed = sub[s].printed
          => failed.payload > 0]_vars

\* The weather client completes its rounds and ends, whatever becomes of the
\* publisher and of the frames.
WeatherSubCompletes ==
    script = "weather" => \A s \in Subs : <>(sub[s].pc = "done")

\* A subscriber is in step if its next topic is the first frame of a message.
InStep(s) == sub[s].pc = "topic" <=> Len(sub[s].rest) % 2 = 0

\* A quotes client comes out of step, and back, only by reading a message with
\* an odd number of frames, one that a failed payload has joined to the next:
\* late joins, drops and restarts do not do it, and if no other payload fails
\* it goes on printing topics for payloads.
QuotesChangeStepOnlyByFailure ==
    [][\A s \in Subs :
          script = "quotes" /\ (InStep(s) # InStep(s)')
          => failed.payload > 0 /\ Len(Frames(s)) % 2 = 1]_vars

=============================================================================
