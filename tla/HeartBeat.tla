------------------------------- MODULE HeartBeat -------------------------------
(***************************************************************************)
(* The heartbeat services of several hosts.  Each is a client, which sends *)
(* beats to a list of targets in a loop and, if its configuration lists    *)
(* none, looks for them once by a broadcast; and a server, which answers   *)
(* broadcasts and hands out the key of its secure channel.  Sources:       *)
(* heartbeatserver/src/heartbeatserver.cpp, secure_channel.hpp.            *)
(*                                                                         *)
(* Everything in a service is a coroutine of one io_context: a step runs   *)
(* from one asynchronous wait to the next, and a coroutine that is spawned *)
(* from another runs at once up to its first wait.  A datagram is received *)
(* any number of times after it was sent, or never: the network may lose,  *)
(* duplicate and reorder them.                                             *)
(***************************************************************************)
EXTENDS Naturals, Sequences, FiniteSets

CONSTANTS
    Hosts,
    Config,      \* Config[h]: the targets h is configured with
    Resolves,    \* the hosts whose own name resolves to the address that the
                 \* others see
    Keyless,     \* what AESCipher makes of a text while the key is empty
    Loops,       \* bounds the loops of one service that there can be at a time
    MaxTargets   \* bounds the targets of a host that looks for them

Outcomes == {"text", "garbage", "throws"}

ASSUME ConfigAssumption == Config \in [Hosts -> Seq(Hosts)]
ASSUME ResolvesAssumption == Resolves \subseteq Hosts
ASSUME KeylessAssumption == Keyless \subseteq Outcomes
ASSUME LoopsAssumption == Loops # {}
ASSUME MaxTargetsAssumption == MaxTargets \in Nat

VARIABLES
    up,       \* the hosts whose service runs
    keyed,    \* those whose server has a key
    targets,  \* targets[h]: the client's list
    sending,  \* sending[h]: the client's flag
    stage,    \* stage[h][l]: where loop l of h is: "none", "queued" (spawned
              \* before the io_context runs), "waiting" for the timer,
              \* "cancelled" (that wait was) or "sending"
    next,     \* next[h]: the target being sent to
    upto,     \* upto[h]: the end of the list that the round goes through
    stale,    \* the hosts whose round goes through a list that has moved
    finding,  \* finding[h]: findPeers(): "none", "queued", "open" or "closed"
    net,      \* the datagrams ever sent
    beaten    \* history: beaten[h]: the targets the latest round of h has sent
              \* a beat to

client == <<targets, sending, stage, next, upto, stale, finding, beaten>>
vars == <<up, keyed, client, net>>

Datagram(kind, from, to) == [kind |-> kind, from |-> from, to |-> to]
Kinds == {"Connect:", "Connected", "sealed", "ping"}

Init ==
    /\ up = {} /\ keyed = {} /\ stale = {} /\ net = {}
    /\ targets = [h \in Hosts |-> <<>>]
    /\ sending = [h \in Hosts |-> FALSE]
    /\ stage = [h \in Hosts |-> [l \in Loops |-> "none"]]
    /\ next = [h \in Hosts |-> 0]
    /\ upto = [h \in Hosts |-> 0]
    /\ beaten = [h \in Hosts |-> <<>>]
    /\ finding = [h \in Hosts |-> "none"]

-------------------------------------------------------------------------------
\* The process of h ends, and with it all it knows.
Stop(h) ==
    /\ up' = up \ {h}
    /\ keyed' = keyed \ {h}
    /\ targets' = [targets EXCEPT ![h] = <<>>]
    /\ sending' = [sending EXCEPT ![h] = FALSE]
    /\ stage' = [stage EXCEPT ![h] = [l \in Loops |-> "none"]]
    /\ next' = [next EXCEPT ![h] = 0]
    /\ upto' = [upto EXCEPT ![h] = 0]
    /\ stale' = stale \ {h}
    /\ finding' = [finding EXCEPT ![h] = "none"]
    /\ beaten' = [beaten EXCEPT ![h] = <<>>]

\* It is killed.
Kill(h) == h \in up /\ Stop(h) /\ UNCHANGED net

\* A loop of h that is not in use.
FreeLoop(h) == CHOOSE l \in Loops : stage[h][l] = "none"

\* HeartBeatClient::start(): what it spawns waits until the io_context runs.
StartClient(h) ==
    \/ /\ Config[h] = <<>>
       /\ finding' = [finding EXCEPT ![h] = "queued"]
       /\ UNCHANGED stage
    \/ /\ Config[h] # <<>>
       /\ stage' = [stage EXCEPT ![h][FreeLoop(h)] = "queued"]
       /\ UNCHANGED finding

\* main(): the client is started before the server.
Start(h) ==
    /\ h \notin up
    /\ up' = up \union {h}
    /\ targets' = [targets EXCEPT ![h] = Config[h]]
    /\ StartClient(h)
    /\ UNCHANGED <<keyed, sending, next, upto, stale, net, beaten>>

\* Operators named Of_mistake are Of with a mistake in it, for checking that a
\* property can tell: no definition uses them.

Begin_late(h, l) ==
    /\ stage' = [stage EXCEPT ![h] = [m \in Loops |->
                    IF m = l THEN "waiting"
                    ELSE IF @[m] = "waiting" THEN "cancelled" ELSE @[m]]]
    /\ sending' = [sending EXCEPT ![h] = FALSE]

\* The coroutine of sendBeats() up to its wait.  To set the timer is to cancel
\* every other wait on it.
Begin(h, l) ==
    /\ stage' = [stage EXCEPT ![h] = [m \in Loops |->
                    IF m = l THEN "waiting"
                    ELSE IF @[m] = "waiting" THEN "cancelled" ELSE @[m]]]
    /\ sending' = [sending EXCEPT ![h] = TRUE]

\* sendBeats(), called on the thread of the io_context.
SendBeats(h) ==
    \/ ~sending[h] /\ Begin(h, FreeLoop(h))
    \/ sending[h] /\ UNCHANGED <<stage, sending>>

\* The io_context runs and with it the loop spawned by start().
BeginQueued(h, l) ==
    /\ stage[h][l] = "queued"
    /\ Begin(h, l)
    /\ UNCHANGED <<up, keyed, targets, next, upto, stale, finding, net, beaten>>

EndRound_stops(h, l) ==
    /\ stage' = [stage EXCEPT ![h][l] = "none"]
    /\ sending' = [sending EXCEPT ![h] = FALSE]
    /\ next' = [next EXCEPT ![h] = 0]
    /\ upto' = [upto EXCEPT ![h] = 0]
    /\ stale' = stale \ {h}

EndRound_keepsIterators(h, l) ==
    /\ Begin(h, l)
    /\ next' = [next EXCEPT ![h] = 0]
    /\ upto' = [upto EXCEPT ![h] = 0]
    /\ UNCHANGED stale

\* The end of the coroutine: sending is reset, so sendBeats() begins another
\* loop, and this one ends.
EndRound(h, l) ==
    /\ Begin(h, l)
    /\ next' = [next EXCEPT ![h] = 0]
    /\ upto' = [upto EXCEPT ![h] = 0]
    /\ stale' = stale \ {h}

RoundEnd_past(h) == Len(targets[h]) + 1

\* The range-for computes the end of the list once, for the whole round.
RoundEnd(h) == Len(targets[h])

\* The wait is over, and the first beat on its way; or the wait was cancelled.
WaitEnds(h, l) ==
    /\ \/ /\ stage[h][l] = "waiting"
          /\ stage' = [stage EXCEPT ![h][l] = "sending"]
          /\ next' = [next EXCEPT ![h] = 1]
          /\ upto' = [upto EXCEPT ![h] = RoundEnd(h)]
          /\ beaten' = [beaten EXCEPT ![h] = <<>>]
          /\ UNCHANGED <<sending, stale>>
       \/ /\ stage[h][l] = "cancelled"
          /\ EndRound(h, l)
          /\ UNCHANGED beaten
    /\ UNCHANGED <<up, keyed, targets, finding, net>>

\* send_to(): one beat, to one target.
SendTo(h, t) ==
    /\ net' = net \union {Datagram("ping", h, t)}
    /\ beaten' = [beaten EXCEPT ![h] = Append(@, t)]

\* send_to() has sent the beat, and the loop goes on to the next target or
\* ends its round.  Once the list has moved, what it reads is freed memory: it
\* may still find the targets there, send to no one, or end the process.
Beat(h, l) ==
    /\ stage[h][l] = "sending"
    /\ \/ SendTo(h, targets[h][next[h]])
       \/ h \in stale /\ UNCHANGED <<net, beaten>>
    /\ \/ /\ next[h] < upto[h]
          /\ next' = [next EXCEPT ![h] = @ + 1]
          /\ UNCHANGED <<stage, sending, upto, stale>>
       \/ /\ next[h] >= upto[h]
          /\ EndRound(h, l)
    /\ UNCHANGED <<up, keyed, targets, finding>>

StaleCrash(h) == h \in stale /\ Stop(h) /\ UNCHANGED net

-------------------------------------------------------------------------------
\* findPeers(): the broadcast reaches every host, this one too.
Broadcast(h) ==
    /\ finding[h] = "queued"
    /\ finding' = [finding EXCEPT ![h] = "open"]
    /\ net' = net \union {Datagram("Connect:", h, x) : x \in Hosts}
    /\ UNCHANGED <<up, keyed, targets, sending, stage, next, upto, stale, beaten>>

\* A vector that doubles its storage when it is full has none left for one more.
Full(n) == n \in {0} \union {2^k : k \in 0..n}

\* The callback of broadcast(): an answer in plain text adds a target.  If the
\* storage moves while a round goes through it, its iterators are left behind.
Found(h, m) ==
    /\ finding[h] = "open"
    /\ m \in net /\ m.to = h /\ m.kind = "Connected"
    /\ Len(targets[h]) < MaxTargets
    /\ targets' = [targets EXCEPT ![h] = Append(@, m.from)]
    /\ stale' = IF Full(Len(targets[h])) /\ \E l \in Loops : stage[h][l] = "sending"
                THEN stale \union {h} ELSE stale
    /\ SendBeats(h)
    /\ UNCHANGED <<up, keyed, next, upto, finding, net, beaten>>

\* Fifteen seconds have passed: no one listens any more, nor asks again.
WindowCloses(h) ==
    /\ finding[h] = "open"
    /\ finding' = [finding EXCEPT ![h] = "closed"]
    /\ UNCHANGED <<up, keyed, targets, sending, stage, next, upto, stale, net, beaten>>

\* SecureChannel::Server::getKey(): a client asks for the key, and the first
\* to do so has it generated.
GetKey(h) ==
    /\ h \in up
    /\ keyed' = keyed \union {h}
    /\ UNCHANGED <<up, client, net>>

CheckSelf_equal(h, from) == h = from /\ h \in Resolves

\* checkSelf(): true where the sender's address is not that of the own name.
CheckSelf(h, from) == ~(h = from /\ h \in Resolves)

\* What decrypt() makes of a plain text, and what encrypt() makes of the answer:
\* the client does not decrypt it.
Ciphered(h) == IF h \in keyed THEN {"garbage", "throws"} ELSE Keyless
Answers(h) == {IF c = "text" THEN "Connected" ELSE "sealed" : c \in Ciphered(h) \ {"throws"}}

\* An exception in a coroutine, which may end the process.
Throw(h) == Stop(h) \/ UNCHANGED <<up, keyed, client>>

\* handleRead() of h gets m, which its sender did not encrypt.  Where decrypt()
\* finds no broadcast in it, or checkSelf() holds, nothing happens.
HandleRead(h, m) ==
    /\ h \in up
    /\ m \in net /\ m.to = h /\ m.kind \in {"Connect:", "ping"}
    /\ \/ /\ \/ "throws" \in Ciphered(h)
             \/ "text" \in Ciphered(h) /\ m.kind = "Connect:" /\ h \notin Resolves
          /\ Throw(h)
          /\ UNCHANGED net
       \/ /\ "text" \in Ciphered(h) /\ m.kind = "Connect:" /\ ~CheckSelf(h, m.from)
          /\ \E kind \in Answers(h) : net' = net \union {Datagram(kind, h, m.from)}
          /\ UNCHANGED <<up, keyed, client>>

Next ==
    \/ \E h \in Hosts :
          \/ Start(h) \/ Kill(h) \/ StaleCrash(h) \/ GetKey(h)
          \/ Broadcast(h) \/ WindowCloses(h)
          \/ \E l \in Loops : BeginQueued(h, l) \/ WaitEnds(h, l) \/ Beat(h, l)
          \/ \E m \in net : Found(h, m) \/ HandleRead(h, m)

Spec == Init /\ [][Next]_vars

\* The io_context of a running service runs, and its timers expire.
Fairness ==
    \A h \in Hosts :
        /\ WF_vars(Broadcast(h))
        /\ \A l \in Loops : WF_vars(BeginQueued(h, l) \/ WaitEnds(h, l) \/ Beat(h, l))

FairSpec == Spec /\ Fairness
-------------------------------------------------------------------------------
\* Types.  The list is bounded, and the round stays within it.
TypeOK ==
    /\ up \subseteq Hosts /\ keyed \subseteq up /\ stale \subseteq up
    /\ targets \in [Hosts -> Seq(Hosts)]
    /\ sending \in [Hosts -> BOOLEAN]
    /\ stage \in [Hosts -> [Loops -> {"none", "queued", "waiting", "cancelled", "sending"}]]
    /\ next \in [Hosts -> Nat] /\ upto \in [Hosts -> Nat]
    /\ \A h \in Hosts : next[h] <= upto[h] /\ upto[h] <= Len(targets[h])
    /\ finding \in [Hosts -> {"none", "queued", "open", "closed"}]
    /\ net \subseteq [kind : Kinds, from : Hosts, to : Hosts]
    /\ beaten \in [Hosts -> Seq(Hosts)]

Live(h) == {l \in Loops : stage[h][l] # "none"}

\* However answers, rounds and restarts interleave, a service has at most one
\* loop, it has one as soon as it has a target, and no wait of it is cancelled:
\* two loops would cancel each other's waits on the timer they share.
OneLoop ==
    \A h \in Hosts :
        /\ \A l, m \in Live(h) : l = m
        /\ Live(h) = {} <=> targets[h] = <<>>
        /\ \A l \in Loops : stage[h][l] # "cancelled"

\* Whoever is found by a broadcast is the finder itself, on a host whose own
\* name resolves to the address others see: no peer is ever discovered.
FoundOnlyAtHome ==
    \A h \in Hosts : \A i \in Len(Config[h]) + 1 .. Len(targets[h]) :
        targets[h][i] = h /\ h \in Resolves

Serves(h, t) ==
    /\ h \notin stale
    /\ \E l \in Loops : stage[h][l] = "sending" /\ targets[h][next[h]] = t

\* Every target, configured or found, is sent a beat before long, unless the
\* service stops: by a round whose list has not moved.
EveryTargetBeaten ==
    \A h, t \in Hosts :
        (h \in up /\ \E i \in DOMAIN targets[h] : targets[h][i] = t)
            ~> (h \notin up \/ Serves(h, t))

\* Seen from outside, the services are Beacons: in each round a beat is sent to
\* every target the list had when the round began, once and in order, unless the
\* list has moved, which costs the rest of that round and no more.
Phase(h) ==
    IF h \notin up THEN "off"
    ELSE IF \E l \in Loops : stage[h][l] = "sending" THEN "serving" ELSE "resting"

AsBeacon == INSTANCE Beacon WITH
    phase <- [h \in Hosts |-> Phase(h)], list <- targets, at <- next,
    served <- beaten, spoilt <- stale

KeepsBeating == AsBeacon!FairSpec

===============================================================================
