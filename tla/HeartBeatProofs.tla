---------------------------- MODULE HeartBeatProofs ----------------------------
(***************************************************************************)
(* Theorems about HeartBeat, for any hosts, configurations and ciphers: a  *)
(* service has one loop of beats, discovery finds no one but the finder,   *)
(* and what a client does is what Beacon says.                             *)
(***************************************************************************)
EXTENDS HeartBeat, TLAPS

\* What holds of a service between two steps.  Its loop is "queued" only if the
\* client had targets from the start and looks for none, sending is set from
\* the moment the loop runs, and a round is within the list it began with.
HostInv(h) ==
    /\ h \notin up => targets[h] = <<>> /\ finding[h] = "none"
    /\ finding[h] = "queued" => targets[h] = <<>>
    /\ \A l, m \in Live(h) : l = m
    /\ Live(h) = {} <=> targets[h] = <<>>
    /\ \A l \in Loops :
          /\ stage[h][l] # "cancelled"
          /\ stage[h][l] = "queued" => ~sending[h] /\ finding[h] = "none"
          /\ stage[h][l] \in {"waiting", "sending"} => sending[h]
          /\ stage[h][l] = "sending" => next[h] >= 1
    /\ sending[h] => \E l \in Loops : stage[h][l] \in {"waiting", "sending"}
    /\ (\A l \in Loops : stage[h][l] # "sending") => next[h] = 0 /\ upto[h] = 0

\* Answers in plain text were given by a host to itself.
AnswersComeHome ==
    \A m \in net : m.kind = "Connected" => m.from = m.to /\ m.to \in Resolves

IInv ==
    /\ TypeOK
    /\ \A h \in Hosts : HostInv(h)
    /\ AnswersComeHome
    /\ FoundOnlyAtHome

-------------------------------------------------------------------------------
\* The initial state satisfies the invariant.
THEOREM InitIInv == Init => IInv
<1> SUFFICES ASSUME Init PROVE IInv
    OBVIOUS
<1> USE DEF Init
<1>1. TypeOK
    BY DEF TypeOK
<1>2. ASSUME NEW h \in Hosts PROVE HostInv(h)
    BY DEF HostInv, Live
<1>3. AnswersComeHome
    BY DEF AnswersComeHome
<1>4. FoundOnlyAtHome
    BY ConfigAssumption DEF FoundOnlyAtHome
<1> QED
    BY <1>1, <1>2, <1>3, <1>4 DEF IInv

\* The process of h ends.
LEMMA StopIInv ==
    ASSUME IInv, NEW h \in Hosts, Stop(h), net' = net
    PROVE  IInv'
<1> USE DEF Stop
<1>1. TypeOK'
    BY SMTT(30) DEF IInv, TypeOK
<1>2. ASSUME NEW g \in Hosts PROVE HostInv(g)'
    BY DEF IInv, TypeOK, HostInv, Live
<1>3. AnswersComeHome'
    BY DEF IInv, AnswersComeHome
<1>4. ASSUME NEW g \in Hosts, NEW i \in Len(Config[g]) + 1 .. Len(targets'[g])
      PROVE  targets'[g][i] = g /\ g \in Resolves
    <2>1. CASE g = h
        <3>1. Config[g] \in Seq(Hosts) /\ Len(targets'[g]) = 0
            BY <2>1, ConfigAssumption DEF IInv, TypeOK
        <3> QED
            BY <3>1
    <2>2. CASE g # h
        BY <2>2 DEF IInv, TypeOK, FoundOnlyAtHome
    <2> QED
        BY <2>1, <2>2
<1> QED
    BY <1>1, <1>2, <1>3, <1>4 DEF IInv, FoundOnlyAtHome

\* A host that no component of which changes keeps what holds of it.
LEMMA SameHost ==
    ASSUME NEW g, HostInv(g), g \in up' <=> g \in up,
           targets'[g] = targets[g], sending'[g] = sending[g], stage'[g] = stage[g],
           next'[g] = next[g], upto'[g] = upto[g], finding'[g] = finding[g]
    PROVE  HostInv(g)'
BY DEF HostInv, Live

\* If the list of no host changes, neither does where it came from.
LEMMA SameTargets ==
    ASSUME FoundOnlyAtHome, targets' = targets
    PROVE  FoundOnlyAtHome'
BY DEF FoundOnlyAtHome

\* A step of the network or the key that leaves the client alone.
LEMMA SameClient ==
    ASSUME IInv, UNCHANGED <<up, client>>, keyed' \subseteq up,
           net' \subseteq [kind : Kinds, from : Hosts, to : Hosts], AnswersComeHome'
    PROVE  IInv'
<1>1. TypeOK'
    BY DEF IInv, TypeOK, client
<1>2. ASSUME NEW g \in Hosts PROVE HostInv(g)'
    BY SameHost DEF IInv, client
<1> QED
    BY <1>1, <1>2, SameTargets DEF IInv, client

LEMMA StartIInv ==
    ASSUME IInv, NEW h \in Hosts, Start(h)
    PROVE  IInv'
<1> USE DEF Start, StartClient
<1>0. FreeLoop(h) \in Loops /\ \A l \in Loops : stage[h][l] = "none"
    <2>1. Live(h) = {}
        BY DEF IInv, HostInv
    <2> QED
        BY <2>1, LoopsAssumption DEF Live, FreeLoop
<1>1. TypeOK'
    <2>1. targets' \in [Hosts -> Seq(Hosts)] /\ stage' \in [Hosts ->
              [Loops -> {"none", "queued", "waiting", "cancelled", "sending"}]]
        <3>1. targets' \in [Hosts -> Seq(Hosts)]
            BY ConfigAssumption DEF IInv, TypeOK
        <3>2. CASE UNCHANGED stage
            BY <3>1, <3>2 DEF IInv, TypeOK
        <3>3. CASE stage' = [stage EXCEPT ![h][FreeLoop(h)] = "queued"]
            <4> HIDE DEF Start
            <4> QED
                BY <1>0, <3>1, <3>3 DEF IInv, TypeOK
        <3> QED
            BY <3>2, <3>3
    <2>2. ASSUME NEW g \in Hosts PROVE next'[g] <= upto'[g] /\ upto'[g] <= Len(targets'[g])
        <3>1. CASE g = h
            <4>1. next'[g] = 0 /\ upto'[g] = 0
                BY <1>0, <3>1 DEF IInv, HostInv
            <4>2. Len(targets'[g]) \in Nat
                BY <2>1
            <4> QED
                BY <4>1, <4>2
        <3>2. CASE g # h
            BY <3>2 DEF IInv, TypeOK
        <3> QED
            BY <3>1, <3>2
    <2> QED
        BY <2>1, <2>2 DEF IInv, TypeOK
<1>2. ASSUME NEW g \in Hosts PROVE HostInv(g)'
    <2>1. CASE g # h
        BY <2>1, SameHost DEF IInv, TypeOK
    <2>2. CASE g = h /\ Config[h] = <<>>
        BY <1>0, <2>2 DEF IInv, TypeOK, HostInv, Live
    <2>3. CASE g = h /\ Config[h] # <<>>
        BY <1>0, <2>3 DEF IInv, TypeOK, HostInv, Live
    <2> QED
        BY <2>1, <2>2, <2>3
<1>3. AnswersComeHome'
    BY DEF IInv, AnswersComeHome
<1>4. ASSUME NEW g \in Hosts, NEW i \in Len(Config[g]) + 1 .. Len(targets'[g])
      PROVE  targets'[g][i] = g /\ g \in Resolves
    <2>1. CASE g = h
        <3>1. targets'[g] = Config[g] /\ Len(Config[g]) \in Nat
            BY <2>1, ConfigAssumption DEF IInv, TypeOK
        <3> QED
            BY <3>1
    <2>2. CASE g # h
        BY <2>2 DEF IInv, TypeOK, FoundOnlyAtHome
    <2> QED
        BY <2>1, <2>2
<1> QED
    BY <1>1, <1>2, <1>3, <1>4 DEF IInv, FoundOnlyAtHome

\* A host whose only loop, if it has one, begins its coroutine is in order.
LEMMA BeginHost ==
    ASSUME TypeOK, NEW h \in Hosts, NEW l \in Loops, Begin(h, l),
           \A m \in Live(h) : m = l,
           next'[h] = 0, upto'[h] = 0,
           h \in up', targets'[h] # <<>>, finding'[h] # "queued"
    PROVE  HostInv(h)'
<1>1. ASSUME NEW m \in Loops, m # l PROVE stage[h][m] = "none"
    BY <1>1 DEF Live
<1>2. sending'[h] = TRUE
    BY DEF TypeOK, Begin
<1>3. stage'[h][l] = "waiting" /\ \A m \in Loops : m # l => stage'[h][m] = "none"
    BY <1>1 DEF TypeOK, Begin
<1>4. Live(h)' = {l}
    BY <1>3 DEF Live
<1> QED
    BY <1>2, <1>3, <1>4 DEF HostInv

\* What runs a loop of a host is its only loop, and the host runs with targets.
LEMMA OnlyLoop ==
    ASSUME IInv, NEW h \in Hosts, NEW l \in Loops, stage[h][l] # "none"
    PROVE  /\ \A m \in Live(h) : m = l
           /\ h \in up /\ targets[h] # <<>> /\ finding[h] # "queued"
BY DEF IInv, HostInv, Live

LEMMA BeginQueuedIInv ==
    ASSUME IInv, NEW h \in Hosts, NEW l \in Loops, BeginQueued(h, l)
    PROVE  IInv'
<1> USE DEF BeginQueued
<1>1. TypeOK'
    BY DEF IInv, TypeOK, Begin
<1>2. ASSUME NEW g \in Hosts PROVE HostInv(g)'
    <2>1. CASE g # h
        BY <2>1, SameHost DEF IInv, TypeOK, Begin
    <2>2. CASE g = h
        <3>1. \A m \in Loops : stage[h][m] # "sending"
            BY OnlyLoop DEF Live
        <3>2. next'[h] = 0 /\ upto'[h] = 0
            BY <3>1 DEF IInv, HostInv
        <3> QED
            BY <2>2, <3>2, OnlyLoop, BeginHost DEF IInv
    <2> QED
        BY <2>1, <2>2
<1>3. AnswersComeHome' /\ FoundOnlyAtHome'
    BY SameTargets DEF IInv, AnswersComeHome
<1> QED
    BY <1>1, <1>2, <1>3 DEF IInv

LEMMA WaitEndsIInv ==
    ASSUME IInv, NEW h \in Hosts, NEW l \in Loops, WaitEnds(h, l)
    PROVE  IInv'
<1>0. /\ stage[h][l] = "waiting" /\ sending[h]
      /\ stage' = [stage EXCEPT ![h][l] = "sending"]
      /\ next' = [next EXCEPT ![h] = 1]
      /\ upto' = [upto EXCEPT ![h] = Len(targets[h])]
      /\ beaten' = [beaten EXCEPT ![h] = <<>>]
      /\ UNCHANGED <<up, keyed, targets, sending, stale, finding, net>>
    BY DEF WaitEnds, RoundEnd, IInv, HostInv
<1>0a. Len(targets[h]) \in Nat /\ Len(targets[h]) >= 1
    <2>1. targets[h] \in Seq(Hosts) /\ targets[h] # <<>>
        BY <1>0, OnlyLoop DEF IInv, TypeOK
    <2> QED
        BY <2>1
<1>1. TypeOK'
    <2>1. stage' \in [Hosts -> [Loops -> {"none", "queued", "waiting", "cancelled", "sending"}]]
        BY <1>0 DEF IInv, TypeOK
    <2>2. \A g \in Hosts : next'[g] <= upto'[g] /\ upto'[g] <= Len(targets'[g])
        BY <1>0, <1>0a DEF IInv, TypeOK
    <2>3. beaten' \in [Hosts -> Seq(Hosts)]
        BY <1>0 DEF IInv, TypeOK
    <2> QED
        BY <1>0, <1>0a, <2>1, <2>2, <2>3 DEF IInv, TypeOK
<1>2. ASSUME NEW g \in Hosts PROVE HostInv(g)'
    <2>1. CASE g # h
        BY <1>0, <2>1, SameHost DEF IInv, TypeOK
    <2>2. CASE g = h
        <3>1. stage'[h][l] = "sending" /\ \A m \in Loops : m # l => stage'[h][m] = "none"
            BY <1>0, OnlyLoop DEF IInv, TypeOK, Live
        <3>2. Live(h)' = {l}
            BY <3>1 DEF Live
        <3>3. next'[h] = 1
            BY <1>0 DEF IInv, TypeOK
        <3> QED
            BY <1>0, <2>2, <3>1, <3>2, <3>3, OnlyLoop DEF IInv, HostInv
    <2> QED
        BY <2>1, <2>2
<1>3. AnswersComeHome' /\ FoundOnlyAtHome'
    BY <1>0, SameTargets DEF IInv, AnswersComeHome
<1> QED
    BY <1>1, <1>2, <1>3 DEF IInv

LEMMA BeatIInv ==
    ASSUME IInv, NEW h \in Hosts, NEW l \in Loops, Beat(h, l)
    PROVE  IInv'
<1> USE DEF Beat
<1>0. /\ net' \subseteq [kind : Kinds, from : Hosts, to : Hosts] /\ AnswersComeHome'
      /\ beaten' \in [Hosts -> Seq(Hosts)]
    <2>1. CASE UNCHANGED <<net, beaten>>
        BY <2>1 DEF IInv, TypeOK, AnswersComeHome
    <2>2. CASE SendTo(h, targets[h][next[h]])
        <3>1. next[h] \in Nat /\ next[h] >= 1 /\ next[h] <= Len(targets[h])
            BY DEF IInv, TypeOK, HostInv
        <3>2. targets[h][next[h]] \in Hosts
            BY <3>1 DEF IInv, TypeOK
        <3>3. beaten[h] \in Seq(Hosts)
            BY DEF IInv, TypeOK
        <3>4. Append(beaten[h], targets[h][next[h]]) \in Seq(Hosts)
            BY <3>2, <3>3
        <3>5. beaten' \in [Hosts -> Seq(Hosts)]
            BY <2>2, <3>4 DEF IInv, TypeOK, SendTo
        <3>6. net' = net \union {Datagram("ping", h, targets[h][next[h]])}
            BY <2>2 DEF SendTo
        <3> HIDE DEF Beat
        <3>7. net' \subseteq [kind : Kinds, from : Hosts, to : Hosts]
            <4>1. net \subseteq [kind : Kinds, from : Hosts, to : Hosts]
                BY DEF IInv, TypeOK
            <4>2. Datagram("ping", h, targets[h][next[h]])
                      \in [kind : Kinds, from : Hosts, to : Hosts]
                BY <3>2 DEF Datagram, Kinds
            <4> QED
                BY <3>6, <4>1, <4>2
        <3>8. AnswersComeHome'
            BY <3>6 DEF IInv, AnswersComeHome, Datagram
        <3> QED
            BY <3>5, <3>7, <3>8
    <2> QED
        BY <2>1, <2>2
<1>0b. stage[h][l] = "sending" /\ UNCHANGED <<up, keyed, targets, finding>>
    OBVIOUS
<1>1. CASE /\ next[h] < upto[h]
           /\ next' = [next EXCEPT ![h] = @ + 1]
           /\ UNCHANGED <<stage, sending, upto, stale>>
    <2> HIDE DEF Beat
    <2>0. /\ next' \in [Hosts -> Nat] /\ next'[h] = next[h] + 1
          /\ \A g \in Hosts : g # h => next'[g] = next[g]
        <3>1. next \in [Hosts -> Nat] /\ next[h] + 1 \in Nat
            BY DEF IInv, TypeOK
        <3> QED
            BY <1>1, <3>1
    <2>1. TypeOK'
        <3>1. ASSUME NEW g \in Hosts PROVE next'[g] <= upto'[g] /\ upto'[g] <= Len(targets'[g])
            <4>1. next[h] \in Nat /\ upto[h] \in Nat
                BY DEF IInv, TypeOK
            <4> QED
                BY <1>0b, <1>1, <2>0, <4>1 DEF IInv, TypeOK
        <3> QED
            BY <1>0, <1>0b, <1>1, <2>0, <3>1 DEF IInv, TypeOK
    <2>2. ASSUME NEW g \in Hosts PROVE HostInv(g)'
        <3>1. CASE g # h
            BY <1>0b, <1>1, <2>0, <3>1, SameHost DEF IInv
        <3>2. CASE g = h
            <4>1. HostInv(h) /\ next'[h] >= 1
                BY <2>0 DEF IInv, TypeOK
            <4>2. Live(h)' = Live(h)
                BY <1>1 DEF Live
            <4> QED
                BY <1>0b, <1>1, <3>2, <4>1, <4>2 DEF HostInv
        <3> QED
            BY <3>1, <3>2
    <2> QED
        BY <1>0, <1>0b, <2>1, <2>2, SameTargets DEF IInv
<1>2. CASE EndRound(h, l)
    <2> HIDE DEF Beat
    <2> USE DEF EndRound
    <2>1. TypeOK'
        <3>1. /\ sending' \in [Hosts -> BOOLEAN]
              /\ stage' \in [Hosts -> [Loops ->
                    {"none", "queued", "waiting", "cancelled", "sending"}]]
            BY <1>2 DEF IInv, TypeOK, Begin
        <3>2. /\ next' \in [Hosts -> Nat] /\ upto' \in [Hosts -> Nat]
              /\ \A g \in Hosts : next'[g] <= upto'[g] /\ upto'[g] <= Len(targets[g])
            <4>1. ASSUME NEW g \in Hosts PROVE Len(targets[g]) \in Nat
                BY DEF IInv, TypeOK
            <4> QED
                BY <1>2, <4>1 DEF IInv, TypeOK
        <3> QED
            BY <1>0, <1>0b, <1>2, <3>1, <3>2 DEF IInv, TypeOK
    <2>2. ASSUME NEW g \in Hosts PROVE HostInv(g)'
        <3>1. CASE g # h
            BY <1>0b, <1>2, <3>1, SameHost DEF IInv, TypeOK, Begin
        <3>2. CASE g = h
            <4>1. next'[h] = 0 /\ upto'[h] = 0
                BY <1>2 DEF IInv, TypeOK
            <4> QED
                BY <1>0b, <1>2, <3>2, <4>1, OnlyLoop, BeginHost DEF IInv
        <3> QED
            BY <3>1, <3>2
    <2> QED
        BY <1>0, <1>0b, <2>1, <2>2, SameTargets DEF IInv
<1> QED
    BY <1>1, <1>2

LEMMA FoundIInv ==
    ASSUME IInv, NEW h \in Hosts, NEW m \in net, Found(h, m)
    PROVE  IInv'
<1>0. /\ m.from = h /\ h \in Resolves /\ targets' = [targets EXCEPT ![h] = Append(@, h)]
      /\ finding[h] = "open" /\ h \in up
      /\ UNCHANGED <<up, keyed, next, upto, finding, net, beaten>>
    <2>1. finding[h] = "open" /\ h \in up
        BY DEF Found, IInv, HostInv
    <2>2. m.from = h /\ h \in Resolves
        BY DEF Found, IInv, AnswersComeHome
    <2> QED
        BY <2>1, <2>2 DEF Found
<1>0a. /\ targets[h] \in Seq(Hosts) /\ targets'[h] = Append(targets[h], h)
       /\ targets'[h] \in Seq(Hosts) /\ targets'[h] # <<>>
       /\ Len(targets[h]) \in Nat /\ Len(targets'[h]) = Len(targets[h]) + 1
    <2>1. targets[h] \in Seq(Hosts) /\ targets'[h] = Append(targets[h], h)
        BY <1>0 DEF IInv, TypeOK
    <2> QED
        BY <2>1
<1>0b. stale' \subseteq up
    BY <1>0 DEF Found, IInv, TypeOK
<1>0c. /\ targets' \in [Hosts -> Seq(Hosts)]
       /\ \A g \in Hosts : next'[g] <= upto'[g] /\ upto'[g] <= Len(targets'[g])
    <2>1. targets' \in [Hosts -> Seq(Hosts)]
        BY <1>0, <1>0a DEF IInv, TypeOK
    <2>2. ASSUME NEW g \in Hosts PROVE next'[g] <= upto'[g] /\ upto'[g] <= Len(targets'[g])
        <3>1. /\ next'[g] = next[g] /\ upto'[g] = upto[g] /\ upto[g] \in Nat
              /\ next[g] <= upto[g] /\ upto[g] <= Len(targets[g])
            BY <1>0 DEF IInv, TypeOK
        <3>2. CASE g = h
            BY <1>0a, <3>1, <3>2
        <3>3. CASE g # h
            BY <1>0, <3>1, <3>3 DEF IInv, TypeOK
        <3> QED
            BY <3>2, <3>3
    <2> QED
        BY <2>1, <2>2
<1>1. ASSUME sending[h], UNCHANGED <<stage, sending>>
      PROVE  TypeOK' /\ \A g \in Hosts : HostInv(g)'
    <2>1. TypeOK'
        BY <1>0, <1>0b, <1>0c, <1>1 DEF IInv, TypeOK
    <2>2. ASSUME NEW g \in Hosts PROVE HostInv(g)'
        <3>1. CASE g # h
            BY <1>0, <1>1, <3>1, SameHost DEF IInv, TypeOK
        <3>2. CASE g = h
            <4>1. PICK l \in Loops : stage[h][l] \in {"waiting", "sending"}
                BY <1>1 DEF IInv, HostInv
            <4>2. Live(h)' = Live(h) /\ Live(h) # {}
                BY <1>1, <4>1 DEF Live
            <4> QED
                BY <1>0, <1>0a, <1>1, <3>2, <4>2 DEF IInv, HostInv
        <3> QED
            BY <3>1, <3>2
    <2> QED
        BY <2>1, <2>2
<1>2. ASSUME ~sending[h], Begin(h, FreeLoop(h))
      PROVE  TypeOK' /\ \A g \in Hosts : HostInv(g)'
    <2>1. \A l \in Loops : stage[h][l] = "none"
        BY <1>0, <1>2 DEF IInv, TypeOK, HostInv
    <2>2. FreeLoop(h) \in Loops
        BY <2>1, LoopsAssumption DEF FreeLoop
    <2>3. TypeOK'
        <3>1. /\ sending' \in [Hosts -> BOOLEAN]
              /\ stage' \in [Hosts -> [Loops ->
                    {"none", "queued", "waiting", "cancelled", "sending"}]]
            BY <1>2, <2>2 DEF IInv, TypeOK, Begin
        <3> QED
            BY <1>0, <1>0b, <1>0c, <3>1 DEF IInv, TypeOK
    <2>4. ASSUME NEW g \in Hosts PROVE HostInv(g)'
        <3>1. CASE g # h
            BY <1>0, <1>2, <3>1, SameHost DEF IInv, TypeOK, Begin
        <3>2. CASE g = h
            <4>1. next'[h] = 0 /\ upto'[h] = 0
                BY <1>0, <2>1 DEF IInv, HostInv
            <4>2. \A l \in Live(h) : l = FreeLoop(h)
                BY <2>1 DEF Live
            <4> QED
                BY <1>0, <1>0a, <1>2, <2>2, <3>2, <4>1, <4>2, BeginHost DEF IInv
        <3> QED
            BY <3>1, <3>2
    <2> QED
        BY <2>3, <2>4
<1>3. TypeOK' /\ \A g \in Hosts : HostInv(g)'
    BY <1>1, <1>2 DEF Found, SendBeats
<1>4. ASSUME NEW g \in Hosts, NEW i \in Len(Config[g]) + 1 .. Len(targets'[g])
      PROVE  targets'[g][i] = g /\ g \in Resolves
    <2>1. CASE g = h
        <3>1. Len(Config[h]) \in Nat
            BY ConfigAssumption
        <3>2. CASE i = Len(targets[h]) + 1
            BY <1>0, <1>0a, <2>1, <3>2
        <3>3. CASE i # Len(targets[h]) + 1
            <4>1. i \in Len(Config[h]) + 1 .. Len(targets[h]) /\ i >= 1
                BY <1>0a, <2>1, <3>1, <3>3
            <4>2. targets'[h][i] = targets[h][i]
                BY <1>0a, <4>1
            <4> QED
                BY <2>1, <4>1, <4>2 DEF IInv, FoundOnlyAtHome
        <3> QED
            BY <3>2, <3>3
    <2>2. CASE g # h
        BY <1>0, <2>2 DEF IInv, TypeOK, FoundOnlyAtHome
    <2> QED
        BY <2>1, <2>2
<1> QED
    BY <1>0, <1>3, <1>4 DEF IInv, FoundOnlyAtHome, AnswersComeHome

LEMMA HandleReadIInv ==
    ASSUME IInv, NEW h \in Hosts, NEW m \in net, HandleRead(h, m)
    PROVE  IInv'
<1>1. CASE Throw(h) /\ UNCHANGED net
    <2>1. CASE Stop(h)
        BY <1>1, <2>1, StopIInv
    <2>2. CASE UNCHANGED <<up, keyed, client>>
        BY <1>1, <2>2, SameClient DEF IInv, TypeOK, AnswersComeHome
    <2> QED
        BY <1>1, <2>1, <2>2 DEF Throw
<1>2. CASE /\ ~CheckSelf(h, m.from)
           /\ \E kind \in Answers(h) : net' = net \union {Datagram(kind, h, m.from)}
           /\ UNCHANGED <<up, keyed, client>>
    <2>1. PICK kind \in Answers(h) : net' = net \union {Datagram(kind, h, h)}
        BY <1>2 DEF CheckSelf
    <2>2. h \in Resolves /\ kind \in Kinds
        BY <1>2 DEF CheckSelf, Answers, Kinds
    <2>3. net' \subseteq [kind : Kinds, from : Hosts, to : Hosts] /\ AnswersComeHome'
        BY <2>1, <2>2 DEF IInv, TypeOK, AnswersComeHome, Datagram
    <2> QED
        BY <1>2, <2>3, SameClient DEF IInv, TypeOK
<1> QED
    BY <1>1, <1>2 DEF HandleRead

\* Every step of every service keeps the invariant.
THEOREM Inductive == IInv /\ [Next]_vars => IInv'
<1> SUFFICES ASSUME IInv, [Next]_vars PROVE IInv'
    OBVIOUS
<1>1. CASE UNCHANGED vars
    BY <1>1, SameClient DEF vars, IInv, TypeOK, AnswersComeHome
<1>2. ASSUME NEW h \in Hosts,
             Kill(h) \/ StaleCrash(h) \/ GetKey(h) \/ Broadcast(h) \/ WindowCloses(h)
      PROVE  IInv'
    <2>1. CASE Kill(h) \/ StaleCrash(h)
        BY <2>1, StopIInv DEF Kill, StaleCrash
    <2>2. CASE GetKey(h)
        BY <2>2, SameClient DEF GetKey, IInv, TypeOK, AnswersComeHome
    <2>3. CASE Broadcast(h)
        <3> USE <2>3 DEF Broadcast
        <3>1. TypeOK' /\ AnswersComeHome'
            BY DEF IInv, TypeOK, AnswersComeHome, Datagram, Kinds
        <3>2. ASSUME NEW g \in Hosts PROVE HostInv(g)'
            <4>1. CASE g # h
                BY <4>1, SameHost DEF IInv, TypeOK
            <4>2. CASE g = h
                <5>1. HostInv(h) /\ finding[h] = "queued" /\ finding'[h] = "open"
                    BY DEF IInv, TypeOK
                <5>2. UNCHANGED <<up, targets, sending, stage, next, upto>> /\ Live(h)' = Live(h)
                    BY DEF Live
                <5> HIDE <2>3 DEF Broadcast
                <5> QED
                    BY <4>2, <5>1, <5>2 DEF HostInv
            <4> QED
                BY <4>1, <4>2
        <3> QED
            BY <3>1, <3>2, SameTargets DEF IInv
    <2>4. CASE WindowCloses(h)
        <3> USE <2>4 DEF WindowCloses
        <3>1. TypeOK' /\ AnswersComeHome'
            BY DEF IInv, TypeOK, AnswersComeHome
        <3>2. ASSUME NEW g \in Hosts PROVE HostInv(g)'
            <4>1. CASE g # h
                BY <4>1, SameHost DEF IInv, TypeOK
            <4>2. CASE g = h
                <5>1. HostInv(h) /\ finding[h] = "open" /\ finding'[h] = "closed"
                    BY DEF IInv, TypeOK
                <5>2. UNCHANGED <<up, targets, sending, stage, next, upto>> /\ Live(h)' = Live(h)
                    BY DEF Live
                <5>3. \A l \in Loops : stage[h][l] # "queued"
                    BY <5>1 DEF HostInv
                <5> HIDE <2>4 DEF WindowCloses
                <5> QED
                    BY <4>2, <5>1, <5>2, <5>3 DEF HostInv
            <4> QED
                BY <4>1, <4>2
        <3> QED
            BY <3>1, <3>2, SameTargets DEF IInv
    <2> QED
        BY <1>2, <2>1, <2>2, <2>3, <2>4
<1> QED
    BY <1>1, <1>2, StartIInv, BeginQueuedIInv, WaitEndsIInv, BeatIInv, FoundIInv,
       HandleReadIInv DEF Next

\* In every execution every reachable state satisfies the invariant.
THEOREM Invariant == Spec => []IInv
BY InitIInv, Inductive, PTL DEF Spec

\* The lists and the rounds through them are within their bounds.
THEOREM TypeCorrect == Spec => []TypeOK
<1>1. IInv => TypeOK
    BY DEF IInv
<1> QED
    BY <1>1, Invariant, PTL

\* No two loops of one service ever share its timer.
THEOREM OneLoopAlways == Spec => []OneLoop
<1>1. IInv => OneLoop
    BY DEF IInv, HostInv, OneLoop
<1> QED
    BY <1>1, Invariant, PTL

\* A broadcast finds the finder itself or no one.
THEOREM NoPeerIsFound == Spec => []FoundOnlyAtHome
<1>1. IInv => FoundOnlyAtHome
    BY DEF IInv
<1> QED
    BY <1>1, Invariant, PTL

-------------------------------------------------------------------------------
(***************************************************************************)
(* Each step of HeartBeat, as seen by Beacon.                              *)
(***************************************************************************)
phases == [h \in Hosts |-> Phase(h)]

\* A host of which no loop begins or ends a round stays in its phase.
LEMMA SamePhase ==
    ASSUME NEW g \in Hosts, g \in up' <=> g \in up,
           \A l \in Loops : stage'[g][l] = "sending" <=> stage[g][l] = "sending"
    PROVE  Phase(g)' = Phase(g)
BY DEF Phase

\* A step that changes the phase of at most one host is a move of that host.
LEMMA OneMoves ==
    ASSUME NEW h \in Hosts, \A g \in Hosts : g # h => Phase(g)' = Phase(g)
    PROVE  phases' = [phases EXCEPT ![h] = Phase(h)']
BY DEF phases

\* The end of a process turns the beacon off.
LEMMA StopIsTurnOff ==
    ASSUME IInv, NEW h \in Hosts, Stop(h)
    PROVE  AsBeacon!TurnOff(h)
<1>1. ASSUME NEW g \in Hosts, g # h PROVE Phase(g)' = Phase(g)
    BY <1>1, SamePhase DEF IInv, TypeOK, Stop
<1>2. Phase(h)' = "off"
    BY DEF Phase, Stop
<1> QED
    BY <1>1, <1>2, OneMoves DEF AsBeacon!TurnOff, AsBeacon!Idle, Stop, phases

\* Its start turns the beacon on, with the configured list.
LEMMA StartIsTurnOn ==
    ASSUME IInv, NEW h \in Hosts, Start(h)
    PROVE  AsBeacon!TurnOn(h)
<1> USE DEF Start, StartClient
<1>1. \A l \in Loops : stage[h][l] = "none"
    BY DEF IInv, HostInv, Live
<1>2. ASSUME NEW g \in Hosts, g # h PROVE Phase(g)' = Phase(g)
    BY <1>2, SamePhase DEF IInv, TypeOK
<1>3. Phase(h) = "off" /\ Phase(h)' = "resting"
    <2>1. stage \in [Hosts -> [Loops -> {"none", "queued", "waiting", "cancelled", "sending"}]]
        BY DEF IInv, TypeOK
    <2>2. ASSUME NEW l \in Loops PROVE stage'[h][l] # "sending"
        <3> HIDE DEF Start
        <3>1. CASE UNCHANGED stage
            BY <1>1, <3>1
        <3>2. CASE stage' = [stage EXCEPT ![h][FreeLoop(h)] = "queued"]
            BY <1>1, <2>1, <3>2
        <3> QED
            BY <3>1, <3>2 DEF Start
    <2> QED
        BY <2>2 DEF Phase
<1>4. next'[h] = 0 /\ upto'[h] = 0 /\ UNCHANGED <<next, upto>>
    BY <1>1 DEF IInv, HostInv
<1>5. AsBeacon!Idle(h)
    BY <1>4 DEF AsBeacon!Idle, IInv, TypeOK
<1>6. targets' = [targets EXCEPT ![h] = targets'[h]] /\ targets'[h] \in Seq(Hosts)
    BY ConfigAssumption DEF IInv, TypeOK
<1> QED
    BY <1>2, <1>3, <1>5, <1>6, OneMoves DEF AsBeacon!TurnOn, AsBeacon!Move, phases

\* The end of a wait begins a round through the list as it is.
LEMMA WaitEndsIsBeginRound ==
    ASSUME IInv, NEW h \in Hosts, NEW l \in Loops, WaitEnds(h, l)
    PROVE  AsBeacon!BeginRound(h)
<1>0. /\ stage[h][l] = "waiting"
      /\ stage' = [stage EXCEPT ![h][l] = "sending"]
      /\ next' = [next EXCEPT ![h] = 1]
      /\ upto' = [upto EXCEPT ![h] = Len(targets[h])]
      /\ UNCHANGED <<up, targets>>
    BY DEF WaitEnds, RoundEnd, IInv, HostInv
<1>1. h \in up /\ targets[h] # <<>> /\ \A m \in Live(h) : m = l
    BY <1>0, OnlyLoop
<1>2. ASSUME NEW g \in Hosts, g # h PROVE Phase(g)' = Phase(g)
    BY <1>0, <1>2, SamePhase DEF IInv, TypeOK
<1>3. Phase(h) = "resting" /\ Phase(h)' = "serving"
    <2>1. stage'[h][l] = "sending"
        BY <1>0 DEF IInv, TypeOK
    <2>2. \A m \in Loops : stage[h][m] # "sending"
        BY <1>0, <1>1 DEF Live
    <2> QED
        BY <1>0, <1>1, <2>1, <2>2 DEF Phase
<1>4. beaten' = [beaten EXCEPT ![h] = <<>>] /\ UNCHANGED stale
    BY <1>0 DEF WaitEnds
<1> QED
    BY <1>0, <1>1, <1>2, <1>3, <1>4, OneMoves DEF AsBeacon!BeginRound, AsBeacon!Move, phases

\* A beat goes on to the next entry, or ends the round after the last.
LEMMA BeatIsServe ==
    ASSUME IInv, NEW h \in Hosts, NEW l \in Loops, Beat(h, l)
    PROVE  AsBeacon!ServeNext(h) \/ AsBeacon!EndRound(h)
<1>0. stage[h][l] = "sending" /\ UNCHANGED <<up, targets>>
    BY DEF Beat
<1>1. Phase(h) = "serving" /\ h \in up /\ \A m \in Live(h) : m = l
    BY <1>0, OnlyLoop DEF Phase
<1>1a. AsBeacon!Serve(h)
    BY DEF Beat, SendTo, AsBeacon!Serve
<1>2. CASE next[h] < upto[h] /\ next' = [next EXCEPT ![h] = @ + 1]
           /\ UNCHANGED <<stage, upto, stale>>
    <2>1. \A g \in Hosts : Phase(g)' = Phase(g)
        BY <1>0, <1>2, SamePhase
    <2> QED
        BY <1>0, <1>1, <1>1a, <1>2, <2>1 DEF AsBeacon!ServeNext, phases
<1>3. CASE next[h] >= upto[h] /\ EndRound(h, l)
    <2>1. next[h] = upto[h]
        BY <1>3 DEF IInv, TypeOK
    <2>2. ASSUME NEW g \in Hosts, g # h PROVE Phase(g)' = Phase(g)
        BY <1>0, <1>3, <2>2, SamePhase DEF IInv, TypeOK, EndRound, Begin
    <2>3. Phase(h)' = "resting"
        <3>1. \A m \in Loops : stage'[h][m] # "sending"
            BY <1>1, <1>3 DEF IInv, TypeOK, EndRound, Begin, Live
        <3> QED
            BY <1>0, <1>1, <3>1 DEF Phase
    <2> QED
        BY <1>0, <1>1, <1>1a, <1>3, <2>1, <2>2, <2>3, OneMoves
        DEF AsBeacon!EndRound, AsBeacon!Move, AsBeacon!Idle, EndRound, phases
<1> QED
    BY <1>2, <1>3 DEF Beat

\* An answer in plain text adds to the list.
LEMMA FoundIsLearn ==
    ASSUME IInv, NEW h \in Hosts, NEW m \in net, Found(h, m)
    PROVE  AsBeacon!Learn(h)
<1>1. /\ targets' = [targets EXCEPT ![h] = Append(@, m.from)]
      /\ m.from \in Hosts /\ h \in up /\ UNCHANGED <<up, next, upto>>
    BY DEF Found, IInv, TypeOK, HostInv
<1>2. ASSUME NEW g \in Hosts PROVE Phase(g)' = Phase(g)
    <2>1. CASE UNCHANGED stage
        BY <1>1, <2>1, SamePhase
    <2>2. CASE ~sending[h] /\ Begin(h, FreeLoop(h))
        <3>1. \A l \in Loops : stage[h][l] # "sending"
            BY <2>2 DEF IInv, HostInv
        <3>2. \A l \in Loops : stage'[g][l] = "sending" <=> stage[g][l] = "sending"
            BY <2>2, <3>1 DEF IInv, TypeOK, Begin
        <3> QED
            BY <1>1, <3>2, SamePhase
    <2> QED
        BY <2>1, <2>2 DEF Found, SendBeats
<1>3. Phase(h) # "off" /\ UNCHANGED beaten
    BY <1>1 DEF Phase, Found
<1>4. UNCHANGED stale \/ (Phase(h) = "serving" /\ stale' = stale \union {h})
    <2>1. CASE \E l \in Loops : stage[h][l] = "sending"
        <3>1. Phase(h) = "serving"
            BY <1>1, <2>1 DEF Phase
        <3> QED
            BY <3>1 DEF Found
    <2>2. CASE ~\E l \in Loops : stage[h][l] = "sending"
        BY <2>2 DEF Found
    <2> QED
        BY <2>1, <2>2
<1> QED
    BY <1>1, <1>2, <1>3, <1>4 DEF AsBeacon!Learn

\* Whatever else a service does cannot be seen.
LEMMA Unseen ==
    ASSUME UNCHANGED <<up, targets, next, upto, beaten, stale>>,
           \A g \in Hosts : \A l \in Loops :
               stage'[g][l] = "sending" <=> stage[g][l] = "sending"
    PROVE  UNCHANGED AsBeacon!vars
<1>1. \A g \in Hosts : Phase(g)' = Phase(g)
    BY SamePhase
<1> QED
    BY <1>1 DEF AsBeacon!vars

\* The initial state, and every step of every service, as Beacon has it.
LEMMA StepRefines ==
    ASSUME IInv, [Next]_vars
    PROVE  [AsBeacon!Next]_AsBeacon!vars
<1>1. CASE UNCHANGED vars
    BY <1>1, Unseen DEF vars, client
<1>2. ASSUME NEW h \in Hosts, Start(h) \/ Stop(h) PROVE AsBeacon!Next
    BY <1>2, StartIsTurnOn, StopIsTurnOff DEF AsBeacon!Next
<1>3. ASSUME NEW h \in Hosts, GetKey(h) \/ Broadcast(h) \/ WindowCloses(h)
      PROVE  UNCHANGED AsBeacon!vars
    BY <1>3, Unseen DEF GetKey, Broadcast, WindowCloses, client
<1>4. ASSUME NEW h \in Hosts, NEW l \in Loops, BeginQueued(h, l)
      PROVE  UNCHANGED AsBeacon!vars
    <2>1. stage[h][l] = "queued" /\ \A k \in Loops : stage[h][k] # "sending"
        BY <1>4, OnlyLoop DEF BeginQueued, Live
    <2> QED
        BY <1>4, <2>1, Unseen DEF BeginQueued, Begin, IInv, TypeOK
<1>5. ASSUME NEW h \in Hosts, NEW l \in Loops, WaitEnds(h, l) \/ Beat(h, l)
      PROVE  AsBeacon!Next
    BY <1>5, WaitEndsIsBeginRound, BeatIsServe DEF AsBeacon!Next
<1>6. ASSUME NEW h \in Hosts, NEW m \in net, Found(h, m) PROVE AsBeacon!Next
    BY <1>6, FoundIsLearn DEF AsBeacon!Next
<1>7. ASSUME NEW h \in Hosts, NEW m \in net, HandleRead(h, m)
      PROVE  Stop(h) \/ UNCHANGED AsBeacon!vars
    BY <1>7, Unseen DEF HandleRead, Throw, client
<1> QED
    BY <1>1, <1>2, <1>3, <1>4, <1>5, <1>6, <1>7 DEF Next, Kill, StaleCrash

\* Seen from outside, the services are Beacons: the safety part of KeepsBeating.
THEOREM RefinesBeacon == Spec => AsBeacon!Spec
<1>1. Init => AsBeacon!Init
    BY DEF Init, AsBeacon!Init, Phase
<1>2. IInv /\ [Next]_vars => [AsBeacon!Next]_AsBeacon!vars
    BY StepRefines
<1> QED
    BY <1>1, <1>2, Invariant, PTL DEF Spec, AsBeacon!Spec

===============================================================================
