----------------------- MODULE AggregatorPromiseProofs -----------------------
(***************************************************************************)
(* One request per path at a time, the aggregator implements ScatterGather *)
(* for every set of clients, list of satellites, set of requests and kind  *)
(* of reply.  What makes it so is that a client that gathers is the only   *)
(* one whose replies are still to come for its path (Serial): either the   *)
(* path is its own, or a block is in its way that no reply of its own can  *)
(* complete.                                                               *)
(***************************************************************************)
EXTENDS AggregatorMergeProofs

Pending(c) == pc[c] \in {"forwarding", "gathering"}

OneWaiter ==
    \A c, d \in Clients : Pending(c) /\ Pending(d) /\ req[c].path = req[d].path => c = d

\* A client that came too late finds a block that is not its own.
Late ==
    \A c \in Clients :
        pc[c] = "gathering" /\ c \notin solo =>
            /\ req[c].path \in DOMAIN blocks
            /\ blocks[req[c].path].owner # c

OpenWhileGathering ==
    \A c \in Clients, r \in Sats :
        calls[c][r] \in Open => pc[c] = "gathering" /\ Collection(req[c])

Serial == ~Overlap => OneWaiter /\ Late /\ OpenWhileGathering

-----------------------------------------------------------------------------
\* A reply to a client that gathers goes to its own block and completes it with
\* the last of them, or goes to a block that stays as it is.
LEMMA SerialReply ==
  ASSUME IInv, OnceInv, SoloInv, Serial, ~Overlap,
         NEW c \in Clients, NEW r \in Sats, NEW v \in SatReplies, calls[c][r] = "call",
         calls'[c] = [calls[c] EXCEPT ![r] = v],
         NEW path, path = req[c].path,
         NEW b, b = Arrive(path, [sat |-> r, from |-> c, val |-> v])
  PROVE  /\ pc[c] = "gathering"
         /\ path \in DOMAIN blocks
         /\ c \in solo => b.owner = c /\ b.results \in Seq(Result)
         /\ c \in solo /\ b.count = 0 => Complete(c, b.results, calls'[c])
         /\ c \in solo /\ AllReplied(calls'[c]) => b.count = 0
         /\ c \notin solo => b.count # 0 /\ b.owner # c
<1>1. pc[c] = "gathering"
  BY DEF Serial, OpenWhileGathering, Open
<1>2. CASE c \in solo
  <2>1. Solo(c)
    BY <1>2 DEF SoloInv
  <2>2. /\ path \in DOMAIN blocks /\ b.owner = c /\ b.results \in Seq(Result)
        /\ b.count = 0 => Complete(c, b.results, calls'[c])
        /\ AllReplied(calls'[c]) => b.count = 0
    BY <1>1, <2>1, OwnReplyParts
  <2> QED
    BY <1>1, <1>2, <2>2
<1>3. CASE c \notin solo
  <2>1. path \in DOMAIN blocks /\ blocks[path].owner # c
    BY <1>1, <1>3 DEF Serial, Late
  <2>2. /\ b.owner = BlockOf(path).owner
        /\ b.count = 0 => /\ b.owner \in Clients
                          /\ pc[b.owner] = "gathering"
                          /\ req[b.owner].path = path
    BY LastReply
  <2>3. b.owner = blocks[path].owner
    BY <2>1, <2>2 DEF BlockOf
  <2>4. ASSUME b.count = 0 PROVE FALSE
    BY <1>1, <2>1, <2>2, <2>3, <2>4 DEF Serial, OneWaiter, Pending
  <2> QED
    BY <1>1, <1>3, <2>1, <2>3, <2>4
<1> QED
  BY <1>2, <1>3

\* If the block of a path is not quiet when a client asks the satellites, it is
\* there and another's.
LEMMA NotQuiet ==
  ASSUME IInv, Serial, ~Overlap, NEW c \in Clients, pc[c] = "forwarding",
         ~Quiet(req[c].path)
  PROVE  req[c].path \in DOMAIN blocks /\ blocks[req[c].path].owner # c
<1>1. \A d \in Askers(req[c].path), r \in Sats : calls[d][r] \notin {"login", "call"}
  <2>1. SUFFICES ASSUME NEW d \in Askers(req[c].path), NEW r \in Sats, calls[d][r] \in Open
                 PROVE  FALSE
    BY DEF Open
  <2>2. d \in Clients /\ pc[d] = "gathering" /\ req[d].path = req[c].path
    BY <2>1 DEF Serial, OpenWhileGathering, Askers
  <2> QED
    BY <2>2 DEF Serial, OneWaiter, Pending
<1>2. req[c].path \in DOMAIN blocks
  BY <1>1 DEF Quiet
<1>3. blocks[req[c].path].owner # c
  BY <1>2, NobodyAssumption DEF IInv, OwnersMatch
<1> QED
  BY <1>2, <1>3

\* A step of others, and one that ends c's request, leaves Serial as it is.
LEMMA SerialSame ==
  ASSUME IInv, Serial, UNCHANGED <<blocks, calls, solo>>, NEW c \in Clients,
         \A d \in Clients \ {c} : pc'[d] = pc[d] /\ req'[d] = req[d],
         pc[c] # "gathering", pc'[c] # "gathering",
         pc'[c] = "forwarding" => \A d \in Clients \ {c} :
                                     ~Overlap /\ Pending(d) => req[d].path # req'[c].path
  PROVE  Serial'
<1> SUFFICES ASSUME ~Overlap PROVE (OneWaiter /\ Late /\ OpenWhileGathering)'
  BY DEF Serial
<1>1. OneWaiter'
  BY DEF Serial, OneWaiter, Pending
<1>2. Late'
  BY DEF Serial, Late
<1>3. OpenWhileGathering'
  <2>1. \A r \in Sats : calls[c][r] \notin Open
    BY DEF Serial, OpenWhileGathering
  <2> QED
    BY <2>1 DEF Serial, OpenWhileGathering, Collection
<1> QED
  BY <1>1, <1>2, <1>3

LEMMA SerialScatter ==
  ASSUME IInv, SoloInv, Serial, NEW c \in Clients, NEW body \in MasterBodies,
         pc[c] = "forwarding", Collection(req[c]),
         pc' = [pc EXCEPT ![c] = "gathering"], Aggregate(c, body), UNCHANGED req
  PROVE  Serial'
<1> SUFFICES ASSUME ~Overlap PROVE (OneWaiter /\ Late /\ OpenWhileGathering)'
  BY DEF Serial
<1> DEFINE path == req[c].path
<1>1. /\ blocks' = Emplace(path, NewBlock(c, body))
      /\ calls' = [calls EXCEPT ![c] = [r \in Sats |-> IF NeedsLogin(r) THEN "login" ELSE "call"]]
      /\ solo' = (solo \ Askers(path)) \union (IF Quiet(path) THEN {c} ELSE {})
  BY DEF Aggregate, Scatter, Target
<1>2. /\ pc'[c] = "gathering"
      /\ \A d \in Clients \ {c} : pc'[d] = pc[d] /\ calls'[d] = calls[d]
  BY <1>1 DEF IInv, TypeOK
<1>3. OneWaiter'
  <2>1. \A d \in Clients : Pending(d)' => Pending(d)
    BY <1>2 DEF Pending
  <2> QED
    BY <2>1 DEF Serial, OneWaiter
<1>4. Late'
  <2> SUFFICES ASSUME NEW d \in Clients, pc'[d] = "gathering", d \notin solo'
               PROVE  req[d].path \in DOMAIN blocks' /\ blocks'[req[d].path].owner # d
    BY DEF Late
  <2>1. CASE d = c
    <3>1. path \in DOMAIN blocks /\ blocks[path].owner # c
      BY <1>1, <2>1, NotQuiet
    <3> QED
      BY <1>1, <2>1, <3>1 DEF Emplace
  <2>2. CASE d # c
    <3>1. pc[d] = "gathering" /\ req[d].path # path
      BY <1>2, <2>2 DEF Serial, OneWaiter, Pending
    <3>2. d \notin solo
      BY <1>1, <3>1 DEF Askers
    <3> QED
      BY <1>1, <3>1, <3>2 DEF Serial, Late, Emplace, Store
  <2> QED
    BY <2>1, <2>2
<1>5. OpenWhileGathering'
  BY <1>2 DEF Serial, OpenWhileGathering, Collection
<1> QED
  BY <1>3, <1>4, <1>5

LEMMA SerialCall ==
  ASSUME IInv, OnceInv, SoloInv, Serial,
         NEW c \in Clients, NEW r \in Sats, NEW v \in SatReplies, CallReply(c, r, v)
  PROVE  Serial'
<1> SUFFICES ASSUME ~Overlap PROVE (OneWaiter /\ Late /\ OpenWhileGathering)'
  BY DEF Serial
<1> DEFINE path == req[c].path
           b == Arrive(path, [sat |-> r, from |-> c, val |-> v])
<1>1. /\ calls[c][r] = "call" /\ calls' = [calls EXCEPT ![c][r] = v]
      /\ UNCHANGED <<req, token, solo>>
      /\ \/ b.count # 0 /\ blocks' = Store(path, b) /\ UNCHANGED <<running, pc, answers>>
         \/ b.count = 0 /\ blocks' = Erase(path) /\ Respond(b.owner, "merged", b.results)
         \/ b.count = 0 /\ blocks' = Store(path, Spent(b)) /\ Throw(b.owner)
  BY CallReplyCases
<1>2. /\ pc[c] = "gathering"
      /\ c \in solo => b.owner = c
      /\ c \notin solo => b.count # 0 /\ b.owner # c
  <2>1. calls'[c] = [calls[c] EXCEPT ![r] = v]
    BY <1>1 DEF IInv, TypeOK
  <2> QED
    BY <1>1, <2>1, SerialReply
<1> HIDE DEF b, path
<1>3. /\ pc'[c] = "gathering" => b.count # 0
      /\ \A d \in Clients \ {c} : pc'[d] = pc[d]
  BY <1>1, <1>2 DEF Respond, Throw, IInv, TypeOK
<1>4. (b.count # 0 => UNCHANGED pc) /\ \A d \in Clients \ {c} : calls'[d] = calls[d]
  BY <1>1 DEF IInv, TypeOK
<1>5. OneWaiter'
  BY <1>1, <1>2, <1>3 DEF Serial, OneWaiter, Pending
<1>6. Late'
  <2> SUFFICES ASSUME NEW d \in Clients, pc'[d] = "gathering", d \notin solo
               PROVE  req[d].path \in DOMAIN blocks' /\ blocks'[req[d].path].owner # d
    BY <1>1 DEF Late
  <2>1. CASE d = c
    BY <1>1, <1>2, <1>3, <2>1 DEF Store, path
  <2>2. CASE d # c
    <3>1. pc[d] = "gathering" /\ req[d].path # path
      BY <1>2, <1>3, <2>2 DEF Serial, OneWaiter, Pending, path
    <3> QED
      BY <1>1, <3>1 DEF Serial, Late, Store, Erase
  <2> QED
    BY <2>1, <2>2
<1>7. OpenWhileGathering'
  <2>1. ASSUME b.count = 0, NEW q \in Sats PROVE calls'[c][q] \notin Open
    <3>1. Complete(c, b.results, calls'[c])
      <4>1. calls'[c] = [calls[c] EXCEPT ![r] = v]
        BY <1>1 DEF IInv, TypeOK
      <4> QED
        BY <1>1, <1>2, <2>1, <4>1, SerialReply DEF b, path
    <3> QED
      BY <3>1, RepliesAssumption DEF Complete, AllReplied, KnownReplies, Open
  <2>2. ASSUME NEW d \in Clients, NEW q \in Sats, calls'[d][q] \in Open
        PROVE  pc'[d] = "gathering" /\ Collection(req[d])
    <3>1. CASE d = c
      BY <1>1, <1>2, <1>4, <2>1, <2>2, <3>1 DEF Serial, OpenWhileGathering, Open
    <3>2. CASE d # c
      BY <1>3, <1>4, <2>2, <3>2 DEF Serial, OpenWhileGathering
    <3> QED
      BY <3>1, <3>2
  <2> QED
    BY <1>1, <2>2 DEF OpenWhileGathering, Collection
<1> QED
  BY <1>5, <1>6, <1>7

LEMMA SerialStep ==
  ASSUME IInv, OnceInv, SoloInv, Serial, [Next]_vars
  PROVE  Serial'
<1>1. ASSUME NEW c \in Clients, NEW rq \in Requests, Handle(c, rq) PROVE Serial'
  <2>1. /\ pc[c] = "idle" /\ UNCHANGED <<blocks, calls, solo>>
        /\ ~Overlap => Waiting(rq.path) = {}
        /\ req'[c] = rq /\ pc'[c] \in {"forwarding", "answered"}
        /\ \A d \in Clients \ {c} : pc'[d] = pc[d] /\ req'[d] = req[d]
    BY <1>1 DEF Handle, Respond, IInv, TypeOK
  <2>2. \A d \in Clients \ {c} : ~Overlap /\ Pending(d) => req[d].path # req'[c].path
    BY <2>1 DEF Waiting, Askers, Pending
  <2> QED
    BY <2>1, <2>2, SerialSame
<1>2. ASSUME NEW c \in Clients, pc[c] = "forwarding", Ends(c), UNCHANGED req PROVE Serial'
  <2>1. /\ UNCHANGED <<blocks, calls, solo>> /\ pc'[c] \in {"answered", "failed"}
        /\ \A d \in Clients \ {c} : pc'[d] = pc[d]
    BY <1>2 DEF Ends, Respond, Throw, IInv, TypeOK
  <2> QED
    BY <1>2, <2>1, SerialSame
<1>3. ASSUME NEW c \in Clients, NEW body \in MasterBodies, ForwardReply(c, body)
      PROVE  Serial'
  BY <1>2, <1>3, ForwardCases, SerialScatter
<1>4. ASSUME NEW c \in Clients, ForwardFailed(c) PROVE Serial'
  BY <1>2, <1>4, ForwardFails
<1>5. ASSUME NEW c \in Clients, NEW r \in Sats, LoginReply(c, r) PROVE Serial'
  <2>1. /\ calls[c][r] = "login" /\ UNCHANGED <<pc, req, blocks, solo>>
    BY <1>5 DEF LoginReply
  <2>2. \A d \in Clients, q \in Sats : calls'[d][q] \in Open => calls[d][q] \in Open
    <3>1. PICK u \in {"call", "dropped"} : calls' = [calls EXCEPT ![c][r] = u]
      BY <1>5 DEF LoginReply
    <3> QED
      BY <2>1, <3>1 DEF IInv, TypeOK, Open
  <2>3. (OneWaiter <=> OneWaiter') /\ (Late <=> Late')
    BY <2>1 DEF OneWaiter, Late, Pending
  <2>4. OpenWhileGathering => OpenWhileGathering'
    BY <2>1, <2>2 DEF OpenWhileGathering, Collection
  <2> QED
    BY <2>3, <2>4 DEF Serial
<1>6. ASSUME NEW c \in Clients, NEW r \in Sats, NEW v \in SatReplies, CallReply(c, r, v)
      PROVE  Serial'
  BY <1>6, SerialCall
<1>7. CASE UNCHANGED vars
  BY <1>7 DEF vars, Serial, OneWaiter, Late, OpenWhileGathering, Pending, Collection
<1> QED
  BY <1>1, <1>3, <1>4, <1>5, <1>6, <1>7 DEF Next

\* One request per path at a time, nobody's reply is to come for a path but
\* those of the client that gathers for it, and no client that came too late
\* owns a block.
THEOREM SerialHolds == Spec => []Serial
<1>1. Init => Serial
  <2> SUFFICES ASSUME Init PROVE OneWaiter /\ Late /\ OpenWhileGathering
    BY DEF Serial
  <2>1. \A c \in Clients : pc[c] = "idle" /\ \A r \in Sats : calls[c][r] = "none"
    BY DEF Init
  <2> QED
    BY <2>1 DEF OneWaiter, Late, OpenWhileGathering, Pending, Open
<1>2. IInv /\ OnceInv /\ SoloInv /\ Serial /\ [Next]_vars => Serial'
  BY SerialStep
<1> QED
  BY <1>1, <1>2, Invariant, ResultsOnce, SoloHolds, PTL DEF Spec

-----------------------------------------------------------------------------
(* A satellite that the requester is logged in to is not logged in to again. *)

\* Once a satellite has issued a token and no login to it is open, it is asked
\* with that token from then on, for every set of clients and requests: only
\* aggregate() begins logins, at satellites without a token, and only the answer
\* to a login writes one.
THEOREM TokensAreKept == Spec => TokenKept
<1>1. ASSUME IInv, [Next]_vars, NEW r \in Sats, LoggedIn(r)
      PROVE  LoggedIn(r)'
  <2>1. ASSUME UNCHANGED <<calls, token>> PROVE LoggedIn(r)'
    BY <1>1, <2>1 DEF LoggedIn
  <2>2. ASSUME NEW c \in Clients, NEW body \in MasterBodies, ForwardReply(c, body)
        PROVE  LoggedIn(r)'
    <3>1. CASE Aggregate(c, body)
      <4>1. /\ calls' = [calls EXCEPT ![c] = [q \in Sats |-> IF NeedsLogin(q) THEN "login" ELSE "call"]]
            /\ token' = token
        BY <2>2, <3>1 DEF Aggregate, Scatter, ForwardReply
      <4>2. \A d \in Clients : calls'[d][r] # "login"
        BY <1>1, <4>1 DEF LoggedIn, NeedsLogin, IInv, TypeOK
      <4> QED
        BY <1>1, <4>1, <4>2 DEF LoggedIn
    <3>2. CASE Ends(c)
      BY <2>1, <2>2, <3>2, ForwardCases DEF Ends
    <3> QED
      BY <2>2, <3>1, <3>2, ForwardCases
  <2>3. ASSUME NEW c \in Clients, NEW q \in Sats, LoginReply(c, q) PROVE LoggedIn(r)'
    <3>1. q # r
      BY <1>1, <2>3 DEF LoginReply, LoggedIn
    <3>2. PICK u \in {"call", "dropped"} : calls' = [calls EXCEPT ![c][q] = u]
      BY <2>3 DEF LoginReply
    <3>3. token'[r] = token[r]
      BY <1>1, <2>3, <3>1 DEF LoginReply, IInv, TypeOK
    <3> QED
      BY <1>1, <3>1, <3>2, <3>3 DEF LoggedIn, IInv, TypeOK
  <2>4. ASSUME NEW c \in Clients, NEW q \in Sats, NEW v \in SatReplies, CallReply(c, q, v)
        PROVE  LoggedIn(r)'
    <3>1. calls' = [calls EXCEPT ![c][q] = v] /\ token' = token
      BY <2>4 DEF CallReply, Replied
    <3>2. v # "login"
      BY <2>4, RepliesAssumption DEF KnownReplies
    <3> QED
      BY <1>1, <3>1, <3>2 DEF LoggedIn, IInv, TypeOK
  <2>5. ASSUME NEW c \in Clients, NEW rq \in Requests, Handle(c, rq) PROVE LoggedIn(r)'
    BY <2>1, <2>5 DEF Handle
  <2>6. ASSUME NEW c \in Clients, ForwardFailed(c) PROVE LoggedIn(r)'
    BY <2>1, <2>6 DEF ForwardFailed
  <2>7. CASE UNCHANGED vars
    BY <2>1, <2>7 DEF vars
  <2> QED
    BY <1>1, <2>2, <2>3, <2>4, <2>5, <2>6, <2>7 DEF Next
<1>2. IInv /\ [Next]_vars => [\A r \in Sats : LoggedIn(r) => LoggedIn(r)']_vars
  BY <1>1
<1> QED
  BY <1>2, Invariant, PTL DEF Spec, TokenKept

-----------------------------------------------------------------------------
(* Every step is a step of ScatterGather, or cannot be seen there. *)

\* A step that ScatterGather does not see in the clients other than c.
Others(c) ==
    \A d \in Clients \ {c} :
        Reached(d)' = Reached(d) /\ Heard(d)' = Heard(d) /\ Told(d)' = Told(d)

LEMMA NotSeen ==
  ASSUME NEW d \in Clients, pc'[d] = pc[d], calls'[d] = calls[d], answers'[d] = answers[d],
         pc[d] = "gathering" => (d \in solo' <=> d \in solo)
  PROVE  Reached(d)' = Reached(d) /\ Heard(d)' = Heard(d) /\ Told(d)' = Told(d)
  BY DEF Reached, Heard, Told

LEMMA MoveSeen ==
  ASSUME NEW c \in Clients, Others(c), NEW from, NEW to, Reached(c) \in from, Reached(c)' = to
  PROVE  Promise!Move(c, from, to)
  BY DEF Others, Promise!Move

LEMMA ToldSame ==
  ASSUME NEW c \in Clients, Others(c), Told(c)' = Told(c)
  PROVE  [d \in Clients |-> Told(d)]' = [d \in Clients |-> Told(d)]
  BY DEF Others

LEMMA HeardSame ==
  ASSUME NEW c \in Clients, Others(c), Heard(c)' = Heard(c)
  PROVE  [d \in Clients |-> Heard(d)]' = [d \in Clients |-> Heard(d)]
  BY DEF Others

LEMMA ReachedSame ==
  ASSUME NEW c \in Clients, Others(c), Reached(c)' = Reached(c)
  PROVE  [d \in Clients |-> Reached(d)]' = [d \in Clients |-> Reached(d)]
  BY DEF Others

\* A step of c in which no satellite replies to it.
LEMMA SilentStep ==
  ASSUME NEW c \in Clients, Others(c), Heard(c)' = Heard(c),
         \/ Reached(c) = "idle" /\ Reached(c)' = "working" /\ Told(c)' = Told(c)
         \/ /\ Reached(c) \in {"idle", "working"} /\ Reached(c)' = "done"
            /\ \E kind \in {"error500", "relayed"} : Told(c)' = [Told(c) EXCEPT !.kind = kind]
         \/ /\ Reached(c) = "working" /\ Reached(c)' \in {"gathering", "lost"}
            /\ Told(c)' = Told(c)
  PROVE  Promise!Next
<1>1. CASE Reached(c) = "idle" /\ Reached(c)' = "working" /\ Told(c)' = Told(c)
  <2>1. Promise!Accept(c)
    BY <1>1, MoveSeen, ToldSame, HeardSame DEF Promise!Accept
  <2> QED
    BY <2>1 DEF Promise!Next
<1>2. ASSUME Reached(c) \in {"idle", "working"}, Reached(c)' = "done",
             NEW kind \in {"error500", "relayed"}, Told(c)' = [Told(c) EXCEPT !.kind = kind]
      PROVE  Promise!Next
  <2>1. Promise!Move(c, {"idle", "working"}, "done")
    BY <1>2, MoveSeen
  <2>2. [d \in Clients |-> Told(d)]' = [[d \in Clients |-> Told(d)] EXCEPT ![c].kind = kind]
    BY <1>2 DEF Others
  <2>3. Promise!Reply(c)
    BY <2>1, <2>2, HeardSame DEF Promise!Reply
  <2> QED
    BY <2>3 DEF Promise!Next
<1>3. CASE Reached(c) = "working" /\ Reached(c)' = "gathering" /\ Told(c)' = Told(c)
  <2>1. Promise!Scatter(c)
    BY <1>3, MoveSeen, ToldSame, HeardSame DEF Promise!Scatter
  <2> QED
    BY <2>1 DEF Promise!Next
<1>4. CASE Reached(c) = "working" /\ Reached(c)' = "lost" /\ Told(c)' = Told(c)
  <2>1. Promise!Lose(c)
    BY <1>4, MoveSeen, ToldSame DEF Promise!Lose
  <2> QED
    BY <2>1, HeardSame DEF Promise!Next
<1> QED
  BY <1>1, <1>2, <1>3, <1>4

\* A reply of r to c.
LEMMA ReplySeen ==
  ASSUME NEW c \in Clients, Others(c), NEW r \in Sats, NEW v \in SatReplies,
         Heard(c)[r] = "none", Heard(c)' = [Heard(c) EXCEPT ![r] = v],
         \/ Reached(c) = "lost" /\ Reached(c)' = "lost" /\ Told(c)' = Told(c)
         \/ /\ Reached(c) = "gathering" /\ Reached(c)' = "gathering" /\ Told(c)' = Told(c)
            /\ \E q \in Sats : Heard(c)'[q] = "none"
         \/ /\ Reached(c) = "gathering" /\ Reached(c)' = "lost" /\ Told(c)' = Told(c)
            /\ \A q \in Sats : Heard(c)'[q] # "none"
         \/ /\ Reached(c) = "gathering" /\ Reached(c)' = "done"
            /\ \A q \in Sats : Heard(c)'[q] # "none"
            /\ Told(c)' = [kind |-> "merged", merged |-> {<<q, Heard(c)'[q]>> : q \in Sats}]
  PROVE  Promise!Next
<1> DEFINE phase == [d \in Clients |-> Reached(d)]
           got == [d \in Clients |-> Heard(d)]
           out == [d \in Clients |-> Told(d)]
<1>1. got[c][r] = "none" /\ got' = [got EXCEPT ![c][r] = v] /\ got'[c] = Heard(c)'
  BY DEF Others
<1>2. phase[c] = Reached(c)
  OBVIOUS
<1>3. Told(c)' = Told(c) => UNCHANGED out
  BY ToldSame
<1>4. Reached(c)' = Reached(c) => UNCHANGED phase
  BY ReachedSame
<1> SUFFICES Promise!Collect(c, r, v)
  BY DEF Promise!Next
<1>5. CASE Reached(c) = "lost" /\ Reached(c)' = "lost" /\ Told(c)' = Told(c)
  BY <1>1, <1>2, <1>3, <1>4, <1>5 DEF Promise!Collect
<1>6. CASE /\ Reached(c) = "gathering" /\ Reached(c)' = "gathering" /\ Told(c)' = Told(c)
           /\ \E q \in Sats : Heard(c)'[q] = "none"
  BY <1>1, <1>2, <1>3, <1>4, <1>6 DEF Promise!Collect
<1>7. CASE /\ Reached(c) = "gathering" /\ Reached(c)' = "lost" /\ Told(c)' = Told(c)
           /\ \A q \in Sats : Heard(c)'[q] # "none"
  <2>1. Promise!Move(c, {"gathering"}, "lost")
    BY <1>7, MoveSeen
  <2> QED
    BY <1>1, <1>2, <1>3, <1>7, <2>1 DEF Promise!Collect
<1>8. CASE /\ Reached(c) = "gathering" /\ Reached(c)' = "done"
           /\ \A q \in Sats : Heard(c)'[q] # "none"
           /\ Told(c)' = [kind |-> "merged", merged |-> {<<q, Heard(c)'[q]>> : q \in Sats}]
  <2>1. Promise!Move(c, {"gathering"}, "done")
    BY <1>8, MoveSeen
  <2>2. out' = [out EXCEPT ![c] = [kind |-> "merged", merged |-> {<<q, got'[c][q]>> : q \in Sats}]]
    <3>1. {<<q, got'[c][q]>> : q \in Sats} = {<<q, Heard(c)'[q]>> : q \in Sats}
      BY <1>1
    <3>2. Told(c)' = [kind |-> "merged", merged |-> {<<q, got'[c][q]>> : q \in Sats}]
      BY <1>8, <3>1
    <3>3. out' = [out EXCEPT ![c] = Told(c)']
      BY DEF Others
    <3> QED
      BY <3>2, <3>3
  <2> QED
    BY <1>1, <1>2, <1>8, <2>1, <2>2 DEF Promise!Collect
<1> QED
  BY <1>5, <1>6, <1>7, <1>8

\* Nothing is told before the first answer, and then all that is in it.
LEMMA ToldFirst ==
  ASSUME IInv, NEW c \in Clients, pc[c] # "answered",
         NEW kind \in {"error500", "relayed", "merged"}, NEW results \in Seq(Result),
         Respond(c, kind, results)
  PROVE  /\ Told(c) = [kind |-> "none", merged |-> {}]
         /\ Told(c)' = [kind |-> kind, merged |-> {<<x.sat, x.val>> : x \in Range(results)}]
         /\ Reached(c)' = "done"
         /\ \A d \in Clients \ {c} : pc'[d] = pc[d] /\ answers'[d] = answers[d]
<1> DEFINE a == [kind |-> kind, results |-> results]
<1>1. /\ answers[c] = <<>> /\ answers'[c] = <<a>> /\ pc'[c] = "answered"
      /\ \A d \in Clients \ {c} : pc'[d] = pc[d] /\ answers'[d] = answers[d]
  <2>1. /\ answers[c] = <<>>
        /\ answers' = [answers EXCEPT ![c] = <<a>>]
        /\ pc' = [pc EXCEPT ![c] = "answered"]
    BY RespondFirst
  <2> QED
    BY <2>1 DEF IInv, TypeOK
<1>2. Last(<<a>>) = a /\ <<a>> # <<>>
  BY DEF Last
<1>3. a.kind = kind /\ a.results = results
  OBVIOUS
<1> HIDE DEF a
<1>4. Told(c)' = [kind |-> kind, merged |-> {<<x.sat, x.val>> : x \in Range(results)}]
  <2>1. answers'[c] # <<>> /\ Last(answers'[c]) = a
    BY <1>1, <1>2
  <2>2. Told(c)' = [kind |-> a.kind, merged |-> {<<x.sat, x.val>> : x \in Range(a.results)}]
    BY <2>1 DEF Told
  <2> QED
    BY <1>3, <2>2
<1>5. Told(c) = [kind |-> "none", merged |-> {}]
  BY <1>1 DEF Told
<1>6. Reached(c)' = "done"
  BY <1>1 DEF Reached
<1> QED
  BY <1>1, <1>4, <1>5, <1>6

\* A request that is refused, or whose forwarded request ends with it.
LEMMA EndSeen ==
  ASSUME IInv, NEW c \in Clients, pc[c] \in {"idle", "forwarding"},
         UNCHANGED <<calls, solo>>,
         \/ \E kind \in {"error500", "relayed"} : Respond(c, kind, <<>>)
         \/ pc[c] = "forwarding" /\ Throw(c)
  PROVE  Promise!Next
<1>1. Reached(c) = IF pc[c] = "idle" THEN "idle" ELSE "working"
  BY DEF Reached
<1>2. Heard(c)' = Heard(c)
  BY DEF Heard
<1>3. ASSUME NEW kind \in {"error500", "relayed"}, Respond(c, kind, <<>>) PROVE Promise!Next
  <2>1. <<>> \in Seq(Result) /\ {<<x.sat, x.val>> : x \in Range(<<>>)} = {}
    BY DEF Range
  <2>2. /\ Told(c) = [kind |-> "none", merged |-> {}]
        /\ Told(c)' = [kind |-> kind, merged |-> {}]
        /\ Reached(c)' = "done"
        /\ \A d \in Clients \ {c} : pc'[d] = pc[d] /\ answers'[d] = answers[d]
    BY <1>3, <2>1, ToldFirst
  <2>3. Others(c)
    BY <2>2, NotSeen DEF Others
  <2>4. Told(c)' = [Told(c) EXCEPT !.kind = kind]
    <3> DEFINE e == [kind |-> "none", merged |-> {}]
    <3>1. e \in [kind : {"none", kind}, merged : {{}}]
      OBVIOUS
    <3>2. Told(c) = e /\ Told(c)' = [kind |-> kind, merged |-> {}]
      BY <2>2
    <3> HIDE DEF e
    <3>3. [e EXCEPT !.kind = kind] = [kind |-> kind, merged |-> {}]
      BY <3>1
    <3> QED
      BY <3>2, <3>3
  <2> QED
    BY <1>1, <1>2, <2>2, <2>3, <2>4, SilentStep
<1>4. CASE pc[c] = "forwarding" /\ Throw(c)
  <2>1. /\ pc'[c] = "failed" /\ UNCHANGED answers
        /\ \A d \in Clients \ {c} : pc'[d] = pc[d]
    BY <1>4 DEF Throw
  <2>2. Others(c)
    BY <2>1, NotSeen DEF Others
  <2>3. Reached(c) = "working" /\ Reached(c)' = "lost" /\ Told(c)' = Told(c)
    BY <1>4, <2>1 DEF Reached, Told
  <2> QED
    BY <1>2, <2>2, <2>3, SilentStep
<1> QED
  BY <1>3, <1>4

LEMMA HandleSeen ==
  ASSUME IInv, NEW c \in Clients, NEW rq \in Requests, Handle(c, rq)
  PROVE  Promise!Next
<1>1. CASE pc' = [pc EXCEPT ![c] = "forwarding"] /\ UNCHANGED answers
  <2>1. /\ pc[c] = "idle" /\ pc'[c] = "forwarding" /\ UNCHANGED <<calls, solo>>
        /\ \A d \in Clients \ {c} : pc'[d] = pc[d]
    BY <1>1 DEF Handle, IInv, TypeOK
  <2>2. Others(c)
    BY <1>1, <2>1, NotSeen DEF Others
  <2>3. Reached(c) = "idle" /\ Reached(c)' = "working" /\ Told(c)' = Told(c) /\ Heard(c)' = Heard(c)
    BY <1>1, <2>1 DEF Reached, Told, Heard
  <2> QED
    BY <2>2, <2>3, SilentStep
<1>2. CASE Respond(c, "error500", <<>>)
  BY <1>2, EndSeen DEF Handle
<1> QED
  BY <1>1, <1>2 DEF Handle

\* Once the satellites are asked, c gathers or is lost, and nobody else is.
LEMMA ScatterSeen ==
  ASSUME IInv, SoloInv, Serial, ~Overlap, NEW c \in Clients, NEW body \in MasterBodies,
         pc[c] = "forwarding", pc' = [pc EXCEPT ![c] = "gathering"],
         Aggregate(c, body), UNCHANGED answers
  PROVE  Promise!Next
<1> DEFINE path == req[c].path
<1>1. /\ calls' = [calls EXCEPT ![c] = [r \in Sats |-> IF NeedsLogin(r) THEN "login" ELSE "call"]]
      /\ solo' = (solo \ Askers(path)) \union (IF Quiet(path) THEN {c} ELSE {})
  BY DEF Aggregate, Scatter, Target
<1>2. /\ pc'[c] = "gathering"
      /\ \A d \in Clients \ {c} : pc'[d] = pc[d] /\ calls'[d] = calls[d]
      /\ \A r \in Sats : calls[c][r] = "none" /\ calls'[c][r] \in Open
  BY <1>1 DEF IInv, TypeOK, Asked, Open
<1>3. Heard(c)' = Heard(c)
  BY <1>2, RepliesAssumption DEF Heard, Open, KnownReplies
<1>4. ASSUME NEW d \in Clients \ {c}, pc[d] = "gathering" PROVE d \in solo' <=> d \in solo
  <2>1. d \notin Askers(path)
    BY <1>4 DEF Askers, Serial, OneWaiter, Pending
  <2> QED
    BY <1>1, <2>1
<1>5. Others(c)
  BY <1>2, <1>4, NotSeen DEF Others
<1>6. Reached(c) = "working" /\ Reached(c)' \in {"gathering", "lost"} /\ Told(c)' = Told(c)
  BY <1>2 DEF Reached, Told
<1> QED
  BY <1>3, <1>5, <1>6, SilentStep

LEMMA LoginSeen ==
  ASSUME IInv, NEW c \in Clients, NEW r \in Sats, LoginReply(c, r)
  PROVE  UNCHANGED Promise!vars
<1>1. PICK u \in {"call", "dropped"} :
        calls[c][r] = "login" /\ calls' = [calls EXCEPT ![c][r] = u]
        /\ UNCHANGED <<pc, answers, solo>>
  BY DEF LoginReply
<1>2. Others(c)
  BY <1>1, NotSeen DEF Others, IInv, TypeOK
<1>3. Heard(c)' = Heard(c)
  BY <1>1, RepliesAssumption DEF Heard, KnownReplies, IInv, TypeOK
<1>4. Reached(c)' = Reached(c) /\ Told(c)' = Told(c)
  BY <1>1 DEF Reached, Told
<1> QED
  BY <1>2, <1>3, <1>4, ReachedSame, HeardSame, ToldSame DEF Promise!vars

\* The pairs of a complete answer are those of every satellite and its reply.
LEMMA CompletePairs ==
  ASSUME NEW c \in Clients, NEW s \in Seq(Result), NEW cs, NEW hs, Complete(c, s, cs),
         \A q \in Sats : hs[q] = cs[q]
  PROVE  {<<x.sat, x.val>> : x \in Range(s)} = {<<q, hs[q]>> : q \in Sats}
<1>1. \A k \in DOMAIN s : s[k].sat \in Sats /\ s[k].val = hs[s[k].sat]
  <2>1. \A k \in DOMAIN s : s[k] \in Result
    OBVIOUS
  <2> QED
    BY <2>1 DEF Complete, OwnResults, Result
<1>2. \A q \in Sats : \E k \in DOMAIN s : s[k].sat = q
  BY DEF Complete, AllReplied, OwnResults
<1>3. ASSUME NEW x \in Range(s) PROVE \E q \in Sats : <<x.sat, x.val>> = <<q, hs[q]>>
  BY <1>1 DEF Range
<1>4. ASSUME NEW q \in Sats PROVE \E x \in Range(s) : <<x.sat, x.val>> = <<q, hs[q]>>
  <2>1. PICK k \in DOMAIN s : s[k].sat = q
    BY <1>2
  <2>2. s[k] \in Range(s)
    BY DEF Range
  <2> QED
    BY <1>1, <2>1, <2>2
<1> QED
  BY <1>3, <1>4

LEMMA CallSeen ==
  ASSUME IInv, OnceInv, SoloInv, Serial, ~Overlap,
         NEW c \in Clients, NEW r \in Sats, NEW v \in SatReplies, CallReply(c, r, v)
  PROVE  Promise!Next
<1> DEFINE path == req[c].path
           b == Arrive(path, [sat |-> r, from |-> c, val |-> v])
<1>1. /\ calls[c][r] = "call" /\ calls' = [calls EXCEPT ![c][r] = v]
      /\ UNCHANGED <<req, token, solo>>
      /\ \/ b.count # 0 /\ blocks' = Store(path, b) /\ UNCHANGED <<running, pc, answers>>
         \/ b.count = 0 /\ blocks' = Erase(path) /\ Respond(b.owner, "merged", b.results)
         \/ b.count = 0 /\ blocks' = Store(path, Spent(b)) /\ Throw(b.owner)
  BY CallReplyCases
<1>2. /\ calls'[c] = [calls[c] EXCEPT ![r] = v] /\ calls[c] \in [Sats -> CallStates]
      /\ \A d \in Clients \ {c} : calls'[d] = calls[d]
  BY <1>1 DEF IInv, TypeOK
<1>3. /\ pc[c] = "gathering"
      /\ c \in solo => b.owner = c /\ b.results \in Seq(Result)
      /\ c \in solo /\ b.count = 0 => Complete(c, b.results, calls'[c])
      /\ c \in solo /\ AllReplied(calls'[c]) => b.count = 0
      /\ c \notin solo => b.count # 0
  BY <1>1, <1>2, SerialReply
<1> HIDE DEF b, path
<1>4. /\ Heard(c)[r] = "none" /\ Heard(c)' = [Heard(c) EXCEPT ![r] = v]
      /\ \A q \in Sats : Heard(c)'[q] = IF calls'[c][q] \in SatReplies THEN calls'[c][q] ELSE "none"
  <2>1. "call" \notin SatReplies
    BY RepliesAssumption DEF KnownReplies
  <2>2. Heard(c)[r] = "none"
    BY <1>1, <2>1 DEF Heard
  <2>3. \A q \in Sats : calls'[c][q] = IF q = r THEN v ELSE calls[c][q]
    BY <1>2
  <2>4. Heard(c)' = [Heard(c) EXCEPT ![r] = v]
    BY <2>3 DEF Heard
  <2>5. Heard(c)' = [q \in Sats |-> IF calls'[c][q] \in SatReplies THEN calls'[c][q] ELSE "none"]
    BY DEF Heard
  <2> QED
    BY <2>2, <2>4, <2>5
<1>5. "none" \notin SatReplies
  BY RepliesAssumption DEF KnownReplies
<1>6. Reached(c) = IF c \in solo THEN "gathering" ELSE "lost"
  BY <1>3 DEF Reached
<1>7. CASE b.count # 0 /\ UNCHANGED <<pc, answers>>
  <2>1. Others(c)
    BY <1>1, <1>2, <1>7, NotSeen DEF Others
  <2>2. Reached(c)' = Reached(c) /\ Told(c)' = Told(c)
    BY <1>1, <1>7 DEF Reached, Told
  <2>3. c \in solo => \E q \in Sats : Heard(c)'[q] = "none"
    BY <1>3, <1>4, <1>7 DEF AllReplied
  <2> QED
    BY <1>4, <1>6, <2>1, <2>2, <2>3, ReplySeen
<1>8. ASSUME b.count = 0
      PROVE  /\ Reached(c) = "gathering" /\ b.owner = c
             /\ Complete(c, b.results, calls'[c])
             /\ \A q \in Sats : Heard(c)'[q] = calls'[c][q] /\ Heard(c)'[q] # "none"
  BY <1>3, <1>4, <1>5, <1>6, <1>8 DEF Complete, AllReplied
<1>9. CASE b.count = 0 /\ Respond(b.owner, "merged", b.results)
  <2>1. /\ Told(c)' = [kind |-> "merged", merged |-> {<<x.sat, x.val>> : x \in Range(b.results)}]
        /\ Reached(c)' = "done"
        /\ \A d \in Clients \ {c} : pc'[d] = pc[d] /\ answers'[d] = answers[d]
    BY <1>3, <1>8, <1>9, ToldFirst
  <2>2. Others(c)
    BY <1>1, <1>2, <2>1, NotSeen DEF Others
  <2>3. {<<x.sat, x.val>> : x \in Range(b.results)} = {<<q, Heard(c)'[q]>> : q \in Sats}
    BY <1>3, <1>8, <1>9, CompletePairs
  <2> QED
    BY <1>4, <1>8, <1>9, <2>1, <2>2, <2>3, ReplySeen, ZenonT(30)
<1>10. CASE b.count = 0 /\ Throw(b.owner)
  <2>1. /\ pc'[c] = "failed" /\ UNCHANGED answers
        /\ \A d \in Clients \ {c} : pc'[d] = pc[d]
    BY <1>8, <1>10 DEF Throw
  <2>2. Others(c)
    BY <1>1, <1>2, <2>1, NotSeen DEF Others
  <2>3. Reached(c)' = "lost" /\ Told(c)' = Told(c)
    BY <2>1 DEF Reached, Told
  <2> QED
    BY <1>4, <1>8, <1>10, <2>2, <2>3, ReplySeen
<1> QED
  BY <1>1, <1>7, <1>9, <1>10

LEMMA InitSeen == Init => Promise!Init
<1> SUFFICES ASSUME Init PROVE Promise!Init
  OBVIOUS
<1>1. \A c \in Clients : /\ Reached(c) = "idle"
                         /\ Heard(c) = [r \in Sats |-> "none"]
                         /\ Told(c) = [kind |-> "none", merged |-> {}]
  <2> SUFFICES ASSUME NEW c \in Clients
               PROVE  /\ Reached(c) = "idle"
                      /\ Heard(c) = [r \in Sats |-> "none"]
                      /\ Told(c) = [kind |-> "none", merged |-> {}]
    OBVIOUS
  <2>1. pc[c] = "idle" /\ calls[c] = [r \in Sats |-> "none"] /\ answers[c] = <<>>
    BY DEF Init
  <2>2. Heard(c) = [r \in Sats |-> "none"]
    BY <2>1 DEF Heard
  <2> QED
    BY <2>1, <2>2 DEF Reached, Told
<1> QED
  BY <1>1 DEF Promise!Init, Promise!NoReplies

LEMMA NextSeen ==
  ASSUME IInv, OnceInv, SoloInv, Serial, ~Overlap, [Next]_vars
  PROVE  [Promise!Next]_(Promise!vars)
<1>1. ASSUME NEW c \in Clients, NEW rq \in Requests, Handle(c, rq) PROVE Promise!Next
  BY <1>1, HandleSeen
<1>2. ASSUME NEW c \in Clients, NEW body \in MasterBodies, ForwardReply(c, body)
      PROVE  Promise!Next
  <2>1. CASE Ends(c)
    BY <1>2, <2>1, ForwardCases, EndSeen DEF Ends
  <2>2. CASE /\ pc' = [pc EXCEPT ![c] = "gathering"]
             /\ Aggregate(c, body)
             /\ UNCHANGED <<running, answers>>
    BY <1>2, <2>2, ForwardCases, ScatterSeen
  <2> QED
    BY <1>2, <2>1, <2>2, ForwardCases
<1>3. ASSUME NEW c \in Clients, ForwardFailed(c) PROVE Promise!Next
  BY <1>3, ForwardFails, EndSeen DEF Ends
<1>4. ASSUME NEW c \in Clients, NEW r \in Sats, LoginReply(c, r) PROVE UNCHANGED Promise!vars
  BY <1>4, LoginSeen
<1>5. ASSUME NEW c \in Clients, NEW r \in Sats, NEW v \in SatReplies, CallReply(c, r, v)
      PROVE  Promise!Next
  BY <1>5, CallSeen
<1>6. ASSUME UNCHANGED vars PROVE UNCHANGED Promise!vars
  BY <1>6 DEF vars, Promise!vars, Reached, Heard, Told
<1> QED
  BY <1>1, <1>2, <1>3, <1>4, <1>5, <1>6 DEF Next

\* One request per path at a time, the aggregator does what ScatterGather
\* promises: an answer at most, and a merged one only of exactly one reply of
\* every satellite to that very request, once the last of them is in.
THEOREM PromiseIsKept ==
  ASSUME ~Overlap
  PROVE  Spec => KeepsPromise
<1>1. IInv /\ OnceInv /\ SoloInv /\ Serial /\ [Next]_vars => [Promise!Next]_(Promise!vars)
  BY NextSeen
<1> QED
  BY <1>1, InitSeen, Invariant, ResultsOnce, SoloHolds, SerialHolds, PTL
     DEF Spec, KeepsPromise, Promise!Spec

=============================================================================
