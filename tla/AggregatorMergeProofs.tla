------------------------ MODULE AggregatorMergeProofs ------------------------
(***************************************************************************)
(* What a merged answer is made of, for every set of clients, list of      *)
(* satellites, set of requests and kind of reply: as many replies as there *)
(* are satellites, to requests for the client's path (TargetInv), and      *)
(* those to its own request if the path was its own (SoloInv).  No count   *)
(* goes all the way round: that would take more replies than there are     *)
(* scattered requests (FewResults).                                        *)
(***************************************************************************)
EXTENDS AggregatorProofs, FiniteSetTheorems

-----------------------------------------------------------------------------
(* How many results there can be. *)

LEMMA SatsAreFinite == IsFiniteSet(Sats) /\ Cardinality(Sats) = N
  BY SatsIsRange, FS_Interval

\* Results that are replies to distinct requests are no more than those.
LEMMA FewResults ==
  ASSUME NEW s \in Seq(Result), Distinct(s)
  PROVE  Len(s) <= SizeMax
<1> DEFINE f == [k \in 1..Len(s) |-> <<s[k].from, s[k].sat>>]
<1>1. \A k \in 1..Len(s) : s[k].from \in Clients /\ s[k].sat \in Sats
  <2>1. \A k \in 1..Len(s) : s[k] \in Result
    OBVIOUS
  <2> QED
    BY <2>1 DEF Result
<1>2. f \in [1..Len(s) -> Clients \X Sats]
  BY <1>1
<1>3. ASSUME NEW k \in 1..Len(s), NEW l \in 1..Len(s), f[k] = f[l] PROVE k = l
  BY <1>3 DEF Distinct, SameCall
<1>4. f \in Injection(1..Len(s), Clients \X Sats)
  BY <1>2, <1>3 DEF Injection, IsInjective
<1> HIDE DEF f
<1>5. /\ IsFiniteSet(Clients \X Sats)
      /\ Cardinality(Clients \X Sats) = Cardinality(Clients) * N
  BY SatsAreFinite, ClientsAssumption, FS_Product
<1>6. Cardinality(1..Len(s)) <= Cardinality(Clients \X Sats)
  BY <1>4, <1>5, FS_Injection
<1>7. Cardinality(1..Len(s)) = Len(s)
  <2>1. Len(s) \in Nat
    OBVIOUS
  <2>2. \A n \in Nat : Cardinality(1..n) = n
    BY FS_Interval
  <2> QED
    BY <2>1, <2>2, Zenon
<1>8. Cardinality(Clients) \in Nat /\ Cardinality(Clients) * N \in Nat
  BY ClientsAssumption, FS_CardinalityType, SatsIsRange
<1> QED
  BY <1>5, <1>6, <1>7, <1>8, SatsIsRange, ClientsAssumption

\* As many replies to distinct requests of one client as there are satellites
\* are one of each.
LEMMA EverySat ==
  ASSUME NEW s \in Seq(Result), Distinct(s), Len(s) = N,
         NEW c, \A k \in DOMAIN s : s[k].from = c
  PROVE  \A r \in Sats : \E k \in DOMAIN s : s[k].sat = r
<1> DEFINE f == [k \in 1..N |-> s[k].sat]
<1>1. \A k \in 1..N : s[k].sat \in Sats /\ k \in DOMAIN s
  <2>1. \A k \in 1..N : s[k] \in Result /\ k \in DOMAIN s
    OBVIOUS
  <2> QED
    BY <2>1 DEF Result
<1>2. f \in [1..N -> Sats]
  BY <1>1
<1>3. ASSUME NEW k \in 1..N, NEW l \in 1..N, f[k] = f[l] PROVE k = l
  BY <1>1, <1>3 DEF Distinct, SameCall
<1>4. f \in Injection(1..N, Sats)
  BY <1>2, <1>3 DEF Injection, IsInjective
<1>5. Cardinality(1..N) = Cardinality(Sats)
  BY SatsIsRange
<1> HIDE DEF f
<1>6. f \in Surjection(1..N, Sats)
  BY <1>4, <1>5, SatsAreFinite, FS_Injection
<1>7. \A r \in Sats : \E k \in 1..N : f[k] = r
  BY <1>6 DEF Surjection
<1> QED
  BY <1>1, <1>7 DEF f

\* Replies of every satellite are at least as many as there are satellites.
LEMMA NotFewer ==
  ASSUME NEW s \in Seq(Result), \A r \in Sats : \E k \in DOMAIN s : s[k].sat = r
  PROVE  N <= Len(s)
<1> DEFINE f == [k \in 1..Len(s) |-> s[k].sat]
<1>1. \A k \in 1..Len(s) : s[k].sat \in Sats
  <2>1. \A k \in 1..Len(s) : s[k] \in Result
    OBVIOUS
  <2> QED
    BY <2>1 DEF Result
<1>2. f \in [1..Len(s) -> Sats]
  BY <1>1
<1>3. ASSUME NEW r \in Sats PROVE \E k \in 1..Len(s) : f[k] = r
  <2>1. PICK k \in DOMAIN s : s[k].sat = r
    OBVIOUS
  <2>2. k \in 1..Len(s) /\ f[k] = r
    BY <2>1
  <2> QED
    BY <2>2
<1>4. f \in Surjection(1..Len(s), Sats)
  BY <1>2, <1>3 DEF Surjection
<1>5. Len(s) \in Nat
  OBVIOUS
<1>6. IsFiniteSet(1..Len(s)) /\ Cardinality(1..Len(s)) = Len(s)
  <2>1. \A n \in Nat : IsFiniteSet(1..n) /\ Cardinality(1..n) = n
    BY FS_Interval
  <2> QED
    BY <1>5, <2>1, Zenon
<1> HIDE DEF f
<1> QED
  BY <1>4, <1>6, SatsAreFinite, FS_Surjection

-----------------------------------------------------------------------------
(* What the actions do, as the invariants below need it. *)

\* A continuation is called for the first time.
LEMMA RespondFirst ==
  ASSUME IInv, NEW c \in Clients, pc[c] # "answered",
         NEW kind \in {"error500", "relayed", "merged"}, NEW results \in Seq(Result),
         Respond(c, kind, results)
  PROVE  /\ answers[c] = <<>>
         /\ answers' = [answers EXCEPT ![c] = <<[kind |-> kind, results |-> results]>>]
         /\ pc' = [pc EXCEPT ![c] = "answered"]
<1>1. answers \in [Clients -> Seq(Answer)] /\ answers[c] = <<>>
  BY DEF IInv, TypeOK, AtMostOneAnswer
<1> QED
  BY <1>1 DEF Respond

\* The forwarded request ends with c's request, or the satellites are asked.
Ends(c) ==
    /\ \/ \E kind \in {"error500", "relayed"} : Respond(c, kind, <<>>)
       \/ Throw(c)
    /\ UNCHANGED <<blocks, calls, solo>>

LEMMA ForwardCases ==
  ASSUME NEW c \in Clients, NEW body \in MasterBodies, ForwardReply(c, body)
  PROVE  /\ pc[c] = "forwarding"
         /\ UNCHANGED <<req, token>>
         /\ \/ Ends(c)
            \/ /\ Collection(req[c])
               /\ pc' = [pc EXCEPT ![c] = "gathering"]
               /\ Aggregate(c, body)
               /\ UNCHANGED <<running, answers>>
  BY DEF ForwardReply, Ends

LEMMA ForwardFails ==
  ASSUME NEW c \in Clients, ForwardFailed(c)
  PROVE  pc[c] = "forwarding" /\ UNCHANGED <<req, token>> /\ Ends(c)
  BY DEF ForwardFailed, Ends

\* A satellite's reply completes a block only if the block has a client that
\* waits, and then there are as many results as satellites.
LEMMA LastReply ==
  ASSUME IInv, OnceInv, NEW c \in Clients, NEW r \in Sats, NEW v \in SatReplies,
         calls[c][r] = "call", NEW path, path = req[c].path,
         NEW b, b = Arrive(path, [sat |-> r, from |-> c, val |-> v])
  PROVE  /\ path \in Paths /\ b \in Block
         /\ Distinct(b.results)
         /\ b.owner = BlockOf(path).owner
         /\ b.count # BlockOf(path).count
         /\ BlockOf(path).results \in Seq(Result)
         /\ b.results = Append(BlockOf(path).results, [sat |-> r, from |-> c, val |-> v])
         /\ b.owner # Nobody /\ pc[b.owner] = "gathering" => b.count + Len(b.results) = N
         /\ b.count = 0 =>
              /\ path \in DOMAIN blocks
              /\ b.owner = blocks[path].owner
              /\ b.owner \in Clients
              /\ pc[b.owner] = "gathering"
              /\ req[b.owner].path = path
              /\ Len(b.results) = N
<1> DEFINE x == [sat |-> r, from |-> c, val |-> v]
           old == BlockOf(path)
<1>1. path \in Paths /\ x \in Result /\ N # 0
  BY SatsIsRange DEF IInv, Asked, Paths, Result
<1>2. /\ b \in Block
      /\ b.owner # Nobody =>
              /\ path \in DOMAIN blocks
              /\ b.owner = blocks[path].owner
              /\ b.owner \in Clients
              /\ req[b.owner] # Nobody
              /\ req[b.owner].path = path
              /\ pc[b.owner] \in {"gathering", "failed"}
      /\ IF b.owner # Nobody /\ pc[b.owner] = "gathering"
              THEN b.count + Len(b.results) = N
              ELSE b.count # 0 => Len(b.results) = SizeMax + 1 - b.count
  BY <1>1, ArriveParts
<1>3. Distinct(b.results)
  BY <1>1, ArriveOnce
<1>4. old \in Block
  <2>1. <<>> \in Seq(Result) /\ 0 \in 0..SizeMax /\ "noMembers" \in KnownBodies
    BY SatsIsRange DEF KnownBodies
  <2>2. DefaultBlock \in Block
    BY <2>1 DEF DefaultBlock, Block
  <2> QED
    BY <2>2 DEF BlockOf, IInv, TypeOK
<1>5. /\ b.owner = old.owner /\ b.results = Append(old.results, x)
      /\ b.count = IF old.count = 0 THEN SizeMax ELSE old.count - 1
      /\ old.results \in Seq(Result) /\ old.count \in 0..SizeMax
  BY <1>4 DEF Arrive, Block, Dec
<1> HIDE DEF x
<1>6. ASSUME b.count = 0 PROVE b.owner # Nobody /\ pc[b.owner] = "gathering"
  <2> SUFFICES ASSUME ~(b.owner # Nobody /\ pc[b.owner] = "gathering") PROVE FALSE
    OBVIOUS
  <2>1. old.count = 1
    BY <1>1, <1>5, <1>6, SatsIsRange
  <2>2. Len(old.results) = SizeMax
    <3>1. CASE path \in DOMAIN blocks
      <4>1. old = blocks[path]
        BY <3>1 DEF BlockOf
      <4> HIDE DEF old
      <4>2. Len(old.results) = IF old.count = 0 THEN 0 ELSE SizeMax + 1 - old.count
        BY <1>5, <3>1, <4>1 DEF IInv, BlocksAccounted
      <4> QED
        BY <2>1, <4>2, SatsIsRange
    <3>2. CASE path \notin DOMAIN blocks
      BY <2>1, <3>2 DEF BlockOf, DefaultBlock
    <3> QED
      BY <3>1, <3>2
  <2> HIDE DEF old
  <2>3. b.results \in Seq(Result) /\ Len(b.results) = SizeMax + 1
    <3>1. \A s \in Seq(Result), y \in Result :
            Append(s, y) \in Seq(Result) /\ Len(Append(s, y)) = Len(s) + 1
      OBVIOUS
    <3> QED
      BY <1>1, <1>5, <2>2, <3>1
  <2>4. Len(b.results) <= SizeMax
    BY <1>3, <2>3, FewResults
  <2> QED
    BY <2>3, <2>4, SatsIsRange
<1>7. b.count = 0 => Len(b.results) = N
  BY <1>2, <1>6 DEF Block
<1>8. b.count # old.count
  BY <1>1, <1>5, SatsIsRange
<1> QED
  BY <1>1, <1>2, <1>3, <1>5, <1>6, <1>7, <1>8 DEF x

LEMMA CallReplyCases ==
  ASSUME NEW c \in Clients, NEW r \in Sats, NEW v \in SatReplies, CallReply(c, r, v),
         NEW path, path = req[c].path,
         NEW b, b = Arrive(path, [sat |-> r, from |-> c, val |-> v])
  PROVE  /\ calls[c][r] = "call" /\ calls' = [calls EXCEPT ![c][r] = v]
         /\ UNCHANGED <<req, token, solo>>
         /\ \/ b.count # 0 /\ blocks' = Store(path, b) /\ UNCHANGED <<running, pc, answers>>
            \/ b.count = 0 /\ blocks' = Erase(path) /\ Respond(b.owner, "merged", b.results)
            \/ b.count = 0 /\ blocks' = Store(path, Spent(b)) /\ Throw(b.owner)
  BY DEF CallReply, Replied, Target

-----------------------------------------------------------------------------
(* Only requests for one path meet in a block. *)

\* The results s are replies to requests for path, when rq is what was asked.
FromPath(rq, path, s) == \A k \in DOMAIN s : rq[s[k].from].path = path

BlocksOfPaths == \A path \in DOMAIN blocks : FromPath(req, path, blocks[path].results)

Merged(a, path, rq) ==
    a.kind = "merged" => Len(a.results) = N /\ FromPath(rq, path, a.results)

TargetInv ==
    /\ BlocksOfPaths
    /\ \A c \in Clients : \A i \in DOMAIN answers[c] : Merged(answers[c][i], req[c].path, req)

\* What a client asked does not change once it is on its way.
LEMMA AskedForGood ==
  ASSUME IInv, [Next]_vars, NEW c \in Clients, pc[c] # "idle"
  PROVE  req'[c] = req[c]
<1>1. ASSUME NEW d \in Clients, NEW rq \in Requests, Handle(d, rq) PROVE req'[c] = req[c]
  BY <1>1 DEF Handle, IInv, TypeOK
<1>2. ASSUME NEW d \in Clients, NEW body \in MasterBodies, ForwardReply(d, body)
      PROVE  UNCHANGED req
  BY <1>2 DEF ForwardReply
<1>3. ASSUME NEW d \in Clients, ForwardFailed(d) PROVE UNCHANGED req
  BY <1>3 DEF ForwardFailed
<1>4. ASSUME NEW d \in Clients, NEW r \in Sats, LoginReply(d, r) PROVE UNCHANGED req
  BY <1>4 DEF LoginReply
<1>5. ASSUME NEW d \in Clients, NEW r \in Sats, NEW v \in SatReplies, CallReply(d, r, v)
      PROVE  UNCHANGED req
  BY <1>5 DEF CallReply
<1>6. CASE UNCHANGED vars
  BY <1>6 DEF vars
<1> QED
  BY <1>1, <1>2, <1>3, <1>4, <1>5, <1>6 DEF Next

\* A client whose request has been replied to has asked.
LEMMA FromPathKept ==
  ASSUME IInv, [Next]_vars, NEW s \in Seq(Result), AreOver(s), NEW path
  PROVE  FromPath(req, path, s) <=> FromPath(req', path, s)
<1>1. ASSUME NEW k \in DOMAIN s PROVE req'[s[k].from] = req[s[k].from]
  <2>1. s[k] \in Result
    OBVIOUS
  <2>2. s[k].from \in Clients /\ s[k].sat \in Sats /\ calls[s[k].from][s[k].sat] \in SatReplies
    BY <2>1 DEF AreOver, Result
  <2>3. pc[s[k].from] # "idle"
    BY <2>2, RepliesAssumption DEF IInv, Asked, KnownReplies
  <2> QED
    BY <2>2, <2>3, AskedForGood
<1> QED
  BY <1>1 DEF FromPath

\* Blocks and answers are as they were for what was asked before.
LEMMA TargetsKept ==
  ASSUME IInv, OnceInv, TargetInv, [Next]_vars
  PROVE  /\ \A path \in DOMAIN blocks : FromPath(req', path, blocks[path].results)
         /\ \A c \in Clients : \A i \in DOMAIN answers[c] :
               Merged(answers[c][i], req'[c].path, req')
<1>1. ASSUME NEW path \in DOMAIN blocks PROVE FromPath(req', path, blocks[path].results)
  <2>1. blocks[path].results \in Seq(Result) /\ AreOver(blocks[path].results)
    BY DEF IInv, TypeOK, Block, OnceInv
  <2> QED
    BY <2>1, FromPathKept DEF TargetInv, BlocksOfPaths
<1>2. ASSUME NEW c \in Clients, NEW i \in DOMAIN answers[c]
      PROVE  Merged(answers[c][i], req'[c].path, req')
  <2>1. answers[c][i] \in Answer
    <3>1. answers[c] \in Seq(Answer)
      BY DEF IInv, TypeOK
    <3> QED
      BY <3>1
  <2>2. answers[c][i].results \in Seq(Result) /\ AreOver(answers[c][i].results)
    BY <2>1 DEF Answer, OnceInv
  <2>3. pc[c] # "idle"
    <3>1. answers[c] # <<>>
      OBVIOUS
    <3> QED
      BY <3>1 DEF IInv, AtMostOneAnswer
  <2> QED
    BY <2>2, <2>3, AskedForGood, FromPathKept DEF TargetInv, Merged
<1> QED
  BY <1>1, <1>2

\* A step whose new results are as they should be keeps the invariant.
LEMMA TargetsAdded ==
  ASSUME IInv, OnceInv, TargetInv, [Next]_vars,
         \A path \in DOMAIN blocks' :
            \/ FromPath(req', path, blocks'[path].results)
            \/ path \in DOMAIN blocks /\ blocks'[path] = blocks[path],
         \A c \in Clients :
            \/ answers'[c] = answers[c]
            \/ \E a : answers'[c] = <<a>> /\ Merged(a, req'[c].path, req')
  PROVE  TargetInv'
<1>1. BlocksOfPaths'
  BY TargetsKept DEF BlocksOfPaths
<1>2. ASSUME NEW c \in Clients, NEW i \in DOMAIN answers'[c]
      PROVE  Merged(answers'[c][i], req'[c].path, req')
  <2>1. CASE answers'[c] = answers[c]
    BY <2>1, TargetsKept
  <2>2. ASSUME NEW a, answers'[c] = <<a>>, Merged(a, req'[c].path, req')
        PROVE  Merged(answers'[c][i], req'[c].path, req')
    <3>1. i = 1 /\ answers'[c][i] = a
      BY <2>2
    <3> QED
      BY <2>2, <3>1
  <2> QED
    BY <2>1, <2>2
<1> QED
  BY <1>1, <1>2 DEF TargetInv, BlocksOfPaths, Merged

LEMMA TargetStep ==
  ASSUME IInv, OnceInv, TargetInv, [Next]_vars
  PROVE  TargetInv'
<1>0. /\ <<>> \in Seq(Result)
      /\ \A rq, path : FromPath(rq, path, <<>>)
      /\ \A kind \in {"relayed", "error500"} : \A rq, path :
            Merged([kind |-> kind, results |-> <<>>], path, rq)
  BY DEF FromPath, Merged
<1>1. ASSUME NEW c \in Clients, NEW kind \in {"relayed", "error500"}, pc[c] # "answered",
             Respond(c, kind, <<>>), NEW d \in Clients
      PROVE  \/ answers'[d] = answers[d]
             \/ \E a : answers'[d] = <<a>> /\ Merged(a, req'[d].path, req')
  <2>1. answers' = [answers EXCEPT ![c] = <<[kind |-> kind, results |-> <<>>]>>]
    <3>1. \A s \in Seq(Result) : Respond(c, kind, s) =>
            answers' = [answers EXCEPT ![c] = <<[kind |-> kind, results |-> s]>>]
      BY <1>1, RespondFirst
    <3> QED
      BY <1>0, <1>1, <3>1
  <2>2. answers \in [Clients -> Seq(Answer)]
    BY DEF IInv, TypeOK
  <2> QED
    BY <1>0, <2>1, <2>2
<1>2. ASSUME NEW c \in Clients, NEW rq \in Requests, Handle(c, rq)
      PROVE  TargetInv'
  <2>1. pc[c] # "answered" /\ UNCHANGED blocks
        /\ (UNCHANGED answers \/ Respond(c, "error500", <<>>))
    BY <1>2 DEF Handle
  <2> QED
    BY <1>1, <2>1, TargetsAdded
<1>3. ASSUME NEW c \in Clients, pc[c] = "forwarding", Ends(c) PROVE TargetInv'
  BY <1>1, <1>3, TargetsAdded DEF Ends, Throw
<1>4. ASSUME NEW c \in Clients, NEW body \in MasterBodies, ForwardReply(c, body)
      PROVE  TargetInv'
  <2>1. CASE Aggregate(c, body) /\ UNCHANGED answers
    <3>1. \A path \in DOMAIN blocks' :
            \/ blocks'[path].results = <<>>
            \/ path \in DOMAIN blocks /\ blocks'[path] = blocks[path]
      BY <2>1 DEF Aggregate, Scatter, Emplace, Store, NewBlock
    <3> QED
      BY <1>0, <2>1, <3>1, TargetsAdded
  <2> QED
    BY <1>3, <1>4, <2>1, ForwardCases
<1>5. ASSUME NEW c \in Clients, ForwardFailed(c) PROVE TargetInv'
  BY <1>3, <1>5, ForwardFails
<1>6. ASSUME NEW c \in Clients, NEW r \in Sats, LoginReply(c, r) PROVE TargetInv'
  BY <1>6, TargetsAdded DEF LoginReply
<1>7. ASSUME NEW c \in Clients, NEW r \in Sats, NEW v \in SatReplies, CallReply(c, r, v)
      PROVE  TargetInv'
  <2> DEFINE path == req[c].path
             x == [sat |-> r, from |-> c, val |-> v]
             b == Arrive(path, x)
  <2>1. /\ calls[c][r] = "call" /\ UNCHANGED req
        /\ \/ b.count # 0 /\ blocks' = Store(path, b) /\ UNCHANGED <<running, pc, answers>>
           \/ b.count = 0 /\ blocks' = Erase(path) /\ Respond(b.owner, "merged", b.results)
           \/ b.count = 0 /\ blocks' = Store(path, Spent(b)) /\ Throw(b.owner)
    BY <1>7, CallReplyCases
  <2>2. /\ path \in Paths /\ b \in Block
        /\ BlockOf(path).results \in Seq(Result)
        /\ b.results = Append(BlockOf(path).results, x)
        /\ b.count = 0 =>
              /\ b.owner \in Clients
              /\ pc[b.owner] = "gathering"
              /\ req[b.owner].path = path
              /\ Len(b.results) = N
    BY <2>1, LastReply, SMTT(30)
  <2>3. FromPath(req', path, b.results)
    <3>1. FromPath(req, path, BlockOf(path).results)
      BY <1>0 DEF BlockOf, DefaultBlock, TargetInv, BlocksOfPaths
    <3>2. x \in Result /\ x.from = c
      BY DEF Result
    <3> DEFINE old == BlockOf(path).results
    <3>3. \A k \in DOMAIN Append(old, x) :
            \/ k \in DOMAIN old /\ Append(old, x)[k] = old[k]
            \/ Append(old, x)[k] = x
      BY <2>2, <3>2
    <3> HIDE DEF old, x
    <3> QED
      BY <2>1, <2>2, <3>1, <3>2, <3>3 DEF FromPath, old
  <2> HIDE DEF path, b
  <2>4. CASE blocks' = Store(path, b) /\ UNCHANGED answers
    BY <2>3, <2>4, TargetsAdded DEF Store
  <2>5. CASE b.count = 0 /\ blocks' = Erase(path) /\ Respond(b.owner, "merged", b.results)
    <3> DEFINE a == [kind |-> "merged", results |-> b.results]
    <3>1. b.results \in Seq(Result)
      BY <2>2 DEF Block
    <3>2. answers' = [answers EXCEPT ![b.owner] = <<a>>] /\ answers \in [Clients -> Seq(Answer)]
      BY <2>2, <2>5, <3>1, RespondFirst DEF IInv, TypeOK
    <3>3. Merged(a, req'[b.owner].path, req')
      BY <2>1, <2>2, <2>3, <2>5 DEF Merged
    <3> HIDE DEF a
    <3>4. \A d \in Clients :
            \/ answers'[d] = answers[d]
            \/ \E e : answers'[d] = <<e>> /\ Merged(e, req'[d].path, req')
      BY <3>2, <3>3
    <3>5. \A p \in DOMAIN blocks' : p \in DOMAIN blocks /\ blocks'[p] = blocks[p]
      BY <2>5 DEF Erase
    <3> QED
      BY <3>4, <3>5, TargetsAdded
  <2>6. CASE blocks' = Store(path, Spent(b)) /\ Throw(b.owner)
    <3>1. Spent(b).results = <<>>
      BY <2>2 DEF Spent, Block
    <3> QED
      BY <1>0, <2>6, <3>1, TargetsAdded DEF Store, Throw
  <2> QED
    BY <2>1, <2>4, <2>5, <2>6
<1>8. CASE UNCHANGED vars
  BY <1>8, TargetsAdded DEF vars
<1> QED
  BY <1>2, <1>4, <1>5, <1>6, <1>7, <1>8 DEF Next

\* However the requests for one path overlap, a merged answer has as many
\* replies as there are satellites, all to requests for its client's path.
THEOREM MergesFitTheRequest == Spec => []MergedRepliesMatchTarget
<1>1. Init => TargetInv
  BY InitEmpty DEF TargetInv, BlocksOfPaths
<1>2. IInv /\ OnceInv /\ TargetInv /\ [Next]_vars => TargetInv'
  BY TargetStep
<1>3. TargetInv => MergedRepliesMatchTarget
  BY DEF TargetInv, Merged, FromPath, MergedRepliesMatchTarget
<1> QED
  BY <1>1, <1>2, <1>3, Invariant, ResultsOnce, PTL DEF Spec

-----------------------------------------------------------------------------
(***************************************************************************)
(* A client with its path to itself is the owner of the block, which has   *)
(* its own replies and no others, as nobody else's are still to come.      *)
(***************************************************************************)
Open == {"login", "call"}

\* The results s are c's replies so far, when cs is the state of its calls.
OwnResults(c, s, cs) ==
    /\ \A k \in DOMAIN s : s[k].from = c /\ s[k].val = cs[s[k].sat]
    /\ \A r \in Sats : cs[r] \in SatReplies => \E k \in DOMAIN s : s[k].sat = r

\* ... and all there will be.
AllReplied(cs) == \A r \in Sats : cs[r] \in SatReplies

Complete(c, s, cs) ==
    /\ OwnResults(c, s, cs)
    /\ Len(s) = N
    /\ AllReplied(cs)

Alone(c) ==
    /\ req[c].path \in DOMAIN blocks
    /\ blocks[req[c].path].owner = c
    /\ OwnResults(c, blocks[req[c].path].results, calls[c])
    /\ \A d \in Askers(req[c].path) \ {c}, r \in Sats : calls[d][r] \notin Open

Solo(c) ==
    /\ pc[c] \in {"gathering", "answered", "failed"}
    /\ pc[c] = "gathering" => Alone(c)
    /\ \A i \in DOMAIN answers[c] : Complete(c, answers[c][i].results, calls[c])

SoloInv == \A c \in solo : Solo(c)

\* What others do to their own requests and blocks does not matter to c.
LEMMA SoloSame ==
  ASSUME NEW c \in Clients, Solo(c),
         pc'[c] = pc[c], answers'[c] = answers[c], req'[c] = req[c], calls'[c] = calls[c],
         pc[c] = "gathering" =>
            /\ req[c].path \in DOMAIN blocks' /\ blocks'[req[c].path] = blocks[req[c].path]
            /\ \A d \in Clients \ {c}, r \in Sats :
                  /\ pc'[d] # "idle" /\ req'[d].path = req[c].path /\ calls'[d][r] \in Open
                  => /\ pc[d] # "idle" /\ req[d].path = req[c].path /\ calls[d][r] \in Open
  PROVE  Solo(c)'
<1>1. ASSUME pc[c] = "gathering" PROVE Alone(c)'
  <2>1. Alone(c)
    BY <1>1 DEF Solo
  <2>2. \A d \in Askers(req[c].path)' \ {c}, r \in Sats : calls'[d][r] \notin Open
    BY <1>1, <2>1 DEF Askers, Alone
  <2> QED
    BY <1>1, <2>1, <2>2 DEF Alone, OwnResults
<1> QED
  BY <1>1 DEF Solo, Complete, AllReplied, OwnResults

\* Calls of c that change, but are not replied to, leave its results as they are.
LEMMA OwnResultsKept ==
  ASSUME NEW c \in Clients, NEW s \in Seq(Result), NEW cs, NEW ds, OwnResults(c, s, cs),
         \A r \in Sats : cs[r] \in SatReplies \/ ds[r] \in SatReplies => cs[r] = ds[r]
  PROVE  OwnResults(c, s, ds)
<1>1. \A k \in DOMAIN s : s[k].sat \in Sats /\ s[k].val \in SatReplies
  <2>1. \A k \in DOMAIN s : s[k] \in Result
    OBVIOUS
  <2> QED
    BY <2>1 DEF Result
<1> QED
  BY <1>1 DEF OwnResults

\* A reply of c is added to its results.
LEMMA OwnResultsAppend ==
  ASSUME NEW c \in Clients, NEW r \in Sats, NEW v \in SatReplies,
         NEW s \in Seq(Result), NEW cs \in [Sats -> CallStates], OwnResults(c, s, cs),
         cs[r] = "call"
  PROVE  OwnResults(c, Append(s, [sat |-> r, from |-> c, val |-> v]), [cs EXCEPT ![r] = v])
<1> DEFINE x == [sat |-> r, from |-> c, val |-> v]
           ds == [cs EXCEPT ![r] = v]
<1>1. x \in Result /\ x.sat = r /\ x.from = c /\ x.val = v
  BY DEF Result
<1>2. \A q \in Sats : ds[q] = IF q = r THEN v ELSE cs[q]
  OBVIOUS
<1>3. \A k \in DOMAIN s : s[k].sat \in Sats /\ s[k].val \in SatReplies /\ s[k].from = c
                          /\ s[k].val = cs[s[k].sat]
  <2>1. \A k \in DOMAIN s : s[k] \in Result
    OBVIOUS
  <2> QED
    BY <2>1 DEF Result, OwnResults
<1>4. "call" \notin SatReplies
  BY RepliesAssumption DEF KnownReplies
<1> HIDE DEF x, ds
<1>5. /\ \A k \in DOMAIN Append(s, x) :
            \/ k \in DOMAIN s /\ Append(s, x)[k] = s[k]
            \/ Append(s, x)[k] = x
      /\ \A k \in DOMAIN s : k \in DOMAIN Append(s, x) /\ Append(s, x)[k] = s[k]
      /\ Len(s) + 1 \in DOMAIN Append(s, x) /\ Append(s, x)[Len(s) + 1] = x
  BY <1>1
<1>6. \A k \in DOMAIN Append(s, x) :
        Append(s, x)[k].from = c /\ Append(s, x)[k].val = ds[Append(s, x)[k].sat]
  BY <1>1, <1>2, <1>3, <1>4, <1>5
<1>7. ASSUME NEW q \in Sats, ds[q] \in SatReplies
      PROVE  \E k \in DOMAIN Append(s, x) : Append(s, x)[k].sat = q
  <2>1. CASE q = r
    BY <1>1, <1>5, <2>1
  <2>2. CASE q # r
    <3>1. PICK k \in DOMAIN s : s[k].sat = q
      BY <1>2, <1>7, <2>2 DEF OwnResults
    <3> QED
      BY <1>5, <3>1
  <2> QED
    BY <2>1, <2>2
<1>8. OwnResults(c, Append(s, x), ds)
  BY <1>6, <1>7 DEF OwnResults
<1> QED
  BY <1>8 DEF x, ds

\* A client whose path is quiet has it to itself once the satellites are asked;
\* who had it before has not, and other paths are not concerned.
LEMMA ScatterSolo ==
  ASSUME IInv, SoloInv, NEW c \in Clients, NEW body \in MasterBodies,
         pc[c] = "forwarding", pc' = [pc EXCEPT ![c] = "gathering"],
         Aggregate(c, body), UNCHANGED <<req, answers>>
  PROVE  SoloInv'
<1> DEFINE path == req[c].path
<1>1. /\ blocks' = Emplace(path, NewBlock(c, body))
      /\ calls' = [calls EXCEPT ![c] = [r \in Sats |-> IF NeedsLogin(r) THEN "login" ELSE "call"]]
      /\ solo' = (solo \ Askers(path)) \union (IF Quiet(path) THEN {c} ELSE {})
  BY DEF Aggregate, Scatter, Target
<1>2. /\ pc'[c] = "gathering" /\ \A d \in Clients \ {c} : pc'[d] = pc[d] /\ calls'[d] = calls[d]
      /\ \A r \in Sats : calls'[c][r] \in Open
      /\ c \notin solo /\ c \in Askers(path)
  BY <1>1 DEF IInv, TypeOK, SoloInv, Solo, Askers, Open
<1>3. answers[c] = <<>>
  BY DEF IInv, AtMostOneAnswer
<1>4. ASSUME NEW d \in solo \ Askers(path) PROVE Solo(d)'
  <2>1. d \in Clients \ {c} /\ Solo(d) /\ pc[d] # "idle" /\ req[d].path # path
    BY <1>2, <1>4 DEF IInv, TypeOK, SoloInv, Solo, Askers
  <2>2. pc[d] = "gathering" =>
          req[d].path \in DOMAIN blocks' /\ blocks'[req[d].path] = blocks[req[d].path]
    BY <1>1, <2>1 DEF Solo, Alone, Emplace, Store
  <2> QED
    BY <1>2, <2>1, <2>2, SoloSame
<1>5. ASSUME Quiet(path) PROVE Solo(c)'
  <2>1. path \in DOMAIN blocks' /\ blocks'[path] = NewBlock(c, body)
    BY <1>1, <1>5 DEF Quiet, Emplace, Store
  <2>2. \A r \in Sats : calls'[c][r] \notin SatReplies
    BY <1>2, RepliesAssumption DEF Open, KnownReplies
  <2>3. OwnResults(c, <<>>, calls'[c])
    BY <2>2 DEF OwnResults
  <2>4. \A d \in Askers(path)' \ {c}, r \in Sats : calls'[d][r] \notin Open
    <3>1. \A d \in Askers(path)' \ {c} : d \in Askers(path)
      BY <1>2 DEF Askers
    <3> QED
      BY <1>2, <1>5, <3>1 DEF Quiet, Open, Askers
  <2>5. Alone(c)'
    BY <2>1, <2>3, <2>4 DEF Alone, NewBlock
  <2> QED
    BY <1>2, <1>3, <2>5 DEF Solo
<1> QED
  BY <1>1, <1>4, <1>5 DEF SoloInv

LEMMA LoginSolo ==
  ASSUME IInv, SoloInv, NEW c \in Clients, NEW r \in Sats, LoginReply(c, r)
  PROVE  SoloInv'
<1>1. PICK u \in {"call", "dropped"} :
        calls[c][r] = "login" /\ calls' = [calls EXCEPT ![c][r] = u]
        /\ UNCHANGED <<running, pc, req, blocks, answers, solo>>
  BY DEF LoginReply
<1>2. /\ calls \in [Clients -> [Sats -> CallStates]]
      /\ \A d \in Clients \ {c} : calls'[d] = calls[d]
      /\ \A q \in Sats : calls'[c][q] = IF q = r THEN u ELSE calls[c][q]
  BY <1>1 DEF IInv, TypeOK
<1>3. \A q \in {"login", "call", "dropped"} : q \notin SatReplies
  BY RepliesAssumption DEF KnownReplies
<1>4. \A d \in Clients, q \in Sats : calls'[d][q] \in Open => calls[d][q] \in Open
  BY <1>1, <1>2 DEF Open
<1>5. ASSUME NEW d \in solo, d # c PROVE Solo(d)'
  <2>1. d \in Clients /\ Solo(d)
    BY DEF IInv, TypeOK, SoloInv
  <2>2. pc[d] = "gathering" => req[d].path \in DOMAIN blocks
    BY <2>1 DEF Solo, Alone
  <2> QED
    BY <1>1, <1>2, <1>4, <1>5, <2>1, <2>2, SoloSame
<1>6. ASSUME c \in solo PROVE Solo(c)'
  <2>1. Solo(c)
    BY <1>6 DEF SoloInv
  <2>2. DOMAIN answers[c] = {}
    BY <1>1, <1>3, <2>1 DEF Solo, Complete, AllReplied
  <2>3. ASSUME pc[c] = "gathering" PROVE Alone(c)'
    <3>1. Alone(c)
      BY <2>1, <2>3 DEF Solo
    <3>2. blocks[req[c].path].results \in Seq(Result)
      BY <3>1 DEF Alone, IInv, TypeOK, Block
    <3>3. OwnResults(c, blocks[req[c].path].results, calls'[c])
      <4>1. \A q \in Sats :
              calls[c][q] \in SatReplies \/ calls'[c][q] \in SatReplies => calls[c][q] = calls'[c][q]
        BY <1>1, <1>2, <1>3
      <4>2. OwnResults(c, blocks[req[c].path].results, calls[c])
        BY <3>1 DEF Alone
      <4> QED
        BY <3>2, <4>1, <4>2, OwnResultsKept
    <3>4. \A d \in Askers(req[c].path)' \ {c}, q \in Sats : calls'[d][q] \notin Open
      BY <1>1, <1>4, <3>1 DEF Alone, Askers
    <3> QED
      BY <1>1, <3>1, <3>3, <3>4 DEF Alone
  <2> QED
    BY <1>1, <2>1, <2>2, <2>3 DEF Solo
<1> QED
  BY <1>1, <1>5, <1>6 DEF SoloInv

\* A reply to the only client that still gathers for its path is added to its
\* own, and completes its block if and only if it is the last.
LEMMA OwnReplyParts ==
  ASSUME IInv, OnceInv, NEW c \in Clients, Solo(c), pc[c] = "gathering",
         NEW r \in Sats, NEW v \in SatReplies,
         calls[c][r] = "call", calls'[c] = [calls[c] EXCEPT ![r] = v],
         NEW path, path = req[c].path,
         NEW b, b = Arrive(path, [sat |-> r, from |-> c, val |-> v])
  PROVE  /\ path \in DOMAIN blocks /\ b.owner = c /\ b.results \in Seq(Result)
         /\ OwnResults(c, b.results, calls'[c])
         /\ b.count = 0 => Complete(c, b.results, calls'[c])
         /\ AllReplied(calls'[c]) => b.count = 0
<1> DEFINE x == [sat |-> r, from |-> c, val |-> v]
<1>1. Alone(c)
  BY DEF Solo
<1>2. /\ b \in Block /\ Distinct(b.results)
      /\ b.owner = BlockOf(path).owner
      /\ BlockOf(path).results \in Seq(Result)
      /\ b.results = Append(BlockOf(path).results, x)
      /\ b.owner # Nobody /\ pc[b.owner] = "gathering" => b.count + Len(b.results) = N
  BY LastReply
<1>3. BlockOf(path) = blocks[path] /\ path \in DOMAIN blocks /\ b.owner = c
  BY <1>1, <1>2 DEF Alone, BlockOf
<1>4. calls[c] \in [Sats -> CallStates]
  BY DEF IInv, TypeOK
<1>5. OwnResults(c, b.results, calls'[c])
  <2>1. OwnResults(c, BlockOf(path).results, calls[c])
    BY <1>1, <1>3 DEF Alone
  <2>2. OwnResults(c, Append(BlockOf(path).results, x), [calls[c] EXCEPT ![r] = v])
    BY <1>2, <1>4, <2>1, OwnResultsAppend
  <2> QED
    BY <1>2, <1>4, <2>2
<1>6. b.results \in Seq(Result) /\ b.count \in Nat /\ b.count + Len(b.results) = N
  BY <1>2, <1>3, NobodyAssumption, SatsIsRange DEF Block
<1> HIDE DEF x
<1>7. ASSUME b.count = 0 PROVE Complete(c, b.results, calls'[c])
  <2>1. Len(b.results) = N
    BY <1>6, <1>7
  <2>2. \A q \in Sats : \E k \in DOMAIN b.results : b.results[k].sat = q
    <3>1. \A k \in DOMAIN b.results : b.results[k].from = c
      BY <1>5 DEF OwnResults
    <3> DEFINE s == b.results
    <3>2. s \in Seq(Result) /\ Distinct(s) /\ Len(s) = N /\ \A k \in DOMAIN s : s[k].from = c
      BY <1>2, <1>6, <2>1, <3>1
    <3> HIDE DEF s
    <3>3. \A q \in Sats : \E k \in DOMAIN s : s[k].sat = q
      BY <3>2, EverySat
    <3> QED
      BY <3>3 DEF s
  <2>3. ASSUME NEW q \in Sats PROVE calls'[c][q] \in SatReplies
    <3>1. PICK k \in DOMAIN b.results : b.results[k].sat = q
      BY <2>2
    <3>2. b.results[k] \in Result
      BY <1>6
    <3> QED
      BY <1>5, <3>1, <3>2 DEF OwnResults, Result
  <2> QED
    BY <1>5, <2>1, <2>3 DEF Complete, AllReplied
<1>8. ASSUME b.count # 0, AllReplied(calls'[c]) PROVE FALSE
  <2>1. N <= Len(b.results)
    BY <1>5, <1>6, <1>8, NotFewer DEF OwnResults, AllReplied
  <2> QED
    BY <1>6, <1>8, <2>1, SatsIsRange
<1> QED
  BY <1>3, <1>5, <1>6, <1>7, <1>8

LEMMA OwnReply ==
  ASSUME IInv, OnceInv, NEW c \in Clients, Solo(c), pc[c] = "gathering",
         NEW r \in Sats, NEW v \in SatReplies, CallReply(c, r, v)
  PROVE  Solo(c)'
<1> DEFINE path == req[c].path
           b == Arrive(path, [sat |-> r, from |-> c, val |-> v])
<1>1. Alone(c)
  BY DEF Solo
<1>2. /\ calls[c][r] = "call" /\ calls' = [calls EXCEPT ![c][r] = v]
      /\ UNCHANGED <<req, token, solo>>
      /\ \/ b.count # 0 /\ blocks' = Store(path, b) /\ UNCHANGED <<running, pc, answers>>
         \/ b.count = 0 /\ blocks' = Erase(path) /\ Respond(b.owner, "merged", b.results)
         \/ b.count = 0 /\ blocks' = Store(path, Spent(b)) /\ Throw(b.owner)
  BY CallReplyCases
<1>3. /\ b.owner = c /\ b.results \in Seq(Result)
      /\ OwnResults(c, b.results, calls'[c])
      /\ b.count = 0 => Complete(c, b.results, calls'[c])
  <2>1. calls[c][r] = "call" /\ calls'[c] = [calls[c] EXCEPT ![r] = v]
    BY <1>2 DEF IInv, TypeOK
  <2> QED
    BY <2>1, OwnReplyParts
<1>4. \A d \in Clients \ {c} : calls'[d] = calls[d]
  BY <1>2 DEF IInv, TypeOK
<1>5. answers[c] = <<>>
  BY DEF IInv, AtMostOneAnswer
<1> HIDE DEF b, path
<1>6. CASE b.count # 0 /\ blocks' = Store(path, b) /\ UNCHANGED <<running, pc, answers>>
  <2>1. path \in DOMAIN blocks' /\ blocks'[path] = b
    BY <1>6 DEF Store
  <2>2. \A d \in Askers(path)' \ {c}, q \in Sats : calls'[d][q] \notin Open
    BY <1>1, <1>2, <1>4, <1>6 DEF Alone, Askers, path
  <2>3. Alone(c)'
    BY <1>2, <1>3, <2>1, <2>2 DEF Alone, path
  <2> QED
    BY <1>5, <1>6, <2>3 DEF Solo
<1>7. CASE b.count = 0 /\ blocks' = Erase(path) /\ Respond(b.owner, "merged", b.results)
  <2> DEFINE a == [kind |-> "merged", results |-> b.results]
  <2>1. answers'[c] = <<a>> /\ pc'[c] = "answered"
    <3>1. /\ answers' = [answers EXCEPT ![c] = <<a>>]
          /\ pc' = [pc EXCEPT ![c] = "answered"]
      BY <1>3, <1>7, RespondFirst
    <3> QED
      BY <3>1 DEF IInv, TypeOK
  <2>2. \A i \in DOMAIN answers'[c] : answers'[c][i].results = b.results
    BY <2>1
  <2> QED
    BY <1>3, <1>7, <2>1, <2>2 DEF Solo
<1>8. CASE b.count = 0 /\ blocks' = Store(path, Spent(b)) /\ Throw(b.owner)
  BY <1>3, <1>5, <1>8 DEF Throw, Solo
<1> QED
  BY <1>2, <1>6, <1>7, <1>8

\* A reply to another client concerns another path, or nobody who has it alone.
LEMMA OthersReply ==
  ASSUME IInv, OnceInv, NEW c \in Clients, Solo(c),
         NEW d \in Clients, d # c \/ pc[c] # "gathering",
         NEW r \in Sats, NEW v \in SatReplies, CallReply(d, r, v)
  PROVE  Solo(c)'
<1> DEFINE path == req[d].path
           b == Arrive(path, [sat |-> r, from |-> d, val |-> v])
<1>1. /\ calls[d][r] = "call" /\ calls' = [calls EXCEPT ![d][r] = v]
      /\ UNCHANGED <<req, token, solo>>
      /\ \/ b.count # 0 /\ blocks' = Store(path, b) /\ UNCHANGED <<running, pc, answers>>
         \/ b.count = 0 /\ blocks' = Erase(path) /\ Respond(b.owner, "merged", b.results)
         \/ b.count = 0 /\ blocks' = Store(path, Spent(b)) /\ Throw(b.owner)
  BY CallReplyCases
<1>2. /\ b \in Block
      /\ b.count = 0 =>
           /\ b.owner \in Clients
           /\ pc[b.owner] = "gathering"
           /\ req[b.owner].path = path
  BY <1>1, LastReply
<1>3. /\ \A e \in Clients \ {d} : calls'[e] = calls[e]
      /\ \A e \in Clients, q \in Sats : calls'[e][q] \in Open => calls[e][q] \in Open
      /\ "call" \notin SatReplies
  <2>1. v \notin Open /\ "call" \notin SatReplies
    BY RepliesAssumption DEF Open, KnownReplies
  <2> QED
    BY <1>1, <2>1 DEF IInv, TypeOK
<1>4. b.results \in Seq(Result)
  BY <1>2 DEF Block
<1> HIDE DEF b, path
<1>5. \A e \in Clients : pc'[e] # "idle" => pc[e] # "idle"
  BY <1>1, <1>2 DEF IInv, TypeOK, Respond, Throw
<1>6. ASSUME pc[c] = "gathering" PROVE req[c].path # path
  <2>1. d # c /\ d \in Clients /\ pc[d] # "idle"
    BY <1>1, <1>6 DEF IInv, Asked
  <2>2. d \notin Askers(req[c].path)
    BY <1>1, <1>6, <2>1 DEF Solo, Alone, Open
  <2> QED
    BY <2>1, <2>2 DEF Askers, path
<1>7. b.count = 0 => b.owner # c
  BY <1>2, <1>6
<1>8. pc'[c] = pc[c] /\ answers'[c] = answers[c]
  BY <1>1, <1>2, <1>7 DEF Respond, Throw, IInv, TypeOK
<1>9. CASE pc[c] = "gathering"
  <2>1. d # c
    BY <1>9
  <2>2. req[c].path \in DOMAIN blocks' /\ blocks'[req[c].path] = blocks[req[c].path]
    BY <1>1, <1>6, <1>9 DEF Solo, Alone, Store, Erase
  <2> QED
    BY <1>1, <1>3, <1>5, <1>8, <2>1, <2>2, SoloSame
<1>10. CASE pc[c] # "gathering"
  <2>1. CASE c = d
    BY <1>1, <1>3, <1>8, <1>10, <2>1 DEF Solo, Complete, AllReplied
  <2>2. CASE c # d
    BY <1>1, <1>3, <1>8, <1>10, <2>2, SoloSame
  <2> QED
    BY <2>1, <2>2
<1> QED
  BY <1>9, <1>10

LEMMA SoloStep ==
  ASSUME IInv, OnceInv, SoloInv, [Next]_vars
  PROVE  SoloInv'
<1>0. ASSUME NEW d \in solo PROVE d \in Clients /\ Solo(d)
  BY DEF IInv, TypeOK, SoloInv
<1>1. ASSUME NEW c \in Clients, NEW rq \in Requests, Handle(c, rq) PROVE SoloInv'
  <2>1. /\ pc[c] = "idle" /\ UNCHANGED <<blocks, calls, solo>>
        /\ \A d \in Clients \ {c} : pc'[d] = pc[d] /\ req'[d] = req[d] /\ answers'[d] = answers[d]
    BY <1>1 DEF Handle, Respond, IInv, TypeOK
  <2>2. \A r \in Sats : calls[c][r] \notin Open
    BY <2>1 DEF IInv, Asked, Open
  <2>3. ASSUME NEW d \in solo PROVE Solo(d)'
    <3>1. d \in Clients \ {c} /\ Solo(d)
      BY <1>0, <2>1 DEF Solo
    <3>2. pc[d] = "gathering" => req[d].path \in DOMAIN blocks
      BY <3>1 DEF Solo, Alone
    <3> QED
      BY <2>1, <2>2, <3>1, <3>2, SoloSame
  <2> QED
    BY <2>1, <2>3 DEF SoloInv
<1>2. ASSUME NEW c \in Clients, pc[c] = "forwarding", Ends(c), UNCHANGED req PROVE SoloInv'
  <2>1. /\ UNCHANGED <<blocks, calls, solo>> /\ pc'[c] # "idle"
        /\ \A d \in Clients \ {c} : pc'[d] = pc[d] /\ answers'[d] = answers[d]
    BY <1>2 DEF Ends, Respond, Throw, IInv, TypeOK
  <2>2. ASSUME NEW d \in solo PROVE Solo(d)'
    <3>1. d \in Clients \ {c} /\ Solo(d)
      BY <1>0, <1>2 DEF Solo
    <3>2. pc[d] = "gathering" => req[d].path \in DOMAIN blocks
      BY <3>1 DEF Solo, Alone
    <3> QED
      BY <1>2, <2>1, <3>1, <3>2, SoloSame
  <2> QED
    BY <2>1, <2>2 DEF SoloInv
<1>3. ASSUME NEW c \in Clients, NEW body \in MasterBodies, ForwardReply(c, body)
      PROVE  SoloInv'
  BY <1>2, <1>3, ForwardCases, ScatterSolo
<1>4. ASSUME NEW c \in Clients, ForwardFailed(c) PROVE SoloInv'
  BY <1>2, <1>4, ForwardFails
<1>5. ASSUME NEW c \in Clients, NEW r \in Sats, LoginReply(c, r) PROVE SoloInv'
  BY <1>5, LoginSolo
<1>6. ASSUME NEW c \in Clients, NEW r \in Sats, NEW v \in SatReplies, CallReply(c, r, v)
      PROVE  SoloInv'
  <2>1. solo' = solo
    BY <1>6, Zenon DEF CallReply
  <2> QED
    BY <1>0, <1>6, <2>1, OwnReply, OthersReply DEF SoloInv
<1>7. CASE UNCHANGED vars
  BY <1>7 DEF vars, SoloInv, Solo, Alone, Complete, AllReplied, OwnResults, Askers
<1> QED
  BY <1>1, <1>3, <1>4, <1>5, <1>6, <1>7 DEF Next

THEOREM SoloHolds == Spec => []SoloInv
<1>1. Init => SoloInv
  BY DEF Init, SoloInv
<1>2. IInv /\ OnceInv /\ SoloInv /\ [Next]_vars => SoloInv'
  BY SoloStep
<1> QED
  BY <1>1, <1>2, Invariant, ResultsOnce, PTL DEF Spec

\* A client that gathers with its path to itself is answered with the reply of
\* each satellite to its own request, and nothing else.
THEOREM UndisturbedMergesAreExact == Spec => []UndisturbedIsExact
<1>1. ASSUME IInv, SoloInv PROVE UndisturbedIsExact
  <2> SUFFICES ASSUME NEW c \in solo
               PROVE  /\ pc[c] = "gathering" =>
                          /\ req[c].path \in DOMAIN blocks
                          /\ blocks[req[c].path].owner = c
                      /\ \A i \in DOMAIN answers[c] :
                            /\ Len(answers[c][i].results) = N
                            /\ Range(answers[c][i].results) = OwnReplies(c)
    BY DEF UndisturbedIsExact
  <2>1. c \in Clients /\ Solo(c)
    BY <1>1 DEF IInv, TypeOK, SoloInv
  <2>2. ASSUME NEW i \in DOMAIN answers[c]
        PROVE  /\ Len(answers[c][i].results) = N
               /\ Range(answers[c][i].results) = OwnReplies(c)
    <3> DEFINE s == answers[c][i].results
    <3>1. s \in Seq(Result)
      <4>1. answers[c] \in Seq(Answer)
        BY <1>1, <2>1 DEF IInv, TypeOK
      <4>2. answers[c][i] \in Answer
        BY <4>1
      <4> QED
        BY <4>2 DEF Answer
    <3>2. Complete(c, s, calls[c])
      BY <2>1 DEF Solo
    <3> HIDE DEF s
    <3>3. \A k \in DOMAIN s : s[k] = [sat |-> s[k].sat, from |-> c, val |-> calls[c][s[k].sat]]
                              /\ s[k].sat \in Sats
      <4>1. \A k \in DOMAIN s : s[k] \in Result
        BY <3>1
      <4> QED
        BY <3>2, <4>1 DEF Complete, AllReplied, OwnResults, Result
    <3>4. \A r \in Sats : \E k \in DOMAIN s : s[k].sat = r
      BY <3>2 DEF Complete, AllReplied, OwnResults
    <3>5. Range(s) = OwnReplies(c)
      <4>1. ASSUME NEW y \in Range(s) PROVE y \in OwnReplies(c)
        BY <3>3, <4>1 DEF Range, OwnReplies
      <4>2. ASSUME NEW y \in OwnReplies(c) PROVE y \in Range(s)
        BY <3>3, <3>4, <4>2 DEF Range, OwnReplies
      <4> QED
        BY <4>1, <4>2
    <3> QED
      BY <3>2, <3>5 DEF Complete, AllReplied, s
  <2> QED
    BY <2>1, <2>2 DEF Solo, Alone
<1>2. IInv /\ SoloInv => UndisturbedIsExact
  BY <1>1
<1> QED
  BY <1>2, Invariant, SoloHolds, PTL

=============================================================================
