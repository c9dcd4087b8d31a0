-------------------------- MODULE AggregatorProofs --------------------------
(***************************************************************************)
(* The safety of the aggregator for every set of clients, list of          *)
(* satellites, set of requests and kind of reply.  No invariant of         *)
(* Aggregator is inductive by itself: that a client is answered once rests *)
(* on blocks having distinct clients that still wait (OwnersMatch), that   *)
(* on a block being erased or emptied when its count reaches zero, and     *)
(* that on the count agreeing with the results (BlocksAccounted).  IInv    *)
(* joins them, with Asked.                                                 *)
(***************************************************************************)
EXTENDS Aggregator, TLAPS

\* A client that has asked has a request, and only a client whose forwarded
\* request was answered has scattered ones.
Asked ==
    \A c \in Clients :
        /\ pc[c] # "idle" => req[c] \in Requests
        /\ \A r \in Sats : calls[c][r] # "none" => pc[c] \in {"gathering", "answered", "failed"}

IInv == TypeOK /\ Asked /\ OwnersMatch /\ AtMostOneAnswer /\ BlocksAccounted

LEMMA SatsIsRange == Sats = 1..N /\ N \in Nat /\ N <= SizeMax /\ SizeMax \in Nat
  BY SatNamesAssumption, SizeMaxAssumption DEF Sats, N

\* The invariant holds before the first request.
THEOREM InitIInv == Init => IInv
<1> SUFFICES ASSUME Init PROVE IInv
  OBVIOUS
<1>1. DOMAIN blocks = {}
  BY DEF Init
<1>2. answers = [c \in Clients |-> <<>>]
  BY DEF Init
<1>3. TypeOK
  <2>1. blocks \in [DOMAIN blocks -> Block]
    BY <1>1 DEF Init
  <2>2. answers \in [Clients -> Seq(Answer)]
    BY <1>2
  <2> QED
    BY <1>1, <2>1, <2>2 DEF Init, TypeOK, CallStates
<1>4. Asked
  BY DEF Init, Asked
<1>5. OwnersMatch /\ BlocksAccounted
  BY <1>1 DEF OwnersMatch, BlocksAccounted
<1>6. AtMostOneAnswer
  BY <1>2 DEF AtMostOneAnswer
<1> QED
  BY <1>3, <1>4, <1>5, <1>6 DEF IInv

-----------------------------------------------------------------------------
(* The parts of the actions. *)

LEMMA RespondParts ==
  ASSUME TypeOK, NEW c \in Clients, NEW kind \in {"error500", "relayed", "merged"},
         NEW results \in Seq(Result), Respond(c, kind, results)
  PROVE  /\ pc' \in [Clients -> {"idle", "forwarding", "gathering", "answered", "failed"}]
         /\ answers' \in [Clients -> Seq(Answer)]
         /\ pc'[c] = "answered"
         /\ \A d \in Clients \ {c} : pc'[d] = pc[d] /\ answers'[d] = answers[d]
         /\ Len(answers'[c]) = Len(answers[c]) + 1
<1> DEFINE a == [kind |-> kind, results |-> results]
<1>1. a \in Answer
  BY DEF Answer
<1>2. answers' = [answers EXCEPT ![c] = Append(@, a)]
  BY DEF Respond
<1>3. answers \in [Clients -> Seq(Answer)]
  BY DEF TypeOK
<1>4. Append(answers[c], a) \in Seq(Answer) /\ Len(Append(answers[c], a)) = Len(answers[c]) + 1
  BY <1>1, <1>3
<1> HIDE DEF a
<1>5. /\ answers' \in [Clients -> Seq(Answer)]
      /\ \A d \in Clients \ {c} : answers'[d] = answers[d]
      /\ Len(answers'[c]) = Len(answers[c]) + 1
  BY <1>2, <1>3, <1>4
<1>6. /\ pc' \in [Clients -> {"idle", "forwarding", "gathering", "answered", "failed"}]
      /\ pc'[c] = "answered"
      /\ \A d \in Clients \ {c} : pc'[d] = pc[d]
  BY DEF Respond, TypeOK
<1> QED
  BY <1>5, <1>6

LEMMA ThrowParts ==
  ASSUME TypeOK, NEW c, Throw(c)
  PROVE  /\ pc' \in [Clients -> {"idle", "forwarding", "gathering", "answered", "failed"}]
         /\ running' \in BOOLEAN
         /\ answers' = answers
         /\ \A d \in Clients : pc'[d] = IF d = c THEN "failed" ELSE pc[d]
  BY DEF Throw, TypeOK

LEMMA StoreParts ==
  ASSUME NEW path \in Paths, NEW b \in Block, TypeOK
  PROVE  /\ DOMAIN Store(path, b) = DOMAIN blocks \union {path}
         /\ Store(path, b) \in [DOMAIN Store(path, b) -> Block]
         /\ Store(path, b)[path] = b
         /\ \A p \in DOMAIN blocks \ {path} : Store(path, b)[p] = blocks[p]
  BY DEF Store, TypeOK

LEMMA OwnerTypes ==
  ASSUME TypeOK, OwnersMatch, NEW path \in DOMAIN blocks, blocks[path].owner # Nobody
  PROVE  /\ blocks[path] \in Block
         /\ blocks[path].owner \in Clients
         /\ req[blocks[path].owner].path = path
         /\ pc[blocks[path].owner] \in {"gathering", "failed"}
<1>1. blocks[path] \in Block
  BY DEF TypeOK
<1>2. blocks[path].owner \in Clients
  BY <1>1 DEF Block
<1> QED
  BY <1>1, <1>2 DEF OwnersMatch

\* A block is only ever left by its own client, so a step of a client that
\* owns none keeps what the invariant says of the blocks.
LEMMA OtherBlocks ==
  ASSUME TypeOK, OwnersMatch, BlocksAccounted, UNCHANGED blocks,
         NEW c \in Clients, pc[c] \notin {"gathering", "failed"},
         \A d \in Clients \ {c} : pc'[d] = pc[d] /\ req'[d] = req[d]
  PROVE  OwnersMatch' /\ BlocksAccounted'
<1>1. ASSUME NEW path \in DOMAIN blocks, blocks[path].owner # Nobody
      PROVE  LET d == blocks[path].owner IN pc'[d] = pc[d] /\ req'[d] = req[d]
  BY <1>1, OwnerTypes
<1>2. OwnersMatch'
  BY <1>1 DEF OwnersMatch
<1>3. BlocksAccounted'
  BY <1>1 DEF BlocksAccounted
<1> QED
  BY <1>2, <1>3

-----------------------------------------------------------------------------
(* Every action keeps the invariant. *)

LEMMA HandleStep ==
  ASSUME IInv, NEW c \in Clients, NEW rq \in Requests, Handle(c, rq)
  PROVE  IInv'
<1> USE DEF IInv
<1>1. pc[c] = "idle" /\ answers[c] = <<>>
  BY DEF Handle, AtMostOneAnswer
<1>2. req' = [req EXCEPT ![c] = rq] /\ UNCHANGED <<running, blocks, calls, token, solo>>
  BY DEF Handle
<1>3. /\ pc' \in [Clients -> {"idle", "forwarding", "gathering", "answered", "failed"}]
      /\ answers' \in [Clients -> Seq(Answer)]
      /\ pc'[c] \in {"forwarding", "answered"}
      /\ \A d \in Clients \ {c} : pc'[d] = pc[d] /\ answers'[d] = answers[d]
      /\ Len(answers'[c]) <= 1
      /\ answers'[c] # <<>> => pc'[c] = "answered"
  <2>1. CASE rq.text
    <3>1. pc' = [pc EXCEPT ![c] = "forwarding"] /\ answers' = answers
      BY <2>1 DEF Handle
    <3> QED
      BY <3>1, <1>1 DEF TypeOK, AtMostOneAnswer
  <2>2. CASE ~rq.text
    <3>1. Respond(c, "error500", <<>>)
      BY <2>2 DEF Handle
    <3>2. <<>> \in Seq(Result)
      OBVIOUS
    <3>3. Len(answers[c]) = 0
      BY <1>1
    <3>4. /\ pc' \in [Clients -> {"idle", "forwarding", "gathering", "answered", "failed"}]
          /\ answers' \in [Clients -> Seq(Answer)]
          /\ pc'[c] = "answered"
          /\ \A d \in Clients \ {c} : pc'[d] = pc[d] /\ answers'[d] = answers[d]
          /\ Len(answers'[c]) = Len(answers[c]) + 1
      BY <3>1, <3>2, RespondParts
    <3> QED
      BY <3>3, <3>4
  <2> QED
    BY <2>1, <2>2
<1>4. TypeOK'
  BY <1>2, <1>3 DEF TypeOK
<1>5. Asked'
  BY <1>1, <1>2, <1>3 DEF Asked, TypeOK
<1>6. AtMostOneAnswer'
  BY <1>3 DEF AtMostOneAnswer
<1>7. OwnersMatch' /\ BlocksAccounted'
  BY <1>1, <1>2, <1>3, OtherBlocks DEF TypeOK
<1> QED
  BY <1>4, <1>5, <1>6, <1>7

\* The step of aggregate(): the new block has its client, expects every reply,
\* and disturbs no other.
LEMMA AggregateStep ==
  ASSUME IInv, NEW c \in Clients, NEW body \in KnownBodies, pc[c] = "forwarding",
         pc' = [pc EXCEPT ![c] = "gathering"], Aggregate(c, body),
         UNCHANGED <<running, answers, req, token>>
  PROVE  IInv'
<1> USE DEF IInv
<1> DEFINE path == req[c].path
           b == NewBlock(c, body)
<1>1. req[c] \in Requests /\ path \in Paths /\ c # Nobody /\ answers[c] = <<>>
  BY NobodyAssumption DEF Asked, Paths, AtMostOneAnswer
<1>2. b \in Block /\ b.count = N /\ Len(b.results) = 0 /\ b.owner = c
  BY SatsIsRange DEF NewBlock, Block
<1>3. /\ blocks' = IF path \in DOMAIN blocks THEN blocks ELSE Store(path, b)
      /\ calls' = [calls EXCEPT ![c] = [r \in Sats |-> IF NeedsLogin(r) THEN "login" ELSE "call"]]
      /\ solo' \subseteq solo \union {c}
  BY DEF Aggregate, Scatter, Emplace, Target
<1> HIDE DEF b
<1>4. /\ DOMAIN blocks' = DOMAIN blocks \union {path}
      /\ blocks' \in [DOMAIN blocks' -> Block]
      /\ \A p \in DOMAIN blocks : blocks'[p] = blocks[p]
      /\ path \notin DOMAIN blocks => blocks'[path] = b
  <2>1. CASE path \in DOMAIN blocks
    BY <2>1, <1>3 DEF TypeOK
  <2>2. CASE path \notin DOMAIN blocks
    <3>1. blocks' = Store(path, b)
      BY <2>2, <1>3
    <3>2. path \in Paths /\ b \in Block /\ TypeOK
      BY <1>1, <1>2
    <3> HIDE DEF path
    <3>3. /\ DOMAIN Store(path, b) = DOMAIN blocks \union {path}
          /\ Store(path, b) \in [DOMAIN Store(path, b) -> Block]
          /\ Store(path, b)[path] = b
          /\ \A p \in DOMAIN blocks \ {path} : Store(path, b)[p] = blocks[p]
      BY <3>2, StoreParts
    <3> QED
      BY <2>2, <3>1, <3>3
  <2> QED
    BY <2>1, <2>2
<1>5. calls' \in [Clients -> [Sats -> CallStates]] /\ \A d \in Clients \ {c} : calls'[d] = calls[d]
  BY <1>3 DEF TypeOK, CallStates
<1>6. /\ pc' \in [Clients -> {"idle", "forwarding", "gathering", "answered", "failed"}]
      /\ pc'[c] = "gathering"
      /\ \A d \in Clients \ {c} : pc'[d] = pc[d]
  BY DEF TypeOK
<1>7. TypeOK'
  BY <1>1, <1>3, <1>4, <1>5, <1>6 DEF TypeOK
<1>8. Asked'
  BY <1>1, <1>5, <1>6 DEF Asked
<1>9. AtMostOneAnswer'
  BY <1>1, <1>6 DEF AtMostOneAnswer
<1>10. ASSUME NEW p \in DOMAIN blocks, blocks[p].owner # Nobody
       PROVE  blocks[p].owner \in Clients \ {c} /\ pc'[blocks[p].owner] = pc[blocks[p].owner]
  BY <1>6, <1>10, OwnerTypes
<1>11. OwnersMatch'
  <2>1. ASSUME NEW p \in DOMAIN blocks', blocks'[p].owner # Nobody
        PROVE  LET d == blocks'[p].owner IN
               req[d] # Nobody /\ req[d].path = p /\ pc'[d] \in {"gathering", "failed"}
    <3>1. CASE p \in DOMAIN blocks
      BY <2>1, <3>1, <1>4, <1>10 DEF OwnersMatch
    <3>2. CASE p \notin DOMAIN blocks
      BY <3>2, <1>1, <1>2, <1>4, <1>6, RequestsAssumption
    <3> QED
      BY <3>1, <3>2
  <2> QED
    BY <2>1 DEF OwnersMatch
<1>12. BlocksAccounted'
  <2>1. ASSUME NEW p \in DOMAIN blocks'
        PROVE  IF blocks'[p].owner # Nobody /\ pc'[blocks'[p].owner] = "gathering"
                 THEN /\ blocks'[p].count + Len(blocks'[p].results) = N
                      /\ blocks'[p].count = 0 => N = 0
                 ELSE Len(blocks'[p].results) =
                        IF blocks'[p].count = 0 THEN 0 ELSE SizeMax + 1 - blocks'[p].count
    <3>1. CASE p \in DOMAIN blocks
      BY <3>1, <1>4, <1>10 DEF BlocksAccounted
    <3>2. CASE p \notin DOMAIN blocks
      BY <3>2, <1>1, <1>2, <1>4, <1>6, SatsIsRange
    <3> QED
      BY <3>1, <3>2
  <2> QED
    BY <2>1, SatsIsRange DEF BlocksAccounted
<1> QED
  BY <1>7, <1>8, <1>9, <1>11, <1>12

\* A client without a block that ends, with its answer or without one.
LEMMA EndsWithoutBlock ==
  ASSUME IInv, NEW c \in Clients, pc[c] = "forwarding",
         UNCHANGED <<req, blocks, calls, token, solo>>,
         \/ Throw(c)
         \/ /\ UNCHANGED running
            /\ \E kind \in {"error500", "relayed"} : Respond(c, kind, <<>>)
  PROVE  IInv'
<1> USE DEF IInv
<1>1. answers[c] = <<>> /\ Len(answers[c]) = 0
  BY DEF AtMostOneAnswer
<1>2. /\ pc' \in [Clients -> {"idle", "forwarding", "gathering", "answered", "failed"}]
      /\ answers' \in [Clients -> Seq(Answer)]
      /\ running' \in BOOLEAN
      /\ \A d \in Clients \ {c} : pc'[d] = pc[d] /\ answers'[d] = answers[d]
      /\ \/ pc'[c] = "failed" /\ answers'[c] = <<>>
         \/ pc'[c] = "answered" /\ Len(answers'[c]) = 1
  <2>1. CASE Throw(c)
    BY <2>1, <1>1, ThrowParts DEF TypeOK
  <2>2. CASE UNCHANGED running /\ \E kind \in {"error500", "relayed"} : Respond(c, kind, <<>>)
    <3>1. PICK kind \in {"error500", "relayed"} : Respond(c, kind, <<>>)
      BY <2>2
    <3>2. <<>> \in Seq(Result)
      OBVIOUS
    <3>3. /\ pc' \in [Clients -> {"idle", "forwarding", "gathering", "answered", "failed"}]
          /\ answers' \in [Clients -> Seq(Answer)]
          /\ pc'[c] = "answered"
          /\ \A d \in Clients \ {c} : pc'[d] = pc[d] /\ answers'[d] = answers[d]
          /\ Len(answers'[c]) = Len(answers[c]) + 1
      BY <3>1, <3>2, RespondParts
    <3>4. Len(answers'[c]) = 1
      BY <3>3, <1>1
    <3>5. running' \in BOOLEAN
      BY <2>2 DEF TypeOK
    <3> QED
      BY <3>3, <3>4, <3>5
  <2> QED
    BY <2>1, <2>2
<1>3. TypeOK'
  BY <1>2 DEF TypeOK
<1>4. Asked'
  BY <1>2 DEF Asked
<1>5. AtMostOneAnswer'
  <2>1. Len(answers'[c]) <= 1 /\ (answers'[c] # <<>> => pc'[c] = "answered")
    <3>1. CASE pc'[c] = "failed" /\ answers'[c] = <<>>
      BY <3>1
    <3>2. CASE pc'[c] = "answered" /\ Len(answers'[c]) = 1
      BY <3>2
    <3> QED
      BY <3>1, <3>2, <1>2
  <2> QED
    BY <2>1, <1>2 DEF AtMostOneAnswer
<1>6. OwnersMatch' /\ BlocksAccounted'
  BY <1>2, OtherBlocks
<1> QED
  BY <1>3, <1>4, <1>5, <1>6

LEMMA ForwardReplyStep ==
  ASSUME IInv, NEW c \in Clients, NEW body \in MasterBodies, ForwardReply(c, body)
  PROVE  IInv'
<1>1. pc[c] = "forwarding" /\ UNCHANGED <<req, token>>
  BY DEF ForwardReply
<1>2. CASE Respond(c, "relayed", <<>>) /\ UNCHANGED <<running, blocks, calls, solo>>
  BY <1>1, <1>2, EndsWithoutBlock
<1>3. CASE Respond(c, "error500", <<>>) /\ UNCHANGED <<running, blocks, calls, solo>>
  BY <1>1, <1>3, EndsWithoutBlock
<1>4. CASE Throw(c) /\ UNCHANGED <<blocks, calls, solo>>
  BY <1>1, <1>4, EndsWithoutBlock
<1>5. CASE /\ pc' = [pc EXCEPT ![c] = "gathering"]
           /\ Aggregate(c, body)
           /\ UNCHANGED <<running, answers>>
  BY <1>1, <1>5, AggregateStep, RepliesAssumption
<1> QED
  BY <1>2, <1>3, <1>4, <1>5 DEF ForwardReply

LEMMA ForwardFailedStep ==
  ASSUME IInv, NEW c \in Clients, ForwardFailed(c)
  PROVE  IInv'
  BY EndsWithoutBlock DEF ForwardFailed

LEMMA LoginReplyStep ==
  ASSUME IInv, NEW c \in Clients, NEW r \in Sats, LoginReply(c, r)
  PROVE  IInv'
<1> USE DEF IInv
<1>1. calls[c][r] = "login" /\ UNCHANGED <<running, pc, req, blocks, answers, solo>>
  BY DEF LoginReply
<1>2. /\ calls' \in [Clients -> [Sats -> CallStates]]
      /\ token' \in [Sats -> {"", "token"}]
      /\ \A d \in Clients, s \in Sats : calls[d][s] = "none" => calls'[d][s] = "none"
  <2>1. ASSUME NEW t \in {"", "token"},
               token' = [token EXCEPT ![r] = t] /\ calls' = [calls EXCEPT ![c][r] = "call"]
        PROVE  /\ calls' \in [Clients -> [Sats -> CallStates]]
               /\ token' \in [Sats -> {"", "token"}]
               /\ \A d \in Clients, s \in Sats : calls[d][s] = "none" => calls'[d][s] = "none"
    BY <2>1, <1>1 DEF TypeOK, CallStates
  <2>2. CASE calls' = [calls EXCEPT ![c][r] = "dropped"] /\ UNCHANGED token
    BY <2>2, <1>1 DEF TypeOK, CallStates
  <2> QED
    BY <2>1, <2>2 DEF LoginReply
<1>3. TypeOK'
  BY <1>1, <1>2 DEF TypeOK
<1>4. Asked'
  BY <1>1, <1>2 DEF Asked
<1>5. AtMostOneAnswer' /\ OwnersMatch' /\ BlocksAccounted'
  BY <1>1 DEF AtMostOneAnswer, OwnersMatch, BlocksAccounted
<1> QED
  BY <1>3, <1>4, <1>5

\* What a reply makes of its block, and whose block it is.
LEMMA ArriveParts ==
  ASSUME IInv, NEW path \in Paths, NEW result \in Result, N # 0,
         NEW b, b = Arrive(path, result)
  PROVE  /\ b \in Block
         /\ b.owner # Nobody =>
              /\ path \in DOMAIN blocks
              /\ b.owner = blocks[path].owner
              /\ b.owner \in Clients
              /\ req[b.owner] # Nobody
              /\ req[b.owner].path = path
              /\ pc[b.owner] \in {"gathering", "failed"}
         /\ IF b.owner # Nobody /\ pc[b.owner] = "gathering"
              THEN b.count + Len(b.results) = N
              ELSE b.count # 0 => Len(b.results) = SizeMax + 1 - b.count
<1> USE DEF IInv
<1> DEFINE old == BlockOf(path)
<1>1. old \in Block
  <2>1. DefaultBlock \in Block
    <3>1. <<>> \in Seq(Result) /\ 0 \in 0..SizeMax /\ "noMembers" \in KnownBodies
      BY SatsIsRange DEF KnownBodies
    <3> QED
      BY <3>1 DEF DefaultBlock, Block
  <2>2. path \in DOMAIN blocks => blocks[path] \in Block
    BY DEF TypeOK
  <2> QED
    BY <2>1, <2>2 DEF BlockOf
<1>2. /\ b.owner = old.owner /\ b.body = old.body
      /\ b.count = Dec(old.count)
      /\ b.results = Append(old.results, result)
      /\ b = [count |-> b.count, results |-> b.results, owner |-> b.owner, body |-> b.body]
  BY <1>1 DEF Arrive, Block
<1>3. /\ b.results \in Seq(Result) /\ Len(b.results) = Len(old.results) + 1
      /\ Len(old.results) \in Nat
  BY <1>1, <1>2 DEF Block
<1>4. /\ old.count \in 0..SizeMax /\ b.count \in 0..SizeMax
      /\ b.count = IF old.count = 0 THEN SizeMax ELSE old.count - 1
  BY <1>1, <1>2, SatsIsRange DEF Block, Dec
<1>5. b \in Block
  BY <1>1, <1>2, <1>3, <1>4 DEF Block
<1>6. b.owner # Nobody => path \in DOMAIN blocks /\ old = blocks[path]
  BY <1>2 DEF BlockOf, DefaultBlock
<1>7. ASSUME b.owner # Nobody
      PROVE  /\ b.owner \in Clients
             /\ req[b.owner] # Nobody
             /\ req[b.owner].path = path
             /\ pc[b.owner] \in {"gathering", "failed"}
  BY <1>2, <1>6, <1>7, OwnerTypes DEF OwnersMatch
<1>8. IF old.owner # Nobody /\ pc[old.owner] = "gathering"
        THEN old.count + Len(old.results) = N /\ old.count # 0
        ELSE Len(old.results) = IF old.count = 0 THEN 0 ELSE SizeMax + 1 - old.count
  <2>1. CASE path \in DOMAIN blocks
    BY <2>1 DEF BlocksAccounted, BlockOf
  <2>2. CASE path \notin DOMAIN blocks
    BY <2>2 DEF BlockOf, DefaultBlock
  <2> QED
    BY <2>1, <2>2
<1> HIDE DEF old
<1>9. IF b.owner # Nobody /\ pc[b.owner] = "gathering"
        THEN b.count + Len(b.results) = N
        ELSE b.count # 0 => Len(b.results) = SizeMax + 1 - b.count
  <2>1. CASE b.owner # Nobody /\ pc[b.owner] = "gathering"
    BY <2>1, <1>2, <1>3, <1>4, <1>8, SatsIsRange
  <2>2. CASE ~(b.owner # Nobody /\ pc[b.owner] = "gathering")
    <3>1. Len(old.results) = IF old.count = 0 THEN 0 ELSE SizeMax + 1 - old.count
      BY <2>2, <1>2, <1>8
    <3> QED
      BY <2>2, <3>1, <1>3, <1>4, SatsIsRange
  <2> QED
    BY <2>1, <2>2
<1> QED
  BY <1>2, <1>5, <1>6, <1>7, <1>9

LEMMA CallReplyStep ==
  ASSUME IInv, NEW c \in Clients, NEW r \in Sats, NEW v \in SatReplies, CallReply(c, r, v)
  PROVE  IInv'
<1> USE DEF IInv
<1> DEFINE path == req[c].path
           b == Arrive(path, [sat |-> r, from |-> c, val |-> v])
           o == b.owner
<1>1. calls[c][r] = "call" /\ UNCHANGED <<req, token, solo>>
  BY DEF CallReply
<1>2. /\ pc[c] # "idle" /\ path \in Paths
      /\ [sat |-> r, from |-> c, val |-> v] \in Result
      /\ N # 0
  BY <1>1, SatsIsRange DEF Asked, Paths, Result
<1>3. /\ b \in Block
      /\ o # Nobody => /\ path \in DOMAIN blocks /\ o = blocks[path].owner
                       /\ o \in Clients
                       /\ req[o] # Nobody /\ req[o].path = path
                       /\ pc[o] \in {"gathering", "failed"}
      /\ IF o # Nobody /\ pc[o] = "gathering"
           THEN b.count + Len(b.results) = N
           ELSE b.count # 0 => Len(b.results) = SizeMax + 1 - b.count
  BY <1>2, ArriveParts
<1>4. /\ calls' \in [Clients -> [Sats -> CallStates]]
      /\ \A d \in Clients, s \in Sats : calls[d][s] = "none" => calls'[d][s] = "none"
  <2>1. calls' = [calls EXCEPT ![c][r] = v]
    BY DEF CallReply, Replied
  <2> QED
    BY <2>1, <1>1 DEF TypeOK, CallStates
<1>5. ASSUME NEW p \in DOMAIN blocks \ {path}, blocks[p].owner # Nobody
      PROVE  blocks[p].owner \in Clients \ {o}
  BY <1>3, <1>5, OwnerTypes
<1>6. \/ b.count # 0 /\ blocks' = Store(path, b) /\ UNCHANGED <<running, pc, answers>>
      \/ /\ o # Nobody /\ blocks' = Erase(path)
         /\ Respond(o, "merged", b.results) /\ UNCHANGED running
      \/ b.count = 0 /\ blocks' = Store(path, Spent(b)) /\ Throw(o)
  BY DEF CallReply, Target, Mergeable
<1>7. Spent(b) \in Block /\ Spent(b).owner = o /\ Spent(b).count = b.count /\ Len(Spent(b).results) = 0
  <2>1. <<>> \in Seq(Result) /\ Len(<<>>) = 0
    OBVIOUS
  <2>2. Spent(b) = [b EXCEPT !.results = <<>>]
    BY DEF Spent
  <2>3. b \in Block
    BY <1>3
  <2> HIDE DEF b
  <2> QED
    BY <2>1, <2>2, <2>3 DEF Block
<1> HIDE DEF b, o, path
<1>8. CASE b.count # 0 /\ blocks' = Store(path, b) /\ UNCHANGED <<running, pc, answers>>
  <2>1. /\ DOMAIN blocks' = DOMAIN blocks \union {path}
        /\ blocks' \in [DOMAIN blocks' -> Block]
        /\ blocks'[path] = b
        /\ \A p \in DOMAIN blocks \ {path} : blocks'[p] = blocks[p]
    BY <1>2, <1>3, <1>8, StoreParts
  <2>2. TypeOK'
    BY <1>1, <1>2, <1>4, <1>8, <2>1 DEF TypeOK
  <2>3. Asked' /\ AtMostOneAnswer'
    BY <1>1, <1>4, <1>8 DEF Asked, AtMostOneAnswer
  <2>4. OwnersMatch'
    BY <1>1, <1>3, <1>8, <2>1 DEF OwnersMatch, o
  <2>5. BlocksAccounted'
    <3>1. ASSUME NEW p \in DOMAIN blocks'
          PROVE  IF blocks'[p].owner # Nobody /\ pc[blocks'[p].owner] = "gathering"
                   THEN /\ blocks'[p].count + Len(blocks'[p].results) = N
                        /\ blocks'[p].count = 0 => N = 0
                   ELSE Len(blocks'[p].results) =
                          IF blocks'[p].count = 0 THEN 0 ELSE SizeMax + 1 - blocks'[p].count
      <4>1. CASE p = path
        BY <4>1, <1>3, <1>8, <2>1 DEF o
      <4>2. CASE p # path
        BY <4>2, <2>1 DEF BlocksAccounted
      <4> QED
        BY <4>1, <4>2
    <3> QED
      BY <3>1, <1>8 DEF BlocksAccounted
  <2> QED
    BY <2>2, <2>3, <2>4, <2>5
<1>9. CASE /\ o # Nobody /\ blocks' = Erase(path)
           /\ Respond(o, "merged", b.results) /\ UNCHANGED running
  <2>1. b.results \in Seq(Result) /\ answers[o] = <<>> /\ Len(answers[o]) = 0
    BY <1>3, <1>9 DEF Block, AtMostOneAnswer
  <2>2. /\ pc' \in [Clients -> {"idle", "forwarding", "gathering", "answered", "failed"}]
        /\ answers' \in [Clients -> Seq(Answer)]
        /\ pc'[o] = "answered"
        /\ \A d \in Clients \ {o} : pc'[d] = pc[d] /\ answers'[d] = answers[d]
        /\ Len(answers'[o]) = Len(answers[o]) + 1
    BY <1>3, <1>9, <2>1, RespondParts
  <2>3. /\ DOMAIN blocks' = DOMAIN blocks \ {path}
        /\ \A p \in DOMAIN blocks \ {path} : blocks'[p] = blocks[p]
        /\ blocks' \in [DOMAIN blocks' -> Block]
    BY <1>9 DEF Erase, TypeOK
  <2>4. TypeOK'
    BY <1>1, <1>4, <1>9, <2>2, <2>3 DEF TypeOK
  <2>5. Asked'
    <3>1. pc[o] # "idle" /\ o \in Clients
      BY <1>3, <1>9
    <3>2. ASSUME NEW d \in Clients
          PROVE  /\ pc'[d] # "idle" => req[d] \in Requests
                 /\ \A s \in Sats : calls'[d][s] # "none" =>
                                    pc'[d] \in {"gathering", "answered", "failed"}
      <4>1. CASE d = o
        BY <4>1, <3>1, <2>2 DEF Asked
      <4>2. CASE d # o
        BY <4>2, <1>4, <2>2 DEF Asked
      <4> QED
        BY <4>1, <4>2
    <3> QED
      BY <3>2, <1>1 DEF Asked
  <2>6. AtMostOneAnswer'
    <3>1. Len(answers'[o]) = 1
      BY <2>1, <2>2
    <3>2. ASSUME NEW d \in Clients
          PROVE  Len(answers'[d]) <= 1 /\ (answers'[d] # <<>> => pc'[d] = "answered")
      <4>1. CASE d = o
        BY <4>1, <3>1, <2>2
      <4>2. CASE d # o
        BY <4>2, <2>2 DEF AtMostOneAnswer
      <4> QED
        BY <4>1, <4>2
    <3> QED
      BY <3>2 DEF AtMostOneAnswer
  <2>7. ASSUME NEW p \in DOMAIN blocks', blocks'[p].owner # Nobody
        PROVE  blocks'[p].owner \in Clients \ {o} /\ pc'[blocks'[p].owner] = pc[blocks'[p].owner]
    BY <1>5, <2>2, <2>3, <2>7
  <2>8. OwnersMatch'
    BY <1>1, <2>3, <2>7 DEF OwnersMatch
  <2>9. BlocksAccounted'
    BY <2>3, <2>7 DEF BlocksAccounted
  <2> QED
    BY <2>4, <2>5, <2>6, <2>8, <2>9
<1>10. CASE b.count = 0 /\ blocks' = Store(path, Spent(b)) /\ Throw(o)
  <2>1. /\ pc' \in [Clients -> {"idle", "forwarding", "gathering", "answered", "failed"}]
        /\ running' \in BOOLEAN
        /\ answers' = answers
        /\ \A d \in Clients : pc'[d] = IF d = o THEN "failed" ELSE pc[d]
    BY <1>10, ThrowParts
  <2>2. /\ DOMAIN blocks' = DOMAIN blocks \union {path}
        /\ blocks' \in [DOMAIN blocks' -> Block]
        /\ blocks'[path] = Spent(b)
        /\ \A p \in DOMAIN blocks \ {path} : blocks'[p] = blocks[p]
    BY <1>2, <1>7, <1>10, StoreParts
  <2>3. TypeOK'
    BY <1>1, <1>2, <1>4, <2>1, <2>2 DEF TypeOK
  <2>4. Asked'
    BY <1>1, <1>3, <1>4, <2>1, NobodyAssumption DEF Asked
  <2>5. AtMostOneAnswer'
    BY <1>3, <2>1, NobodyAssumption DEF AtMostOneAnswer
  <2>6. ASSUME NEW p \in DOMAIN blocks', p # path, blocks'[p].owner # Nobody
        PROVE  blocks'[p].owner \in Clients \ {o} /\ pc'[blocks'[p].owner] = pc[blocks'[p].owner]
    BY <1>5, <2>1, <2>2, <2>6
  <2>7. o # Nobody => pc'[o] = "failed"
    BY <1>3, <2>1
  <2>8. OwnersMatch'
    BY <1>1, <1>3, <1>7, <2>2, <2>6, <2>7 DEF OwnersMatch
  <2>9. BlocksAccounted'
    <3>1. ASSUME NEW p \in DOMAIN blocks'
          PROVE  IF blocks'[p].owner # Nobody /\ pc'[blocks'[p].owner] = "gathering"
                   THEN /\ blocks'[p].count + Len(blocks'[p].results) = N
                        /\ blocks'[p].count = 0 => N = 0
                   ELSE Len(blocks'[p].results) =
                          IF blocks'[p].count = 0 THEN 0 ELSE SizeMax + 1 - blocks'[p].count
      <4>1. CASE p = path
        BY <4>1, <1>7, <1>10, <2>2, <2>7
      <4>2. CASE p # path
        BY <4>2, <2>2, <2>6 DEF BlocksAccounted
      <4> QED
        BY <4>1, <4>2
    <3> QED
      BY <3>1 DEF BlocksAccounted
  <2> QED
    BY <2>3, <2>4, <2>5, <2>8, <2>9
<1> QED
  BY <1>6, <1>8, <1>9, <1>10

-----------------------------------------------------------------------------
\* The invariant is inductive.
THEOREM Inductive == IInv /\ [Next]_vars => IInv'
<1> SUFFICES ASSUME IInv, [Next]_vars PROVE IInv'
  OBVIOUS
<1>1. ASSUME NEW c \in Clients, NEW rq \in Requests, Handle(c, rq) PROVE IInv'
  BY <1>1, HandleStep
<1>2. ASSUME NEW c \in Clients, NEW body \in MasterBodies, ForwardReply(c, body) PROVE IInv'
  BY <1>2, ForwardReplyStep
<1>3. ASSUME NEW c \in Clients, ForwardFailed(c) PROVE IInv'
  BY <1>3, ForwardFailedStep
<1>4. ASSUME NEW c \in Clients, NEW r \in Sats, LoginReply(c, r) PROVE IInv'
  BY <1>4, LoginReplyStep
<1>5. ASSUME NEW c \in Clients, NEW r \in Sats, NEW v \in SatReplies, CallReply(c, r, v) PROVE IInv'
  BY <1>5, CallReplyStep
<1>6. CASE UNCHANGED vars
  BY <1>6 DEF vars, IInv, TypeOK, Asked, OwnersMatch, AtMostOneAnswer, BlocksAccounted
<1> QED
  BY <1>1, <1>2, <1>3, <1>4, <1>5, <1>6 DEF Next

\* The invariant holds in every reachable state, for any clients, requests,
\* satellites and replies, overlapping or not.
THEOREM Invariant == Spec => []IInv
  BY InitIInv, Inductive, PTL DEF Spec

\* Type correctness of the aggregator.
THEOREM TypeCorrect == Spec => []TypeOK
  BY Invariant, PTL DEF IInv

\* No client's continuation is ever called twice, whatever the satellites
\* answer, however the requests for one path overlap and whenever a handler
\* throws.
THEOREM AnswerOnce == Spec => []AtMostOneAnswer
  BY Invariant, PTL DEF IInv

\* A path leads to one waiting client at most, and a client to one block.
THEOREM OneBlockPerClient == Spec => []OwnersMatch
  BY Invariant, PTL DEF IInv

\* The count of a block and its results never disagree.
THEOREM CountsAgree == Spec => []BlocksAccounted
  BY Invariant, PTL DEF IInv

\* Once a block has no client, it stays, and nobody is answered from it.
THEOREM OrphansStay == Spec => OrphanedBlockIsPermanent
<1>1. ASSUME IInv, [Next]_vars,
             NEW path \in DOMAIN blocks, blocks[path].owner = Nobody
      PROVE  /\ path \in DOMAIN blocks'
             /\ blocks'[path].owner = Nobody
             /\ \A c \in Clients :
                  pc[c] = "gathering" /\ req[c].path = path => answers'[c] = answers[c]
  <2> DEFINE Kept(f) == path \in DOMAIN f /\ f[path].owner = Nobody
             Silent == \A c \in Clients :
                         pc[c] = "gathering" /\ req[c].path = path => answers'[c] = answers[c]
  <2> SUFFICES Kept(blocks') /\ Silent
    OBVIOUS
  <2> USE DEF IInv
  <2>1. Kept(blocks)
    BY <1>1
  <2>2. ASSUME NEW c \in Clients, pc[c] \in {"idle", "forwarding"},
               NEW kind, NEW results, Respond(c, kind, results)
        PROVE  Silent
    BY <2>2, <1>1 DEF Respond, TypeOK
  <2>3. ASSUME NEW c, Throw(c)
        PROVE  Silent
    BY <2>3 DEF Throw
  <2>4. ASSUME NEW c \in Clients, NEW rq \in Requests, Handle(c, rq)
        PROVE  Kept(blocks') /\ Silent
    BY <2>1, <2>2, <2>4 DEF Handle
  <2>5. ASSUME NEW c \in Clients, NEW body \in MasterBodies, ForwardReply(c, body)
        PROVE  Kept(blocks') /\ Silent
    <3>1. pc[c] = "forwarding"
      BY <2>5 DEF ForwardReply
    <3>2. Kept(blocks')
      BY <2>1, <2>5 DEF ForwardReply, Aggregate, Scatter, Emplace, Store
    <3>3. Silent
      BY <3>1, <2>2, <2>3, <2>5 DEF ForwardReply
    <3> QED
      BY <3>2, <3>3
  <2>6. ASSUME NEW c \in Clients, ForwardFailed(c)
        PROVE  Kept(blocks') /\ Silent
    BY <2>1, <2>3, <2>6 DEF ForwardFailed
  <2>7. ASSUME NEW c \in Clients, NEW r \in Sats, LoginReply(c, r)
        PROVE  Kept(blocks') /\ Silent
    BY <2>1, <2>7 DEF LoginReply
  <2>8. ASSUME NEW c \in Clients, NEW r \in Sats, NEW v \in SatReplies, CallReply(c, r, v)
        PROVE  Kept(blocks') /\ Silent
    <3> DEFINE key == req[c].path
               b == Arrive(key, [sat |-> r, from |-> c, val |-> v])
    <3>1. b.owner = BlockOf(key).owner /\ Spent(b).owner = b.owner
      BY DEF Arrive, Spent
    <3>2. \/ blocks' = Store(key, b) /\ UNCHANGED answers
          \/ /\ b.owner # Nobody /\ blocks' = Erase(key)
             /\ Respond(b.owner, "merged", b.results)
          \/ blocks' = Store(key, Spent(b)) /\ Throw(b.owner)
      BY <2>8 DEF CallReply, Target, Mergeable
    <3> HIDE DEF b, key
    <3>3. CASE blocks' = Store(key, b) /\ UNCHANGED answers
      BY <3>1, <3>3, <2>1 DEF Store, BlockOf
    <3>4. CASE /\ b.owner # Nobody /\ blocks' = Erase(key)
               /\ Respond(b.owner, "merged", b.results)
      <4>1. key # path /\ key \in DOMAIN blocks /\ blocks[key].owner = b.owner
        BY <3>1, <3>4, <1>1 DEF BlockOf, DefaultBlock
      <4>2. req[b.owner].path = key
        BY <1>1, <4>1, <3>4 DEF OwnersMatch
      <4>3. Kept(blocks')
        BY <4>1, <3>4, <2>1 DEF Erase
      <4>4. Silent
        <5>1. ASSUME NEW d \in Clients, req[d].path = path PROVE answers'[d] = answers[d]
          <6>1. d # b.owner
            BY <4>1, <4>2, <5>1
          <6>2. answers \in [Clients -> Seq(Answer)]
            BY <1>1 DEF TypeOK
          <6> QED
            BY <6>1, <6>2, <3>4 DEF Respond
        <5> QED
          BY <5>1
      <4> QED
        BY <4>3, <4>4
    <3>5. CASE blocks' = Store(key, Spent(b)) /\ Throw(b.owner)
      BY <3>1, <3>5, <2>1, <2>3 DEF Store, BlockOf
    <3> QED
      BY <3>2, <3>3, <3>4, <3>5
  <2>9. CASE UNCHANGED vars
    BY <2>1, <2>9 DEF vars
  <2> QED
    BY <1>1, <2>4, <2>5, <2>6, <2>7, <2>8, <2>9 DEF Next
<1>2. IInv /\ [Next]_vars =>
        [\A path \in DOMAIN blocks :
           blocks[path].owner = Nobody =>
              /\ path \in DOMAIN blocks'
              /\ blocks'[path].owner = Nobody
              /\ \A c \in Clients :
                   pc[c] = "gathering" /\ req[c].path = path => answers'[c] = answers[c]]_vars
  BY <1>1
<1> QED
  BY <1>2, Invariant, PTL DEF Spec, OrphanedBlockIsPermanent

-----------------------------------------------------------------------------
(***************************************************************************)
(* No reply is merged twice.  A result names the scattered request it is   *)
(* the reply to; that request is over, so no other reply to it can arrive; *)
(* and a result is in one block or in one answer.                          *)
(***************************************************************************)
SameCall(x, y) == x.sat = y.sat /\ x.from = y.from

\* The results s are replies to requests that are over, ...
AreOver(s) == \A k \in DOMAIN s : calls[s[k].from][s[k].sat] \in SatReplies

\* ... each to another request, ...
Distinct(s) == \A k, l \in DOMAIN s : SameCall(s[k], s[l]) => k = l

\* ... and none to a request that one of t is a reply to.
Apart(s, t) == \A k \in DOMAIN s, l \in DOMAIN t : ~SameCall(s[k], t[l])

OnceInv ==
    /\ \A path \in DOMAIN blocks :
          AreOver(blocks[path].results) /\ Distinct(blocks[path].results)
    /\ \A c \in Clients : \A i \in DOMAIN answers[c] :
          AreOver(answers[c][i].results) /\ Distinct(answers[c][i].results)
    /\ \A p, q \in DOMAIN blocks : p # q => Apart(blocks[p].results, blocks[q].results)
    /\ \A p \in DOMAIN blocks, c \in Clients : \A i \in DOMAIN answers[c] :
          Apart(blocks[p].results, answers[c][i].results)
    /\ \A c, d \in Clients : \A i \in DOMAIN answers[c], j \in DOMAIN answers[d] :
          <<c, i>> # <<d, j>> => Apart(answers[c][i].results, answers[d][j].results)

LEMMA EmptyApart ==
  ASSUME NEW t
  PROVE  AreOver(<<>>) /\ Distinct(<<>>) /\ Apart(<<>>, t) /\ Apart(t, <<>>)
  BY DEF AreOver, Distinct, Apart

LEMMA ApartSymmetric ==
  ASSUME NEW s, NEW t, Apart(s, t)
  PROVE  Apart(t, s)
  BY DEF Apart, SameCall

\* A result that is like none of s or of t can be added to s.
LEMMA AppendApart ==
  ASSUME NEW s \in Seq(Result), NEW x \in Result, NEW t,
         \A l \in DOMAIN t : ~SameCall(x, t[l])
  PROVE  Apart(s, t) => Apart(Append(s, x), t)
<1>1. ASSUME Apart(s, t), NEW k \in DOMAIN Append(s, x), NEW l \in DOMAIN t
      PROVE  ~SameCall(Append(s, x)[k], t[l])
  <2>1. (k \in DOMAIN s /\ Append(s, x)[k] = s[k]) \/ Append(s, x)[k] = x
    OBVIOUS
  <2> QED
    BY <1>1, <2>1 DEF Apart
<1> QED
  BY <1>1 DEF Apart

LEMMA AppendDistinct ==
  ASSUME NEW s \in Seq(Result), NEW x \in Result, Distinct(s),
         \A k \in DOMAIN s : ~SameCall(s[k], x)
  PROVE  Distinct(Append(s, x))
<1>1. ASSUME NEW k \in DOMAIN Append(s, x), NEW l \in DOMAIN Append(s, x),
             SameCall(Append(s, x)[k], Append(s, x)[l])
      PROVE  k = l
  <2>1. \A m \in DOMAIN Append(s, x) :
          \/ m \in DOMAIN s /\ Append(s, x)[m] = s[m]
          \/ m = Len(s) + 1 /\ Append(s, x)[m] = x
    OBVIOUS
  <2> QED
    BY <1>1, <2>1 DEF Distinct, SameCall
<1> QED
  BY <1>1 DEF Distinct

\* A step that adds no results, and no answer with any, keeps the invariant.
LEMMA NoResultsAdded ==
  ASSUME TypeOK, OnceInv,
         \A d \in Clients, s \in Sats :
            calls[d][s] \in SatReplies => calls'[d][s] = calls[d][s],
         \A p \in DOMAIN blocks' :
            \/ blocks'[p].results = <<>>
            \/ p \in DOMAIN blocks /\ blocks'[p].results = blocks[p].results,
         \A d \in Clients : \A i \in DOMAIN answers'[d] :
            \/ answers'[d][i].results = <<>>
            \/ i \in DOMAIN answers[d] /\ answers'[d][i] = answers[d][i]
  PROVE  OnceInv'
<1>1. ASSUME NEW s \in Seq(Result), AreOver(s) PROVE AreOver(s)'
  <2>1. \A k \in DOMAIN s : s[k] \in Result
    OBVIOUS
  <2> QED
    BY <1>1, <2>1 DEF AreOver, Result
<1>2. AreOver(<<>>)' /\ Distinct(<<>>) /\ \A t : Apart(<<>>, t) /\ Apart(t, <<>>)
  BY DEF AreOver, Distinct, Apart
<1>3. /\ \A p \in DOMAIN blocks : blocks[p].results \in Seq(Result)
      /\ \A d \in Clients : \A i \in DOMAIN answers[d] : answers[d][i].results \in Seq(Result)
  <2>1. \A p \in DOMAIN blocks : blocks[p].results \in Seq(Result)
    BY DEF TypeOK, Block
  <2>2. ASSUME NEW d \in Clients, NEW i \in DOMAIN answers[d]
        PROVE  answers[d][i].results \in Seq(Result)
    <3>1. answers[d] \in Seq(Answer)
      BY DEF TypeOK
    <3>2. answers[d][i] \in Answer
      BY <2>2, <3>1
    <3> QED
      BY <3>2 DEF Answer
  <2> QED
    BY <2>1, <2>2
<1> DEFINE Over(s) == \A k \in DOMAIN s : calls'[s[k].from][s[k].sat] \in SatReplies
<1>0. Over(<<>>) /\ \A s \in Seq(Result) : AreOver(s) => Over(s)
  <2>1. \A s \in Seq(Result) : AreOver(s) => Over(s)
    BY <1>1 DEF AreOver
  <2> QED
    BY <2>1
<1> HIDE DEF Over
<1>4. \A p \in DOMAIN blocks' : Over(blocks'[p].results) /\ Distinct(blocks'[p].results)
  BY <1>0, <1>2, <1>3 DEF OnceInv
<1>5. \A d \in Clients : \A i \in DOMAIN answers'[d] :
        Over(answers'[d][i].results) /\ Distinct(answers'[d][i].results)
  BY <1>0, <1>2, <1>3 DEF OnceInv
<1>6. \A p, q \in DOMAIN blocks' : p # q => Apart(blocks'[p].results, blocks'[q].results)
  BY <1>2 DEF OnceInv
<1>7. \A p \in DOMAIN blocks', d \in Clients : \A i \in DOMAIN answers'[d] :
        Apart(blocks'[p].results, answers'[d][i].results)
  BY <1>2 DEF OnceInv
<1>8. \A d, e \in Clients : \A i \in DOMAIN answers'[d], j \in DOMAIN answers'[e] :
        <<d, i>> # <<e, j>> => Apart(answers'[d][i].results, answers'[e][j].results)
  BY <1>2 DEF OnceInv
<1> QED
  BY <1>4, <1>5, <1>6, <1>7, <1>8 DEF OnceInv, AreOver, Over

\* An answer without results is none.
LEMMA RespondEmpty ==
  ASSUME TypeOK, NEW c \in Clients, NEW kind \in {"error500", "relayed", "merged"},
         Respond(c, kind, <<>>)
  PROVE  \A d \in Clients : \A i \in DOMAIN answers'[d] :
            \/ answers'[d][i].results = <<>>
            \/ i \in DOMAIN answers[d] /\ answers'[d][i] = answers[d][i]
<1> DEFINE a == [kind |-> kind, results |-> <<>>]
<1>1. a \in Answer /\ a.results = <<>>
  BY DEF Answer
<1>2. answers' = [answers EXCEPT ![c] = Append(@, a)] /\ answers \in [Clients -> Seq(Answer)]
  BY DEF Respond, TypeOK
<1> HIDE DEF a
<1>3. \A i \in DOMAIN Append(answers[c], a) :
        \/ Append(answers[c], a)[i] = a
        \/ i \in DOMAIN answers[c] /\ Append(answers[c], a)[i] = answers[c][i]
  BY <1>1, <1>2
<1> QED
  BY <1>1, <1>2, <1>3


\* What a reply makes of the results of its block: they stay distinct, and
\* apart from those of any other block and of any answer.
LEMMA ArriveOnce ==
  ASSUME IInv, OnceInv, NEW c \in Clients, NEW r \in Sats, NEW v \in SatReplies,
         calls[c][r] = "call", NEW path \in Paths,
         NEW s, s = Arrive(path, [sat |-> r, from |-> c, val |-> v]).results
  PROVE  /\ Distinct(s)
         /\ \A k \in DOMAIN s : [calls EXCEPT ![c][r] = v][s[k].from][s[k].sat] \in SatReplies
         /\ \A p \in DOMAIN blocks : p # path => Apart(s, blocks[p].results)
         /\ \A d \in Clients : \A i \in DOMAIN answers[d] : Apart(s, answers[d][i].results)
<1> DEFINE x == [sat |-> r, from |-> c, val |-> v]
           old == BlockOf(path).results
<1>1. x \in Result /\ x.sat = r /\ x.from = c
  BY DEF Result
<1>2. "call" \notin SatReplies
  BY RepliesAssumption DEF KnownReplies
<1>3. /\ old \in Seq(Result)
      /\ AreOver(old) /\ Distinct(old)
      /\ \A p \in DOMAIN blocks : p # path => Apart(old, blocks[p].results)
      /\ \A d \in Clients : \A i \in DOMAIN answers[d] : Apart(old, answers[d][i].results)
  <2>1. CASE path \in DOMAIN blocks
    <3>1. old = blocks[path].results /\ blocks[path] \in Block
      BY <2>1 DEF BlockOf, IInv, TypeOK
    <3> QED
      BY <2>1, <3>1 DEF OnceInv, Block
  <2>2. CASE path \notin DOMAIN blocks
    <3>1. old = <<>>
      BY <2>2 DEF BlockOf, DefaultBlock
    <3>2. <<>> \in Seq(Result)
      OBVIOUS
    <3> QED
      BY <3>1, <3>2, EmptyApart
  <2> QED
    BY <2>1, <2>2
<1>4. s = Append(old, x)
  <2>1. BlockOf(path) \in Block
    <3>1. DefaultBlock \in Block
      <4>1. <<>> \in Seq(Result) /\ 0 \in 0..SizeMax /\ "noMembers" \in KnownBodies
        BY SatsIsRange DEF KnownBodies
      <4> QED
        BY <4>1 DEF DefaultBlock, Block
    <3> QED
      BY <3>1 DEF BlockOf, IInv, TypeOK
  <2> QED
    BY <2>1 DEF Arrive, Block
<1> HIDE DEF old, x
<1>5. ASSUME NEW t, AreOver(t) PROVE \A l \in DOMAIN t : ~SameCall(x, t[l])
  BY <1>1, <1>2, <1>5 DEF AreOver, SameCall
<1>6. Distinct(s)
  <2>1. \A k \in DOMAIN old : ~SameCall(old[k], x)
    BY <1>3, <1>5 DEF SameCall
  <2> QED
    BY <1>1, <1>3, <1>4, <2>1, AppendDistinct
<1>7. ASSUME NEW k \in DOMAIN s
      PROVE  [calls EXCEPT ![c][r] = v][s[k].from][s[k].sat] \in SatReplies
  <2>1. (k \in DOMAIN old /\ s[k] = old[k] /\ s[k] \in Result) \/ s[k] = x
    BY <1>1, <1>3, <1>4
  <2>2. \A d \in Clients, q \in Sats :
          [calls EXCEPT ![c][r] = v][d][q] = IF d = c /\ q = r THEN v ELSE calls[d][q]
    BY DEF IInv, TypeOK
  <2>3. CASE s[k] = x
    BY <1>1, <2>2, <2>3
  <2>4. CASE k \in DOMAIN old /\ s[k] = old[k] /\ s[k] \in Result
    <3>1. s[k].from \in Clients /\ s[k].sat \in Sats /\ calls[s[k].from][s[k].sat] \in SatReplies
      BY <1>3, <2>4 DEF AreOver, Result
    <3> QED
      BY <2>2, <3>1
  <2> QED
    BY <2>1, <2>3, <2>4
<1>8. ASSUME NEW t, AreOver(t), Apart(old, t) PROVE Apart(s, t)
  BY <1>1, <1>3, <1>4, <1>5, <1>8, AppendApart
<1> QED
  BY <1>3, <1>6, <1>7, <1>8 DEF OnceInv

\* The reply is one of a block that still waits for some.
LEMMA StoredOnce ==
  ASSUME IInv, OnceInv, NEW c \in Clients, NEW r \in Sats, NEW v \in SatReplies,
         calls[c][r] = "call", NEW path \in Paths,
         NEW b \in Block, b = Arrive(path, [sat |-> r, from |-> c, val |-> v]),
         calls' = [calls EXCEPT ![c][r] = v], blocks' = Store(path, b), answers' = answers
  PROVE  OnceInv'
<1> DEFINE s == b.results
<1>1. /\ Distinct(s)
      /\ \A k \in DOMAIN s : calls'[s[k].from][s[k].sat] \in SatReplies
      /\ \A p \in DOMAIN blocks : p # path => Apart(s, blocks[p].results)
      /\ \A d \in Clients : \A i \in DOMAIN answers[d] : Apart(s, answers[d][i].results)
  BY ArriveOnce
<1>2. /\ DOMAIN blocks' = DOMAIN blocks \union {path}
      /\ blocks'[path].results = s
      /\ \A p \in DOMAIN blocks \ {path} : blocks'[p] = blocks[p]
  BY StoreParts DEF IInv
<1> HIDE DEF s
<1>3. \A d \in Clients, q \in Sats :
        calls[d][q] \in SatReplies => calls'[d][q] \in SatReplies
  BY DEF IInv, TypeOK
<1> DEFINE Over(t) == \A k \in DOMAIN t : calls'[t[k].from][t[k].sat] \in SatReplies
<1>4. ASSUME NEW t \in Seq(Result), AreOver(t) PROVE Over(t)
  <2>1. \A k \in DOMAIN t : t[k] \in Result
    OBVIOUS
  <2> QED
    BY <1>3, <1>4, <2>1 DEF AreOver, Result
<1>5. Over(s)
  BY <1>1
<1>6. \A p \in DOMAIN blocks : blocks[p].results \in Seq(Result)
  BY DEF IInv, TypeOK, Block
<1>7. \A d \in Clients : \A i \in DOMAIN answers[d] : answers[d][i].results \in Seq(Result)
  <2>1. \A d \in Clients : answers[d] \in Seq(Answer)
    BY DEF IInv, TypeOK
  <2>2. \A d \in Clients : \A i \in DOMAIN answers[d] : answers[d][i] \in Answer
    BY <2>1
  <2> QED
    BY <2>2 DEF Answer
<1> HIDE DEF Over
<1>8. \A p \in DOMAIN blocks' : Over(blocks'[p].results) /\ Distinct(blocks'[p].results)
  BY <1>1, <1>2, <1>4, <1>5, <1>6 DEF OnceInv
<1>9. \A d \in Clients : \A i \in DOMAIN answers'[d] :
        Over(answers'[d][i].results) /\ Distinct(answers'[d][i].results)
  BY <1>4, <1>7 DEF OnceInv
<1>10. \A p, q \in DOMAIN blocks' : p # q => Apart(blocks'[p].results, blocks'[q].results)
  BY <1>1, <1>2, ApartSymmetric DEF OnceInv
<1>11. \A p \in DOMAIN blocks', d \in Clients : \A i \in DOMAIN answers'[d] :
        Apart(blocks'[p].results, answers'[d][i].results)
  BY <1>1, <1>2 DEF OnceInv
<1>12. \A d, e \in Clients : \A i \in DOMAIN answers'[d], j \in DOMAIN answers'[e] :
        <<d, i>> # <<e, j>> => Apart(answers'[d][i].results, answers'[e][j].results)
  BY DEF OnceInv
<1> QED
  BY <1>8, <1>9, <1>10, <1>11, <1>12 DEF OnceInv, AreOver, Over

\* The reply is the last: the results leave the block for the answer.
LEMMA MergedOnce ==
  ASSUME IInv, OnceInv, NEW c \in Clients, NEW r \in Sats, NEW v \in SatReplies,
         calls[c][r] = "call", NEW path \in Paths,
         NEW b \in Block, b = Arrive(path, [sat |-> r, from |-> c, val |-> v]),
         calls' = [calls EXCEPT ![c][r] = v], blocks' = Erase(path),
         NEW o \in Clients, Respond(o, "merged", b.results)
  PROVE  OnceInv'
<1> DEFINE s == b.results
           a == [kind |-> "merged", results |-> s]
<1>1. /\ Distinct(s)
      /\ \A k \in DOMAIN s : calls'[s[k].from][s[k].sat] \in SatReplies
      /\ \A p \in DOMAIN blocks : p # path => Apart(s, blocks[p].results)
      /\ \A d \in Clients : \A i \in DOMAIN answers[d] : Apart(s, answers[d][i].results)
  BY ArriveOnce
<1>2. /\ DOMAIN blocks' = DOMAIN blocks \ {path}
      /\ \A p \in DOMAIN blocks' : p # path /\ blocks'[p] = blocks[p]
  BY DEF Erase
<1>3. s \in Seq(Result) /\ a \in Answer /\ a.results = s
  BY DEF Block, Answer
<1>4. answers' = [answers EXCEPT ![o] = Append(@, a)] /\ answers \in [Clients -> Seq(Answer)]
  BY DEF Respond, IInv, TypeOK
<1> HIDE DEF s, a
<1>5. \A d \in Clients : \A i \in DOMAIN answers'[d] :
        \/ i \in DOMAIN answers[d] /\ answers'[d][i] = answers[d][i]
        \/ d = o /\ i = Len(answers[o]) + 1 /\ answers'[d][i].results = s
  <2>1. \A i \in DOMAIN Append(answers[o], a) :
          \/ i \in DOMAIN answers[o] /\ Append(answers[o], a)[i] = answers[o][i]
          \/ i = Len(answers[o]) + 1 /\ Append(answers[o], a)[i] = a
    BY <1>3, <1>4
  <2> QED
    BY <1>3, <1>4, <2>1
<1>6. \A d \in Clients, q \in Sats :
        calls[d][q] \in SatReplies => calls'[d][q] \in SatReplies
  BY DEF IInv, TypeOK
<1> DEFINE Over(t) == \A k \in DOMAIN t : calls'[t[k].from][t[k].sat] \in SatReplies
<1>7. ASSUME NEW t \in Seq(Result), AreOver(t) PROVE Over(t)
  <2>1. \A k \in DOMAIN t : t[k] \in Result
    OBVIOUS
  <2> QED
    BY <1>6, <1>7, <2>1 DEF AreOver, Result
<1>8. Over(s)
  BY <1>1
<1>9. \A p \in DOMAIN blocks : blocks[p].results \in Seq(Result)
  BY DEF IInv, TypeOK, Block
<1>10. \A d \in Clients : \A i \in DOMAIN answers[d] : answers[d][i].results \in Seq(Result)
  <2>1. \A d \in Clients : \A i \in DOMAIN answers[d] : answers[d][i] \in Answer
    BY <1>4
  <2> QED
    BY <2>1 DEF Answer
<1> HIDE DEF Over
<1>11. \A p \in DOMAIN blocks' : Over(blocks'[p].results) /\ Distinct(blocks'[p].results)
  BY <1>2, <1>7, <1>9 DEF OnceInv
<1>12. \A d \in Clients : \A i \in DOMAIN answers'[d] :
        Over(answers'[d][i].results) /\ Distinct(answers'[d][i].results)
  BY <1>1, <1>5, <1>7, <1>8, <1>10 DEF OnceInv
<1>13. \A p, q \in DOMAIN blocks' : p # q => Apart(blocks'[p].results, blocks'[q].results)
  BY <1>2 DEF OnceInv
<1>14. \A p \in DOMAIN blocks', d \in Clients : \A i \in DOMAIN answers'[d] :
        Apart(blocks'[p].results, answers'[d][i].results)
  BY <1>1, <1>2, <1>5, ApartSymmetric DEF OnceInv
<1>15. ASSUME NEW d \in Clients, NEW e \in Clients,
              NEW i \in DOMAIN answers'[d], NEW j \in DOMAIN answers'[e], <<d, i>> # <<e, j>>
       PROVE  Apart(answers'[d][i].results, answers'[e][j].results)
  <2>1. CASE i \in DOMAIN answers[d] /\ answers'[d][i] = answers[d][i]
    BY <1>1, <1>5, <1>15, <2>1, ApartSymmetric DEF OnceInv
  <2>2. CASE d = o /\ i = Len(answers[o]) + 1 /\ answers'[d][i].results = s
    BY <1>1, <1>5, <1>15, <2>2
  <2> QED
    BY <1>5, <2>1, <2>2
<1> QED
  BY <1>11, <1>12, <1>13, <1>14, <1>15 DEF OnceInv, AreOver, Over

LEMMA OnceStep ==
  ASSUME IInv, OnceInv, [Next]_vars
  PROVE  OnceInv'
<1>0. TypeOK /\ \A v \in SatReplies : v \notin {"none", "login", "call"}
  BY RepliesAssumption DEF IInv, KnownReplies
<1>1. ASSUME NEW c \in Clients, NEW rq \in Requests, Handle(c, rq) PROVE OnceInv'
  BY <1>0, <1>1, NoResultsAdded, RespondEmpty DEF Handle
<1>2. ASSUME NEW c \in Clients, NEW body \in MasterBodies, ForwardReply(c, body)
      PROVE  OnceInv'
  <2>1. \A d \in Clients : \A i \in DOMAIN answers'[d] :
          \/ answers'[d][i].results = <<>>
          \/ i \in DOMAIN answers[d] /\ answers'[d][i] = answers[d][i]
    <3>1. CASE UNCHANGED answers
      BY <3>1
    <3>2. CASE Respond(c, "relayed", <<>>) \/ Respond(c, "error500", <<>>)
      BY <1>0, <3>2, RespondEmpty
    <3> QED
      BY <1>2, <3>1, <3>2 DEF ForwardReply, Throw
  <2>2. \A p \in DOMAIN blocks' :
          \/ blocks'[p].results = <<>>
          \/ p \in DOMAIN blocks /\ blocks'[p].results = blocks[p].results
    <3>1. CASE UNCHANGED blocks
      BY <3>1
    <3>2. CASE Aggregate(c, body)
      BY <3>2 DEF Aggregate, Scatter, Emplace, Store, NewBlock
    <3> QED
      BY <1>2, <3>1, <3>2 DEF ForwardReply
  <2>3. \A d \in Clients, s \in Sats :
          calls[d][s] \in SatReplies => calls'[d][s] = calls[d][s]
    <3>1. CASE UNCHANGED calls
      BY <3>1
    <3>2. CASE Aggregate(c, body)
      <4>1. \A s \in Sats : calls[c][s] = "none"
        BY <1>2 DEF ForwardReply, IInv, Asked
      <4> QED
        BY <1>0, <3>2, <4>1 DEF Aggregate, Scatter, TypeOK
    <3> QED
      BY <1>2, <3>1, <3>2 DEF ForwardReply
  <2> QED
    BY <1>0, <2>1, <2>2, <2>3, NoResultsAdded
<1>3. ASSUME NEW c \in Clients, ForwardFailed(c) PROVE OnceInv'
  BY <1>0, <1>3, NoResultsAdded DEF ForwardFailed, Throw
<1>4. ASSUME NEW c \in Clients, NEW r \in Sats, LoginReply(c, r) PROVE OnceInv'
  <2>1. \A d \in Clients, s \in Sats :
          calls[d][s] \in SatReplies => calls'[d][s] = calls[d][s]
    <3>1. calls[c][r] = "login" /\ calls \in [Clients -> [Sats -> CallStates]]
      BY <1>0, <1>4 DEF LoginReply, TypeOK
    <3>2. PICK u \in CallStates \union {"call", "dropped"} : calls' = [calls EXCEPT ![c][r] = u]
      BY <1>4 DEF LoginReply
    <3>3. \A d \in Clients, s \in Sats : <<d, s>> # <<c, r>> => calls'[d][s] = calls[d][s]
      BY <3>1, <3>2
    <3> QED
      BY <1>0, <3>1, <3>3
  <2> QED
    BY <1>0, <1>4, <2>1, NoResultsAdded DEF LoginReply
<1>5. ASSUME NEW c \in Clients, NEW r \in Sats, NEW v \in SatReplies, CallReply(c, r, v)
      PROVE  OnceInv'
  <2> DEFINE path == req[c].path
             b == Arrive(path, [sat |-> r, from |-> c, val |-> v])
  <2>1. /\ calls[c][r] = "call" /\ calls' = [calls EXCEPT ![c][r] = v]
        /\ \/ blocks' = Store(path, b) /\ UNCHANGED answers
           \/ b.owner # Nobody /\ blocks' = Erase(path) /\ Respond(b.owner, "merged", b.results)
           \/ blocks' = Store(path, Spent(b)) /\ Throw(b.owner)
    BY <1>5 DEF CallReply, Replied, Target, Mergeable
  <2>2. path \in Paths /\ [sat |-> r, from |-> c, val |-> v] \in Result /\ N # 0
    BY <2>1, SatsIsRange DEF IInv, Asked, Paths, Result
  <2>3. b \in Block /\ (b.owner # Nobody => b.owner \in Clients)
    BY <2>2, ArriveParts
  <2> HIDE DEF path
  <2>4. CASE blocks' = Store(path, b) /\ UNCHANGED answers
    BY <2>1, <2>2, <2>3, <2>4, StoredOnce
  <2>5. CASE b.owner # Nobody /\ blocks' = Erase(path) /\ Respond(b.owner, "merged", b.results)
    BY <2>1, <2>2, <2>3, <2>5, MergedOnce
  <2>6. CASE blocks' = Store(path, Spent(b)) /\ Throw(b.owner)
    <3>1. Spent(b).results = <<>>
      BY <2>3 DEF Spent, Block
    <3>2. \A p \in DOMAIN blocks' :
            \/ blocks'[p].results = <<>>
            \/ p \in DOMAIN blocks /\ blocks'[p].results = blocks[p].results
      BY <2>6, <3>1 DEF Store
    <3>3. \A d \in Clients, s \in Sats :
            calls[d][s] \in SatReplies => calls'[d][s] = calls[d][s]
      BY <1>0, <2>1 DEF TypeOK
    <3> QED
      BY <1>0, <2>6, <3>2, <3>3, NoResultsAdded DEF Throw
  <2> QED
    BY <2>1, <2>4, <2>5, <2>6
<1>6. CASE UNCHANGED vars
  BY <1>0, <1>6, NoResultsAdded DEF vars
<1> QED
  BY <1>1, <1>2, <1>3, <1>4, <1>5, <1>6 DEF Next

\* Before the first request there are no blocks and no answers.
LEMMA InitEmpty ==
  ASSUME Init
  PROVE  DOMAIN blocks = {} /\ \A c \in Clients : DOMAIN answers[c] = {}
<1>1. \A c \in Clients : answers[c] = <<>>
  BY DEF Init
<1>2. \A s : s = <<>> => DOMAIN s = {}
  OBVIOUS
<1>3. DOMAIN blocks = {}
  BY DEF Init
<1> QED
  BY <1>1, <1>2, <1>3

\* Every result is of a request that is over, and in one block or one answer.
THEOREM ResultsOnce == Spec => []OnceInv
<1>1. Init => OnceInv
  BY InitEmpty DEF OnceInv
<1>2. IInv /\ OnceInv /\ [Next]_vars => OnceInv'
  BY OnceStep
<1> QED
  BY <1>1, <1>2, Invariant, PTL DEF Spec

\* A satellite's reply is in one merged answer at most, and there only once,
\* however many clients ask for the same path and whatever becomes of blocks.
THEOREM MergedAtMostOnce == Spec => []NoReplyMergedTwice
<1>1. OnceInv => NoReplyMergedTwice
  <2> SUFFICES ASSUME OnceInv, NEW c \in Clients, NEW d \in Clients,
                      NEW i \in DOMAIN answers[c], NEW j \in DOMAIN answers[d],
                      NEW k \in DOMAIN answers[c][i].results,
                      NEW l \in DOMAIN answers[d][j].results,
                      SameCall(answers[c][i].results[k], answers[d][j].results[l])
               PROVE  <<c, i, k>> = <<d, j, l>>
    BY DEF NoReplyMergedTwice, SameCall
  <2>1. <<c, i>> = <<d, j>>
    BY DEF OnceInv, Apart
  <2>2. c = d /\ i = j
    BY <2>1
  <2>3. k = l
    BY <2>2 DEF OnceInv, Distinct
  <2> QED
    BY <2>2, <2>3
<1> QED
  BY <1>1, ResultsOnce, PTL

=============================================================================
