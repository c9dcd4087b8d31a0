----------------------------- MODULE Aggregator -----------------------------
(***************************************************************************)
(* The aggregator: a front end that relays Redfish requests to the master  *)
(* controller or to the satellite that owns the resource, and that answers *)
(* a GET of a collection with the master's members followed by those of    *)
(* every satellite.  Sources: aggregator/src/aggregator.hpp and            *)
(* include/requester.hpp.                                                  *)
(*                                                                         *)
(* Everything runs as callbacks on one io_context, so a callback is one    *)
(* atomic action and the interleaving is that of the replies of the master *)
(* and of the satellites.  The scattered requests of one collection meet   *)
(* in a RequestBlock, kept in a map whose key is the target's path and     *)
(* not the client's request.                                               *)
(*                                                                         *)
(* A client here is one HTTP request, from its arrival to its answer.      *)
(***************************************************************************)
EXTENDS RedfishRouting

CONSTANTS
    Clients,       \* the requests that reach the server, by a name for each
    SatNames,      \* the names of routeConfig["Exposes"], in order
    Requests,      \* what a client may ask: [path, get, text]; text = FALSE
                   \* is a request whose body is not a string_body
    MasterBodies,  \* the bodies the forwarded request may be answered with
    SatReplies,    \* how a satellite may answer a scattered GET
    SizeMax,       \* the greatest size_t, at which a count wraps around
    Overlap,       \* TRUE: a path may be asked for by several clients at once
    Nobody         \* the absence of a client

\* What the code tells apart in the answer to a forwarded request:
\*   "invalid"    not JSON (also the empty body of a failed connection)
\*   "scalar"     JSON that is not an object: operator[]("Members") throws
\*   "noMembers"  an object without "Members"
\*   "badMembers" "Members" is not an array: get_ref throws at the merge
\*   "members"    a collection
KnownBodies == {"invalid", "scalar", "noMembers", "badMembers", "members"}

\* ... and in a satellite's reply: an error or no JSON, a collection, or JSON
\* that mergeMembers throws on.
KnownReplies == {"error", "members", "malformed"}

ASSUME SatNamesAssumption == SatNames \in Seq(Seq(STRING))
ASSUME RequestsAssumption ==
    /\ Requests \subseteq [path : Seq(Seq(STRING)), get : BOOLEAN, text : BOOLEAN]
    /\ Nobody \notin Requests
ASSUME RepliesAssumption ==
    /\ MasterBodies \subseteq KnownBodies
    /\ SatReplies \subseteq KnownReplies
ASSUME SizeMaxAssumption == SizeMax \in Nat /\ Len(SatNames) <= SizeMax
ASSUME NobodyAssumption == Nobody \notin Clients

\* The vector requesters, and its size().
Sats == DOMAIN SatNames
N == Len(SatNames)

\* There are fewer requests than could make a count go all the way round.
ASSUME ClientsAssumption == IsFiniteSet(Clients) /\ Cardinality(Clients) * N <= SizeMax

Paths == {rq.path : rq \in Requests}

VARIABLES
    running,  \* the process has not left main()
    pc,       \* how far each client's request is
    req,      \* what each client asked; Nobody before it asks
    blocks,   \* Aggregator::blocks, a function on the paths in the map
    calls,    \* calls[c][r]: the scattered request of client c to satellite r
    token,    \* Requester::token of each satellite, "" while empty
    answers,  \* the responses each client's continuation was called with
    solo      \* history: clients gathering with their path to themselves

vars == <<running, pc, req, blocks, calls, token, answers, solo>>

CallStates == {"none", "login", "call", "dropped"} \union SatReplies
Result == [sat : Sats, from : Clients, val : SatReplies]
Block == [count : 0..SizeMax, results : Seq(Result),
          owner : Clients \union {Nobody}, body : KnownBodies]
Answer == [kind : {"error500", "relayed", "merged"}, results : Seq(Result)]

\* What operator[] inserts for a target that is not in the map: no count and
\* an empty std::function.
DefaultBlock == [count |-> 0, results |-> <<>>, owner |-> Nobody, body |-> "noMembers"]

\* Operators named Of_mistake are Of with a mistake in it, for checking that a
\* property can tell: no definition uses them.
Dec_signed(n) == n - 1

\* --count on a size_t
Dec(n) == IF n = 0 THEN SizeMax ELSE n - 1

Init ==
    /\ running = TRUE
    /\ pc = [c \in Clients |-> "idle"]
    /\ req = [c \in Clients |-> Nobody]
    /\ blocks = [path \in {} |-> DefaultBlock]
    /\ calls = [c \in Clients |-> [r \in Sats |-> "none"]]
    /\ token = [r \in Sats |-> ""]
    /\ answers = [c \in Clients |-> <<>>]
    /\ solo = {}

-----------------------------------------------------------------------------
\* The client's continuation is called with a response.
Respond(c, kind, results) ==
    /\ pc' = [pc EXCEPT ![c] = "answered"]
    /\ answers' = [answers EXCEPT ![c] = Append(@, [kind |-> kind, results |-> results])]

\* An exception leaves a callback.  It comes out of io_context::run(), and
\* main() prints it and returns, unless the coroutine it was thrown in
\* swallows it: that library is not in the repository.  c (if anybody) has no
\* answer.
Throw(c) ==
    /\ running' \in BOOLEAN
    /\ pc' = [d \in Clients |-> IF d = c THEN "failed" ELSE pc[d]]
    /\ UNCHANGED answers

\* The clients that have asked for a path, and those still without an answer.
Askers(path) == {c \in Clients : pc[c] # "idle" /\ req[c].path = path}
Waiting(path) == {c \in Askers(path) : pc[c] \in {"forwarding", "gathering"}}

\* operator(): a request arrives; one without a string body is refused, any
\* other is forwarded to the requester that Route names.
Handle(c, rq) ==
    /\ running /\ pc[c] = "idle"
    /\ ~Overlap => Waiting(rq.path) = {}
    /\ req' = [req EXCEPT ![c] = rq]
    /\ \/ /\ rq.text
          /\ pc' = [pc EXCEPT ![c] = "forwarding"]
          /\ UNCHANGED answers
       \/ /\ ~rq.text
          /\ Respond(c, "error500", <<>>)
    /\ UNCHANGED <<running, blocks, calls, token, solo>>

\* The key of a request's block: the target alone.
Target_constant(c) == aggregateResourcesPath
Target(c) == req[c].path

\* getToken(): a requester logs in first while it has no token.
NeedsLogin_always(r) == TRUE
NeedsLogin(r) == token[r] = ""

\* Nothing is left of an earlier request for the path: no block, and no
\* satellite still to reply to it.
Quiet(path) ==
    /\ path \notin DOMAIN blocks
    /\ \A c \in Askers(path), r \in Sats : calls[c][r] \notin {"login", "call"}

Store(path, b) == [p \in DOMAIN blocks \union {path} |-> IF p = path THEN b ELSE blocks[p]]
Emplace(path, b) == IF path \in DOMAIN blocks THEN blocks ELSE Store(path, b)
Erase_never(path) == blocks
Erase(path) == [p \in DOMAIN blocks \ {path} |-> blocks[p]]

NewBlock(c, body) == [count |-> N, results |-> <<>>, owner |-> c, body |-> body]

\* Every satellite is asked; from now on the path is no longer anyone's alone,
\* unless it was quiet before.
Scatter(c, newBlocks) ==
    /\ blocks' = newBlocks
    /\ calls' = [calls EXCEPT ![c] = [r \in Sats |-> IF NeedsLogin(r) THEN "login" ELSE "call"]]
    /\ solo' = (solo \ Askers(req[c].path)) \union (IF Quiet(req[c].path) THEN {c} ELSE {})

\* aggregate() with a block that is short of one reply, and one that replaces
\* the block of an earlier request.
Aggregate_offByOne(c, body) == Scatter(c, Emplace(Target(c), [NewBlock(c, body) EXCEPT !.count = Dec(@)]))
Aggregate_replaces(c, body) == Scatter(c, Store(Target(c), NewBlock(c, body)))

\* aggregate(): emplace leaves a block that is already there as it is, and
\* then the client's continuation is destroyed with the unused argument.
Aggregate(c, body) == Scatter(c, Emplace(Target(c), NewBlock(c, body)))

Collection(rq) == isAggregatedCollection(SatNames, rq.get, rq.path)

\* Without the return after mergeWithAggregated.
ForwardReply_fallsThrough(c, body) ==
    /\ running /\ pc[c] = "forwarding"
    /\ Respond(c, "relayed", <<>>)
    /\ IF Collection(req[c]) THEN Aggregate(c, body) ELSE UNCHANGED <<blocks, calls, solo>>
    /\ UNCHANGED <<running, req, token>>

\* The continuation of forward(): the master or a satellite has answered.
ForwardReply(c, body) ==
    /\ running /\ pc[c] = "forwarding"
    /\ \/ /\ ~Collection(req[c]) \/ body = "noMembers"
          /\ Respond(c, "relayed", <<>>)
          /\ UNCHANGED <<running, blocks, calls, solo>>
       \/ /\ Collection(req[c]) /\ body = "invalid"
          /\ Respond(c, "error500", <<>>)
          /\ UNCHANGED <<running, blocks, calls, solo>>
       \/ /\ Collection(req[c]) /\ body = "scalar"
          /\ Throw(c)
          /\ UNCHANGED <<blocks, calls, solo>>
       \/ /\ Collection(req[c]) /\ body \in {"members", "badMembers"}
          /\ pc' = [pc EXCEPT ![c] = "gathering"]
          /\ Aggregate(c, body)
          /\ UNCHANGED <<running, answers>>
    /\ UNCHANGED <<req, token>>

\* The connection failed.  v.response() is read without a look at isError():
\* either it throws, or it is an empty response, which is ForwardReply with
\* the body "invalid".
ForwardFailed(c) ==
    /\ running /\ pc[c] = "forwarding"
    /\ Throw(c)
    /\ UNCHANGED <<req, blocks, calls, token, solo>>

\* getToken(): the answer to the POST of Sessions.  Its X-Auth-Token header
\* may be missing, and the token it overwrites may be a later login's.  On an
\* error the continuation is not called.
LoginReply(c, r) ==
    /\ running /\ calls[c][r] = "login"
    /\ \/ \E t \in {"", "token"} : token' = [token EXCEPT ![r] = t]
          /\ calls' = [calls EXCEPT ![c][r] = "call"]
       \/ /\ calls' = [calls EXCEPT ![c][r] = "dropped"]
          /\ UNCHANGED token
    /\ UNCHANGED <<running, pc, req, blocks, answers, solo>>

-----------------------------------------------------------------------------
BlockOf(path) == IF path \in DOMAIN blocks THEN blocks[path] ELSE DefaultBlock

\* A callback that returns on an error, as getToken's does.
Arrive_skipsErrors(path, result) ==
    IF result.val = "error" THEN BlockOf(path)
    ELSE [BlockOf(path) EXCEPT !.results = Append(@, result), !.count = Dec(@)]

\* blocks[target] after the push_back and the decrement.
Arrive(path, result) ==
    [BlockOf(path) EXCEPT !.results = Append(@, result), !.count = Dec(@)]

\* onFinish is set and merges without an exception.
Mergeable(b) ==
    /\ b.owner # Nobody
    /\ b.body = "members"
    /\ \A i \in DOMAIN b.results : b.results[i].val # "malformed"

\* finish(): the results have been moved out of the block that it leaves.
Spent_copied(b) == b
Spent(b) == [b EXCEPT !.results = <<>>]

\* The scattered request is over once it is replied to.
Replied_again(c, r, v) == calls
Replied(c, r, v) == [calls EXCEPT ![c][r] = v]

\* The callback of aggregate(): satellite r has answered c's request.  The
\* last one expected calls onFinish, with the results moved out of the block,
\* and erases the block unless the merge throws.
CallReply(c, r, v) ==
    /\ running /\ calls[c][r] = "call"
    /\ calls' = Replied(c, r, v)
    /\ LET path == Target(c)
           b == Arrive(path, [sat |-> r, from |-> c, val |-> v])
       IN  \/ /\ b.count # 0
              /\ blocks' = Store(path, b)
              /\ UNCHANGED <<running, pc, answers>>
           \/ /\ b.count = 0 /\ Mergeable(b)
              /\ blocks' = Erase(path)
              /\ Respond(b.owner, "merged", b.results)
              /\ UNCHANGED running
           \/ /\ b.count = 0 /\ ~Mergeable(b)
              /\ blocks' = Store(path, Spent(b))
              /\ Throw(b.owner)
    /\ UNCHANGED <<req, token, solo>>

Next ==
    \E c \in Clients :
        \/ \E rq \in Requests : Handle(c, rq)
        \/ \E body \in MasterBodies : ForwardReply(c, body)
        \/ ForwardFailed(c)
        \/ \E r \in Sats : LoginReply(c, r)
        \/ \E r \in Sats, v \in SatReplies : CallReply(c, r, v)

Spec == Init /\ [][Next]_vars

\* Every exchange with the master or a satellite ends, with a response or an
\* error.  This is assumed of the peers: the code sets no time limit, and one
\* that keeps a connection and says nothing keeps its client waiting.
Fairness ==
    \A c \in Clients :
        /\ WF_vars(\E body \in MasterBodies : ForwardReply(c, body))
        /\ \A r \in Sats : /\ WF_vars(LoginReply(c, r))
                           /\ WF_vars(\E v \in SatReplies : CallReply(c, r, v))

FairSpec == Spec /\ Fairness
-----------------------------------------------------------------------------
TypeOK ==
    /\ running \in BOOLEAN
    /\ pc \in [Clients -> {"idle", "forwarding", "gathering", "answered", "failed"}]
    /\ req \in [Clients -> Requests \union {Nobody}]
    /\ DOMAIN blocks \subseteq Paths
    /\ blocks \in [DOMAIN blocks -> Block]
    /\ calls \in [Clients -> [Sats -> CallStates]]
    /\ token \in [Sats -> {"", "token"}]
    /\ answers \in [Clients -> Seq(Answer)]
    /\ solo \subseteq Clients

\* A block that has a client is that client's own, and it has no answer yet:
\* a path leads to one client at most, and a client to one block.
OwnersMatch ==
    \A path \in DOMAIN blocks :
        LET c == blocks[path].owner IN
        c # Nobody => /\ req[c] # Nobody
                      /\ req[c].path = path
                      /\ pc[c] \in {"gathering", "failed"}

\* A client's continuation is called at most once, and never for a request
\* that is still on its way or that an exception has cut off: the callback
\* chain of operator() hands it from forward() to aggregate() to the block.
AtMostOneAnswer ==
    \A c \in Clients :
        /\ Len(answers[c]) <= 1
        /\ answers[c] # <<>> => pc[c] = "answered"

\* A block whose client is waiting still expects as many replies as it lacks;
\* one that operator[] made for late replies, or that a failed merge left
\* behind, counts down from SizeMax and is out of any client's reach.
BlocksAccounted ==
    \A path \in DOMAIN blocks :
        LET b == blocks[path]
            received == Len(b.results)
        IN  IF b.owner # Nobody /\ pc[b.owner] = "gathering"
              THEN b.count + received = N /\ (b.count = 0 => N = 0)
              ELSE received = IF b.count = 0 THEN 0 ELSE SizeMax + 1 - b.count

\* Whatever the clients do at the same time, a merged answer has as many
\* replies as there are satellites, and all of them to requests for the path
\* the client asked for: blocks are only ever shared by one target.
MergedRepliesMatchTarget ==
    \A c \in Clients : \A i \in DOMAIN answers[c] :
        LET a == answers[c][i] IN
        a.kind = "merged" =>
            /\ Len(a.results) = N
            /\ \A j \in DOMAIN a.results : req[a.results[j].from].path = req[c].path

\* No reply is merged twice, neither into one answer nor into two.
NoReplyMergedTwice ==
    \A c, d \in Clients : \A i \in DOMAIN answers[c], j \in DOMAIN answers[d] :
        \A k \in DOMAIN answers[c][i].results, l \in DOMAIN answers[d][j].results :
            LET x == answers[c][i].results[k]
                y == answers[d][j].results[l]
            IN  x.sat = y.sat /\ x.from = y.from => <<c, i, k>> = <<d, j, l>>

OwnReplies(c) == {[sat |-> r, from |-> c, val |-> calls[c][r]] : r \in Sats}

\* A client that had its path to itself while it gathered gets the reply of
\* every satellite to its own request, each once, and a block nobody else fed.
UndisturbedIsExact ==
    \A c \in solo :
        /\ pc[c] = "gathering" =>
              /\ req[c].path \in DOMAIN blocks
              /\ blocks[req[c].path].owner = c
        /\ \A i \in DOMAIN answers[c] :
              LET results == answers[c][i].results IN
              /\ Len(results) = N
              /\ Range(results) = OwnReplies(c)

\* The README's promise to every client, the same path asked for at once or
\* not: the merged answer is made of the satellites' replies to its request.
EveryMergeIsComplete ==
    \A c \in Clients : \A i \in DOMAIN answers[c] :
        answers[c][i].kind = "merged" => Range(answers[c][i].results) = OwnReplies(c)

\* A block without a client stays: no later request for its path can replace
\* it, and none is ever answered with a merge.
OrphanedBlockIsPermanent ==
    [][\A path \in DOMAIN blocks :
          blocks[path].owner = Nobody =>
              /\ path \in DOMAIN blocks'
              /\ blocks'[path].owner = Nobody
              /\ \A c \in Clients :
                    pc[c] = "gathering" /\ req[c].path = path => answers'[c] = answers[c]]_vars

\* A satellite that has issued a token, and that nobody is logging in to.
LoggedIn(r) == token[r] # "" /\ \A c \in Clients : calls[c][r] # "login"

\* Whatever the clients ask for at once, a satellite that the requester is logged
\* in to stays so: no login to it begins any more, and no late answer to one is
\* left that could put an empty token in the place of its own.  (While logins
\* overlap, one may: a later answer may bring no token.)
TokenKept == [][\A r \in Sats : LoggedIn(r) => LoggedIn(r)']_vars

\* What excuses a request from being answered: the process has ended or the
\* handler of a reply threw, another request for the path came between, or a
\* satellite refused the login.
Excused(c) ==
    \/ ~running \/ pc[c] = "failed"
    \/ pc[c] = "gathering" /\ (c \notin solo \/ \E r \in Sats : calls[c][r] = "dropped")

\* Every other request is answered in the end, however many satellites report
\* an error.
AnsweredUnlessExcused ==
    \A c \in Clients : pc[c] \in {"forwarding", "gathering"} ~>
                          (pc[c] = "answered" \/ Excused(c))

\* One request per path at a time, the aggregator keeps the promise of
\* ScatterGather.
Reached(c) ==
    CASE pc[c] = "forwarding" -> "working"
      [] pc[c] = "gathering" -> IF c \in solo THEN "gathering" ELSE "lost"
      [] pc[c] = "answered" -> "done"
      [] pc[c] = "failed" -> "lost"
      [] OTHER -> "idle"

Heard(c) == [r \in Sats |-> IF calls[c][r] \in SatReplies THEN calls[c][r] ELSE "none"]

Told(c) ==
    IF answers[c] = <<>>
      THEN [kind |-> "none", merged |-> {}]
      ELSE [kind |-> Last(answers[c]).kind,
            merged |-> {<<x.sat, x.val>> : x \in Range(Last(answers[c]).results)}]

Promise == INSTANCE ScatterGather WITH
    Replies <- SatReplies,
    phase <- [c \in Clients |-> Reached(c)],
    got <- [c \in Clients |-> Heard(c)],
    out <- [c \in Clients |-> Told(c)]

KeepsPromise == Promise!Spec

=============================================================================
