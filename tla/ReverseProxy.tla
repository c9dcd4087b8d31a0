----------------------------- MODULE ReverseProxy -----------------------------
(***************************************************************************)
(* The reverse proxy: one entry point that relays each request to the      *)
(* service the configuration names for its path.  Sources:                 *)
(* reverseproxy/src/request_forwarder.hpp, forwarder.hpp, rproxy.cpp.      *)
(*                                                                         *)
(* A path is a sequence of parts of its text, cut where some route ends, so *)
(* that starts_with is IsPrefix.  A request is relayed by a coroutine of   *)
(* its own, which waits for the service five times (forward); each wait is *)
(* a step.  A client here is one HTTP request.                             *)
(***************************************************************************)
EXTENDS Naturals, Sequences, SequencesExt, FiniteSets

CONSTANTS
    Clients,   \* the requests that reach the proxy, by a name for each
    Paths,     \* the paths they may ask for
    Config,    \* proxy.conf: a sequence of [path, wild, service, default,
               \* known]; wild if the path ends with "*" (which it is here
               \* without), known if forwardMaker() has its "type"
    Services,  \* the services behind the proxy
    Secure,    \* those that speak TLS
    Failures,  \* TRUE if any wait may fail by itself
    None       \* no path, no service

ASSUME ConfigAssumption ==
    /\ Config \in Seq([path : Seq(STRING), wild : BOOLEAN, service : Services,
                       default : BOOLEAN, known : BOOLEAN])
    /\ Paths \subseteq Seq(STRING) /\ None \notin Paths
ASSUME ServicesAssumption == Secure \subseteq Services /\ None \notin Services
ASSUME FailuresAssumption == Failures \in BOOLEAN

\* The constructor: addRoute() of a path that is there replaces its forwarder,
\* and a later default replaces an earlier one.
Known == {i \in DOMAIN Config : Config[i].known}
Key(i) == [path |-> Config[i].path, wild |-> Config[i].wild]
LastOf(S) == CHOOSE i \in S : \A j \in S : j <= i
Keys == {Key(i) : i \in Known}
table == [k \in Keys |-> Config[LastOf({i \in Known : Key(i) = k})].service]
Defaults == {i \in Known : Config[i].default}
defaultForwarder == IF Defaults = {} THEN None ELSE Config[LastOf(Defaults)].service

VARIABLES
    order,    \* the order in which the unordered map gives its keys
    up,       \* "starting", "serving", "crashed"
    asked,    \* asked[c]: the path of c's request
    stage,    \* stage[c]: what its coroutine waits for
    service,  \* service[c]: where it is relayed to
    answers   \* answers[c]: the responses cont was called with

vars == <<order, up, asked, stage, service, answers>>

Waits == {"resolve", "connect", "handshake", "write", "read"}

Init ==
    /\ order \in {s \in [1..Cardinality(Keys) -> Keys] : ToSet(s) = Keys}
    /\ up = "starting"
    /\ asked = [c \in Clients |-> None]
    /\ stage = [c \in Clients |-> "idle"]
    /\ service = [c \in Clients |-> None]
    /\ answers = [c \in Clients |-> <<>>]

-------------------------------------------------------------------------------
\* setIoContext(), from the server's constructor: without a default it follows
\* a null pointer.
Start ==
    /\ up = "starting"
    /\ up' = IF defaultForwarder = None THEN "crashed" ELSE "serving"
    /\ UNCHANGED <<order, asked, stage, service, answers>>

\* Operators named Of_mistake are Of with a mistake in it, for checking that a
\* property can tell: no definition uses them.

\* wildCardMatch(), the prefix the wrong way round.
wildCardMatch_reversed(path) ==
    {i \in DOMAIN order : order[i].wild /\ IsPrefix(path, order[i].path)}

\* The places in the map's order of the wildcards that match.
wildCardMatch(path) ==
    {i \in DOMAIN order : order[i].wild /\ IsPrefix(order[i].path, path)}

\* Without the default.
getForwarder_noDefault(path) ==
    LET found == wildCardMatch(path)
        own == [path |-> path, wild |-> FALSE]
    IN  IF found # {} THEN table[order[CHOOSE i \in found : \A j \in found : i <= j]]
        ELSE IF own \in Keys THEN table[own] ELSE None

\* The first of them the map gives, the path's own route, the default.
getForwarder(path) ==
    LET found == wildCardMatch(path)
        own == [path |-> path, wild |-> FALSE]
    IN  IF found # {} THEN table[order[CHOOSE i \in found : \A j \in found : i <= j]]
        ELSE IF own \in Keys THEN table[own]
        ELSE defaultForwarder

Answer(c, kind, from) == answers' = [answers EXCEPT ![c] = Append(@, [kind |-> kind, from |-> from])]

\* operator(): a request whose body is no string is refused.
Request(c, path) ==
    /\ up = "serving" /\ stage[c] = "idle"
    /\ asked' = [asked EXCEPT ![c] = path]
    /\ service' = [service EXCEPT ![c] = getForwarder(path)]
    /\ \/ /\ stage' = [stage EXCEPT ![c] = "resolve"]
          /\ UNCHANGED answers
       \/ /\ stage' = [stage EXCEPT ![c] = "done"]
          /\ Answer(c, "error500", None)
    /\ UNCHANGED <<order, up>>

After(s) ==
    CASE s = "resolve" -> "connect"
      [] s = "connect" -> "handshake"
      [] s = "handshake" -> "write"
      [] s = "write" -> "read"

\* The handshake is made whatever the type of the route, and ends well only with
\* a service that speaks TLS.
HandshakeFails(c) == stage[c] = "handshake" /\ service[c] \notin Secure

\* A wait ends well.
Proceed(c) ==
    /\ stage[c] \in Waits \ {"read"} /\ ~HandshakeFails(c)
    /\ stage' = [stage EXCEPT ![c] = After(@)]
    /\ UNCHANGED <<order, up, asked, service, answers>>

\* The response is there.
Relay(c) ==
    /\ stage[c] = "read"
    /\ stage' = [stage EXCEPT ![c] = "shutdown"]
    /\ Answer(c, "relayed", service[c])
    /\ UNCHANGED <<order, up, asked, service>>

\* When a wait may end with an error.
MayFail(c) == stage[c] \in Waits /\ (Failures \/ HandshakeFails(c))

\* checkFail() without the return behind it, and without the call of cont.
Fail_goesOn(c) ==
    /\ MayFail(c)
    /\ stage' = [stage EXCEPT ![c] = IF @ = "read" THEN "shutdown" ELSE After(@)]
    /\ Answer(c, "error500", None)
    /\ UNCHANGED <<order, up, asked, service>>
Fail_silently(c) ==
    /\ MayFail(c)
    /\ stage' = [stage EXCEPT ![c] = "done"]
    /\ UNCHANGED <<order, up, asked, service, answers>>

\* checkFail(): a wait ends with an error, which is answered at once.
Fail(c) ==
    /\ MayFail(c)
    /\ stage' = [stage EXCEPT ![c] = IF @ = "read" THEN "shutdown" ELSE "done"]
    /\ Answer(c, "error500", None)
    /\ UNCHANGED <<order, up, asked, service>>

\* async_shutdown(), whose error is ignored.
Shutdown(c) ==
    /\ stage[c] = "shutdown"
    /\ stage' = [stage EXCEPT ![c] = "done"]
    /\ UNCHANGED <<order, up, asked, service, answers>>

Next ==
    \/ Start
    \/ \E c \in Clients :
          \/ \E path \in Paths : Request(c, path)
          \/ Proceed(c) \/ Relay(c) \/ Fail(c) \/ Shutdown(c)

Spec == Init /\ [][Next]_vars

\* Every wait ends, well or not.  This is assumed of the services: the code sets
\* no time limit.
FairSpec == Spec /\ \A c \in Clients : WF_vars(Proceed(c) \/ Relay(c) \/ Fail(c))
-------------------------------------------------------------------------------
\* Types.  No request is taken that has no service to go to.
TypeOK ==
    /\ order \in Seq(Keys)
    /\ up \in {"starting", "serving", "crashed"}
    /\ asked \in [Clients -> Paths \union {None}]
    /\ stage \in [Clients -> {"idle", "shutdown", "done"} \union Waits]
    /\ service \in [Clients -> Services \union {None}]
    /\ \A c \in Clients : service[c] \in IF stage[c] = "idle" THEN {None} ELSE Services
    /\ answers \in [Clients -> Seq([kind : {"relayed", "error500"}, from : Services \union {None}])]

\* Whichever of the five waits fails, a client gets one response: none while
\* its coroutine is on its way, exactly one from then on.
AnsweredExactlyOnce ==
    \A c \in Clients :
        Len(answers[c]) = IF stage[c] \in {"shutdown", "done"} THEN 1 ELSE 0

\* The keys that match a path.
Matching(path) ==
    {k \in Keys : IF k.wild THEN IsPrefix(k.path, path) ELSE k.path = path}

\* A response is from a service with a route for the path, or from the default
\* if no route matches.
RelayedByARoute ==
    \A c \in Clients : \A i \in DOMAIN answers[c] :
        answers[c][i].kind = "relayed" =>
            answers[c][i].from \in
                IF Matching(asked[c]) = {} THEN {defaultForwarder}
                ELSE {table[k] : k \in Matching(asked[c])}

\* Every request is answered in the end.
EveryRequestAnswered ==
    \A c \in Clients : stage[c] # "idle" ~> answers[c] # <<>>

\* What the README says of the services: they need not speak TLS ("it is not
\* mandatory for the services to implement https").  Where no wait fails by
\* itself, no request that is on its way to a service is answered with an error.
NoTlsNeeded ==
    [][ ~Failures => \A c \in Clients :
            stage[c] \in Waits /\ answers'[c] # answers[c] =>
                Last(answers'[c]).kind = "relayed" ]_vars

===============================================================================
