-------------------------- MODULE ReverseProxyProofs --------------------------
(***************************************************************************)
(* The safety of the reverse proxy for every configuration and every       *)
(* number of requests.  Two facts about the choice of a forwarder carry    *)
(* it: what getForwarder() returns is a service, and one with a route for  *)
(* the path (ForwarderMatches).  IInv adds to the invariants how far a     *)
(* relayed request must have come.                                         *)
(***************************************************************************)
EXTENDS ReverseProxy, FiniteSetTheorems, WellFoundedInduction, TLAPS

-------------------------------------------------------------------------------
(* Least and greatest elements, which CHOOSE needs to name anything. *)

LEMMA LeastOfNaturals ==
  ASSUME NEW S \in SUBSET Nat, S # {}
  PROVE  \E i \in S : \A j \in S : i <= j
<1>1. PICK i \in S : \A j \in S : <<j, i>> \notin OpToRel(<, Nat)
  BY NatLessThanWellFounded, WFMin
<1>2. \A j \in S : ~(j < i)
  BY <1>1 DEF OpToRel
<1> QED
  BY <1>2

LEMMA LastOfIndices ==
  ASSUME NEW n \in Nat, NEW S \in SUBSET (1..n), S # {}
  PROVE  LastOf(S) \in S
<1> DEFINE T == {j \in Nat : n - j \in S}
<1>1. T \in SUBSET Nat /\ T # {}
  <2>1. PICK i \in S : TRUE
    OBVIOUS
  <2>2. n - i \in Nat /\ n - (n - i) = i
    BY <2>1
  <2> QED
    BY <2>1, <2>2
<1>2. PICK j \in T : \A k \in T : j <= k
  BY <1>1, LeastOfNaturals
<1>3. \A i \in S : n - i \in T /\ j <= n - i
  <2>1. ASSUME NEW i \in S PROVE n - i \in T
    <3>1. n - i \in Nat /\ n - (n - i) = i
      OBVIOUS
    <3> QED
      BY <3>1
  <2> QED
    BY <1>2, <2>1
<1>4. n - j \in S /\ \A i \in S : i <= n - j
  BY <1>2, <1>3
<1> HIDE DEF T
<1> QED
  BY <1>4 DEF LastOf

-------------------------------------------------------------------------------
(* What the constructor builds. *)

LEMMA KnownType ==
  /\ Len(Config) \in Nat
  /\ Known \in SUBSET (1..Len(Config))
  /\ \A i \in Known : Config[i] \in [path : Seq(STRING), wild : BOOLEAN, service : Services,
                                     default : BOOLEAN, known : BOOLEAN]
<1> DEFINE Entry == [path : Seq(STRING), wild : BOOLEAN, service : Services,
                     default : BOOLEAN, known : BOOLEAN]
<1>1. Config \in Seq(Entry)
  BY ConfigAssumption
<1> HIDE DEF Entry
<1>2. Len(Config) \in Nat /\ DOMAIN Config = 1..Len(Config)
      /\ \A i \in DOMAIN Config : Config[i] \in Entry
  BY <1>1
<1>3. Known \subseteq DOMAIN Config
  BY DEF Known
<1> QED
  BY <1>2, <1>3 DEF Entry

LEMMA KeysType == Keys \subseteq [path : Seq(STRING), wild : BOOLEAN]
BY KnownType DEF Keys, Key

LEMMA TableType == table \in [Keys -> Services]
<1>1. ASSUME NEW k \in Keys
      PROVE  Config[LastOf({i \in Known : Key(i) = k})].service \in Services
  <2> DEFINE S == {i \in Known : Key(i) = k}
  <2>1. S \in SUBSET (1..Len(Config)) /\ S # {} /\ Len(Config) \in Nat
    BY KnownType DEF Keys
  <2>2. LastOf(S) \in S
    BY <2>1, LastOfIndices
  <2> QED
    BY <2>2, KnownType
<1> QED
  BY <1>1 DEF table

LEMMA DefaultType == defaultForwarder \in Services \union {None}
<1>1. CASE Defaults # {}
  <2>1. Defaults \in SUBSET (1..Len(Config)) /\ Len(Config) \in Nat
    BY KnownType DEF Defaults
  <2>2. LastOf(Defaults) \in Known
    BY <1>1, <2>1, LastOfIndices DEF Defaults
  <2> QED
    BY <1>1, <2>2, KnownType DEF defaultForwarder
<1> QED
  BY <1>1 DEF defaultForwarder

LEMMA KeysFinite == IsFiniteSet(Keys) /\ Cardinality(Keys) \in Nat
<1> DEFINE f == [i \in Known |-> Key(i)]
<1>1. IsFiniteSet(Known)
  <2>1. IsFiniteSet(1..Len(Config))
    BY KnownType, FS_Interval
  <2> QED
    BY <2>1, KnownType, FS_Subset
<1>2. f \in Surjection(Known, Keys)
  BY DEF Surjection, Keys
<1>3. IsFiniteSet(Keys)
  BY <1>1, <1>2, FS_Surjection DEF ExistsSurjection
<1> QED
  BY <1>3, FS_CardinalityType

-------------------------------------------------------------------------------
\* The order in which the map gives its keys is a sequence of all of them.
Ordered == order \in Seq(Keys) /\ ToSet(order) = Keys

\* The services that may answer a request for the path.
Eligible(path) ==
    IF Matching(path) = {} THEN {defaultForwarder} ELSE {table[k] : k \in Matching(path)}

LEMMA ForwarderMatches ==
  ASSUME Ordered, NEW path \in Paths
  PROVE  getForwarder(path) \in Eligible(path)
<1> DEFINE found == wildCardMatch(path)
           own == [path |-> path, wild |-> FALSE]
           first == CHOOSE i \in found : \A j \in found : i <= j
<1>0. Matching(path) \subseteq Keys
  BY DEF Matching
<1>1. CASE found # {}
  <2>1. found \in SUBSET Nat
    BY DEF wildCardMatch, Ordered
  <2>2. first \in found
    BY <1>1, <2>1, LeastOfNaturals
  <2>3. order[first] \in Matching(path)
    BY <2>2 DEF wildCardMatch, Matching, Ordered
  <2>4. getForwarder(path) = table[order[first]]
    BY <1>1 DEF getForwarder
  <2> QED
    BY <2>3, <2>4 DEF Eligible
<1>2. CASE found = {} /\ own \in Keys
  <2>1. getForwarder(path) = table[own]
    BY <1>2 DEF getForwarder
  <2>2. own \in Matching(path)
    BY <1>2 DEF Matching
  <2> QED
    BY <2>1, <2>2 DEF Eligible
<1>3. CASE found = {} /\ own \notin Keys
  <2>1. getForwarder(path) = defaultForwarder
    BY <1>3 DEF getForwarder
  <2>2. ASSUME NEW k \in Matching(path) PROVE FALSE
    <3>1. k \in Keys /\ k \in [path : Seq(STRING), wild : BOOLEAN]
      BY <1>0, KeysType
    <3>2. CASE k.wild
      <4>1. PICK i \in DOMAIN order : order[i] = k
        BY <3>1 DEF Ordered, ToSet
      <4> QED
        BY <1>3, <2>2, <3>2, <4>1 DEF wildCardMatch, Matching
    <3>3. CASE ~k.wild
      <4>1. k.path = path
        BY <2>2, <3>3 DEF Matching
      <4>2. k = own
        BY <3>1, <3>3, <4>1
      <4> QED
        BY <1>3, <3>1, <4>2
    <3> QED
      BY <3>2, <3>3
  <2> QED
    BY <2>1, <2>2 DEF Eligible
<1> QED
  BY <1>1, <1>2, <1>3

LEMMA EligibleType ==
  ASSUME NEW path, defaultForwarder # None
  PROVE  Eligible(path) \subseteq Services
BY TableType, DefaultType DEF Eligible, Matching

-------------------------------------------------------------------------------
\* A request is only taken with a default, and has a service from then on.
Served ==
    /\ up = "serving" => defaultForwarder # None
    /\ \A c \in Clients : stage[c] # "idle" =>
          asked[c] \in Paths /\ service[c] \in Eligible(asked[c])

IInv == TypeOK /\ Ordered /\ Served /\ AnsweredExactlyOnce /\ RelayedByARoute

Response == [kind : {"relayed", "error500"}, from : Services \union {None}]

\* The invariant holds before the proxy has started.
THEOREM InitIInv == Init => IInv
<1> SUFFICES ASSUME Init PROVE IInv
  OBVIOUS
<1>1. Ordered
  <2>1. order \in [1..Cardinality(Keys) -> Keys] /\ ToSet(order) = Keys
    BY DEF Init
  <2> QED
    BY <2>1, KeysFinite DEF Ordered
<1>2. TypeOK
  BY <1>1 DEF Init, TypeOK, Ordered
<1>3. Served
  BY DEF Init, Served
<1>4. AnsweredExactlyOnce /\ RelayedByARoute
  BY DEF Init, AnsweredExactlyOnce, RelayedByARoute
<1> QED
  BY <1>1, <1>2, <1>3, <1>4 DEF IInv

\* The continuation of a request that has no answer yet is called.
LEMMA AnswerParts ==
  ASSUME TypeOK, AnsweredExactlyOnce, NEW c \in Clients, stage[c] \notin {"shutdown", "done"},
         NEW kind \in {"relayed", "error500"}, NEW from \in Services \union {None},
         Answer(c, kind, from)
  PROVE  /\ answers' \in [Clients -> Seq(Response)]
         /\ Len(answers'[c]) = 1
         /\ \A i \in DOMAIN answers'[c] : answers'[c][i] = [kind |-> kind, from |-> from]
         /\ \A d \in Clients \ {c} : answers'[d] = answers[d]
<1> DEFINE r == [kind |-> kind, from |-> from]
<1>1. r \in Response /\ answers \in [Clients -> Seq(Response)]
  BY DEF TypeOK, Response
<1>2. Len(answers[c]) = 0
  BY DEF AnsweredExactlyOnce
<1>3. answers' = [answers EXCEPT ![c] = Append(@, r)]
  BY DEF Answer
<1> HIDE DEF r
<1>4. Append(answers[c], r) \in Seq(Response)
      /\ Len(Append(answers[c], r)) = 1
      /\ Append(answers[c], r)[1] = r
  BY <1>1, <1>2
<1>5. answers'[c] = Append(answers[c], r) /\ \A d \in Clients \ {c} : answers'[d] = answers[d]
  BY <1>1, <1>3
<1>6. answers' \in [Clients -> Seq(Response)]
  BY <1>1, <1>3, <1>4
<1>7. \A i \in DOMAIN answers'[c] : answers'[c][i] = r
  <2>1. DOMAIN answers'[c] = {1}
    BY <1>4, <1>5
  <2> QED
    BY <1>4, <1>5, <2>1
<1> QED
  BY <1>4, <1>5, <1>6, <1>7 DEF r

\* What a step does to a client that it is not a step of: nothing.
LEMMA OthersKept ==
  ASSUME IInv, NEW d \in Clients,
         asked'[d] = asked[d], stage'[d] = stage[d],
         service'[d] = service[d], answers'[d] = answers[d]
  PROVE  /\ service'[d] \in IF stage'[d] = "idle" THEN {None} ELSE Services
         /\ stage'[d] # "idle" => asked'[d] \in Paths /\ service'[d] \in Eligible(asked'[d])
         /\ Len(answers'[d]) = IF stage'[d] \in {"shutdown", "done"} THEN 1 ELSE 0
         /\ \A i \in DOMAIN answers'[d] : answers'[d][i].kind = "relayed" =>
               answers'[d][i].from \in Eligible(asked'[d])
BY DEF IInv, TypeOK, Served, AnsweredExactlyOnce, RelayedByARoute, Eligible

\* The invariant holds after a step of c if it holds of c.
LEMMA StepOfOne ==
  ASSUME IInv, NEW c \in Clients,
         UNCHANGED <<order, up>>,
         asked' \in [Clients -> Paths \union {None}],
         stage' \in [Clients -> {"idle", "shutdown", "done"} \union Waits],
         service' \in [Clients -> Services \union {None}],
         answers' \in [Clients -> Seq(Response)],
         \A d \in Clients \ {c} : /\ asked'[d] = asked[d] /\ stage'[d] = stage[d]
                                  /\ service'[d] = service[d] /\ answers'[d] = answers[d],
         stage'[c] # "idle",
         asked'[c] \in Paths, service'[c] \in Services, service'[c] \in Eligible(asked'[c]),
         Len(answers'[c]) = IF stage'[c] \in {"shutdown", "done"} THEN 1 ELSE 0,
         \A i \in DOMAIN answers'[c] : answers'[c][i].kind = "relayed" =>
            answers'[c][i].from \in Eligible(asked'[c])
  PROVE  IInv'
<1>1. TypeOK'
  BY OthersKept DEF IInv, TypeOK, Response
<1>2. Ordered'
  BY DEF IInv, Ordered
<1>3. Served'
  <2>1. up' = "serving" => defaultForwarder # None
    BY DEF IInv, Served
  <2>2. \A d \in Clients : stage'[d] # "idle" =>
           asked'[d] \in Paths /\ service'[d] \in Eligible(asked'[d])
    BY OthersKept
  <2> QED
    BY <2>1, <2>2 DEF Served
<1>4. AnsweredExactlyOnce'
  BY OthersKept DEF AnsweredExactlyOnce
<1>5. RelayedByARoute'
  <2>1. \A d \in Clients : \A i \in DOMAIN answers'[d] : answers'[d][i].kind = "relayed" =>
           answers'[d][i].from \in Eligible(asked'[d])
    BY OthersKept
  <2> QED
    BY <2>1 DEF RelayedByARoute, Eligible
<1> QED
  BY <1>1, <1>2, <1>3, <1>4, <1>5 DEF IInv

\* Every step keeps it.
THEOREM Inductive == IInv /\ [Next]_vars => IInv'
<1> SUFFICES ASSUME IInv, [Next]_vars PROVE IInv'
  OBVIOUS
<1> USE DEF Waits
<1>0. /\ stage \in [Clients -> {"idle", "shutdown", "done"} \union Waits]
      /\ asked \in [Clients -> Paths \union {None}]
      /\ service \in [Clients -> Services \union {None}]
      /\ answers \in [Clients -> Seq(Response)]
      /\ TypeOK /\ AnsweredExactlyOnce
  BY DEF IInv, TypeOK, Response
<1>1. CASE Start
  <2>1. TypeOK' /\ Ordered' /\ AnsweredExactlyOnce' /\ RelayedByARoute'
    BY <1>1 DEF Start, IInv, TypeOK, Ordered, AnsweredExactlyOnce, RelayedByARoute
  <2>2. Served'
    BY <1>1 DEF Start, IInv, Served
  <2> QED
    BY <2>1, <2>2 DEF IInv
<1>2. ASSUME NEW c \in Clients, NEW path \in Paths, Request(c, path)
      PROVE  IInv'
  <2>1. defaultForwarder # None /\ stage[c] = "idle" /\ UNCHANGED <<order, up>>
    BY <1>2 DEF Request, IInv, Served
  <2>2. getForwarder(path) \in Eligible(path) /\ getForwarder(path) \in Services
    BY <2>1, ForwarderMatches, EligibleType DEF IInv
  <2>3. /\ asked' = [asked EXCEPT ![c] = path]
        /\ service' = [service EXCEPT ![c] = getForwarder(path)]
    BY <1>2 DEF Request
  <2>4. CASE stage' = [stage EXCEPT ![c] = "resolve"] /\ UNCHANGED answers
    <3>1. Len(answers'[c]) = 0 /\ DOMAIN answers'[c] = {}
      BY <1>0, <2>1, <2>4 DEF AnsweredExactlyOnce
    <3> QED
      BY <1>0, <2>1, <2>2, <2>3, <2>4, <3>1, StepOfOne
  <2>5. CASE stage' = [stage EXCEPT ![c] = "done"] /\ Answer(c, "error500", None)
    <3>1. /\ answers' \in [Clients -> Seq(Response)]
          /\ Len(answers'[c]) = 1
          /\ \A i \in DOMAIN answers'[c] : answers'[c][i].kind = "error500"
          /\ \A d \in Clients \ {c} : answers'[d] = answers[d]
      <4>1. /\ answers' \in [Clients -> Seq(Response)]
            /\ Len(answers'[c]) = 1
            /\ \A i \in DOMAIN answers'[c] : answers'[c][i] = [kind |-> "error500", from |-> None]
            /\ \A d \in Clients \ {c} : answers'[d] = answers[d]
        BY <1>0, <2>1, <2>5, AnswerParts
      <4> QED
        BY <4>1
    <3> QED
      BY <1>0, <2>1, <2>2, <2>3, <2>5, <3>1, StepOfOne
  <2> QED
    BY <1>2, <2>4, <2>5 DEF Request
<1>3. ASSUME NEW c \in Clients, stage[c] # "idle",
             stage'[c] \in {"shutdown", "done"} \union Waits,
             \E s \in {"shutdown", "done"} \union Waits : stage' = [stage EXCEPT ![c] = s],
             UNCHANGED <<order, up, asked, service>>,
             answers' \in [Clients -> Seq(Response)],
             \A d \in Clients \ {c} : answers'[d] = answers[d],
             Len(answers'[c]) = IF stage'[c] \in {"shutdown", "done"} THEN 1 ELSE 0,
             \A i \in DOMAIN answers'[c] : answers'[c][i].kind = "relayed" =>
                answers'[c][i].from \in Eligible(asked[c])
      PROVE  IInv'
  <2>1. /\ asked[c] \in Paths /\ service[c] \in Services /\ service[c] \in Eligible(asked[c])
    BY <1>3 DEF IInv, TypeOK, Served
  <2> QED
    BY <1>0, <1>3, <2>1, StepOfOne
<1>4. \A c \in Clients : stage[c] # "idle" /\ UNCHANGED <<asked, answers>> =>
        \A i \in DOMAIN answers'[c] : answers'[c][i].kind = "relayed" =>
           answers'[c][i].from \in Eligible(asked[c])
  BY DEF IInv, RelayedByARoute, Eligible
<1>5. ASSUME NEW c \in Clients, Proceed(c)
      PROVE  IInv'
  <2>1. /\ stage[c] \in Waits \ {"read"} /\ stage' = [stage EXCEPT ![c] = After(stage[c])]
        /\ UNCHANGED <<order, up, asked, service, answers>>
    BY <1>5 DEF Proceed
  <2>2. After(stage[c]) \in Waits
    BY <2>1 DEF After
  <2>3. Len(answers[c]) = 0
    BY <1>0, <2>1 DEF AnsweredExactlyOnce
  <2>4. stage'[c] = After(stage[c]) /\ stage'[c] \notin {"shutdown", "done"}
    BY <1>0, <2>1, <2>2
  <2> QED
    BY <1>0, <1>3, <1>4, <2>1, <2>2, <2>3, <2>4
<1>6. ASSUME NEW c \in Clients, Relay(c)
      PROVE  IInv'
  <2>1. /\ stage[c] = "read" /\ stage' = [stage EXCEPT ![c] = "shutdown"]
        /\ Answer(c, "relayed", service[c])
        /\ UNCHANGED <<order, up, asked, service>>
    BY <1>6 DEF Relay
  <2>2. service[c] \in Eligible(asked[c]) /\ service[c] \in Services
    BY <2>1 DEF IInv, Served, TypeOK
  <2>3. /\ answers' \in [Clients -> Seq(Response)]
        /\ Len(answers'[c]) = 1
        /\ \A i \in DOMAIN answers'[c] : answers'[c][i].from = service[c]
        /\ \A d \in Clients \ {c} : answers'[d] = answers[d]
    <3>1. /\ answers' \in [Clients -> Seq(Response)]
          /\ Len(answers'[c]) = 1
          /\ \A i \in DOMAIN answers'[c] : answers'[c][i] = [kind |-> "relayed", from |-> service[c]]
          /\ \A d \in Clients \ {c} : answers'[d] = answers[d]
      BY <1>0, <2>1, <2>2, AnswerParts
    <3> QED
      BY <3>1
  <2> QED
    BY <1>0, <1>3, <2>1, <2>2, <2>3
<1>7. ASSUME NEW c \in Clients, Fail(c)
      PROVE  IInv'
  <2>1. PICK s \in {"shutdown", "done"} : stage' = [stage EXCEPT ![c] = s]
    BY <1>7 DEF Fail, MayFail
  <2>2. stage[c] \in Waits /\ Answer(c, "error500", None) /\ UNCHANGED <<order, up, asked, service>>
    BY <1>7 DEF Fail, MayFail
  <2>3. /\ answers' \in [Clients -> Seq(Response)]
        /\ Len(answers'[c]) = 1
        /\ \A i \in DOMAIN answers'[c] : answers'[c][i].kind = "error500"
        /\ \A d \in Clients \ {c} : answers'[d] = answers[d]
    <3>1. /\ answers' \in [Clients -> Seq(Response)]
          /\ Len(answers'[c]) = 1
          /\ \A i \in DOMAIN answers'[c] : answers'[c][i] = [kind |-> "error500", from |-> None]
          /\ \A d \in Clients \ {c} : answers'[d] = answers[d]
      BY <1>0, <2>2, AnswerParts
    <3> QED
      BY <3>1
  <2> QED
    BY <1>0, <1>3, <2>1, <2>2, <2>3
<1>8. ASSUME NEW c \in Clients, Shutdown(c)
      PROVE  IInv'
  <2>1. /\ stage[c] = "shutdown" /\ stage' = [stage EXCEPT ![c] = "done"]
        /\ UNCHANGED <<order, up, asked, service, answers>>
    BY <1>8 DEF Shutdown
  <2>2. Len(answers[c]) = 1
    BY <1>0, <2>1 DEF AnsweredExactlyOnce
  <2> QED
    BY <1>0, <1>3, <1>4, <2>1, <2>2
<1>9. CASE UNCHANGED vars
  BY <1>9 DEF vars, IInv, TypeOK, Ordered, Served, AnsweredExactlyOnce, RelayedByARoute
<1> QED
  BY <1>1, <1>2, <1>5, <1>6, <1>7, <1>8, <1>9 DEF Next

\* The invariant holds in every state the proxy can reach.
THEOREM Invariant == Spec => []IInv
BY InitIInv, Inductive, PTL DEF Spec

\* The types; in particular a request that is taken has a service to go to.
THEOREM TypeCorrect == Spec => []TypeOK
<1>1. IInv => TypeOK
  BY DEF IInv
<1> QED
  BY <1>1, Invariant, PTL

\* However many of the waits of however many requests fail: one answer each.
THEOREM OneAnswer == Spec => []AnsweredExactlyOnce
<1>1. IInv => AnsweredExactlyOnce
  BY DEF IInv
<1> QED
  BY <1>1, Invariant, PTL

\* Whatever the configuration and the order of the map, an answer comes from a
\* service that has a route for the path, or from the default if no route matches.
THEOREM RelayedByRoute == Spec => []RelayedByARoute
<1>1. IInv => RelayedByARoute
  BY DEF IInv
<1> QED
  BY <1>1, Invariant, PTL

===============================================================================
