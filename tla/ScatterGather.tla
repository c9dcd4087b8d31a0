---------------------------- MODULE ScatterGather ----------------------------
(***************************************************************************)
(* What the aggregator promises one client, whatever the others do: a      *)
(* request is answered at most once; either with an answer that was        *)
(* relayed or refused, or with the merge of exactly one reply of every     *)
(* satellite to that very request, and only once the last of them is in.   *)
(* A request may also be lost, and is then never answered.                 *)
(***************************************************************************)
CONSTANTS Clients, Sats, Replies

VARIABLES
    phase,  \* "idle", "working", "gathering", "done" or "lost"
    got,    \* got[c][r]: the reply of satellite r to client c, or "none"
    out     \* the client's answer: its kind, and the <<satellite, reply>> pairs merged

vars == <<phase, got, out>>

NoReplies == [r \in Sats |-> "none"]

Init ==
    /\ phase = [c \in Clients |-> "idle"]
    /\ got = [c \in Clients |-> NoReplies]
    /\ out = [c \in Clients |-> [kind |-> "none", merged |-> {}]]

Move(c, from, to) ==
    /\ phase[c] \in from
    /\ phase' = [phase EXCEPT ![c] = to]

Accept(c) == Move(c, {"idle"}, "working") /\ UNCHANGED <<got, out>>

\* An answer that needs no satellite's reply to the scattered request.
Reply(c) ==
    /\ Move(c, {"idle", "working"}, "done")
    /\ \E kind \in {"error500", "relayed"} : out' = [out EXCEPT ![c].kind = kind]
    /\ UNCHANGED got

Scatter(c) == Move(c, {"working"}, "gathering") /\ UNCHANGED <<got, out>>

Lose(c) == Move(c, {"working", "gathering"}, "lost") /\ UNCHANGED out

\* The reply of r comes in: it completes the answer if it is the last.
Collect(c, r, v) ==
    /\ got[c][r] = "none"
    /\ got' = [got EXCEPT ![c][r] = v]
    /\ \/ /\ phase[c] = "lost"
          /\ UNCHANGED <<phase, out>>
       \/ /\ phase[c] = "gathering"
          /\ IF \E s \in Sats : got'[c][s] = "none"
               THEN UNCHANGED <<phase, out>>
               ELSE \/ /\ Move(c, {"gathering"}, "done")
                       /\ out' = [out EXCEPT ![c] =
                                   [kind |-> "merged",
                                    merged |-> {<<s, got'[c][s]>> : s \in Sats}]]
                    \/ /\ Move(c, {"gathering"}, "lost")
                       /\ UNCHANGED out

Next ==
    \E c \in Clients :
        \/ Accept(c)
        \/ Reply(c)
        \/ Scatter(c)
        \/ Lose(c) /\ UNCHANGED got
        \/ \E r \in Sats, v \in Replies : Collect(c, r, v)

Spec == Init /\ [][Next]_vars

==============================================================================
