-------------------------------- MODULE Beacon --------------------------------
(***************************************************************************)
(* What the heartbeat services promise those they know: while a service    *)
(* runs it goes through its list again and again with a rest in between;   *)
(* in a round it serves every entry the list had when the round began,     *)
(* each once and in order, unless the list grows meanwhile, which may      *)
(* spoil the rest of that round and no other; and it forgets no entry      *)
(* before it stops.                                                        *)
(***************************************************************************)
EXTENDS Naturals, Sequences

CONSTANT Hosts

VARIABLES
    phase,  \* phase[h]: "off", "resting" or "serving"
    list,   \* list[h]: the hosts it knows
    at,     \* at[h]: the entry being served in this round, 0 while resting
    upto,   \* upto[h]: the last entry of this round, 0 while resting
    served, \* served[h]: the hosts it has served in its latest round
    spoilt  \* the hosts whose round need not serve any more

vars == <<phase, list, at, upto, served, spoilt>>

Init ==
    /\ phase = [h \in Hosts |-> "off"]
    /\ list = [h \in Hosts |-> <<>>]
    /\ at = [h \in Hosts |-> 0]
    /\ upto = [h \in Hosts |-> 0]
    /\ served = [h \in Hosts |-> <<>>]
    /\ spoilt = {}

Move(h, from, to) ==
    /\ phase[h] = from
    /\ phase' = [phase EXCEPT ![h] = to]

Idle(h) ==
    /\ at' = [at EXCEPT ![h] = 0]
    /\ upto' = [upto EXCEPT ![h] = 0]

TurnOn(h) ==
    /\ Move(h, "off", "resting")
    /\ Idle(h)
    /\ list' = [list EXCEPT ![h] = list'[h]] /\ list'[h] \in Seq(Hosts)
    /\ UNCHANGED <<served, spoilt>>

TurnOff(h) ==
    /\ phase' = [phase EXCEPT ![h] = "off"]
    /\ Idle(h)
    /\ list' = [list EXCEPT ![h] = <<>>]
    /\ served' = [served EXCEPT ![h] = <<>>]
    /\ spoilt' = spoilt \ {h}

\* A peer is added at the end, which may spoil a round.
Learn(h) ==
    /\ phase[h] # "off"
    /\ \E p \in Hosts : list' = [list EXCEPT ![h] = Append(@, p)]
    /\ \/ UNCHANGED spoilt
       \/ phase[h] = "serving" /\ spoilt' = spoilt \union {h}
    /\ UNCHANGED <<phase, at, upto, served>>

BeginRound(h) ==
    /\ list[h] # <<>>
    /\ Move(h, "resting", "serving")
    /\ at' = [at EXCEPT ![h] = 1]
    /\ upto' = [upto EXCEPT ![h] = Len(list[h])]
    /\ served' = [served EXCEPT ![h] = <<>>]
    /\ UNCHANGED <<list, spoilt>>

\* The entry is served, or lost with a spoilt round.
Serve(h) ==
    \/ served' = [served EXCEPT ![h] = Append(@, list[h][at[h]])]
    \/ h \in spoilt /\ UNCHANGED served

ServeNext(h) ==
    /\ phase[h] = "serving" /\ at[h] < upto[h]
    /\ Serve(h)
    /\ at' = [at EXCEPT ![h] = @ + 1]
    /\ UNCHANGED <<phase, list, upto, spoilt>>

EndRound(h) ==
    /\ Move(h, "serving", "resting")
    /\ at[h] = upto[h]
    /\ Serve(h)
    /\ Idle(h)
    /\ spoilt' = spoilt \ {h}
    /\ UNCHANGED list

Next ==
    \E h \in Hosts :
        \/ TurnOn(h) \/ TurnOff(h) \/ Learn(h)
        \/ BeginRound(h) \/ ServeNext(h) \/ EndRound(h)

Spec == Init /\ [][Next]_vars

\* It neither rests for ever nor stays with one entry.
FairSpec ==
    /\ Spec
    /\ \A h \in Hosts : WF_vars(BeginRound(h)) /\ WF_vars(ServeNext(h) \/ EndRound(h))

===============================================================================
