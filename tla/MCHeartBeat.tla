------------------------------ MODULE MCHeartBeat ------------------------------
(* A small instance of HeartBeat for TLC. *)
EXTENDS HeartBeat, TLC

CONSTANTS a, b, c

\* One host is configured with two targets, the others look for them.
TwoLook == (a :> <<b, c>>) @@ (b :> <<>>) @@ (c :> <<>>)
================================================================================
