---------------------------- MODULE MCAggregator ----------------------------
(* Small instances of Aggregator for TLC. *)
EXTENDS Aggregator, TLC

CONSTANTS c1, c2, c3

TwoSats == << <<"bmc1">>, <<"bmc2">> >>
ThreeSats == Append(TwoSats, <<"bmc3">>)

Systems == aggregateResourcesPath \o << <<"Systems">> >>
Chassis == aggregateResourcesPath \o << <<"Chassis">> >>
Bmc1System == Append(Systems, <<"bmc1", "system">>)

Get(path) == [path |-> path, get |-> TRUE, text |-> TRUE]

\* Two collections, so that blocks of two paths exist side by side.
OneCollection == {Get(Systems)}
TwoCollections == {Get(Systems), Get(Chassis)}

\* One collection, asked for in a GET, a POST and a request without text, and a
\* satellite's resource.
Mixed == {Get(Systems), Get(Bmc1System),
          [path |-> Systems, get |-> FALSE, text |-> TRUE],
          [path |-> Systems, get |-> TRUE, text |-> FALSE]}

ClientSymmetry == Permutations(Clients)
=============================================================================
