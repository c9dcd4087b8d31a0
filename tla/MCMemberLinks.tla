---------------------------- MODULE MCMemberLinks ----------------------------
(* A small instance of MemberLinks for TLC. *)
EXTENDS MemberLinks

\* A name with an underscore, in front of the one that it begins with.
MCSatNames == << <<"bmc1">>, <<"bmc2", "sub">>, <<"bmc2">> >>
MCCollection == Append(aggregateResourcesPath, <<"Systems">>)

\* A plain id, one that looks like the link of a satellite's, and one that makes
\* the link of one satellite look like another's.
MCIds == { <<"system">>, <<"bmc1", "system">>, <<"sub", "system">> }
==============================================================================
