---------------------------- MODULE MCReverseProxy ----------------------------
(* Small instances of ReverseProxy for TLC. *)
EXTENDS ReverseProxy

CONSTANTS c1, c2, bmcweb, dump, license

Route(path, wild, to, default) ==
    [path |-> path, wild |-> wild, service |-> to, default |-> default, known |-> TRUE]

\* The example of the README.
Example ==
    << Route(<<"redfish/v1/">>, TRUE, bmcweb, TRUE),
       Route(<<"redfish/v1/", "Dump/">>, TRUE, dump, FALSE),
       Route(<<"redfish/v1/", "LicenseService/">>, TRUE, license, FALSE) >>

\* The same with a route without "*", one that is configured twice, and one of
\* an unknown type.
Extended ==
    Example \o
    << Route(<<"hello">>, FALSE, dump, FALSE),
       Route(<<"hello">>, FALSE, license, FALSE),
       [Route(<<"other">>, FALSE, dump, TRUE) EXCEPT !.known = FALSE] >>

AnyPaths ==
    { <<"redfish/v1/">>, <<"redfish/v1/", "Dump/", "1">>, <<"hello">>, <<"other">> }
===============================================================================
