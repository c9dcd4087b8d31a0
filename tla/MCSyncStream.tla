----------------------------- MODULE MCSyncStream -----------------------------
(* Small instances of SyncStream for TLC: reads of five units. *)
EXTENDS SyncStream

File(name, body) == [type |-> "Filename: ", name |-> name, body |-> body, pieces |-> TRUE]
Credentials(body) == [type |-> "Authentication: ", name |-> <<>>, body |-> body, pieces |-> FALSE]

MCUnits == Types \union {"eol", "a", "b", "c", "json", "more"}
MCDocuments == { <<"json", "json">>, <<"json", "more", "json">> }

\* Bodies: empty, less than a piece, with a line that is a header, in three
\* pieces of which the second begins with one.
Bodies == {
    <<>>, <<"a", "b">>, <<"eol", "eol", "a">>,
    <<"Filename: ", "c", "eol", "eol", "a">>,
    <<"a", "b", "c", "a", "b", "Filename: ", "c", "eol", "eol", "a", "b">> }

\* Names: empty, two that fit, one that leaves its delimiter cut in two, and
\* one that is cut itself.
Names == { <<>>, <<"a">>, <<"a", "b">>, <<"a", "b", "c">>, <<"a", "b", "c", "a", "b">> }

AnyMessage ==
    {File(name, body) : name \in Names, body \in Bodies} \union
    {Credentials(body) : body \in MCDocuments}
===============================================================================
