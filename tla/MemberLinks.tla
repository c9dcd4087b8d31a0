----------------------------- MODULE MemberLinks -----------------------------
(***************************************************************************)
(* What becomes of a link to a member of a merged collection.  The servers *)
(* behind the aggregator each have members in one collection; a listing    *)
(* keeps the master's links and renames those of the satellites that       *)
(* answered (mergeMembers), and a client may follow any link of the last   *)
(* listing, when the aggregator has nothing but the link to tell where the *)
(* request must go.                                                        *)
(* Source: aggregator/src/aggregator.hpp.                                  *)
(***************************************************************************)
EXTENDS RedfishRouting, FiniteSets

CONSTANTS
    SatNames,    \* the configured names, in order
    Ids,         \* the last segments the servers give their members
    Collection,  \* the path of the collection
    Nothing      \* no link followed yet

Sats == DOMAIN SatNames

\* Nothing is asked of the names: two may be the same, and they may have
\* underscores, as the code does not check.
ASSUME NamesAssumption == SatNames \in Seq(Seq(STRING) \ {<<>>})
ASSUME IdsAssumption ==
    /\ Ids \subseteq Seq(STRING) \ {<<>>}
    /\ Collection \in Seq(Seq(STRING))

VARIABLES
    members,   \* members[s]: the ids of server s's members; Master is one
    listing,   \* the last listing: the links with the members they stand for
    followed,  \* the entry of the listing whose link was last followed
    arrived    \* where that request arrived

vars == <<members, listing, followed, arrived>>

Path(id) == Append(Collection, id)

Entry == [link : Seq(Seq(STRING)), server : Sats \union {Master}, id : Ids]

Init ==
    /\ members \in [Sats \union {Master} -> SUBSET Ids]
    /\ listing = {}
    /\ followed = Nothing
    /\ arrived = Nothing

\* The links of one server in a listing.
Links(s, ids) ==
    {[link |-> IF s = Master THEN Path(id) ELSE MergedId(SatNames[s], Path(id)),
      server |-> s, id |-> id] : id \in ids}

\* A satellite whose reply was an error is left out.
List ==
    \E answered \in SUBSET Sats :
        /\ listing' = UNION {Links(s, members[s]) : s \in answered \union {Master}}
        /\ UNCHANGED <<members, followed, arrived>>

\* forward() of a request for a link.
Follow(entry) ==
    /\ followed' = entry
    /\ arrived' = Delivered(SatNames, entry.link)
    /\ UNCHANGED <<members, listing>>

Next ==
    \/ List
    \/ \E entry \in listing : Follow(entry)

Spec == Init /\ [][Next]_vars
------------------------------------------------------------------------------
\* Types.  A renamed link still is a path of the collection's own members.
TypeOK ==
    /\ members \in [Sats \union {Master} -> SUBSET Ids]
    /\ listing \subseteq Entry
    /\ \A x \in listing : Front(x.link) = Collection
    /\ followed \in Entry \union {Nothing}
    /\ arrived = Nothing \/ arrived.server \in Sats \union {Master}

\* The entries whose link is enough to find their member: one of the master that
\* no configured name begins; one of a satellite whose name has no underscore,
\* if the name of none that is configured before it begins the link as well.
Unambiguous(x) ==
    IF x.server = Master
    THEN \A i \in Sats : ~IsStrictPrefix(SatNames[i], x.id)
    ELSE /\ Len(SatNames[x.server]) = 1
         /\ \A i \in 1..x.server - 1 :
                ~IsStrictPrefix(SatNames[i], SatNames[x.server] \o x.id)

Home(x) == [server |-> x.server, path |-> Path(x.id)]

\* Whatever the names, the links that lead home are the unambiguous ones: their
\* requests arrive at the server the member is on, under the path that server
\* gave it, as forward() undoes what mergeMembers() did; a request for another
\* link arrives at another server, or under a path that is not the member's.
LinkLeadsHome ==
    followed # Nothing => (arrived = Home(followed) <=> Unambiguous(followed))

\* Of the members of a listing that share a link, of one server or of several,
\* at most one can be reached by it.
LinksDistinct ==
    \A x, y \in listing :
        x.link = y.link /\ Unambiguous(x) /\ Unambiguous(y) => x = y

\* A satellite's member is never taken for a collection to be merged, so a GET
\* of it is one request to its own satellite.
MembersAreRelayed ==
    \A x \in listing :
        x.server # Master => ~isAggregatedCollection(SatNames, TRUE, x.link)

==============================================================================
