---------------------------- MODULE RedfishRouting ----------------------------
(***************************************************************************)
(* How the aggregator reads a Redfish path: which satellite a resource     *)
(* belongs to, how a satellite's resource is renamed when its collection   *)
(* is merged into the master's, and which paths are collections to be      *)
(* merged.  Source: aggregator/src/aggregator.hpp.                         *)
(*                                                                         *)
(* A path is the sequence of its segments (what split(path, '/') returns;  *)
(* the empty segment before the leading '/' is the first).  A segment, and *)
(* a satellite's name, is the sequence of the words between its            *)
(* underscores: "bmc1_system" is <<"bmc1", "system">> and "" is <<"">>.    *)
(* In this form item.starts_with(name + "_") says that name is a strict    *)
(* prefix of item, and the text after the first underscore is the tail.    *)
(*                                                                         *)
(* The operators take the configured names (routeConfig["Exposes"], in the *)
(* order of the configuration) as an argument.                             *)
(***************************************************************************)
EXTENDS Naturals, Sequences, SequencesExt

\* The master controller; satellites are numbered from 1.
Master == 0

\* static aggregateResourcesPath: /redfish/v1
aggregateResourcesPath == << <<"">>, <<"redfish">>, <<"v1">> >>

\* static exclusionList
exclusionList == { <<"">>, <<"$metadata">>, <<"JsonSchemas">> }

\* Operators named Of_mistake are Of with a mistake in it, for checking that a
\* property can tell: no definition uses them.

\* The satellites whose name and an underscore begin the segment.
Owners(names, item) == {i \in DOMAIN names : IsStrictPrefix(names[i], item)}

\* std::ranges::find_if: the first one configured, Master if there is none.
findResourceRequester(names, item) ==
    LET found == Owners(names, item) IN
    IF found = {} THEN Master
                  ELSE CHOOSE i \in found : \A j \in found : i <= j

isAggregatedResource(names, item) == findResourceRequester(names, item) # Master

\* The requester forward() picks: only the last segment is looked at.
Route(names, path) == findResourceRequester(names, path[Len(path)])

\* substr(rfind('_') + 1)
stripSateliteInfo_lastWord(path) ==
    [path EXCEPT ![Len(path)] = <<Last(@)>>]

\* substr(find('_') + 1) of the last segment; find() = npos keeps it whole.
stripSateliteInfo(path) ==
    [path EXCEPT ![Len(path)] = IF Len(@) > 1 THEN Tail(@) ELSE @]

\* Where forward() delivers a request for the path, and under which path.
Delivered(names, path) ==
    LET s == Route(names, path) IN
    [server |-> s, path |-> IF s = Master THEN path ELSE stripSateliteInfo(path)]

MergedId_keepsId(name, id) == id
MergedId_wholeId(name, id) == [id EXCEPT ![1] = name \o @]

\* The "@odata.id" that mergeMembers gives a member of satellite `name`.
MergedId(name, id) == [id EXCEPT ![Len(id)] = name \o @]

\* Without the look at the last segment.
isAggregatedCollection_anySegment(names, get, path) ==
    get /\ IsPrefix(aggregateResourcesPath, path)

\* A GET of /redfish/v1 or of anything below it that is neither a satellite's
\* resource nor excluded by its first segment.
isAggregatedCollection(names, get, path) ==
    LET n == Len(aggregateResourcesPath) IN
    /\ get
    /\ ~isAggregatedResource(names, path[Len(path)])
    /\ IsPrefix(aggregateResourcesPath, path)
    /\ Len(path) = n \/ path[n + 1] \notin exclusionList

===============================================================================
