-------------------------- MODULE MemberLinksProofs --------------------------
(***************************************************************************)
(* Which links of a merged collection lead home, for every list of names,  *)
(* repeated or with underscores, every collection and all ids.  RoundTrip  *)
(* and MasterLink settle it for one link, whatever has been listed; the    *)
(* invariant only says that listings consist of such links.                *)
(***************************************************************************)
EXTENDS MemberLinks, SequenceTheorems, WellFoundedInduction, TLAPS

LEMMA NamesType ==
  /\ Len(SatNames) \in Nat /\ Sats = 1..Len(SatNames)
  /\ \A i \in Sats : /\ i \in Nat \ {0} /\ i # Master
                     /\ SatNames[i] \in Seq(STRING) /\ SatNames[i] # <<>>
                     /\ Len(SatNames[i]) \in Nat \ {0}
<1>1. SatNames \in Seq(Seq(STRING) \ {<<>>})
  BY NamesAssumption
<1>2. Len(SatNames) \in Nat /\ Sats = 1..Len(SatNames)
  BY <1>1 DEF Sats
<1>3. ASSUME NEW i \in Sats
      PROVE  /\ i \in Nat \ {0} /\ i # Master
             /\ SatNames[i] \in Seq(STRING) /\ SatNames[i] # <<>>
             /\ Len(SatNames[i]) \in Nat \ {0}
  <2>1. SatNames[i] \in Seq(STRING) /\ SatNames[i] # <<>>
    BY <1>1, <1>2
  <2> QED
    BY <1>2, <2>1, EmptySeq DEF Master
<1> QED
  BY <1>2, <1>3

\* What a name is put in front of begins with it and goes on.
LEMMA PrefixOfConcat ==
  ASSUME NEW s \in Seq(STRING), NEW t \in Seq(STRING), t # <<>>
  PROVE  IsStrictPrefix(s, s \o t)
<1> DEFINE st == s \o t
<1>1. /\ st \in Seq(STRING) /\ Len(st) = Len(s) + Len(t)
      /\ \A i \in 1..Len(s) + Len(t) : st[i] = IF i <= Len(s) THEN s[i] ELSE t[i - Len(s)]
  BY ConcatProperties
<1>2. Len(s) \in Nat /\ Len(t) \in Nat /\ Len(t) # 0
  BY EmptySeq
<1>3. s # st
  BY ConcatEqualIffEmpty
<1> HIDE DEF st
<1>4. \A i \in 1..Len(s) : s[i] \in STRING /\ st[i] \in STRING /\ st[i] = s[i]
  BY <1>1, <1>2
<1>5. /\ SubSeq(s, 1, Len(s)) \in Seq(STRING) /\ SubSeq(st, 1, Len(s)) \in Seq(STRING)
      /\ Len(SubSeq(s, 1, Len(s))) = Len(SubSeq(st, 1, Len(s)))
      /\ \A i \in 1..Len(s) : SubSeq(s, 1, Len(s))[i] = s[i] /\ SubSeq(st, 1, Len(s))[i] = st[i]
  <2>1. 1 \in Int /\ Len(s) \in Int /\ Len(s) - 1 + 1 = Len(s) /\ \A i \in Int : 1 + i - 1 = i
    BY <1>2
  <2>2. /\ SubSeq(s, 1, Len(s)) \in Seq(STRING)
        /\ Len(SubSeq(s, 1, Len(s))) = IF 1 <= Len(s) THEN Len(s) - 1 + 1 ELSE 0
        /\ \A i \in 1..Len(s) - 1 + 1 : SubSeq(s, 1, Len(s))[i] = s[1 + i - 1]
    BY <1>4, <2>1, SubSeqProperties
  <2>3. /\ SubSeq(st, 1, Len(s)) \in Seq(STRING)
        /\ Len(SubSeq(st, 1, Len(s))) = IF 1 <= Len(s) THEN Len(s) - 1 + 1 ELSE 0
        /\ \A i \in 1..Len(s) - 1 + 1 : SubSeq(st, 1, Len(s))[i] = st[1 + i - 1]
    BY <1>4, <2>1, SubSeqProperties
  <2> QED
    BY <2>1, <2>2, <2>3
<1>6. Len(SubSeq(s, 1, Len(s))) = Len(s)
  BY <1>2
<1>7. SubSeq(s, 1, Len(s)) = SubSeq(st, 1, Len(s))
  BY <1>4, <1>5, <1>6, SeqEqual
<1> QED
  BY <1>1, <1>2, <1>3, <1>7 DEF IsStrictPrefix, IsPrefix, st

\* Without the first word of its name, a segment is the id only if there was no
\* other word in the name.
LEMMA TailOfConcat ==
  ASSUME NEW s \in Seq(STRING), s # <<>>, NEW t \in Seq(STRING)
  PROVE  Tail(s \o t) = t <=> Len(s) = 1
<1> DEFINE st == s \o t
<1>1. /\ st \in Seq(STRING) /\ Len(st) = Len(s) + Len(t)
      /\ \A i \in 1..Len(s) + Len(t) : st[i] = IF i <= Len(s) THEN s[i] ELSE t[i - Len(s)]
  BY ConcatProperties
<1>2. Len(s) \in Nat /\ Len(t) \in Nat /\ Len(s) # 0
  BY EmptySeq
<1> HIDE DEF st
<1>3. /\ Tail(st) \in Seq(STRING) /\ Len(Tail(st)) = Len(s) + Len(t) - 1
      /\ \A i \in 1..Len(Tail(st)) : Tail(st)[i] = st[i + 1]
  <2>1. st # <<>>
    BY <1>1, <1>2
  <2> QED
    BY <1>1, <1>2, <2>1, HeadTailProperties
<1>4. ASSUME Len(s) = 1 PROVE Tail(st) = t
  <2>1. Len(Tail(st)) = Len(t)
    BY <1>2, <1>3, <1>4
  <2>2. \A i \in 1..Len(t) : i + 1 \in 1..Len(s) + Len(t) /\ ~(i + 1 <= Len(s)) /\ i + 1 - Len(s) = i
    BY <1>2, <1>4
  <2>3. \A i \in 1..Len(t) : st[i + 1] = t[i]
    BY <1>1, <2>2
  <2>4. \A i \in 1..Len(Tail(st)) : Tail(st)[i] = t[i]
    BY <1>3, <2>1, <2>3
  <2> QED
    BY <1>3, <2>1, <2>4, SeqEqual
<1>5. ASSUME Tail(st) = t PROVE Len(s) = 1
  <2>1. Len(t) = Len(s) + Len(t) - 1
    BY <1>3, <1>5, Zenon
  <2>2. \A m, n \in Nat : n = m + n - 1 => m = 1
    OBVIOUS
  <2> QED
    BY <1>2, <2>1, <2>2, Zenon
<1> QED
  BY <1>4, <1>5 DEF st

-------------------------------------------------------------------------------
\* A set of naturals that is not empty has a least element, for CHOOSE to name.
LEMMA LeastOfNaturals ==
  ASSUME NEW S \in SUBSET Nat, S # {}
  PROVE  \E i \in S : \A j \in S : i <= j
<1>1. PICK i \in S : \A j \in S : <<j, i>> \notin OpToRel(<, Nat)
  BY NatLessThanWellFounded, WFMin
<1>2. \A j \in S : ~(j < i)
  BY <1>1 DEF OpToRel
<1> QED
  BY <1>2

\* find_if finds the first of the satellites whose name begins the segment.
LEMMA FirstOwner ==
  ASSUME NEW item, Owners(SatNames, item) # {}
  PROVE  /\ findResourceRequester(SatNames, item) \in Owners(SatNames, item)
         /\ \A j \in Owners(SatNames, item) : findResourceRequester(SatNames, item) <= j
<1>1. Owners(SatNames, item) \in SUBSET Nat
  BY NamesType DEF Owners, Sats
<1>2. \E i \in Owners(SatNames, item) : \A j \in Owners(SatNames, item) : i <= j
  BY <1>1, LeastOfNaturals
<1> QED
  BY <1>2 DEF findResourceRequester

\* It is the satellite whose name was put in front of an id, unless one that is
\* configured before it fits as well.
LEMMA OwnerOfMember ==
  ASSUME NEW s \in Sats, NEW id \in Seq(STRING) \ {<<>>}
  PROVE  /\ findResourceRequester(SatNames, SatNames[s] \o id) \in Sats
         /\ findResourceRequester(SatNames, SatNames[s] \o id) = s
               <=> \A i \in 1..s - 1 : ~IsStrictPrefix(SatNames[i], SatNames[s] \o id)
<1> DEFINE item == SatNames[s] \o id
           first == findResourceRequester(SatNames, item)
<1>1. s \in Owners(SatNames, item)
  BY NamesType, PrefixOfConcat DEF Owners, Sats
<1> HIDE DEF item
<1>2. first \in Owners(SatNames, item) /\ \A j \in Owners(SatNames, item) : first <= j
  BY <1>1, FirstOwner
<1>3. \A i \in Sats : i \in Owners(SatNames, item) <=> IsStrictPrefix(SatNames[i], item)
  BY DEF Owners, Sats
<1>4. first \in Sats /\ Owners(SatNames, item) \subseteq Sats
  BY <1>2 DEF Owners, Sats
<1> HIDE DEF first
<1>5. /\ Sats = 1..Len(SatNames) /\ Len(SatNames) \in Nat
      /\ s \in Nat \ {0} /\ first \in Nat \ {0} /\ s <= Len(SatNames)
  BY <1>4, NamesType
<1>6. ASSUME first = s, NEW i \in 1..s - 1 PROVE ~IsStrictPrefix(SatNames[i], item)
  <2>1. i \in Sats /\ ~(s <= i)
    BY <1>5
  <2> QED
    BY <1>2, <1>3, <1>6, <2>1
<1>7. ASSUME \A i \in 1..s - 1 : ~IsStrictPrefix(SatNames[i], item) PROVE first = s
  <2>1. first <= s /\ IsStrictPrefix(SatNames[first], item)
    BY <1>1, <1>2, <1>3, <1>4
  <2>2. first \notin 1..s - 1
    BY <1>7, <2>1
  <2> QED
    BY <1>5, <2>1, <2>2
<1> QED
  BY <1>4, <1>6, <1>7 DEF item, first

\* Where forward() takes the link of a satellite's member: to a satellite, and
\* home just if the link is unambiguous.
LEMMA RoundTrip ==
  ASSUME NEW s \in Sats, NEW id \in Ids
  PROVE  LET arrives == Delivered(SatNames, MergedId(SatNames[s], Path(id))) IN
         /\ arrives.server \in Sats
         /\ arrives = [server |-> s, path |-> Path(id)]
               <=> /\ Len(SatNames[s]) = 1
                   /\ \A i \in 1..s - 1 : ~IsStrictPrefix(SatNames[i], SatNames[s] \o id)
<1> DEFINE p == Path(id)
           n == Len(p)
           seg == SatNames[s] \o id
           link == MergedId(SatNames[s], p)
           first == findResourceRequester(SatNames, seg)
<1>1. id \in Seq(STRING) \ {<<>>} /\ Collection \in Seq(Seq(STRING))
  BY IdsAssumption
<1>2. p \in Seq(Seq(STRING)) /\ n \in Nat \ {0} /\ p[n] = id
  BY <1>1 DEF Path
<1>3. SatNames[s] \in Seq(STRING) /\ SatNames[s] # <<>> /\ Len(SatNames[s]) \in Nat \ {0}
  BY NamesType
<1>4. /\ seg \in Seq(STRING) /\ Len(seg) > 1 /\ Tail(seg) \in Seq(STRING)
      /\ Tail(seg) = id <=> Len(SatNames[s]) = 1
  <2>1. seg \in Seq(STRING) /\ Len(seg) = Len(SatNames[s]) + Len(id)
    BY <1>1, <1>3, ConcatProperties
  <2>2. Len(id) \in Nat /\ Len(id) # 0
    BY <1>1, EmptySeq
  <2>3. Tail(seg) = id <=> Len(SatNames[s]) = 1
    BY <1>1, <1>3, TailOfConcat
  <2> HIDE DEF seg
  <2>4. Len(seg) > 1
    BY <1>3, <2>1, <2>2
  <2>5. Tail(seg) \in Seq(STRING)
    BY <2>1, <2>4
  <2> QED
    BY <2>1, <2>3, <2>4, <2>5
<1>5. /\ first \in Sats
      /\ first = s <=> \A i \in 1..s - 1 : ~IsStrictPrefix(SatNames[i], seg)
  BY <1>1, OwnerOfMember
<1>6. link = [p EXCEPT ![n] = seg]
  BY <1>2 DEF MergedId
<1>6a. \A path : Route(SatNames, path) = findResourceRequester(SatNames, path[Len(path)])
  BY DEF Route
<1> HIDE DEF p, seg, first
<1>7. link \in Seq(Seq(STRING)) /\ Len(link) = n /\ link[n] = seg
      /\ \A k \in 1..n : k # n => link[k] = p[k]
  BY <1>2, <1>4, <1>6
<1> HIDE DEF link
<1>8. Route(SatNames, link) = first /\ first # Master
  <2>1. Route(SatNames, link) = first
    BY <1>6a, <1>7 DEF first
  <2> QED
    BY <1>5, <2>1, NamesType
<1>9. stripSateliteInfo(link) = [link EXCEPT ![n] = Tail(seg)]
  BY <1>4, <1>7 DEF stripSateliteInfo
<1>10. [link EXCEPT ![n] = Tail(seg)] = p <=> Tail(seg) = id
  <2>1. [link EXCEPT ![n] = Tail(seg)][n] = Tail(seg)
    BY <1>2, <1>4, <1>7
  <2>2. ASSUME Tail(seg) = id PROVE [link EXCEPT ![n] = Tail(seg)] = p
    <3>1. [link EXCEPT ![n] = id] \in Seq(Seq(STRING)) /\ Len([link EXCEPT ![n] = id]) = n
          /\ \A k \in 1..n : [link EXCEPT ![n] = id][k] = p[k]
      BY <1>1, <1>2, <1>7
    <3> QED
      BY <1>2, <2>2, <3>1, SeqEqual
  <2> QED
    BY <1>2, <2>1, <2>2
<1> DEFINE stripped == [link EXCEPT ![n] = Tail(seg)]
<1>11. Delivered(SatNames, link) = [server |-> first, path |-> stripped]
  BY <1>8, <1>9 DEF Delivered
<1>12. /\ Delivered(SatNames, link).server = first
       /\ Delivered(SatNames, link) = [server |-> s, path |-> p] <=> first = s /\ stripped = p
  <2> HIDE DEF stripped
  <2>1. Delivered(SatNames, link).server = first /\ Delivered(SatNames, link).path = stripped
    BY <1>11
  <2> QED
    BY <1>11, <2>1
<1>13. /\ Delivered(SatNames, link).server \in Sats
       /\ Delivered(SatNames, link) = [server |-> s, path |-> p]
             <=> /\ Len(SatNames[s]) = 1
                 /\ \A i \in 1..s - 1 : ~IsStrictPrefix(SatNames[i], seg)
  BY <1>4, <1>5, <1>10, <1>12
<1> QED
  BY <1>13 DEF p, link, seg

\* A link of the master's is left alone if no satellite's name begins it.
LEMMA MasterLink ==
  ASSUME NEW id \in Ids
  PROVE  /\ Delivered(SatNames, Path(id)).server \in Sats \union {Master}
         /\ Delivered(SatNames, Path(id)) = [server |-> Master, path |-> Path(id)]
               <=> \A i \in Sats : ~IsStrictPrefix(SatNames[i], id)
<1>1. id \in Seq(STRING) /\ Collection \in Seq(Seq(STRING))
  BY IdsAssumption
<1>2. Path(id)[Len(Path(id))] = id
  BY <1>1 DEF Path
<1>3. Owners(SatNames, id) \subseteq Sats
      /\ \A i \in Sats : i \in Owners(SatNames, id) <=> IsStrictPrefix(SatNames[i], id)
  BY DEF Owners, Sats
<1>4. CASE Owners(SatNames, id) = {}
  <2>1. Route(SatNames, Path(id)) = Master
    BY <1>2, <1>4 DEF Route, findResourceRequester
  <2> QED
    BY <1>3, <1>4, <2>1 DEF Delivered
<1>5. CASE Owners(SatNames, id) # {}
  <2>1. Route(SatNames, Path(id)) \in Owners(SatNames, id)
    BY <1>2, <1>5, FirstOwner DEF Route
  <2>2. Route(SatNames, Path(id)) \in Sats /\ Route(SatNames, Path(id)) # Master
    BY <1>3, <2>1, NamesType
  <2>3. Delivered(SatNames, Path(id)).server = Route(SatNames, Path(id))
    BY DEF Delivered
  <2> QED
    BY <1>3, <2>1, <2>2, <2>3
<1> QED
  BY <1>4, <1>5

------------------------------------------------------------------------------
Made(x) ==
    /\ x.server \in Sats \union {Master} /\ x.id \in Ids
    /\ x.link = IF x.server = Master THEN Path(x.id)
                ELSE MergedId(SatNames[x.server], Path(x.id))

\* Which of the links that listings are made of lead home.
LEMMA MadeLeadsHome ==
  ASSUME NEW x, Made(x)
  PROVE  /\ Delivered(SatNames, x.link).server \in Sats \union {Master}
         /\ Delivered(SatNames, x.link) = Home(x) <=> Unambiguous(x)
<1>1. CASE x.server = Master
  <2>1. x.link = Path(x.id) /\ x.id \in Ids
    BY <1>1 DEF Made
  <2> QED
    BY <1>1, <2>1, MasterLink DEF Unambiguous, Home
<1>2. CASE x.server # Master
  <2>1. x.link = MergedId(SatNames[x.server], Path(x.id)) /\ x.server \in Sats /\ x.id \in Ids
    BY <1>2 DEF Made
  <2> QED
    BY <1>2, <2>1, RoundTrip DEF Unambiguous, Home
<1> QED
  BY <1>1, <1>2

\* Either kind of link is the collection's path with one more segment.
LEMMA LinkIsBelow ==
  ASSUME NEW x \in [link : Seq(Seq(STRING)), server : Sats \union {Master}, id : Ids],
         Made(x)
  PROVE  Front(x.link) = Collection
<1> DEFINE p == Path(x.id)
           n == Len(p)
<1>1. /\ Collection \in Seq(Seq(STRING)) /\ x.id \in Seq(STRING)
      /\ p \in Seq(Seq(STRING)) /\ n = Len(Collection) + 1 /\ Len(Collection) \in Nat
      /\ \A k \in 1..Len(Collection) : p[k] = Collection[k]
  BY IdsAssumption DEF Path
<1>2. Len(x.link) = n /\ \A k \in 1..Len(Collection) : x.link[k] = Collection[k]
  <2>1. CASE x.server = Master
    <3>1. x.link = p
      BY <2>1 DEF Made
    <3> HIDE DEF p
    <3> QED
      BY <1>1, <3>1, Zenon
  <2>2. CASE x.server # Master
    <3> DEFINE seg == SatNames[x.server] \o p[n]
    <3>1. x.link = [p EXCEPT ![n] = seg]
      BY <2>2 DEF Made, MergedId
    <3> HIDE DEF p, seg
    <3>2. Len(x.link) = n /\ \A k \in 1..n : k # n => x.link[k] = p[k]
      BY <1>1, <3>1
    <3>3. \A k \in 1..Len(Collection) : k \in 1..n /\ k # n
      BY <1>1
    <3> QED
      BY <1>1, <3>2, <3>3, Zenon
  <2> QED
    BY <2>1, <2>2
<1> HIDE DEF p, n
<1>3. /\ Front(x.link) \in Seq(Seq(STRING)) /\ Len(Front(x.link)) = Len(Collection)
      /\ \A k \in 1..Len(Collection) : Front(x.link)[k] = x.link[k]
  BY <1>1, <1>2 DEF Front
<1> QED
  BY <1>1, <1>2, <1>3, SeqEqual, SMTT(30)

\* A made link is a path.
LEMMA LinkIsPath ==
  ASSUME NEW s \in Sats \union {Master}, NEW id \in Ids
  PROVE  (IF s = Master THEN Path(id) ELSE MergedId(SatNames[s], Path(id))) \in Seq(Seq(STRING))
<1>1. Path(id) \in Seq(Seq(STRING)) /\ Len(Path(id)) >= 1 /\ id \in Seq(STRING)
      /\ Path(id)[Len(Path(id))] = id
  BY IdsAssumption DEF Path
<1>2. CASE s = Master
  BY <1>1, <1>2
<1>3. CASE s # Master
  <2>1. SatNames[s] \in Seq(STRING)
    BY <1>3, NamesType
  <2>2. SatNames[s] \o id \in Seq(STRING)
    BY <1>1, <2>1
  <2>3. MergedId(SatNames[s], Path(id)) = [Path(id) EXCEPT ![Len(Path(id))] = SatNames[s] \o id]
    BY <1>1 DEF MergedId
  <2> HIDE DEF Path
  <2> QED
    BY <1>1, <1>3, <2>2, <2>3
<1> QED
  BY <1>2, <1>3

IInv ==
    /\ members \in [Sats \union {Master} -> SUBSET Ids]
    /\ listing \subseteq Entry
    /\ \A x \in listing : Made(x)
    /\ followed \in Entry \union {Nothing}
    /\ arrived = Nothing \/ arrived.server \in Sats \union {Master}
    /\ LinkLeadsHome

\* Every listing consists of links as mergeMembers() makes them, and what was
\* followed led home if it could.
LEMMA Invariant == Spec => []IInv
<1>1. Init => IInv
  BY DEF Init, IInv, LinkLeadsHome
<1>2. IInv /\ [Next]_vars => IInv'
  <2> SUFFICES ASSUME IInv, [Next]_vars PROVE IInv'
    OBVIOUS
  <2>1. CASE List
    <3>1. PICK answered \in SUBSET Sats :
            listing' = UNION {Links(s, members[s]) : s \in answered \union {Master}}
      BY <2>1 DEF List
    <3>2. ASSUME NEW s \in answered \union {Master}, NEW x \in Links(s, members[s])
          PROVE  x \in Entry /\ Made(x)
      <4>1. PICK id \in members[s] :
              x = [link |-> IF s = Master THEN Path(id) ELSE MergedId(SatNames[s], Path(id)),
                   server |-> s, id |-> id]
        BY <3>2 DEF Links
      <4>2. s \in Sats \union {Master} /\ id \in Ids
        BY <4>1 DEF IInv
      <4> QED
        BY <4>1, <4>2, LinkIsPath DEF Entry, Made
    <3>3. \A x \in listing' : x \in Entry /\ Made(x)
      BY <3>1, <3>2
    <3>4. LinkLeadsHome'
      BY <2>1 DEF List, IInv, LinkLeadsHome, Home, Unambiguous
    <3> QED
      BY <2>1, <3>3, <3>4 DEF List, IInv
  <2>2. ASSUME NEW x \in listing, Follow(x)
        PROVE  IInv'
    <3>1. /\ followed' = x /\ arrived' = Delivered(SatNames, x.link)
          /\ UNCHANGED <<members, listing>> /\ Made(x) /\ x \in Entry
      BY <2>2 DEF Follow, IInv
    <3>2. arrived'.server \in Sats \union {Master}
      BY <3>1, MadeLeadsHome
    <3>3. arrived' = Home(x) <=> Unambiguous(x)
      BY <3>1, MadeLeadsHome
    <3>4. LinkLeadsHome'
      BY <3>1, <3>3 DEF LinkLeadsHome, Home, Unambiguous
    <3> QED
      BY <3>1, <3>2, <3>4 DEF IInv
  <2>3. CASE UNCHANGED vars
    BY <2>3 DEF vars, IInv, LinkLeadsHome, Home, Unambiguous
  <2> QED
    BY <2>1, <2>2, <2>3 DEF Next
<1> QED
  BY <1>1, <1>2, PTL DEF Spec

\* Whatever the names of the satellites, the ids and the listings: the request
\* for a member's link arrives at the member just if the link is unambiguous.
THEOREM LinksLeadHome == Spec => []LinkLeadsHome
<1>1. IInv => LinkLeadsHome
  BY DEF IInv
<1> QED
  BY <1>1, Invariant, PTL

\* Links are paths of the collection's own members, renamed or not.
THEOREM TypeCorrect == Spec => []TypeOK
<1>1. IInv => TypeOK
  BY LinkIsBelow DEF IInv, TypeOK, Entry
<1> QED
  BY <1>1, Invariant, PTL

\* Whatever the names, of the members that share a link at most one can be
\* reached by it, since a link leads to one place only.
THEOREM LinksAreDistinct == Spec => []LinksDistinct
<1>1. ASSUME IInv, NEW x \in listing, NEW y \in listing, x.link = y.link,
             Unambiguous(x), Unambiguous(y)
      PROVE  x = y
  <2>1. Home(x) = Home(y)
    BY <1>1, MadeLeadsHome DEF IInv
  <2>2. x.server = y.server /\ Path(x.id) = Path(y.id)
    BY <2>1 DEF Home
  <2>3. x \in Entry /\ y \in Entry
    BY <1>1 DEF IInv
  <2>4. x.id = y.id
    <3>1. \A id \in Ids : Path(id)[Len(Collection) + 1] = id
      BY IdsAssumption DEF Path
    <3> QED
      BY <2>2, <2>3, <3>1 DEF Entry
  <2> QED
    <3>1. \A e \in Entry : e = [link |-> e.link, server |-> e.server, id |-> e.id]
      BY DEF Entry
    <3> QED
      BY <1>1, <2>2, <2>3, <2>4, <3>1, Zenon
<1>2. IInv => LinksDistinct
  BY <1>1 DEF LinksDistinct
<1> QED
  BY <1>2, Invariant, PTL

\* Whatever the names, a GET of a satellite's member is one request, to a
\* satellite, and not a collection to be merged.
THEOREM MembersRelayed == Spec => []MembersAreRelayed
<1>1. ASSUME IInv, NEW x \in listing, x.server # Master
      PROVE  ~isAggregatedCollection(SatNames, TRUE, x.link)
  <2>1. x.server \in Sats /\ x.id \in Ids /\ x.link = MergedId(SatNames[x.server], Path(x.id))
    BY <1>1 DEF IInv, Made
  <2>2. Delivered(SatNames, x.link).server \in Sats
    BY <2>1, RoundTrip
  <2>3. Delivered(SatNames, x.link).server = Route(SatNames, x.link)
    BY DEF Delivered
  <2>4. isAggregatedResource(SatNames, x.link[Len(x.link)])
    BY <2>2, <2>3, NamesType DEF Route, isAggregatedResource
  <2> QED
    BY <2>4 DEF isAggregatedCollection
<1>2. IInv => MembersAreRelayed
  BY <1>1 DEF MembersAreRelayed
<1> QED
  BY <1>2, Invariant, PTL

==============================================================================
