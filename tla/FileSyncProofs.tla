---------------------------- MODULE FileSyncProofs ----------------------------
(***************************************************************************)
(* Theorems about FileSync, for any number of blocks, changes and uploads  *)
(* open at a time, and whatever fails: every block of a file stays in its  *)
(* place, and no change and no new file is overlooked.  If nothing fails,  *)
(* the copies are equal whenever the services are at rest.                 *)
(***************************************************************************)
EXTENDS FileSync, FiniteSetTheorems, TLAPS

\* The blocks that may be at place i of a file.
At(i) == {Block(w, i) : w \in Writes} \union {Hole}

\* The blocks of s follow n others in a file.
SeqAt(s, n) ==
    /\ s \in Seq(BlocksOfFile)
    /\ n + Len(s) <= Blocks
    /\ \A i \in 1..Len(s) : s[i] \in At(n + i)

\* What is on its way to a file: behind the header, until that is read, the
\* blocks from the first on; then those that follow what the stream holds back,
\* which follows what it has passed on.  The sender has read as many.
Arrives(u) ==
    /\ sender[u] = "connecting" => session[u] = "none"
    /\ sender[u] = "sending" => session[u] # "none"
    /\ session[u] = "none" => wire[u] = <<>> /\ held[u] = <<>>
    /\ session[u] = "reading" =>
          /\ held[u] = <<>>
          /\ wire[u] # <<>> => Head(wire[u]) = Header /\ SeqAt(Tail(wire[u]), 0)
          /\ sender[u] = "sending" => wire[u] # <<>> /\ Len(Tail(wire[u])) = pos[u]
    /\ session[u] = "open" =>
          /\ SeqAt(held[u], written[u])
          /\ SeqAt(wire[u], written[u] + Len(held[u]))
          /\ sender[u] = "sending" => written[u] + Len(held[u]) + Len(wire[u]) = pos[u]

IInv ==
    /\ TypeOK
    /\ \A p \in Peers : SeqAt(copy[p], 0)
    /\ \A u \in Uploads : Arrives(u)

-------------------------------------------------------------------------------
\* There is one other service.
LEMMA OnePeer ==
    ASSUME NEW p \in Peers
    PROVE  /\ Other(p) \in Peers /\ Other(p) # p
           /\ \A q \in Peers : q = p \/ q = Other(p)
<1>1. IsFiniteSet(Peers \ {p}) /\ Cardinality(Peers \ {p}) = 1
    BY PeersAssumption, FS_RemoveElement
<1>2. PICK x : Peers \ {p} = {x}
    BY <1>1, FS_Singleton
<1>3. \E q \in Peers : q # p
    BY <1>2
<1> QED
    BY <1>2, <1>3 DEF Other

LEMMA BlockAt ==
    ASSUME NEW i \in 1..Blocks
    PROVE  At(i) \subseteq BlocksOfFile
BY DEF At, BlocksOfFile

\* No blocks follow any.
LEMMA SeqAtEmpty ==
    ASSUME NEW n \in 0..Blocks
    PROVE  SeqAt(<<>>, n)
<1>1. <<>> \in Seq(BlocksOfFile) /\ Len(<<>>) = 0
    OBVIOUS
<1> QED
    BY <1>1, BlocksAssumption DEF SeqAt

\* A header with nothing behind it.
LEMMA HeaderAlone ==
    ASSUME NEW s, s = <<Header>>
    PROVE  s # <<>> /\ Head(s) = Header /\ Len(Tail(s)) = 0 /\ SeqAt(Tail(s), 0)
<1>1. <<Header>> # <<>> /\ Head(<<Header>>) = Header /\ Tail(<<Header>>) = <<>> /\ Len(<<>>) = 0
    OBVIOUS
<1>2. SeqAt(<<>>, 0)
    BY SeqAtEmpty, BlocksAssumption
<1>3. Tail(s) = <<>>
    BY <1>1
<1> QED
    BY <1>1, <1>2, <1>3, Zenon

\* One more block, of the next place.
LEMMA SeqAtAppend ==
    ASSUME NEW s, NEW n \in Nat, SeqAt(s, n), n + Len(s) < Blocks,
           NEW b \in At(n + Len(s) + 1)
    PROVE  SeqAt(Append(s, b), n) /\ Len(Append(s, b)) = Len(s) + 1
<1>1. s \in Seq(BlocksOfFile) /\ Len(s) \in Nat
    BY DEF SeqAt
<1>2. b \in BlocksOfFile
    <2>1. n + Len(s) + 1 \in 1..Blocks
        BY <1>1, BlocksAssumption
    <2> QED
        BY <2>1, BlockAt
<1>3. Append(s, b) \in Seq(BlocksOfFile) /\ Len(Append(s, b)) = Len(s) + 1
    BY <1>1, <1>2
<1>4. ASSUME NEW i \in 1..Len(s) + 1 PROVE Append(s, b)[i] \in At(n + i)
    <2>1. CASE i = Len(s) + 1
        <3>1. Append(s, b)[i] = b /\ n + i = n + Len(s) + 1
            BY <1>1, <1>2, <2>1
        <3> QED
            BY <3>1
    <2>2. CASE i # Len(s) + 1
        <3>1. i \in 1..Len(s)
            BY <1>1, <2>2
        <3>2. Append(s, b)[i] = s[i]
            BY <1>1, <1>2, <3>1
        <3> QED
            BY <3>1, <3>2 DEF SeqAt
    <2> QED
        BY <2>1, <2>2
<1>5. n + (Len(s) + 1) <= Blocks
    BY <1>1, BlocksAssumption
<1> QED
    BY <1>3, <1>4, <1>5 DEF SeqAt

\* The first block, and those that follow it.
LEMMA SeqAtTail ==
    ASSUME NEW s, NEW n \in Nat, SeqAt(s, n), s # <<>>
    PROVE  /\ Head(s) \in At(n + 1) /\ SeqAt(Tail(s), n + 1)
           /\ Len(s) = Len(Tail(s)) + 1 /\ n + 1 <= Blocks
<1>1. s \in Seq(BlocksOfFile) /\ Len(s) \in Nat /\ Len(s) >= 1
    BY DEF SeqAt
<1>2. /\ Tail(s) \in Seq(BlocksOfFile) /\ Len(Tail(s)) = Len(s) - 1
      /\ \A i \in 1..Len(s) - 1 : Tail(s)[i] = s[i + 1]
      /\ Head(s) = s[1]
    BY <1>1
<1>3. ASSUME NEW i \in 1..Len(s) - 1 PROVE Tail(s)[i] \in At(n + 1 + i)
    <2>1. i + 1 \in 1..Len(s) /\ n + (i + 1) = n + 1 + i
        BY <1>1
    <2> QED
        BY <1>2, <2>1 DEF SeqAt
<1>4. n + 1 + (Len(s) - 1) <= Blocks /\ n + 1 <= Blocks /\ 1 \in 1..Len(s)
    BY <1>1, BlocksAssumption DEF SeqAt
<1> QED
    BY <1>1, <1>2, <1>3, <1>4 DEF SeqAt

\* A write of blocks behind n others keeps all of them in their places.
LEMMA SeqAtPut ==
    ASSUME NEW file, SeqAt(file, 0), NEW data, NEW n \in Nat, SeqAt(data, n)
    PROVE  SeqAt(Put(file, n, data), 0)
<1> DEFINE m == IF n + Len(data) > Len(file) THEN n + Len(data) ELSE Len(file)
           new == Put(file, n, data)
<1>1. Len(file) \in 0..Blocks /\ Len(data) \in Nat /\ n + Len(data) \in 0..Blocks
    BY BlocksAssumption DEF SeqAt
<1>2. m \in 0..Blocks
    BY <1>1
<1>3. new = [i \in 1..m |->
                IF i \in n + 1 .. n + Len(data) THEN data[i - n]
                ELSE IF i <= Len(file) THEN file[i] ELSE Hole]
    BY DEF Put
<1> HIDE DEF m, new
<1>4. ASSUME NEW i \in 1..m PROVE new[i] \in At(i)
    <2>1. CASE i \in n + 1 .. n + Len(data)
        <3>1. i - n \in 1..Len(data) /\ n + (i - n) = i
            BY <1>1, <1>2, <2>1
        <3>2. data[i - n] \in At(i)
            BY <3>1 DEF SeqAt
        <3> QED
            BY <1>3, <2>1, <3>2
    <2>2. CASE i \notin n + 1 .. n + Len(data) /\ i <= Len(file)
        <3>1. i \in 1..Len(file) /\ 0 + i = i
            BY <1>1, <1>2, <2>2
        <3>2. file[i] \in At(i)
            BY <3>1 DEF SeqAt
        <3> QED
            BY <1>3, <2>2, <3>2
    <2>3. CASE i \notin n + 1 .. n + Len(data) /\ ~(i <= Len(file))
        BY <1>3, <2>3 DEF At
    <2> QED
        BY <2>1, <2>2, <2>3
<1>5. new \in Seq(BlocksOfFile) /\ Len(new) = m
    <2>1. \A i \in 1..m : new[i] \in BlocksOfFile
        <3>1. \A i \in 1..m : i \in 1..Blocks
            BY <1>2, BlocksAssumption
        <3> QED
            BY <1>4, <3>1, BlockAt
    <2>2. new = [i \in 1..m |-> new[i]]
        BY <1>3
    <2>3. m \in Nat
        BY <1>2
    <2> QED
        BY <2>1, <2>2, <2>3
<1>6. \A i \in 1..m : 0 + i = i
    BY <1>2
<1>7. 0 + m <= Blocks
    BY <1>2, BlocksAssumption
<1> QED
    BY <1>4, <1>5, <1>6, <1>7 DEF SeqAt, new

-------------------------------------------------------------------------------
\* The initial state satisfies the invariant.
LEMMA InitIInv == Init => IInv
<1> SUFFICES ASSUME Init PROVE IInv
    OBVIOUS
<1>1. 0 \in 0..Blocks
    BY BlocksAssumption
<1>2. TypeOK
    BY <1>1, PeersAssumption DEF Init, TypeOK, Listed, ListedDir
<1>3. \A p \in Peers : SeqAt(copy[p], 0)
    BY <1>1, SeqAtEmpty DEF Init
<1>4. \A u \in Uploads : Arrives(u)
    BY DEF Init, Arrives
<1> QED
    BY <1>2, <1>3, <1>4 DEF IInv

\* An upload that no step of its own changes stays in order.
LEMMA SameUpload ==
    ASSUME NEW u, Arrives(u), sender'[u] = sender[u], pos'[u] = pos[u],
           wire'[u] = wire[u], session'[u] = session[u],
           written'[u] = written[u], held'[u] = held[u]
    PROVE  Arrives(u)'
BY DEF Arrives

LEMMA ChangeIInv ==
    ASSUME IInv, NEW p \in Peers, NEW w \in Writes, Change(p, w)
    PROVE  IInv'
<1> DEFINE new == Changed(w)
<1>1. new \in Seq(BlocksOfFile) /\ Len(new) = Blocks
    BY BlocksAssumption DEF BlocksOfFile, Changed
<1>2. SeqAt(new, 0)
    <2>1. \A i \in 1..Blocks : new[i] \in At(i) /\ 0 + i = i
        BY BlocksAssumption DEF At, Changed
    <2>2. 0 + Blocks <= Blocks
        BY BlocksAssumption
    <2> HIDE DEF new
    <2> QED
        BY <1>1, <2>1, <2>2 DEF SeqAt
<1>3. copy' = [copy EXCEPT ![p] = new]
    BY DEF Change
<1> HIDE DEF new
<1>4. TypeOK'
    <2>1. copy' \in [Peers -> Seq(BlocksOfFile)]
        BY <1>1, <1>3 DEF IInv, TypeOK
    <2>2. /\ dir' \in [Peers -> {"missing", "absent", "same", "differs"}]
          /\ db' \in [Peers -> {"absent", "same", "differs"}]
        BY DEF IInv, TypeOK, Change, Differs
    <2>3. present' \subseteq Peers /\ made' \subseteq Writes
          /\ beside' \in [Peers -> {"none", "unlisted", "listed"}]
          /\ change' \in [Peers -> {"none", "made", "overlaid"}]
        BY DEF IInv, TypeOK, Change
    <2> QED
        BY <2>1, <2>2, <2>3 DEF IInv, TypeOK, Change, conn
<1>5. \A q \in Peers : SeqAt(copy[q], 0)'
    BY <1>2, <1>3 DEF IInv, TypeOK
<1>6. \A u \in Uploads : Arrives(u)'
    BY SameUpload DEF IInv, Change, conn
<1> QED
    BY <1>4, <1>5, <1>6 DEF IInv

LEMMA AppearIInv ==
    ASSUME IInv, NEW p \in Peers, NEW entry \in {"unlisted", "listed"}, Appear(p, entry)
    PROVE  IInv'
<1>1. TypeOK'
    BY DEF IInv, TypeOK, Appear, Differs, conn
<1>2. \A u \in Uploads : Arrives(u)'
    BY SameUpload DEF IInv, Appear, conn
<1> QED
    BY <1>1, <1>2 DEF IInv, Appear

\* A restart ends the sessions of the service and its uploads.
LEMMA RestartedIInv ==
    ASSUME IInv, NEW p \in Peers, Restarted(p)
    PROVE  IInv'
<1> DEFINE receives(u) == u[1] # p /\ session[u] # "none"
<1>1. /\ sender' = [u \in Uploads |-> IF u[1] = p \/ receives(u) THEN "none" ELSE sender[u]]
      /\ session' = [u \in Uploads |-> IF receives(u) THEN "none" ELSE session[u]]
      /\ held' = [u \in Uploads |-> IF receives(u) THEN <<>> ELSE held[u]]
      /\ wire' = [u \in Uploads |-> IF u[1] = p \/ receives(u) THEN <<>> ELSE wire[u]]
      /\ UNCHANGED <<present, copy, pos, written, made, change>>
    BY DEF Restarted
<1>2. TypeOK'
    <2>1. /\ sender' \in [Uploads -> {"none", "connecting", "sending"}]
          /\ session' \in [Uploads -> {"none", "reading", "open"}]
        BY <1>1 DEF IInv, TypeOK
    <2>2. /\ wire' \in [Uploads -> Seq(BlocksOfFile \union {Header})]
          /\ held' \in [Uploads -> Seq(BlocksOfFile)]
        BY <1>1 DEF IInv, TypeOK
    <2>3. /\ db' \in [Peers -> {"absent", "same", "differs"}]
          /\ dir' \in [Peers -> {"missing", "absent", "same", "differs"}]
          /\ beside' \in [Peers -> {"none", "unlisted", "listed"}]
        BY DEF Restarted, Listed, ListedDir, IInv, TypeOK
    <2> QED
        BY <1>1, <2>1, <2>2, <2>3 DEF IInv, TypeOK
<1>3. ASSUME NEW u \in Uploads PROVE Arrives(u)'
    <2>1. CASE receives(u)
        <3>1. sender'[u] = "none" /\ session'[u] = "none" /\ wire'[u] = <<>> /\ held'[u] = <<>>
            BY <1>1, <2>1
        <3> QED
            BY <3>1 DEF Arrives
    <2>2. CASE ~receives(u) /\ u[1] = p
        <3>1. /\ sender'[u] = "none" /\ wire'[u] = <<>>
              /\ session'[u] = session[u] /\ held'[u] = held[u] /\ written'[u] = written[u]
            BY <1>1, <2>2
        <3>2. ASSUME session[u] = "open" PROVE SeqAt(<<>>, written[u] + Len(held[u]))
            <4>1. SeqAt(held[u], written[u]) /\ written[u] \in 0..Blocks
                BY <3>2 DEF IInv, TypeOK, Arrives
            <4>2. written[u] + Len(held[u]) \in 0..Blocks
                BY <4>1, BlocksAssumption DEF SeqAt
            <4> QED
                BY <4>2, SeqAtEmpty
        <3>3. Arrives(u)
            BY DEF IInv
        <3> QED
            BY <3>1, <3>2, <3>3 DEF Arrives
    <2>3. CASE ~receives(u) /\ u[1] # p
        BY <1>1, <2>3, SameUpload DEF IInv
    <2> QED
        BY <2>1, <2>2, <2>3
<1> QED
    BY <1>1, <1>2, <1>3 DEF IInv

\* A poll begins an upload, or none, or it ends with the process.
LEMMA CheckChangesCases ==
    ASSUME NEW p \in Peers, CheckChanges(p)
    PROVE  \/ Moves(p) /\ Restarted(p)
           \/ /\ ChecksDir(p)
              /\ \/ db' = [db EXCEPT ![p] = Applied(p)]
                 \/ db' = [db EXCEPT ![p] = "same"] /\ db[p] # "absent" /\ BeginUpload(p)
              /\ (BeginUpload(p) /\ p \in present) \/ UNCHANGED <<sender, change>>
              /\ UNCHANGED <<present, copy, pos, wire, session, written, held, made>>
BY DEF CheckChanges

LEMMA CheckChangesIInv ==
    ASSUME IInv, NEW p \in Peers, CheckChanges(p)
    PROVE  IInv'
<1>0. CASE Restarted(p)
    BY <1>0, RestartedIInv
<1> SUFFICES ASSUME ~Restarted(p) PROVE IInv'
    BY <1>0
<1>1. UNCHANGED <<present, copy, pos, wire, session, written, held, made>>
    BY CheckChangesCases
<1>2. BeginUpload(p) \/ UNCHANGED <<sender, change>>
    BY CheckChangesCases
<1>3. /\ dir' \in [Peers -> {"missing", "absent", "same", "differs"}]
      /\ db' \in [Peers -> {"absent", "same", "differs"}]
      /\ beside' \in [Peers -> {"none", "unlisted", "listed"}]
    <2>1. /\ dir' \in [Peers -> {"missing", "absent", "same", "differs"}]
          /\ beside' \in [Peers -> {"none", "unlisted", "listed"}]
        <3>1. ChecksDir(p)
            BY CheckChangesCases
        <3> QED
            BY <3>1 DEF ChecksDir, IInv, TypeOK
    <2>2. db' = [db EXCEPT ![p] = Applied(p)] \/ db' = [db EXCEPT ![p] = "same"]
        BY CheckChangesCases
    <2>3. Applied(p) \in {"absent", "same", "differs"}
        BY DEF Applied, ApplyDirectoryChanges, IInv, TypeOK
    <2>4. db' \in [Peers -> {"absent", "same", "differs"}]
        BY <2>2, <2>3 DEF IInv, TypeOK
    <2> QED
        BY <2>1, <2>4
<1>4. CASE UNCHANGED <<sender, change>>
    <2>1. TypeOK'
        BY <1>1, <1>3, <1>4 DEF IInv, TypeOK
    <2>2. \A u \in Uploads : Arrives(u)'
        BY <1>1, <1>4, SameUpload DEF IInv
    <2> QED
        BY <1>1, <2>1, <2>2 DEF IInv
<1>5. ASSUME NEW u \in {p} \X Slots,
             sender[u] = "none", session[u] = "none",
             sender' = [sender EXCEPT ![u] = "connecting"],
             change' = [change EXCEPT ![p] = "none"]
      PROVE  IInv'
    <2>1. TypeOK'
        BY <1>1, <1>3, <1>5 DEF IInv, TypeOK
    <2>2. ASSUME NEW v \in Uploads PROVE Arrives(v)'
        <3>1. CASE v = u
            BY <1>1, <1>5, <3>1 DEF IInv, TypeOK, Arrives
        <3>2. CASE v # u
            BY <1>1, <1>5, <3>2, SameUpload DEF IInv, TypeOK
        <3> QED
            BY <3>1, <3>2
    <2> QED
        BY <1>1, <2>1, <2>2 DEF IInv
<1> QED
    BY <1>2, <1>4, <1>5 DEF BeginUpload

LEMMA ConnectIInv ==
    ASSUME IInv, NEW u \in Uploads, Connect(u)
    PROVE  IInv'
<1> USE DEF Connect
<1>1. TypeOK'
    <2>1. <<Header>> \in Seq(BlocksOfFile \union {Header}) /\ 0 \in 0..Blocks
        BY BlocksAssumption
    <2> QED
        BY <2>1 DEF IInv, TypeOK, files
<1>2. ASSUME NEW v \in Uploads PROVE Arrives(v)'
    <2>1. CASE v # u
        BY <2>1, SameUpload DEF IInv, TypeOK
    <2>2. CASE v = u
        <3> DEFINE first == wire'[u]
        <3>1. first = <<Header>>
            BY DEF IInv, TypeOK
        <3>2. first # <<>> /\ Head(first) = Header /\ Len(Tail(first)) = 0
            BY <3>1, HeaderAlone
        <3>3. SeqAt(Tail(first), 0)
            BY <3>1, HeaderAlone
        <3>4. /\ pos'[u] = 0 /\ held'[u] = <<>>
              /\ session'[u] = "reading" /\ sender'[u] = "sending"
            BY DEF IInv, TypeOK, Arrives
        <3>5. Arrives(u)'
            <4> HIDE DEF Connect
            <4> QED
                BY <3>2, <3>3, <3>4 DEF Arrives
        <3> QED
            BY <2>2, <3>5
    <2> QED
        BY <2>1, <2>2
<1> QED
    BY <1>1, <1>2 DEF IInv, files

LEMMA SendBlockIInv ==
    ASSUME IInv, NEW u \in Uploads, SendBlock(u)
    PROVE  IInv'
<1> DEFINE b == copy[u[1]][pos[u] + 1]
<1>1. /\ sender[u] = "sending" /\ pos[u] < Len(copy[u[1]])
      /\ wire' = [wire EXCEPT ![u] = Append(@, b)]
      /\ pos' = [pos EXCEPT ![u] = @ + 1]
      /\ UNCHANGED <<files, sender, session, written, held, made, change>>
    BY DEF SendBlock
<1>2. b \in At(pos[u] + 1) /\ pos[u] \in Nat /\ pos[u] < Blocks
    <2>1. u[1] \in Peers
        BY DEF Uploads
    <2>2. pos[u] \in Nat
        BY BlocksAssumption DEF IInv, TypeOK
    <2>3. SeqAt(copy[u[1]], 0)
        BY <2>1 DEF IInv
    <2>4. Len(copy[u[1]]) \in Nat /\ Len(copy[u[1]]) <= Blocks
        BY <2>3, BlocksAssumption DEF SeqAt
    <2>5. pos[u] + 1 \in 1..Len(copy[u[1]]) /\ 0 + (pos[u] + 1) = pos[u] + 1 /\ pos[u] < Blocks
        BY <1>1, <2>2, <2>4, BlocksAssumption
    <2> QED
        BY <2>2, <2>3, <2>5 DEF SeqAt
<1> HIDE DEF b
<1>3. b \in BlocksOfFile
    <2>1. pos[u] + 1 \in 1..Blocks
        BY <1>2, BlocksAssumption
    <2> QED
        BY <1>2, <2>1, BlockAt
<1>4. wire[u] \in Seq(BlocksOfFile \union {Header})
    BY DEF IInv, TypeOK
<1>5. TypeOK'
    <2>1. Append(wire[u], b) \in Seq(BlocksOfFile \union {Header}) /\ pos[u] + 1 \in 0..Blocks
        BY <1>2, <1>3, <1>4, BlocksAssumption
    <2> QED
        BY <1>1, <2>1 DEF IInv, TypeOK, files
<1>6. ASSUME NEW v \in Uploads PROVE Arrives(v)'
    <2>1. CASE v # u
        BY <1>1, <2>1, SameUpload DEF IInv, TypeOK
    <2>2. CASE v = u
        <3>1. /\ wire'[u] = Append(wire[u], b) /\ pos'[u] = pos[u] + 1
              /\ Arrives(u) /\ session[u] \in {"reading", "open"}
            BY <1>1 DEF IInv, TypeOK, Arrives
        <3>2. CASE session[u] = "reading"
            <4>1. /\ wire[u] # <<>> /\ Len(Tail(wire[u])) = pos[u]
                  /\ Head(wire[u]) = Header /\ SeqAt(Tail(wire[u]), 0)
                BY <1>1, <3>1, <3>2 DEF Arrives
            <4>2. /\ Append(wire[u], b) # <<>> /\ Head(Append(wire[u], b)) = Header
                  /\ Tail(Append(wire[u], b)) = Append(Tail(wire[u]), b)
                BY <1>3, <1>4, <4>1
            <4>3. SeqAt(Append(Tail(wire[u]), b), 0)
                  /\ Len(Append(Tail(wire[u]), b)) = pos[u] + 1
                <5>1. 0 + Len(Tail(wire[u])) + 1 = pos[u] + 1 /\ 0 + Len(Tail(wire[u])) < Blocks
                    BY <1>2, <4>1
                <5> QED
                    BY <1>2, <4>1, <5>1, SeqAtAppend
            <4> QED
                BY <1>1, <2>2, <3>1, <3>2, <4>2, <4>3 DEF Arrives
        <3>3. CASE session[u] = "open"
            <4> DEFINE n == written[u] + Len(held[u])
            <4>1. /\ SeqAt(held[u], written[u]) /\ SeqAt(wire[u], n)
                  /\ n + Len(wire[u]) = pos[u]
                BY <1>1, <3>1, <3>3 DEF Arrives
            <4>2. n \in Nat
                BY BlocksAssumption DEF IInv, TypeOK
            <4> HIDE DEF n
            <4>3. SeqAt(Append(wire[u], b), n) /\ Len(Append(wire[u], b)) = Len(wire[u]) + 1
                <5>1. n + Len(wire[u]) + 1 = pos[u] + 1 /\ n + Len(wire[u]) < Blocks
                    BY <1>2, <4>1
                <5> QED
                    BY <1>2, <4>1, <4>2, <5>1, SeqAtAppend
            <4>4. n + (Len(wire[u]) + 1) = pos[u] + 1
                BY <1>4, <4>1, <4>2
            <4>5. sender'[u] = "sending" /\ session'[u] = "open" /\ UNCHANGED <<held, written>>
                BY <1>1, <3>3
            <4> QED
                BY <2>2, <3>1, <4>1, <4>3, <4>4, <4>5 DEF Arrives, n
        <3> QED
            BY <3>1, <3>2, <3>3
    <2> QED
        BY <2>1, <2>2
<1> QED
    BY <1>1, <1>5, <1>6 DEF IInv, files

\* A sender that stops, with what it has sent on its way or not.
LEMMA SenderStops ==
    ASSUME IInv, NEW u \in Uploads, sender' = [sender EXCEPT ![u] = "none"],
           wire' = wire \/ wire' = [wire EXCEPT ![u] = <<>>],
           UNCHANGED <<files, pos, session, written, held, made, change>>
    PROVE  IInv'
<1>1. wire'[u] = wire[u] \/ wire'[u] = <<>>
    BY DEF IInv, TypeOK
<1>2. TypeOK'
    <2>1. <<>> \in Seq(BlocksOfFile \union {Header})
        OBVIOUS
    <2> QED
        BY <2>1 DEF IInv, TypeOK, files
<1>3. ASSUME NEW v \in Uploads PROVE Arrives(v)'
    <2>1. CASE v # u
        BY <2>1, SameUpload DEF IInv, TypeOK
    <2>2. CASE v = u
        <3>1. Arrives(u) /\ sender'[u] = "none"
            BY DEF IInv, TypeOK
        <3>2. session[u] = "open" => SeqAt(<<>>, written[u] + Len(held[u]))
            <4>1. ASSUME session[u] = "open" PROVE written[u] + Len(held[u]) \in 0..Blocks
                <5>1. SeqAt(held[u], written[u]) /\ written[u] \in 0..Blocks
                    BY <3>1, <4>1 DEF Arrives, IInv, TypeOK
                <5> QED
                    BY <5>1, BlocksAssumption DEF SeqAt
            <4> QED
                BY <4>1, SeqAtEmpty
        <3> QED
            BY <1>1, <2>2, <3>1, <3>2 DEF Arrives
    <2> QED
        BY <2>1, <2>2
<1> QED
    BY <1>2, <1>3 DEF IInv, files


\* What a session passes on to a file comes to stand in its place.
LEMMA ReceiveHeaderIInv ==
    ASSUME IInv, NEW u \in Uploads, ReceiveHeader(u)
    PROVE  IInv'
<1> DEFINE q == Other(u[1])
<1>0. u[1] \in Peers /\ q \in Peers
    BY OnePeer DEF Uploads
<1>1. /\ session[u] = "reading" /\ wire[u] # <<>>
      /\ copy' = [copy EXCEPT ![q] = <<>>]
      /\ change' = [change EXCEPT ![q] = "none"]
      /\ db' = [db EXCEPT ![q] = "same"]
      /\ session' = [session EXCEPT ![u] = "open"]
      /\ written' = [written EXCEPT ![u] = 0]
      /\ wire' = [wire EXCEPT ![u] = Tail(@)]
      /\ UNCHANGED <<beside, sender, pos, held, made>>
    BY DEF ReceiveHeader, Record
<1>2. /\ present' \subseteq Peers
      /\ dir' \in [Peers -> {"missing", "absent", "same", "differs"}]
    BY <1>0 DEF ReceiveHeader, Open, Differs, IInv, TypeOK
<1> HIDE DEF q
<1>3. Arrives(u) /\ wire[u] \in Seq(BlocksOfFile \union {Header})
    BY DEF IInv, TypeOK
<1>4. TypeOK'
    <2>1. Tail(wire[u]) \in Seq(BlocksOfFile \union {Header}) /\ 0 \in 0..Blocks
          /\ <<>> \in Seq(BlocksOfFile)
        BY <1>1, <1>3, BlocksAssumption
    <2> QED
        BY <1>1, <1>2, <2>1 DEF IInv, TypeOK
<1>5. \A p \in Peers : SeqAt(copy[p], 0)'
    <2>1. SeqAt(<<>>, 0)
        BY SeqAtEmpty, BlocksAssumption
    <2> QED
        BY <1>1, <2>1 DEF IInv, TypeOK
<1>6. ASSUME NEW v \in Uploads PROVE Arrives(v)'
    <2>1. CASE v # u
        BY <1>1, <2>1, SameUpload DEF IInv, TypeOK
    <2>2. CASE v = u
        <3>1. /\ held[u] = <<>> /\ SeqAt(Tail(wire[u]), 0)
              /\ sender[u] = "sending" => Len(Tail(wire[u])) = pos[u]
              /\ sender[u] # "connecting"
            BY <1>1, <1>3 DEF Arrives
        <3>2. /\ session'[u] = "open" /\ written'[u] = 0 /\ wire'[u] = Tail(wire[u])
              /\ UNCHANGED <<sender, pos, held>>
            BY <1>1 DEF IInv, TypeOK
        <3>3. SeqAt(<<>>, 0) /\ 0 + Len(<<>>) = 0
            BY SeqAtEmpty, BlocksAssumption
        <3>4. Len(Tail(wire[u])) \in Nat /\ 0 + Len(Tail(wire[u])) = Len(Tail(wire[u]))
            BY <1>1, <1>3
        <3> QED
            BY <2>2, <3>1, <3>2, <3>3, <3>4 DEF Arrives
    <2> QED
        BY <2>1, <2>2
<1> QED
    BY <1>4, <1>5, <1>6 DEF IInv

LEMMA PassIInv ==
    ASSUME IInv, NEW u \in Uploads, NEW q \in Peers, NEW data,
           SeqAt(data, written[u]), Pass(u, q, data)
    PROVE  /\ \A p \in Peers : SeqAt(copy'[p], 0)
           /\ copy' \in [Peers -> Seq(BlocksOfFile)]
           /\ written' \in [Uploads -> 0..Blocks]
           /\ held' \in [Uploads -> Seq(BlocksOfFile)]
           /\ change' \in [Peers -> {"none", "made", "overlaid"}]
<1>1. SeqAt(copy[q], 0) /\ written[u] \in 0..Blocks /\ written[u] \in Nat
    BY BlocksAssumption DEF IInv, TypeOK
<1>2. SeqAt(Put(copy[q], written[u], data), 0)
    BY <1>1, SeqAtPut
<1>3. copy' = [copy EXCEPT ![q] = Put(copy[q], written[u], data)]
    BY DEF Pass
<1>4. written[u] + Len(data) \in 0..Blocks
    BY <1>1, BlocksAssumption DEF SeqAt
<1>5. \A p \in Peers : SeqAt(copy'[p], 0)
    BY <1>2, <1>3 DEF IInv, TypeOK
<1>6. copy' \in [Peers -> Seq(BlocksOfFile)]
    BY <1>2, <1>3 DEF IInv, TypeOK, SeqAt
<1>7. written' \in [Uploads -> 0..Blocks]
    BY <1>4 DEF Pass, IInv, TypeOK
<1>8. /\ held' \in [Uploads -> Seq(BlocksOfFile)]
      /\ change' \in [Peers -> {"none", "made", "overlaid"}]
    BY DEF Pass, IInv, TypeOK
<1> QED
    BY <1>5, <1>6, <1>7, <1>8

LEMMA ReceiveBlockIInv ==
    ASSUME IInv, NEW u \in Uploads, ReceiveBlock(u)
    PROVE  IInv'
<1> DEFINE q == Other(u[1])
           data == Append(held[u], Head(wire[u]))
           n == written[u] + Len(held[u])
<1>0. u[1] \in Peers /\ q \in Peers
    BY OnePeer DEF Uploads
<1>1. /\ session[u] = "open" /\ wire[u] # <<>>
      /\ wire' = [wire EXCEPT ![u] = Tail(@)]
      /\ db' = [db EXCEPT ![q] = "same"]
      /\ \/ Pass(u, q, data)
         \/ held' = [held EXCEPT ![u] = data] /\ UNCHANGED <<copy, written, change>>
      /\ UNCHANGED <<present, dir, beside, sender, pos, session, made>>
    BY DEF ReceiveBlock, Record
<1>2. /\ SeqAt(held[u], written[u]) /\ SeqAt(wire[u], n) /\ sender[u] # "connecting"
      /\ sender[u] = "sending" => n + Len(wire[u]) = pos[u]
    BY <1>1 DEF IInv, Arrives
<1>3. /\ written[u] \in Nat /\ Len(held[u]) \in Nat /\ n \in Nat
      /\ wire[u] \in Seq(BlocksOfFile \union {Header})
    BY BlocksAssumption DEF IInv, TypeOK
<1> HIDE DEF n
<1>4. /\ Head(wire[u]) \in At(n + 1) /\ SeqAt(Tail(wire[u]), n + 1)
      /\ Len(wire[u]) = Len(Tail(wire[u])) + 1 /\ n + 1 <= Blocks
    BY <1>1, <1>2, <1>3, SeqAtTail
<1>5. SeqAt(data, written[u]) /\ Len(data) = Len(held[u]) + 1 /\ data # <<>>
    <2>1. written[u] + Len(held[u]) < Blocks /\ Head(wire[u]) \in At(written[u] + Len(held[u]) + 1)
        BY <1>3, <1>4, BlocksAssumption DEF n
    <2>2. SeqAt(data, written[u]) /\ Len(data) = Len(held[u]) + 1
        BY <1>2, <1>3, <2>1, SeqAtAppend
    <2> HIDE DEF data
    <2>3. data # <<>>
        BY <1>3, <2>2
    <2> QED
        BY <2>2, <2>3
<1>6. Len(Tail(wire[u])) \in Nat /\ Tail(wire[u]) \in Seq(BlocksOfFile \union {Header})
    BY <1>1, <1>3
<1> HIDE DEF data, q
<1>7. /\ \A p \in Peers : SeqAt(copy'[p], 0)
      /\ copy' \in [Peers -> Seq(BlocksOfFile)]
      /\ written' \in [Uploads -> 0..Blocks]
      /\ held' \in [Uploads -> Seq(BlocksOfFile)]
      /\ change' \in [Peers -> {"none", "made", "overlaid"}]
    <2>1. CASE Pass(u, q, data)
        BY <1>0, <1>5, <2>1, PassIInv
    <2>2. CASE held' = [held EXCEPT ![u] = data] /\ UNCHANGED <<copy, written, change>>
        BY <1>5, <2>2 DEF IInv, TypeOK, SeqAt
    <2> QED
        BY <1>1, <2>1, <2>2
<1>8. TypeOK'
    BY <1>1, <1>6, <1>7 DEF IInv, TypeOK
<1>9. ASSUME NEW v \in Uploads PROVE Arrives(v)'
    <2>1. CASE v # u
        BY <1>1, <2>1, SameUpload DEF IInv, TypeOK, Pass
    <2>2. CASE v = u
        <3>1. wire'[u] = Tail(wire[u]) /\ session'[u] = "open" /\ UNCHANGED <<sender, pos>>
            BY <1>1 DEF IInv, TypeOK
        <3>2. SeqAt(held'[u], written'[u]) /\ written'[u] + Len(held'[u]) = n + 1
            <4>1. CASE Pass(u, q, data)
                <5>1. held'[u] = <<>> /\ written'[u] = written[u] + Len(data)
                    BY <4>1 DEF Pass, IInv, TypeOK
                <5>2. written'[u] = n + 1 /\ Len(<<>>) = 0
                    BY <1>3, <1>5, <5>1 DEF n
                <5>3. SeqAt(<<>>, n + 1)
                    <6>1. n + 1 \in 0..Blocks
                        BY <1>3, <1>4, BlocksAssumption
                    <6> QED
                        BY <6>1, SeqAtEmpty
                <5> QED
                    BY <1>3, <5>1, <5>2, <5>3
            <4>2. CASE held' = [held EXCEPT ![u] = data] /\ UNCHANGED <<copy, written, change>>
                <5>1. held'[u] = data /\ written'[u] = written[u]
                    BY <4>2 DEF IInv, TypeOK
                <5> QED
                    BY <1>3, <1>5, <5>1 DEF n
            <4> QED
                BY <1>1, <4>1, <4>2
        <3>3. sender[u] = "sending" => n + 1 + Len(Tail(wire[u])) = pos[u]
            BY <1>2, <1>3, <1>4, <1>6
        <3> QED
            BY <1>2, <1>4, <2>2, <3>1, <3>2, <3>3 DEF Arrives
    <2> QED
        BY <2>1, <2>2
<1> QED
    BY <1>7, <1>8, <1>9 DEF IInv

LEMMA EndSessionIInv ==
    ASSUME IInv, NEW u \in Uploads, EndSession(u)
    PROVE  IInv'
<1> DEFINE q == Other(u[1])
<1>0. u[1] \in Peers /\ q \in Peers
    BY OnePeer DEF Uploads
<1>1. /\ session[u] # "none" /\ sender[u] = "none" /\ wire[u] = <<>>
      /\ session' = [session EXCEPT ![u] = "none"]
      /\ \/ held[u] = <<>> /\ UNCHANGED <<copy, written, held, change, db>>
         \/ held[u] # <<>> /\ Pass(u, q, held[u]) /\ db' = [db EXCEPT ![q] = Differs(@)]
      /\ UNCHANGED <<present, dir, beside, sender, pos, wire, made>>
    BY DEF EndSession
<1> HIDE DEF q
<1>2. held[u] # <<>> => SeqAt(held[u], written[u])
    BY <1>1 DEF IInv, TypeOK, Arrives
<1>3. /\ \A p \in Peers : SeqAt(copy'[p], 0)
      /\ copy' \in [Peers -> Seq(BlocksOfFile)]
      /\ written' \in [Uploads -> 0..Blocks]
      /\ held' \in [Uploads -> Seq(BlocksOfFile)]
      /\ change' \in [Peers -> {"none", "made", "overlaid"}]
      /\ db' \in [Peers -> {"absent", "same", "differs"}]
    <2>1. CASE held[u] = <<>> /\ UNCHANGED <<copy, written, held, change, db>>
        BY <2>1 DEF IInv, TypeOK
    <2>2. CASE held[u] # <<>> /\ Pass(u, q, held[u]) /\ db' = [db EXCEPT ![q] = Differs(@)]
        <3>1. db' \in [Peers -> {"absent", "same", "differs"}]
            BY <2>2 DEF Differs, IInv, TypeOK
        <3> QED
            BY <1>0, <1>2, <2>2, <3>1, PassIInv
    <2> QED
        BY <1>1, <2>1, <2>2
<1>4. TypeOK'
    BY <1>1, <1>3 DEF IInv, TypeOK
<1>5. ASSUME NEW v \in Uploads PROVE Arrives(v)'
    <2>1. CASE v # u
        BY <1>1, <2>1, SameUpload DEF IInv, TypeOK, Pass
    <2>2. CASE v = u
        <3>1. held'[u] = <<>>
            BY <1>1 DEF Pass, IInv, TypeOK
        <3> QED
            BY <1>1, <2>2, <3>1 DEF Arrives, IInv, TypeOK
    <2> QED
        BY <2>1, <2>2
<1> QED
    BY <1>3, <1>4, <1>5 DEF IInv

\* Every step of either service, and of the programs, keeps the invariant.
THEOREM Inductive == IInv /\ [Next]_vars => IInv'
<1> SUFFICES ASSUME IInv, [Next]_vars PROVE IInv'
    OBVIOUS
<1>1. CASE UNCHANGED vars
    <2>1. UNCHANGED <<present, copy, db, dir, beside, sender, pos, wire, session, written, held,
                      made, change>>
        BY <1>1 DEF vars, files, conn
    <2>2. \A u \in Uploads : Arrives(u)'
        BY <2>1, SameUpload DEF IInv
    <2> QED
        BY <2>1, <2>2 DEF IInv, TypeOK
<1>2. ASSUME NEW u \in Uploads, ConnectFails(u) \/ EndUpload(u) \/ Break(u)
      PROVE  IInv'
    BY <1>2, SenderStops DEF ConnectFails, EndUpload, Break
<1> QED
    BY <1>1, <1>2, ChangeIInv, AppearIInv, CheckChangesIInv, RestartedIInv, ConnectIInv,
       SendBlockIInv, ReceiveHeaderIInv, ReceiveBlockIInv, EndSessionIInv DEF Next, Restart

\* In every execution every reachable state satisfies the invariant.
THEOREM Invariant == Spec => []IInv
BY InitIInv, Inductive, PTL DEF Spec

\* No upload reads, and no session writes, more blocks than a file has.
THEOREM TypeCorrect == Spec => []TypeOK
<1>1. IInv => TypeOK
    BY DEF IInv
<1> QED
    BY <1>1, Invariant, PTL

\* Whatever overlaps, breaks or restarts, a file has each of its blocks in the
\* place it was written in, or a hole there.
THEOREM BlocksInPlace == Spec => []BlocksKeepTheirPlace
<1>1. ASSUME IInv, NEW p \in Peers, NEW i \in DOMAIN copy[p]
      PROVE  copy[p][i] = Hole \/ copy[p][i].place = i
    <2>1. SeqAt(copy[p], 0) /\ i \in 1..Len(copy[p]) /\ 0 + i = i
        BY <1>1 DEF IInv, TypeOK
    <2>2. copy[p][i] \in At(i)
        BY <2>1 DEF SeqAt
    <2> QED
        BY <2>2 DEF At, Block
<1>2. IInv => BlocksKeepTheirPlace
    BY <1>1 DEF BlocksKeepTheirPlace
<1> QED
    BY <1>2, Invariant, PTL

-------------------------------------------------------------------------------
(***************************************************************************)
(* What the monitor knows: both properties are inductive with IInv.        *)
(***************************************************************************)
Noticed == TypeOK /\ ChangeIsNoticed /\ NoFileOverlooked

\* A step that changes neither the times nor what a stream holds back.
LEMMA SameTimes ==
    ASSUME TypeOK', ChangeIsNoticed, NoFileOverlooked,
           UNCHANGED <<present, db, dir, beside, held>>,
           \A p \in Peers : change'[p] = "made" => change[p] = "made",
           \A u \in Uploads : session[u] = "open" => session'[u] = "open"
    PROVE  Noticed'
BY DEF Noticed, ChangeIsNoticed, NoFileOverlooked

\* A change is a new time, and a new file one of its directory.
LEMMA ChangeNoticed ==
    ASSUME Noticed, TypeOK', NEW p \in Peers, NEW w \in Writes, Change(p, w)
    PROVE  Noticed'
<1>1. NoFileOverlooked'
    BY DEF Noticed, NoFileOverlooked, TypeOK, Change, Differs
<1>2. ChangeIsNoticed'
    BY DEF Noticed, ChangeIsNoticed, TypeOK, Change, Differs, conn
<1> QED
    BY <1>1, <1>2 DEF Noticed

LEMMA AppearNoticed ==
    ASSUME Noticed, TypeOK', NEW p \in Peers, NEW entry \in {"unlisted", "listed"},
           Appear(p, entry)
    PROVE  Noticed'
<1>1. NoFileOverlooked'
    BY DEF Noticed, NoFileOverlooked, TypeOK, Appear, Differs
<1>2. ChangeIsNoticed'
    BY DEF Noticed, ChangeIsNoticed, Appear, conn
<1> QED
    BY <1>1, <1>2 DEF Noticed

\* A restart forgets the times, so nothing seems the same.
LEMMA RestartedNoticed ==
    ASSUME Noticed, TypeOK', NEW p \in Peers, Restarted(p)
    PROVE  Noticed'
<1>1. /\ db' = [db EXCEPT ![p] = Listed(p, present)]
      /\ dir' = [dir EXCEPT ![p] = IF @ = "missing" THEN @ ELSE ListedDir(p)]
      /\ beside' = [beside EXCEPT ![p] =
                       IF @ = "none" THEN @ ELSE IF p \in Watching THEN "listed" ELSE "unlisted"]
      /\ \A u \in Uploads : u[1] = p => session'[u] = session[u] /\ held'[u] = held[u]
      /\ UNCHANGED <<present, change>>
    BY DEF Restarted
<1>2. NoFileOverlooked'
    BY <1>1 DEF Listed, ListedDir, Noticed, NoFileOverlooked, TypeOK
<1>3. ASSUME NEW q \in Peers, change'[q] = "made", db'[q] = "same"
      PROVE  \E v \in Uploads : v[1] # q /\ session'[v] = "open" /\ held'[v] # <<>>
    <2>1. q # p /\ change[q] = "made" /\ db[q] = "same"
        BY <1>1, <1>3 DEF Listed, Noticed, TypeOK
    <2>2. PICK v \in Uploads : v[1] # q /\ session[v] = "open" /\ held[v] # <<>>
        BY <2>1 DEF Noticed, ChangeIsNoticed
    <2>3. v[1] = p
        BY <2>1, <2>2, OnePeer DEF Uploads
    <2> QED
        BY <1>1, <2>2, <2>3
<1> QED
    BY <1>2, <1>3 DEF Noticed, ChangeIsNoticed

LEMMA CheckChangesNoticed ==
    ASSUME Noticed, TypeOK', NEW p \in Peers, CheckChanges(p)
    PROVE  Noticed'
<1>0. CASE Restarted(p)
    BY <1>0, RestartedNoticed
<1> SUFFICES ASSUME ~Restarted(p) PROVE Noticed'
    BY <1>0
<1>1. /\ ChecksDir(p) /\ UNCHANGED <<present, session, held>>
      /\ \/ db' = [db EXCEPT ![p] = Applied(p)]
         \/ db' = [db EXCEPT ![p] = "same"] /\ db[p] # "absent" /\ BeginUpload(p)
      /\ BeginUpload(p) \/ UNCHANGED change
    BY CheckChangesCases
<1>2. NoFileOverlooked'
    <2>1. Applied(p) = "absent" => db[p] = "absent" /\ (dir[p] = "differs" => p \notin present)
        BY DEF Applied, ApplyDirectoryChanges
    <2>2. ASSUME NEW q \in Peers, dir'[q] = "same", q \in present PROVE db'[q] # "absent"
        <3>1. CASE q = p
            BY <1>1, <2>1, <2>2, <3>1 DEF ChecksDir, Noticed, NoFileOverlooked, TypeOK
        <3>2. CASE q # p
            BY <1>1, <2>2, <3>2 DEF ChecksDir, Noticed, NoFileOverlooked, TypeOK
        <3> QED
            BY <3>1, <3>2
    <2>3. \A q \in Peers : dir'[q] = "same" => beside'[q] # "unlisted"
        BY <1>1 DEF ChecksDir, Noticed, NoFileOverlooked, TypeOK
    <2> QED
        BY <1>1, <2>2, <2>3 DEF NoFileOverlooked
<1>3. ASSUME NEW q \in Peers, change'[q] = "made", db'[q] = "same"
      PROVE  change[q] = "made" /\ db[q] = "same"
    <2>1. change[q] = "made" /\ (BeginUpload(p) => q # p)
        BY <1>1, <1>3 DEF BeginUpload, Noticed, TypeOK
    <2>2. db[q] = "same"
        BY <1>1, <1>3, <2>1 DEF Applied, ApplyDirectoryChanges, Noticed, TypeOK
    <2> QED
        BY <2>1, <2>2
<1>4. ChangeIsNoticed'
    BY <1>1, <1>3 DEF Noticed, ChangeIsNoticed
<1> QED
    BY <1>2, <1>4 DEF Noticed

LEMMA ReceiveHeaderNoticed ==
    ASSUME Noticed, TypeOK', NEW u \in Uploads, ReceiveHeader(u)
    PROVE  Noticed'
<1> DEFINE q == Other(u[1])
<1>0. q \in Peers
    BY OnePeer DEF Uploads
<1>1. /\ change' = [change EXCEPT ![q] = "none"]
      /\ db' = [db EXCEPT ![q] = "same"]
      /\ session' = [session EXCEPT ![u] = "open"]
      /\ Open(q) /\ UNCHANGED <<held, beside>>
    BY DEF ReceiveHeader, Record
<1> HIDE DEF q
<1>2. NoFileOverlooked'
    BY <1>0, <1>1 DEF Open, Differs, Noticed, NoFileOverlooked, TypeOK
<1>3. ChangeIsNoticed'
    BY <1>0, <1>1 DEF Noticed, ChangeIsNoticed, TypeOK
<1> QED
    BY <1>2, <1>3 DEF Noticed

LEMMA ReceiveBlockNoticed ==
    ASSUME Noticed, TypeOK', NEW u \in Uploads, ReceiveBlock(u)
    PROVE  Noticed'
<1> DEFINE q == Other(u[1])
           data == Append(held[u], Head(wire[u]))
<1>0. u[1] \in Peers /\ q \in Peers /\ q # u[1] /\ \A r \in Peers : r = u[1] \/ r = q
    BY OnePeer DEF Uploads
<1>1. /\ session[u] = "open" /\ UNCHANGED <<present, dir, beside, session>>
      /\ db' = [db EXCEPT ![q] = "same"]
      /\ \/ Pass(u, q, data)
         \/ held' = [held EXCEPT ![u] = data] /\ UNCHANGED change
    BY DEF ReceiveBlock, Record
<1>2. data # <<>>
    <2>1. held[u] \in Seq(BlocksOfFile \union {Header})
        BY DEF Noticed, TypeOK
    <2>2. Head(wire[u]) \in BlocksOfFile \union {Header}
        BY DEF ReceiveBlock, Noticed, TypeOK
    <2> QED
        BY <2>1, <2>2
<1> HIDE DEF q, data
<1>3. NoFileOverlooked'
    BY <1>0, <1>1 DEF Noticed, NoFileOverlooked, TypeOK
<1>4. ASSUME NEW p \in Peers, change'[p] = "made", db'[p] = "same"
      PROVE  \E v \in Uploads : v[1] # p /\ session'[v] = "open" /\ held'[v] # <<>>
    <2>1. CASE p = q
        <3>1. held' = [held EXCEPT ![u] = data]
            BY <1>1, <1>4, <2>1 DEF Pass, Noticed, TypeOK
        <3>2. held'[u] # <<>>
            BY <1>2, <3>1 DEF Noticed, TypeOK
        <3> QED
            BY <1>0, <1>1, <2>1, <3>2
    <2>2. CASE p # q
        <3>1. change[p] = "made" /\ db[p] = "same"
            BY <1>1, <1>4, <2>2 DEF Pass, Noticed, TypeOK
        <3>2. PICK v \in Uploads : v[1] # p /\ session[v] = "open" /\ held[v] # <<>>
            BY <3>1 DEF Noticed, ChangeIsNoticed
        <3>3. v # u
            BY <1>0, <2>2, <3>2
        <3>4. held'[v] = held[v]
            <4>1. CASE Pass(u, q, data)
                BY <3>3, <4>1 DEF Pass, Noticed, TypeOK
            <4>2. CASE held' = [held EXCEPT ![u] = data]
                BY <3>3, <4>2 DEF Noticed, TypeOK
            <4> QED
                BY <1>1, <4>1, <4>2
        <3> QED
            BY <1>1, <3>2, <3>4
    <2> QED
        BY <2>1, <2>2
<1> QED
    BY <1>3, <1>4 DEF Noticed, ChangeIsNoticed

LEMMA EndSessionNoticed ==
    ASSUME Noticed, TypeOK', NEW u \in Uploads, EndSession(u)
    PROVE  Noticed'
<1> DEFINE q == Other(u[1])
<1>0. u[1] \in Peers /\ q \in Peers /\ q # u[1] /\ \A r \in Peers : r = u[1] \/ r = q
    BY OnePeer DEF Uploads
<1>1. /\ session' = [session EXCEPT ![u] = "none"] /\ UNCHANGED <<present, dir, beside>>
      /\ \/ held[u] = <<>> /\ UNCHANGED <<held, change, db>>
         \/ Pass(u, q, held[u]) /\ db' = [db EXCEPT ![q] = Differs(@)]
    BY DEF EndSession
<1> HIDE DEF q
<1>2. NoFileOverlooked'
    BY <1>0, <1>1 DEF Differs, Noticed, NoFileOverlooked, TypeOK
<1>3. ASSUME NEW p \in Peers, change'[p] = "made", db'[p] = "same"
      PROVE  \E v \in Uploads : v[1] # p /\ session'[v] = "open" /\ held'[v] # <<>>
    <2>1. change[p] = "made" /\ db[p] = "same"
        BY <1>0, <1>1, <1>3 DEF Pass, Differs, Noticed, TypeOK
    <2>2. PICK v \in Uploads : v[1] # p /\ session[v] = "open" /\ held[v] # <<>>
        BY <2>1 DEF Noticed, ChangeIsNoticed
    <2>3. v # u
        <3>1. CASE held[u] = <<>>
            BY <2>2, <3>1
        <3>2. CASE Pass(u, q, held[u])
            <4>1. p # q
                BY <1>0, <1>3, <3>2 DEF Pass, Noticed, TypeOK
            <4> QED
                BY <1>0, <2>2, <4>1
        <3> QED
            BY <1>1, <3>1, <3>2
    <2>4. session'[v] = session[v]
        BY <1>1, <2>3 DEF Noticed, TypeOK
    <2>5. held'[v] = held[v]
        <3>1. CASE Pass(u, q, held[u])
            BY <2>3, <3>1 DEF Pass, Noticed, TypeOK
        <3>2. CASE UNCHANGED held
            BY <3>2
        <3> QED
            BY <1>1, <3>1, <3>2
    <2> QED
        BY <2>2, <2>4, <2>5
<1> QED
    BY <1>2, <1>3 DEF Noticed, ChangeIsNoticed

LEMMA NoticedStep ==
    ASSUME IInv, Noticed, TypeOK', [Next]_vars
    PROVE  Noticed'
<1>1. CASE UNCHANGED vars
    BY <1>1, SameTimes DEF vars, files, conn, Noticed
<1>2. ASSUME NEW u \in Uploads,
             Connect(u) \/ ConnectFails(u) \/ SendBlock(u) \/ EndUpload(u) \/ Break(u)
      PROVE  Noticed'
    <2>1. UNCHANGED <<files, held, change>>
        BY <1>2 DEF Connect, ConnectFails, SendBlock, EndUpload, Break
    <2>2. \A v \in Uploads : session[v] = "open" => session'[v] = "open"
        <3>1. CASE Connect(u)
            <4>1. session[u] = "none" /\ session' = [session EXCEPT ![u] = "reading"]
                BY <3>1 DEF Connect, IInv, Arrives
            <4> QED
                BY <4>1 DEF Noticed, TypeOK
        <3>2. CASE ~Connect(u)
            BY <1>2, <3>2 DEF ConnectFails, SendBlock, EndUpload, Break
        <3> QED
            BY <3>1, <3>2
    <2> QED
        BY <2>1, <2>2, SameTimes DEF files, Noticed
<1> QED
    BY <1>1, <1>2, ChangeNoticed, AppearNoticed, CheckChangesNoticed, RestartedNoticed,
       ReceiveHeaderNoticed, ReceiveBlockNoticed, EndSessionNoticed DEF Next, Restart

LEMMA AllNoticed == Spec => []Noticed
<1>1. Init => Noticed
    <2>1. Init => ChangeIsNoticed /\ NoFileOverlooked
        BY PeersAssumption DEF Init, ListedDir, ChangeIsNoticed, NoFileOverlooked
    <2> QED
        BY <2>1, InitIInv DEF Noticed, IInv
<1>2. IInv /\ Noticed /\ IInv' /\ [Next]_vars => Noticed'
    BY NoticedStep DEF IInv
<1> QED
    BY <1>1, <1>2, Invariant, PTL DEF Spec

\* A program's change is taken for something received only while a stream holds
\* back what will change the time again.
THEOREM ChangesNoticed == Spec => []ChangeIsNoticed
<1>1. Noticed => ChangeIsNoticed
    BY DEF Noticed
<1> QED
    BY <1>1, AllNoticed, PTL

\* A directory that the monitor takes for unchanged has no file it does not know.
THEOREM NoneOverlooked == Spec => []NoFileOverlooked
<1>1. Noticed => NoFileOverlooked
    BY DEF Noticed
<1> QED
    BY <1>1, AllNoticed, PTL

-------------------------------------------------------------------------------
(***************************************************************************)
(* Copies agree at rest.  One failed connection is enough to leave them    *)
(* different for ever, so this needs an installation that nothing          *)
(* disturbs: then one transfer at most is under way, and the copy that is  *)
(* being written is a beginning of the one that is being read.             *)
(***************************************************************************)

\* Nothing fails, programs wait, no file is to be created in a directory that a
\* monitor watches, this one or another beside it, and where only one machine has the file, or a program changes
\* it, the monitor has an entry for it.  (A file created in a directory that both
\* watch is sent back while it is still arriving; a file no one watches is not
\* sent.)
Undisturbed ==
    /\ ~Failures /\ ~Restarts /\ Calm /\ Crowded = {}
    /\ Missing = {} /\ (Watching = {} \/ Present = Peers)
    /\ Writers \subseteq Configured \union Watching
    /\ Present = Peers \/ Present \subseteq Configured

\* Blocks n + 1 to n + Len(s) of file f are s.
Part(s, n, f) ==
    /\ n + Len(s) <= Len(f)
    /\ \A i \in 1..Len(s) : s[i] = f[n + i]

NoneDue == \A p \in Peers : ~Due(p) /\ dir[p] # "differs"
Started(u) == sender[u] # "none" \/ session[u] # "none"
Alone(u) == \A v \in Uploads \ {u} : ~Started(v)

\* A transfer from p to the other service: its header is on its way, with what
\* follows it, or was read, and the parts of p's copy that were written, are
\* held back and on their way follow each other.
Sends(u, p) ==
    /\ session[u] = "reading"
    /\ wire[u] # <<>>
    /\ Part(Tail(wire[u]), 0, copy[p])
    /\ sender[u] = "none" => Len(Tail(wire[u])) = Len(copy[p])

Writing(u, p, q) ==
    /\ session[u] = "open"
    /\ q \in present
    /\ written[u] = Len(copy[q])
    /\ Part(copy[q], 0, copy[p])
    /\ Part(held[u], written[u], copy[p])
    /\ Part(wire[u], written[u] + Len(held[u]), copy[p])
    /\ sender[u] = "none" => written[u] + Len(held[u]) + Len(wire[u]) = Len(copy[p])

Transfer(u) ==
    /\ u[1] \in present /\ NoneDue /\ Alone(u)
    /\ sender[u] = "connecting" \/ Sends(u, u[1]) \/ Writing(u, u[1], Other(u[1]))

Announced(p) ==
    /\ Idle
    /\ Due(p) /\ ~Due(Other(p))
    /\ \A q \in Peers : dir[q] # "differs"

AtRest == Settled /\ Equal

\* Before the first change all copies are empty, and uploads overlap; a copy that
\* the other service has not is about to reach it.
Offers(p) == \E u \in Uploads : u[1] = p /\ (sender[u] = "connecting" \/ session[u] = "reading")
EmptyUpload(u) ==
    /\ held[u] = <<>>
    /\ session[u] = "open" => wire[u] = <<>>
    /\ session[u] = "reading" => wire[u] # <<>> /\ Tail(wire[u]) = <<>>
    /\ Started(u) => u[1] \in present
Empty ==
    /\ \A p \in Peers : copy[p] = <<>>
    /\ \A u \in Uploads : EmptyUpload(u)
    /\ \A p \in present : Other(p) \in present \/ Due(p) \/ Offers(p)

Phase == Empty \/ AtRest \/ (\E p \in Peers : Announced(p)) \/ (\E u \in Uploads : Transfer(u))

\* No directory is to change any more, and a file that may change has an entry.
Steady ==
    /\ Watching = {} => \A p \in Peers : dir[p] = "absent"
    /\ Watching # {} => present = Peers /\ \A p \in Peers : dir[p] # "missing"
    /\ \A p \in Configured \union Watching : db[p] # "absent"
    /\ \A p \in Peers : beside[p] = "none"

SyncInv == Steady /\ Phase

-------------------------------------------------------------------------------
LEMMA PartEmpty ==
    ASSUME NEW f, f \in Seq(BlocksOfFile), NEW n \in 0..Len(f)
    PROVE  Part(<<>>, n, f)
<1>1. Len(<<>>) = 0
    OBVIOUS
<1> QED
    BY <1>1 DEF Part

\* The next block of the file, at the end.
LEMMA PartAppend ==
    ASSUME NEW S, NEW s \in Seq(S), NEW f \in Seq(S), NEW n \in Nat, Part(s, n, f),
           n + Len(s) < Len(f), NEW b \in S, b = f[n + Len(s) + 1]
    PROVE  Part(Append(s, b), n, f)
<1>1. Len(Append(s, b)) = Len(s) + 1 /\ Len(s) \in Nat /\ Len(f) \in Nat
    OBVIOUS
<1>2. ASSUME NEW i \in 1..Len(s) + 1 PROVE Append(s, b)[i] = f[n + i]
    <2>1. CASE i = Len(s) + 1
        <3>1. Append(s, b)[i] = b /\ n + i = n + Len(s) + 1
            BY <2>1
        <3> QED
            BY <3>1
    <2>2. CASE i # Len(s) + 1
        <3>1. i \in 1..Len(s)
            BY <1>1, <2>2
        <3>2. Append(s, b)[i] = s[i]
            BY <3>1
        <3> QED
            BY <3>1, <3>2 DEF Part
    <2> QED
        BY <2>1, <2>2
<1>3. n + (Len(s) + 1) <= Len(f)
    BY <1>1
<1> QED
    BY <1>1, <1>2, <1>3 DEF Part

\* The first block of a part, and the rest.
LEMMA PartTail ==
    ASSUME NEW S, NEW s \in Seq(S), NEW f \in Seq(S), NEW n \in Nat, Part(s, n, f), s # <<>>
    PROVE  /\ Head(s) = f[n + 1] /\ n + 1 <= Len(f)
           /\ Part(Tail(s), n + 1, f) /\ Len(s) = Len(Tail(s)) + 1
<1>1. /\ Len(s) \in Nat /\ Len(s) >= 1 /\ Len(f) \in Nat
      /\ Head(s) = s[1] /\ Len(Tail(s)) = Len(s) - 1
      /\ \A i \in 1..Len(s) - 1 : Tail(s)[i] = s[i + 1]
    OBVIOUS
<1>2. ASSUME NEW i \in 1..Len(s) - 1 PROVE Tail(s)[i] = f[n + 1 + i]
    <2>1. i + 1 \in 1..Len(s) /\ n + (i + 1) = n + 1 + i
        BY <1>1
    <2> QED
        BY <1>1, <2>1 DEF Part
<1>3. n + 1 + (Len(s) - 1) <= Len(f) /\ n + 1 <= Len(f) /\ 1 \in 1..Len(s)
    BY <1>1 DEF Part
<1> QED
    BY <1>1, <1>2, <1>3 DEF Part

\* A beginning of a file and the part that follows it are a beginning.
LEMMA PutPart ==
    ASSUME NEW S, NEW s \in Seq(S), NEW f \in Seq(S), NEW data \in Seq(S),
           Part(s, 0, f), Part(data, Len(s), f)
    PROVE  /\ Part(Put(s, Len(s), data), 0, f)
           /\ Len(Put(s, Len(s), data)) = Len(s) + Len(data)
<1> DEFINE n == Len(s)
           m == IF n + Len(data) > n THEN n + Len(data) ELSE n
           new == Put(s, n, data)
<1>1. n \in Nat /\ Len(data) \in Nat /\ Len(f) \in Nat /\ m = n + Len(data) /\ m \in Nat
    OBVIOUS
<1>2. new = [i \in 1..m |-> IF i \in n + 1 .. n + Len(data) THEN data[i - n]
                            ELSE IF i <= n THEN s[i] ELSE Hole]
    BY DEF Put
<1> HIDE DEF m, new
<1>3. ASSUME NEW i \in 1..m PROVE new[i] = f[i]
    <2>1. CASE i \in n + 1 .. n + Len(data)
        <3>1. i - n \in 1..Len(data) /\ n + (i - n) = i
            BY <1>1, <2>1
        <3>2. data[i - n] = f[n + (i - n)]
            BY <3>1 DEF Part
        <3> QED
            BY <1>2, <2>1, <3>1, <3>2
    <2>2. CASE i \notin n + 1 .. n + Len(data)
        <3>1. i \in 1..n /\ 0 + i = i /\ i <= n
            BY <1>1, <2>2
        <3>2. s[i] = f[0 + i]
            BY <3>1 DEF Part
        <3> QED
            BY <1>2, <2>2, <3>1, <3>2
    <2> QED
        BY <2>1, <2>2
<1>4. Len(new) = m
    <2>1. \E T : new \in Seq(T)
        <3> DEFINE T == {new[j] : j \in 1..m}
        <3>1. new = [i \in 1..m |-> new[i]] /\ \A i \in 1..m : new[i] \in T
            BY <1>2
        <3> HIDE DEF T
        <3>2. new \in Seq(T)
            BY <1>1, <3>1
        <3> QED
            BY <3>2
    <2> QED
        BY <1>1, <1>2
<1>5. 0 + m <= Len(f) /\ \A i \in 1..m : 0 + i = i
    BY <1>1 DEF Part
<1> QED
    BY <1>1, <1>3, <1>4, <1>5 DEF Part, new

\* A beginning that is as long is the file.
LEMMA PartWhole ==
    ASSUME NEW S, NEW s \in Seq(S), NEW f \in Seq(S), Part(s, 0, f), Len(s) = Len(f)
    PROVE  s = f
<1>1. \A i \in 1..Len(s) : 0 + i = i
    OBVIOUS
<1>2. \A i \in 1..Len(s) : s[i] = f[i]
    BY <1>1 DEF Part
<1> QED
    BY <1>2

-------------------------------------------------------------------------------
Sent == BlocksOfFile \union {Header}

LEMMA SyncTypes ==
    ASSUME IInv, NEW u \in Uploads
    PROVE  /\ u[1] \in Peers /\ Other(u[1]) \in Peers /\ Other(u[1]) # u[1]
           /\ \A q \in Peers : q = u[1] \/ q = Other(u[1])
           /\ \A p \in Peers : copy[p] \in Seq(Sent) /\ Len(copy[p]) \in Nat
           /\ held[u] \in Seq(Sent) /\ wire[u] \in Seq(Sent)
           /\ pos[u] \in Nat /\ written[u] \in Nat
<1>1. u[1] \in Peers
    BY DEF Uploads
<1>2. \A p \in Peers : copy[p] \in Seq(Sent) /\ Len(copy[p]) \in Nat
    BY DEF Sent, IInv, TypeOK
<1>3. held[u] \in Seq(Sent) /\ wire[u] \in Seq(Sent) /\ pos[u] \in Nat /\ written[u] \in Nat
    BY BlocksAssumption DEF Sent, IInv, TypeOK
<1> QED
    BY <1>1, <1>2, <1>3, OnePeer

\* Once it is undisturbed, entries stay, and directories do not change any more.
LEMMA InitSteady == Undisturbed /\ Init => Steady
BY PeersAssumption DEF Undisturbed, Init, Steady, Listed, ListedDir

\* With one file in the directory the storage does not move under a poll.
LEMMA NoMove ==
    ASSUME NEW p \in Peers, beside[p] = "none"
    PROVE  ~Moves(p)
BY DEF Moves

LEMMA SteadyStep ==
    ASSUME IInv, Undisturbed, Steady, [Next]_vars
    PROVE  Steady'
<1>1. /\ Watching # {} => present = Peers
      /\ \A p \in Configured \union Watching : p \in Peers /\ db[p] # "absent"
    BY PeersAssumption DEF Steady
<1>2. CASE UNCHANGED vars
    BY <1>2 DEF vars, files, Steady
<1>3. ASSUME NEW p \in Peers, NEW w \in Writes, Change(p, w) PROVE Steady'
    <2>1. present' = present \union {p} /\ db' = [db EXCEPT ![p] = Differs(@)]
          /\ dir' = [dir EXCEPT ![p] = IF @ = "missing" THEN "absent"
                                       ELSE IF p \in present THEN @ ELSE Differs(@)]
          /\ UNCHANGED beside
        BY <1>3 DEF Change
    <2> QED
        BY <1>1, <2>1 DEF Steady, Differs, IInv, TypeOK
<1>4. ASSUME NEW p \in Peers, CheckChanges(p) PROVE Steady'
    <2>1. /\ UNCHANGED present /\ ChecksDir(p)
          /\ db' = [db EXCEPT ![p] = Applied(p)] \/ db' = [db EXCEPT ![p] = "same"]
        BY <1>4, CheckChangesCases, NoMove DEF Steady
    <2>2. Applied(p) = "absent" => db[p] = "absent"
        BY DEF Applied, ApplyDirectoryChanges
    <2>3. \A q \in Peers : db'[q] = "absent" => db[q] = "absent"
        BY <2>1, <2>2 DEF IInv, TypeOK
    <2>4. \A q \in Peers : beside'[q] = "none"
        BY <2>1 DEF ChecksDir, Steady, IInv, TypeOK
    <2>5. dir' = [dir EXCEPT ![p] = IF @ = "differs" THEN "same" ELSE @]
        BY <2>1 DEF ChecksDir
    <2> QED
        BY <1>1, <2>1, <2>3, <2>4, <2>5 DEF Steady, IInv, TypeOK
<1>5. ASSUME NEW u \in Uploads,
             Connect(u) \/ ConnectFails(u) \/ SendBlock(u) \/ EndUpload(u) \/ Break(u)
      PROVE  Steady'
    <2>1. UNCHANGED files
        BY <1>5 DEF Connect, ConnectFails, SendBlock, EndUpload, Break
    <2> QED
        BY <2>1 DEF files, Steady
<1>6. ASSUME NEW u \in Uploads, ReceiveHeader(u) PROVE Steady'
    <2> DEFINE q == Other(u[1])
    <2>1. q \in Peers
        BY SyncTypes
    <2>2. present' = present \union {q} /\ db' = [db EXCEPT ![q] = "same"]
          /\ dir' = [dir EXCEPT ![q] = IF @ = "missing" THEN "differs"
                                       ELSE IF q \in present THEN @ ELSE Differs(@)]
          /\ UNCHANGED beside
        BY <1>6 DEF ReceiveHeader, Record, Open
    <2> HIDE DEF q
    <2> QED
        BY <1>1, <2>1, <2>2 DEF Steady, Differs, IInv, TypeOK
<1>7. ASSUME NEW u \in Uploads, ReceiveBlock(u) \/ EndSession(u) PROVE Steady'
    <2> DEFINE q == Other(u[1])
    <2>1. q \in Peers
        BY SyncTypes
    <2>2. UNCHANGED <<present, dir, beside>>
          /\ \/ db' = [db EXCEPT ![q] = "same"] \/ db' = [db EXCEPT ![q] = Differs(@)]
             \/ UNCHANGED db
        BY <1>7 DEF ReceiveBlock, Record, EndSession
    <2> HIDE DEF q
    <2> QED
        BY <1>1, <2>1, <2>2 DEF Steady, Differs, IInv, TypeOK
<1> QED
    BY <1>2, <1>3, <1>4, <1>5, <1>6, <1>7 DEF Next, Undisturbed, Restart, Appear

\* An upload of its own leaves the others as they are.
OthersSame(u) ==
    \A v \in Uploads \ {u} :
        /\ sender'[v] = sender[v] /\ session'[v] = session[v]
        /\ wire'[v] = wire[v] /\ held'[v] = held[v]

LEMMA AloneSame ==
    ASSUME NEW u, Alone(u), OthersSame(u)
    PROVE  Alone(u)'
BY DEF Alone, OthersSame, Started

\* The step of an upload is that of the transfer, if there is one.
LEMMA OnlyOne ==
    ASSUME NEW v \in Uploads, Started(v),
           AtRest \/ (\E p \in Peers : Announced(p)) \/ (\E u \in Uploads : Transfer(u))
    PROVE  Transfer(v)
<1>1. ~Idle
    BY DEF Idle, Started
<1>2. ~AtRest /\ \A p \in Peers : ~Announced(p)
    BY <1>1 DEF AtRest, Settled, Announced
<1>3. PICK u \in Uploads : Transfer(u)
    BY <1>2
<1>4. u = v
    BY <1>3 DEF Transfer, Alone
<1> QED
    BY <1>3, <1>4

\* While all copies are empty, an upload that changes only itself, and goes on
\* offering what the other service has not.
LEMMA EmptySame ==
    ASSUME NEW u \in Uploads, Empty, OthersSame(u),
           UNCHANGED <<present, copy, db>>, EmptyUpload(u)',
           sender[u] = "connecting" \/ session[u] = "reading" =>
              \/ Other(u[1]) \in present
              \/ sender'[u] = "connecting" \/ session'[u] = "reading"
    PROVE  Empty'
<1>1. \A v \in Uploads : EmptyUpload(v)'
    <2>1. ASSUME NEW v \in Uploads \ {u} PROVE EmptyUpload(v)'
        BY DEF Empty, EmptyUpload, OthersSame, Started
    <2> QED
        BY <2>1
<1>2. ASSUME NEW p \in present PROVE Other(p) \in present \/ Due(p)' \/ Offers(p)'
    <2>1. CASE Offers(p) /\ Other(p) \notin present
        <3>1. PICK v \in Uploads : v[1] = p /\ (sender[v] = "connecting" \/ session[v] = "reading")
            BY <2>1 DEF Offers
        <3> QED
            BY <2>1, <3>1 DEF Offers, OthersSame
    <2>2. CASE ~Offers(p) \/ Other(p) \in present
        BY <2>2 DEF Empty, Due
    <2> QED
        BY <2>1, <2>2
<1> QED
    BY <1>1, <1>2 DEF Empty

-------------------------------------------------------------------------------
\* A program that waits finds nothing under way: its change is the next to be sent.
LEMMA ChangeSync ==
    ASSUME IInv, Undisturbed, Steady, NEW p \in Peers, NEW w \in Writes, Change(p, w)
    PROVE  Announced(p)'
<1>1. Other(p) \in Peers /\ Other(p) # p
    BY OnePeer
<1>2. /\ Idle /\ \A q \in Peers : ~Due(q) /\ dir[q] # "differs"
      /\ p \in Configured \union Watching
      /\ present' = present \union {p} /\ db' = [db EXCEPT ![p] = Differs(@)]
      /\ dir' = [dir EXCEPT ![p] = IF @ = "missing" THEN "absent"
                                   ELSE IF p \in present THEN @ ELSE Differs(@)]
      /\ UNCHANGED <<sender, session>>
    BY DEF Change, Settled, Undisturbed, conn
<1>3. Idle'
    BY <1>2 DEF Idle
<1>4. Due(p)'
    BY <1>2 DEF Due, Differs, Steady, IInv, TypeOK
<1>5. ~Due(Other(p))'
    BY <1>1, <1>2 DEF Due, IInv, TypeOK
<1>6. \A q \in Peers : dir'[q] # "differs"
    BY <1>2 DEF Steady, Differs, IInv, TypeOK
<1> QED
    BY <1>3, <1>4, <1>5, <1>6 DEF Announced

\* The monitor sends what is new.
LEMMA CheckChangesSync ==
    ASSUME IInv, SyncInv, NEW p \in Peers, CheckChanges(p)
    PROVE  Phase'
<1>0. Other(p) \in Peers /\ Other(p) # p /\ \A q \in Peers : q = p \/ q = Other(p)
    BY OnePeer
<1>1. /\ Due(p) \/ dir[p] = "differs"
      /\ UNCHANGED <<present, copy, pos, wire, session, written, held, made>>
      /\ BeginUpload(p) \/ UNCHANGED sender
    <2>1. ~Moves(p)
        BY NoMove DEF SyncInv, Steady
    <2>2. Due(p) \/ dir[p] = "differs"
        BY <2>1 DEF CheckChanges
    <2> QED
        BY <2>1, <2>2, CheckChangesCases
<1>2. /\ \A q \in Peers : q # p => db'[q] = db[q]
      /\ \A q \in Peers : dir'[q] = "differs" => dir[q] = "differs"
      /\ dir[p] # "differs" => BeginUpload(p) /\ p \in present /\ db'[p] = "same"
      /\ BeginUpload(p) /\ ~UNCHANGED sender => p \in present
    <2>0. ~Moves(p)
        BY NoMove DEF SyncInv, Steady
    <2>1. /\ \A q \in Peers : q # p => db'[q] = db[q]
          /\ \A q \in Peers : dir'[q] = "differs" => dir[q] = "differs"
        <3>1. ChecksDir(p) /\ \/ db' = [db EXCEPT ![p] = Applied(p)]
                              \/ db' = [db EXCEPT ![p] = "same"]
            BY <2>0, CheckChangesCases
        <3>2. \A q \in Peers : q # p => db'[q] = db[q]
            BY <3>1 DEF IInv, TypeOK
        <3>3. \A q \in Peers : dir'[q] = "differs" => dir[q] = "differs"
            BY <3>1 DEF ChecksDir, IInv, TypeOK
        <3> QED
            BY <3>2, <3>3
    <2>2. dir[p] # "differs" => BeginUpload(p) /\ p \in present /\ db'[p] = "same"
        <3> SUFFICES ASSUME dir[p] # "differs"
                     PROVE  BeginUpload(p) /\ p \in present /\ db'[p] = "same"
            OBVIOUS
        <3>1. p \in present /\ db[p] = "differs" /\ Applied(p) = "differs"
            BY <1>1 DEF Due, Applied
        <3>2. BeginUpload(p) /\ db' = [db EXCEPT ![p] = "same"]
            BY <2>0, <3>1 DEF CheckChanges
        <3> QED
            BY <3>1, <3>2 DEF IInv, TypeOK
    <2>3. ~UNCHANGED sender => p \in present
        BY <2>0, CheckChangesCases
    <2> QED
        BY <2>1, <2>2, <2>3
<1>3. ASSUME BeginUpload(p)
      PROVE  \E u \in Uploads : /\ u[1] = p /\ ~Started(u) /\ sender'[u] = "connecting"
                                /\ \A v \in Uploads \ {u} : sender'[v] = sender[v]
    BY <1>3 DEF BeginUpload, Started, Uploads, IInv, TypeOK
<1>4. CASE Empty
    <2>1. ASSUME NEW u \in Uploads PROVE EmptyUpload(u)'
        <3>1. EmptyUpload(u)
            BY <1>4 DEF Empty
        <3>2. CASE UNCHANGED sender
            BY <1>1, <3>1, <3>2 DEF EmptyUpload, Started
        <3>3. CASE BeginUpload(p) /\ ~UNCHANGED sender
            <4>1. sender'[u] = sender[u] \/ u[1] \in present
                BY <1>2, <1>3, <3>3
            <4> QED
                BY <1>1, <3>1, <4>1 DEF EmptyUpload, Started
        <3> QED
            BY <1>1, <3>2, <3>3
    <2>2. ASSUME NEW q \in present, Other(q) \notin present, ~Offers(q) PROVE Due(q)' \/ Offers(q)'
        <3>1. Due(q) /\ q \in Peers /\ Other(q) \in Peers
            BY <1>4, <2>2, OnePeer DEF Empty, IInv, TypeOK
        <3>2. CASE q = p
            <4>1. dir[p] # "differs"
                <5>1. present # Peers
                    BY <2>2, <3>1
                <5> QED
                    BY <3>1, <3>2, <5>1 DEF SyncInv, Steady
            <4> QED
                BY <1>2, <1>3, <3>2, <4>1 DEF Offers
        <3>3. CASE q # p
            BY <1>1, <1>2, <3>1, <3>3 DEF Due
        <3> QED
            BY <3>2, <3>3
    <2>3. ASSUME NEW q \in present, Offers(q) PROVE Offers(q)'
        <3>1. PICK v \in Uploads : v[1] = q /\ (sender[v] = "connecting" \/ session[v] = "reading")
            BY <2>3 DEF Offers
        <3>2. CASE UNCHANGED sender
            BY <1>1, <3>1, <3>2 DEF Offers
        <3>3. CASE BeginUpload(p)
            BY <1>1, <1>3, <3>1, <3>3 DEF Offers, Started
        <3> QED
            BY <1>1, <3>2, <3>3
    <2>4. Empty'
        BY <1>1, <1>4, <2>1, <2>2, <2>3 DEF Empty
    <2> QED
        BY <2>4 DEF Phase
<1>5. ASSUME NEW r \in Peers, Announced(r) PROVE Phase'
    <2>1. r = p /\ Idle /\ ~Due(Other(p)) /\ \A q \in Peers : dir[q] # "differs"
        BY <1>1, <1>5, OnePeer DEF Announced
    <2>2. PICK u \in Uploads : /\ u[1] = p /\ ~Started(u) /\ sender'[u] = "connecting"
                               /\ \A v \in Uploads \ {u} : sender'[v] = sender[v]
        BY <1>2, <1>3, <2>1
    <2>3. Alone(u)'
        BY <1>1, <2>1, <2>2 DEF Alone, Started, Idle
    <2>4. u[1] \in present'
        BY <1>1, <1>2, <2>1, <2>2
    <2>5. NoneDue'
        BY <1>0, <1>1, <1>2, <2>1 DEF NoneDue, Due
    <2>6. Transfer(u)'
        BY <2>2, <2>3, <2>4, <2>5 DEF Transfer
    <2> QED
        BY <2>6 DEF Phase
<1>6. CASE NoneDue
    BY <1>1, <1>6 DEF NoneDue
<1>7. AtRest \/ (\E u \in Uploads : Transfer(u)) => NoneDue
    BY DEF AtRest, Settled, NoneDue, Transfer
<1> QED
    BY <1>4, <1>5, <1>6, <1>7 DEF SyncInv, Phase

LEMMA ConnectSync ==
    ASSUME IInv, SyncInv, NEW u \in Uploads, Connect(u)
    PROVE  Phase'
<1>1. /\ sender[u] = "connecting" /\ sender'[u] = "sending"
      /\ wire'[u] = <<Header>> /\ session'[u] = "reading" /\ Started(u)
      /\ OthersSame(u) /\ UNCHANGED <<files, present, copy, db, dir, held>>
    BY DEF Connect, OthersSame, files, Started, IInv, TypeOK
<1>2. <<Header>> # <<>> /\ Tail(<<Header>>) = <<>>
    OBVIOUS
<1>3. CASE Empty
    <2>1. EmptyUpload(u)'
        BY <1>1, <1>2, <1>3 DEF Empty, EmptyUpload
    <2>2. Empty'
        BY <1>1, <1>3, <2>1, EmptySame
    <2> QED
        BY <2>2 DEF Phase
<1>4. CASE Transfer(u)
    <2>1. Part(<<>>, 0, copy[u[1]])
        <3>1. copy[u[1]] \in Seq(BlocksOfFile) /\ 0 \in 0..Len(copy[u[1]])
            BY SyncTypes DEF IInv, TypeOK
        <3> QED
            BY <3>1, PartEmpty
    <2>2. Sends(u, u[1])'
        BY <1>1, <1>2, <2>1 DEF Sends
    <2>3. Alone(u)' /\ NoneDue' /\ u[1] \in present'
        BY <1>1, <1>4, AloneSame DEF Transfer, NoneDue, Due
    <2>4. Transfer(u)'
        BY <2>2, <2>3 DEF Transfer
    <2> QED
        BY <2>4 DEF Phase
<1> QED
    BY <1>1, <1>3, <1>4, OnlyOne DEF SyncInv, Phase

LEMMA TailAppend ==
    ASSUME NEW S, NEW s \in Seq(S), s # <<>>, NEW b \in S
    PROVE  /\ Append(s, b) # <<>> /\ Tail(s) \in Seq(S)
           /\ Tail(Append(s, b)) = Append(Tail(s), b)
OBVIOUS

LEMMA SendBlockSync ==
    ASSUME IInv, SyncInv, NEW u \in Uploads, SendBlock(u)
    PROVE  Phase'
<1> DEFINE p == u[1]
           b == copy[p][pos[u] + 1]
<1>1. /\ sender[u] = "sending" /\ sender'[u] = "sending" /\ Started(u)
      /\ pos[u] < Len(copy[p]) /\ wire'[u] = Append(wire[u], b)
      /\ OthersSame(u) /\ UNCHANGED <<present, copy, db, dir, session, written, held>>
    BY DEF SendBlock, OthersSame, files, Started, IInv, TypeOK
<1>2. /\ p \in Peers /\ copy[p] \in Seq(Sent) /\ Len(copy[p]) \in Nat
      /\ wire[u] \in Seq(Sent) /\ held[u] \in Seq(Sent) /\ pos[u] \in Nat /\ written[u] \in Nat
    BY SyncTypes
<1> HIDE DEF p
<1>3. b \in Sent
    BY <1>1, <1>2
<1> HIDE DEF b
<1>4. CASE Empty
    <2>1. Len(copy[p]) = 0
        BY <1>2, <1>4 DEF Empty
    <2> QED
        BY <1>1, <1>2, <2>1
<1>5. CASE Transfer(u)
    <2>1. ASSUME Sends(u, p) PROVE Sends(u, p)'
        <3>1. Len(Tail(wire[u])) = pos[u] /\ wire[u] # <<>> /\ Part(Tail(wire[u]), 0, copy[p])
            BY <1>1, <2>1 DEF Sends, IInv, Arrives
        <3>2. /\ Append(wire[u], b) # <<>>
              /\ Tail(Append(wire[u], b)) = Append(Tail(wire[u]), b) /\ Tail(wire[u]) \in Seq(Sent)
            BY <1>2, <1>3, <3>1, TailAppend
        <3>3. Part(Append(Tail(wire[u]), b), 0, copy[p])
            <4>1. 0 + Len(Tail(wire[u])) < Len(copy[p]) /\ b = copy[p][0 + Len(Tail(wire[u])) + 1]
                BY <1>1, <1>2, <3>1 DEF b
            <4> QED
                BY <1>2, <1>3, <3>1, <3>2, <4>1, PartAppend
        <3> QED
            BY <1>1, <2>1, <3>2, <3>3 DEF Sends
    <2>2. ASSUME Writing(u, p, Other(p)) PROVE Writing(u, p, Other(p))'
        <3> DEFINE n == written[u] + Len(held[u])
        <3>0. n \in Nat
            BY <1>2
        <3>1. n + Len(wire[u]) = pos[u] /\ Part(wire[u], n, copy[p])
            BY <1>1, <2>2 DEF Writing, IInv, Arrives
        <3> HIDE DEF n
        <3>2. Part(Append(wire[u], b), n, copy[p])
            <4>1. n + Len(wire[u]) < Len(copy[p]) /\ b = copy[p][n + Len(wire[u]) + 1]
                BY <1>1, <1>2, <3>1 DEF b
            <4> QED
                BY <1>2, <1>3, <3>0, <3>1, <4>1, PartAppend
        <3> QED
            BY <1>1, <2>2, <3>2 DEF Writing, n
    <2>3. Alone(u)' /\ NoneDue' /\ p \in present'
        BY <1>1, <1>5, AloneSame DEF Transfer, NoneDue, Due, p
    <2>4. Sends(u, p)' \/ Writing(u, p, Other(p))'
        BY <1>1, <1>5, <2>1, <2>2 DEF Transfer, p
    <2>5. Transfer(u)'
        BY <2>3, <2>4 DEF Transfer, p
    <2> QED
        BY <2>5 DEF Phase
<1> QED
    BY <1>1, <1>4, <1>5, OnlyOne DEF SyncInv, Phase

\* The sender ends when it has read all of the copy: all of it was sent.
LEMMA EndUploadSync ==
    ASSUME IInv, SyncInv, NEW u \in Uploads, EndUpload(u)
    PROVE  Phase'
<1> DEFINE p == u[1]
<1>1. /\ sender[u] = "sending" /\ sender'[u] = "none" /\ Started(u)
      /\ pos[u] >= Len(copy[p])
      /\ OthersSame(u) /\ UNCHANGED <<present, copy, db, dir, wire, session, written, held>>
    BY DEF EndUpload, OthersSame, files, Started, IInv, TypeOK
<1>2. /\ p \in Peers /\ copy[p] \in Seq(Sent) /\ Len(copy[p]) \in Nat
      /\ wire[u] \in Seq(Sent) /\ held[u] \in Seq(Sent) /\ pos[u] \in Nat /\ written[u] \in Nat
    BY SyncTypes
<1>3. CASE Empty
    <2>1. EmptyUpload(u)'
        BY <1>1, <1>3 DEF Empty, EmptyUpload, Started
    <2>2. Empty'
        BY <1>1, <1>3, <2>1, EmptySame
    <2> QED
        BY <2>2 DEF Phase
<1>4. CASE Transfer(u)
    <2>1. ASSUME Sends(u, p) PROVE Sends(u, p)'
        <3>1. Len(Tail(wire[u])) = pos[u] /\ Part(Tail(wire[u]), 0, copy[p])
            BY <1>1, <2>1 DEF Sends, IInv, Arrives
        <3>2. Len(Tail(wire[u])) = Len(copy[p])
            BY <1>1, <1>2, <3>1 DEF Part
        <3> QED
            BY <1>1, <2>1, <3>2 DEF Sends
    <2>2. ASSUME Writing(u, p, Other(p)) PROVE Writing(u, p, Other(p))'
        <3>1. /\ written[u] + Len(held[u]) + Len(wire[u]) = pos[u]
              /\ Part(wire[u], written[u] + Len(held[u]), copy[p])
            BY <1>1, <2>2 DEF Writing, IInv, Arrives
        <3>2. written[u] + Len(held[u]) + Len(wire[u]) = Len(copy[p])
            BY <1>1, <1>2, <3>1 DEF Part
        <3> QED
            BY <1>1, <2>2, <3>2 DEF Writing
    <2>3. Alone(u)' /\ NoneDue' /\ p \in present'
        BY <1>1, <1>4, AloneSame DEF Transfer, NoneDue, Due
    <2>4. Transfer(u)'
        BY <1>1, <1>4, <2>1, <2>2, <2>3 DEF Transfer
    <2> QED
        BY <2>4 DEF Phase
<1> QED
    BY <1>1, <1>3, <1>4, OnlyOne DEF SyncInv, Phase

\* The header empties the copy of the other service, and both have the file.
LEMMA ReceiveHeaderSync ==
    ASSUME IInv, SyncInv, NEW u \in Uploads, ReceiveHeader(u)
    PROVE  Phase'
<1> DEFINE p == u[1]
           q == Other(p)
<1>0. p \in Peers /\ q \in Peers /\ q # p /\ \A r \in Peers : r = p \/ r = q
    BY SyncTypes
<1>1. /\ session[u] = "reading" /\ session'[u] = "open" /\ sender'[u] = sender[u]
      /\ wire[u] # <<>> /\ wire'[u] = Tail(wire[u]) /\ held[u] = <<>> /\ held'[u] = <<>>
      /\ written'[u] = 0 /\ Started(u) /\ OthersSame(u)
    BY DEF ReceiveHeader, OthersSame, Started, IInv, TypeOK, Arrives
<1>2. /\ copy' = [copy EXCEPT ![q] = <<>>]
      /\ db' = [db EXCEPT ![q] = "same"]
      /\ present' = present \union {q}
      /\ dir' = [dir EXCEPT ![q] = IF @ = "missing" THEN "differs"
                                   ELSE IF q \in present THEN @ ELSE Differs(@)]
    BY DEF ReceiveHeader, Record, Open
<1> HIDE DEF p, q
<1>3. copy'[p] = copy[p] /\ copy'[q] = <<>> /\ q \in present'
    BY <1>0, <1>2 DEF IInv, TypeOK
<1>4. CASE Empty
    <2>1. p \in present
        BY <1>1, <1>4 DEF Empty, EmptyUpload, p
    <2>2. present' = Peers
        BY <1>0, <1>2, <2>1 DEF IInv, TypeOK
    <2>3. \A r \in present' : Other(r) \in present'
        BY <2>2, OnePeer
    <2>4. ASSUME NEW v \in Uploads PROVE EmptyUpload(v)'
        <3>1. EmptyUpload(v)
            BY <1>4 DEF Empty
        <3>2. CASE v = u
            BY <1>1, <1>2, <2>1, <3>1, <3>2 DEF EmptyUpload, p
        <3>3. CASE v # u
            BY <1>1, <1>2, <3>1, <3>3 DEF EmptyUpload, OthersSame, Started
        <3> QED
            BY <3>2, <3>3
    <2>5. \A r \in Peers : copy'[r] = <<>>
        BY <1>0, <1>3, <1>4 DEF Empty
    <2> QED
        BY <2>3, <2>4, <2>5 DEF Empty, Phase
<1>5. CASE Transfer(u)
    <2>1. Sends(u, p) /\ sender[u] # "connecting"
        BY <1>1, <1>5 DEF Transfer, Writing, IInv, Arrives, p
    <2>2. Alone(u)' /\ p \in present'
        BY <1>1, <1>2, <1>5, AloneSame DEF Transfer, p
    <2>3. NoneDue'
        <3>1. \A r \in Peers : dir[r] # "differs" /\ (r # q => ~Due(r))
            BY <1>5 DEF Transfer, NoneDue
        <3>2. dir' = dir
            <4>1. CASE Watching = {}
                BY <1>0, <1>2, <4>1 DEF Differs, SyncInv, Steady, IInv, TypeOK
            <4>2. CASE Watching # {}
                BY <1>0, <1>2, <4>2 DEF SyncInv, Steady, IInv, TypeOK
            <4> QED
                BY <4>1, <4>2
        <3> QED
            BY <1>0, <1>2, <3>1, <3>2 DEF NoneDue, Due, IInv, TypeOK
    <2>4. Part(<<>>, 0, copy[p])
        <3>1. copy[p] \in Seq(BlocksOfFile) /\ 0 \in 0..Len(copy[p])
            BY <1>0 DEF IInv, TypeOK
        <3> QED
            BY <3>1, PartEmpty
    <2>5. Len(<<>>) = 0 /\ 0 + 0 = 0 /\ Len(Tail(wire[u])) \in Nat
        BY <1>1, SyncTypes
    <2>6. Writing(u, p, q)'
        BY <1>1, <1>3, <2>1, <2>4, <2>5 DEF Sends, Writing
    <2>7. Transfer(u)'
        BY <2>2, <2>3, <2>6 DEF Transfer, p, q
    <2> QED
        BY <2>7 DEF Phase
<1> QED
    BY <1>1, <1>4, <1>5, OnlyOne DEF SyncInv, Phase

\* A block is written behind the beginning, or held back behind what is held back.
LEMMA ReceiveBlockSync ==
    ASSUME IInv, SyncInv, NEW u \in Uploads, ReceiveBlock(u)
    PROVE  Phase'
<1> DEFINE p == u[1]
           q == Other(p)
           data == Append(held[u], Head(wire[u]))
<1>0. /\ p \in Peers /\ q \in Peers /\ q # p /\ \A r \in Peers : r = p \/ r = q
      /\ copy[p] \in Seq(Sent) /\ copy[q] \in Seq(Sent)
      /\ held[u] \in Seq(Sent) /\ wire[u] \in Seq(Sent) /\ written[u] \in Nat
    BY SyncTypes
<1>1. /\ session[u] = "open" /\ wire[u] # <<>> /\ Started(u)
      /\ session' = session /\ sender' = sender
      /\ wire' = [wire EXCEPT ![u] = Tail(@)]
      /\ db' = [db EXCEPT ![q] = "same"]
      /\ \/ Pass(u, q, data)
         \/ held' = [held EXCEPT ![u] = data] /\ UNCHANGED <<copy, written>>
      /\ UNCHANGED <<present, dir>>
    BY DEF ReceiveBlock, Record, Started
<1>2. data \in Seq(Sent) /\ Len(data) = Len(held[u]) + 1 /\ Tail(wire[u]) \in Seq(Sent)
    BY <1>0, <1>1
<1> HIDE DEF p, q, data
<1>3. OthersSame(u) /\ wire'[u] = Tail(wire[u])
    BY <1>1 DEF OthersSame, Pass, IInv, TypeOK
<1>4. ~Empty
    BY <1>1 DEF Empty, EmptyUpload
<1>5. Transfer(u)
    BY <1>1, <1>4, OnlyOne DEF SyncInv, Phase
<1>6. Writing(u, p, q) /\ sender[u] # "connecting"
    BY <1>1, <1>5 DEF Transfer, Sends, IInv, Arrives, p, q
<1>7. Alone(u)' /\ p \in present' /\ q \in present'
    BY <1>1, <1>3, <1>5, <1>6, AloneSame DEF Transfer, Writing, p
<1>8. NoneDue'
    <2>1. \A r \in Peers : dir[r] # "differs" /\ (r # q => ~Due(r))
        BY <1>5 DEF Transfer, NoneDue
    <2> QED
        BY <1>0, <1>1, <2>1 DEF NoneDue, Due, IInv, TypeOK
<1> DEFINE n == written[u] + Len(held[u])
<1>9. n \in Nat /\ Len(held[u]) \in Nat /\ Len(copy[q]) \in Nat
    BY <1>0
<1>10. Part(wire[u], n, copy[p])
    BY <1>6 DEF Writing
<1> HIDE DEF n
<1>11. /\ Head(wire[u]) = copy[p][n + 1] /\ n + 1 <= Len(copy[p])
       /\ Part(Tail(wire[u]), n + 1, copy[p]) /\ Len(wire[u]) = Len(Tail(wire[u])) + 1
    BY <1>0, <1>1, <1>9, <1>10, PartTail
<1>12. Part(data, written[u], copy[p])
    <2>1. Part(held[u], written[u], copy[p])
        BY <1>6 DEF Writing
    <2>2. Head(wire[u]) \in Sent
        BY <1>0, <1>1
    <2>3. /\ written[u] + Len(held[u]) < Len(copy[p])
          /\ Head(wire[u]) = copy[p][written[u] + Len(held[u]) + 1]
        BY <1>0, <1>9, <1>11 DEF n
    <2> QED
        BY <1>0, <2>1, <2>2, <2>3, PartAppend DEF data
<1>13. sender[u] = "none" => n + 1 + Len(Tail(wire[u])) = Len(copy[p])
    <2>1. sender[u] = "none" => n + Len(wire[u]) = Len(copy[p])
        BY <1>6 DEF Writing, n
    <2>2. Len(Tail(wire[u])) \in Nat /\ Len(wire[u]) = Len(Tail(wire[u])) + 1
        BY <1>2, <1>11
    <2>3. \A l, k \in Nat : l = k + 1 => n + l = n + 1 + k
        BY <1>9
    <2>4. n + Len(wire[u]) = n + 1 + Len(Tail(wire[u]))
        BY <1>0, <2>2, <2>3
    <2> QED
        BY <2>1, <2>4
<1>14. Writing(u, p, q)'
    <2>1. CASE Pass(u, q, data)
        <3> DEFINE new == Put(copy[q], written[u], data)
        <3>1. copy'[q] = new /\ copy'[p] = copy[p] /\ held'[u] = <<>>
              /\ written'[u] = written[u] + Len(data)
            BY <1>0, <2>1 DEF Pass, IInv, TypeOK
        <3>2. Part(new, 0, copy[p]) /\ Len(new) = written[u] + Len(data)
            <4>1. written[u] = Len(copy[q]) /\ Part(copy[q], 0, copy[p])
                BY <1>6 DEF Writing
            <4>2. /\ Part(Put(copy[q], Len(copy[q]), data), 0, copy[p])
                  /\ Len(Put(copy[q], Len(copy[q]), data)) = Len(copy[q]) + Len(data)
                <5>1. Part(data, Len(copy[q]), copy[p])
                    BY <1>12, <4>1
                <5> QED
                    BY <1>0, <1>2, <4>1, <5>1, PutPart
            <4> QED
                BY <4>1, <4>2
        <3> HIDE DEF new
        <3>3. written[u] + Len(data) = n + 1 /\ Len(<<>>) = 0 /\ n + 1 + 0 = n + 1
            BY <1>0, <1>2, <1>9 DEF n
        <3>4. Part(<<>>, n + 1, copy[p])
            <4>1. copy[p] \in Seq(BlocksOfFile) /\ n + 1 \in 0..Len(copy[p])
                BY <1>0, <1>9, <1>11 DEF IInv, TypeOK
            <4> QED
                BY <4>1, PartEmpty
        <3> QED
            BY <1>1, <1>3, <1>7, <1>11, <1>13, <3>1, <3>2, <3>3, <3>4 DEF Writing
    <2>2. CASE held' = [held EXCEPT ![u] = data] /\ UNCHANGED <<copy, written>>
        <3>1. held'[u] = data
            BY <2>2 DEF IInv, TypeOK
        <3>2. written[u] + Len(data) = n + 1
            BY <1>0, <1>2, <1>9 DEF n
        <3> QED
            BY <1>1, <1>3, <1>6, <1>7, <1>11, <1>12, <1>13, <2>2, <3>1, <3>2 DEF Writing
    <2> QED
        BY <1>1, <2>1, <2>2
<1>15. Transfer(u)'
    BY <1>7, <1>8, <1>14 DEF Transfer, p, q
<1> QED
    BY <1>15 DEF Phase

\* The end of the transfer: the copies are equal, unless what was held back is
\* written only now, which is a new time at the receiver.
LEMMA EndSessionSync ==
    ASSUME IInv, SyncInv, NEW u \in Uploads, EndSession(u)
    PROVE  Phase'
<1> DEFINE p == u[1]
           q == Other(p)
<1>0. /\ p \in Peers /\ q \in Peers /\ q # p /\ \A r \in Peers : r = p \/ r = q
      /\ copy[p] \in Seq(Sent) /\ copy[q] \in Seq(Sent) /\ held[u] \in Seq(Sent)
    BY SyncTypes
<1>1. /\ session[u] # "none" /\ sender[u] = "none" /\ wire[u] = <<>> /\ Started(u)
      /\ session' = [session EXCEPT ![u] = "none"]
      /\ \/ held[u] = <<>> /\ UNCHANGED <<copy, held, db>>
         \/ held[u] # <<>> /\ Pass(u, q, held[u]) /\ db' = [db EXCEPT ![q] = Differs(@)]
      /\ UNCHANGED <<present, dir, sender, wire>>
    BY DEF EndSession, Started
<1> HIDE DEF p, q
<1>2. OthersSame(u) /\ session'[u] = "none"
    BY <1>1 DEF OthersSame, Pass, IInv, TypeOK
<1>3. CASE Empty
    <2>1. EmptyUpload(u)
        BY <1>3 DEF Empty
    <2>2. held[u] = <<>> /\ UNCHANGED <<copy, held, db>> /\ session[u] # "reading"
        BY <1>1, <2>1 DEF EmptyUpload
    <2>3. EmptyUpload(u)'
        BY <1>1, <1>2, <2>1, <2>2 DEF EmptyUpload, Started
    <2>4. Empty'
        BY <1>1, <1>2, <1>3, <2>2, <2>3, EmptySame
    <2> QED
        BY <2>4 DEF Phase
<1>4. CASE Transfer(u)
    <2>1. Writing(u, p, q) /\ p \in present /\ q \in present
        BY <1>1, <1>4 DEF Transfer, Sends, Writing, p, q
    <2>2. Idle'
        BY <1>1, <1>2, <1>4, AloneSame DEF Transfer, Alone, Started, Idle
    <2>3. \A r \in Peers : ~Due(r) /\ dir[r] # "differs"
        BY <1>4 DEF Transfer, NoneDue
    <2>4. written[u] + Len(held[u]) = Len(copy[p]) /\ written[u] = Len(copy[q])
        <3>1. written[u] + Len(held[u]) + Len(wire[u]) = Len(copy[p])
            BY <1>1, <2>1 DEF Writing
        <3>2. Len(wire[u]) = 0 /\ written[u] + Len(held[u]) \in Nat
            BY <1>1, SyncTypes
        <3>3. \A n \in Nat : n + 0 = n
            OBVIOUS
        <3>4. written[u] + Len(held[u]) = Len(copy[p])
            BY <3>1, <3>2, <3>3, Zenon
        <3> QED
            BY <2>1, <3>4 DEF Writing
    <2>5. copy'[q] = copy[p] /\ copy'[p] = copy[p]
        <3>1. CASE held[u] = <<>> /\ UNCHANGED <<copy, held, db>>
            <4>1. Len(copy[q]) = Len(copy[p])
                BY <1>0, <2>4, <3>1
            <4>2. copy[q] = copy[p]
                BY <1>0, <2>1, <4>1, PartWhole DEF Writing
            <4> QED
                BY <3>1, <4>2
        <3>2. CASE held[u] # <<>> /\ Pass(u, q, held[u])
            <4> DEFINE new == Put(copy[q], Len(copy[q]), held[u])
            <4>1. copy'[q] = new /\ copy'[p] = copy[p]
                BY <1>0, <2>4, <3>2 DEF Pass, IInv, TypeOK
            <4>2. Part(new, 0, copy[p]) /\ Len(new) = Len(copy[q]) + Len(held[u])
                <5>1. Part(copy[q], 0, copy[p]) /\ Part(held[u], Len(copy[q]), copy[p])
                    BY <2>1, <2>4 DEF Writing
                <5> QED
                    BY <1>0, <5>1, PutPart
            <4>3. new \in Seq(Sent)
                BY <1>0, <3>2, <4>1, EndSessionIInv DEF IInv, TypeOK, Sent
            <4> HIDE DEF new
            <4>4. Len(new) = Len(copy[p])
                BY <2>4, <4>2
            <4>5. new = copy[p]
                BY <1>0, <4>2, <4>3, <4>4, PartWhole
            <4> QED
                BY <4>1, <4>5
        <3> QED
            BY <1>1, <3>1, <3>2
    <2>6. Equal'
        BY <1>0, <1>1, <2>1, <2>5 DEF Equal
    <2>7. ~Due(p)' /\ \A r \in Peers : dir'[r] # "differs"
        BY <1>0, <1>1, <2>3 DEF Due, IInv, TypeOK
    <2>8. CASE Due(q)'
        <3>1. Other(q) = p
            BY <1>0, OnePeer
        <3>2. Announced(q)'
            BY <2>2, <2>7, <2>8, <3>1 DEF Announced
        <3> QED
            BY <1>0, <3>2 DEF Phase
    <2>9. CASE ~Due(q)'
        <3>1. Settled'
            BY <1>0, <2>2, <2>7, <2>9 DEF Settled
        <3> QED
            BY <2>6, <3>1 DEF AtRest, Phase
    <2> QED
        BY <2>8, <2>9
<1> QED
    BY <1>1, <1>3, <1>4, OnlyOne DEF SyncInv, Phase

LEMMA InitSync == Undisturbed /\ Init => SyncInv
<1> SUFFICES ASSUME Undisturbed, Init PROVE SyncInv
    OBVIOUS
<1>1. Steady
    BY InitSteady
<1>2. \A u \in Uploads : EmptyUpload(u)
    BY DEF Init, EmptyUpload, Started
<1>3. ASSUME NEW p \in present PROVE Other(p) \in present \/ Due(p)
    <2>1. p \in Peers /\ Other(p) \in Peers
        BY <1>3, OnePeer, PeersAssumption DEF Init
    <2> QED
        BY <1>3, <2>1 DEF Undisturbed, Init, Due, Listed
<1>4. Empty
    BY <1>2, <1>3 DEF Empty, Init
<1> QED
    BY <1>1, <1>4 DEF SyncInv, Phase

LEMMA SyncStep ==
    ASSUME IInv, Undisturbed, SyncInv, [Next]_vars
    PROVE  SyncInv'
<1>1. Steady'
    BY SteadyStep DEF SyncInv
<1>2. CASE UNCHANGED vars
    <2>1. UNCHANGED <<present, copy, db, dir, sender, wire, session, written, held>>
        BY <1>2 DEF vars, files, conn
    <2>2. Empty => Empty'
        BY <2>1 DEF Empty, EmptyUpload, Started, Due, Offers
    <2>3. AtRest => AtRest'
        BY <2>1 DEF AtRest, Settled, Equal, Idle, Due
    <2>4. \A p \in Peers : Announced(p) => Announced(p)'
        BY <2>1 DEF Announced, Idle, Due
    <2>5. ASSUME NEW u \in Uploads, Transfer(u) PROVE Transfer(u)'
        <3>1. Alone(u)' /\ NoneDue' /\ u[1] \in present'
            BY <2>1, <2>5 DEF Transfer, Alone, Started, NoneDue, Due
        <3>2. sender[u] = "connecting" \/ Sends(u, u[1])' \/ Writing(u, u[1], Other(u[1]))'
            BY <2>1, <2>5 DEF Transfer, Sends, Writing
        <3> QED
            BY <2>1, <3>1, <3>2 DEF Transfer
    <2>6. Phase'
        BY <2>2, <2>3, <2>4, <2>5 DEF SyncInv, Phase
    <2> QED
        BY <1>1, <2>6 DEF SyncInv
<1>3. CASE Next
    <2>1. ASSUME NEW p \in Peers, NEW w \in Writes, Change(p, w) PROVE Phase'
        BY <2>1, ChangeSync DEF SyncInv, Phase
    <2>2. ASSUME NEW p \in Peers, CheckChanges(p) \/ Restart(p) PROVE Phase'
        BY <2>2, CheckChangesSync DEF Restart, Undisturbed
    <2>3. ASSUME NEW p \in Peers, NEW entry \in {"unlisted", "listed"} PROVE ~Appear(p, entry)
        BY DEF Appear, Undisturbed
    <2>4. ASSUME NEW u \in Uploads,
                 \/ Connect(u) \/ ConnectFails(u)
                 \/ SendBlock(u) \/ EndUpload(u) \/ Break(u)
                 \/ ReceiveHeader(u) \/ ReceiveBlock(u) \/ EndSession(u)
          PROVE  Phase'
        BY <2>4, ConnectSync, SendBlockSync, EndUploadSync, ReceiveHeaderSync,
           ReceiveBlockSync, EndSessionSync DEF ConnectFails, Break, Undisturbed
    <2> QED
        BY <1>1, <1>3, <2>1, <2>2, <2>3, <2>4 DEF Next, SyncInv
<1> QED
    BY <1>2, <1>3

\* Services that nothing disturbs have equal copies whenever they are at rest,
\* for any size of the file, any number of changes and uploads, and however much
\* the streams hold back.
THEOREM CopiesAgree ==
    ASSUME Undisturbed
    PROVE  Spec => []SettledIsEqual
<1>1. Init => SyncInv
    BY InitSync
<1>2. IInv /\ SyncInv /\ [Next]_vars => SyncInv'
    BY SyncStep
<1>3. ASSUME IInv, SyncInv, Settled PROVE Equal
    <2>1. Idle /\ \A p \in Peers : ~Due(p)
        BY <1>3 DEF Settled
    <2>2. \A p \in Peers : ~Announced(p)
        BY <2>1 DEF Announced
    <2>3. ASSUME NEW u \in Uploads PROVE ~Transfer(u)
        BY <2>1 DEF Idle, Transfer, Sends, Writing
    <2>4. CASE Empty
        <3>1. \A p \in Peers : p \in present => Other(p) \in present
            BY <2>1, <2>4 DEF Empty, Offers, Idle
        <3> QED
            BY <2>4, <3>1, OnePeer DEF Empty, Equal
    <2> QED
        BY <1>3, <2>2, <2>3, <2>4 DEF SyncInv, Phase, AtRest
<1>4. IInv /\ SyncInv => SettledIsEqual
    BY <1>3 DEF SettledIsEqual
<1> QED
    BY <1>1, <1>2, <1>4, Invariant, PTL DEF Spec

===============================================================================
