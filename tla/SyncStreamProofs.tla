--------------------------- MODULE SyncStreamProofs ---------------------------
(***************************************************************************)
(* Theorems about SyncStream, for any messages and any length of a read:   *)
(* what a session stores is a prefix of what its client sends, wherever    *)
(* the connection breaks, and the whole of it if it does not.              *)
(***************************************************************************)
EXTENDS SyncStream, SequenceTheorems, WellFoundedInduction, TLAPS

Text(m) == Line(m) \o m.body

\* The records of s, one behind the other, are the units of text behind the
\* k-th, up to the n-th: ends[i] is where the i-th ends.
Spells(s, text, k, n) ==
    /\ s \in Seq(Seq(Units))
    /\ \E ends \in [0..Len(s) -> 0..Len(text)] :
          /\ ends[0] = k /\ ends[Len(s)] = n
          /\ \A i \in 1..Len(s) :
                /\ Len(s[i]) = ends[i] - ends[i - 1]
                /\ \A j \in 1..Len(s[i]) : s[i][j] = text[ends[i - 1] + j]

\* What is on its way and unsent, in the order in which it will be read.
Coming == wire \o unsent

\* It is what the text has behind its k-th unit, to the end unless the
\* connection broke.
InOrder(k) ==
    \E n \in 0..Len(Text(message)) :
        /\ Spells(Coming, Text(message), k, n)
        /\ broken \/ n = Len(Text(message))

\* Nothing has been read.
Fresh ==
    /\ file = NoFile /\ accepted = <<>>
    /\ session = "open" \/ broken
    /\ InOrder(0)
    /\ Coming # <<>> =>
          /\ Len(Head(Coming)) >= Len(Line(message))
          /\ message.pieces \/ Coming = <<Text(message)>>

\* The header of a file has been read, and some of its body.
Storing ==
    /\ current = "Filename: "
    /\ file = NoFile => session = "closed" /\ refused
    /\ file # NoFile =>
          /\ file.path = message.name
          /\ Len(file.data) <= Len(message.body)
          /\ \A j \in 1..Len(file.data) : file.data[j] = message.body[j]
          /\ session = "open" => InOrder(Len(Line(message)) + Len(file.data))
          /\ session = "closed" => broken \/ Len(file.data) = Len(message.body)

\* Credentials have been read.
Accepting ==
    /\ file = NoFile
    /\ FitsInRead(message) => Coming = <<>> /\ accepted = <<message.body>>

Prefix ==
    HeaderFits(message) =>
        /\ header = <<>> => Fresh
        /\ header # <<>> /\ message.type = "Filename: " => Storing
        /\ header # <<>> /\ message.type = "Authentication: " => Accepting

Chosen ==
    /\ session # "crashed"
    /\ session = "open" /\ header # <<>> => current # NoFile

IInv == TypeOK /\ Chosen /\ Prefix

-------------------------------------------------------------------------------
LEMMA LeastOfTwo ==
    ASSUME NEW a \in Int, NEW b \in Int
    PROVE  Min({a, b}) = IF a <= b THEN a ELSE b
<1>1. CASE a <= b
    <2>1. a \in {a, b} /\ \A y \in {a, b} : a <= y
        BY <1>1
    <2>2. \A x \in {a, b} : (\A y \in {a, b} : x <= y) => x = a
        BY <1>1
    <2> QED
        BY <1>1, <2>1, <2>2 DEF Min
<1>2. CASE ~(a <= b)
    <2>1. b \in {a, b} /\ \A y \in {a, b} : b <= y
        BY <1>2
    <2>2. \A x \in {a, b} : (\A y \in {a, b} : x <= y) => x = b
        BY <1>2
    <2> QED
        BY <1>2, <2>1, <2>2 DEF Min
<1> QED
    BY <1>1, <1>2

\* The parts of a message and of the text it is sent as.
LEMMA TextParts ==
    ASSUME NEW m \in Messages
    PROVE  /\ m.type \in Types /\ m.name \in Seq(Units) /\ m.body \in Seq(Units)
           /\ m.pieces \in BOOLEAN
           /\ Line(m) \in Seq(Units) /\ Len(Line(m)) = Len(m.name) + 3
           /\ Line(m)[1] = m.type
           /\ \A i \in 1..Len(m.name) : Line(m)[i + 1] = m.name[i]
           /\ Line(m)[Len(m.name) + 2] = "eol" /\ Line(m)[Len(m.name) + 3] = "eol"
           /\ Text(m) \in Seq(Units) /\ Len(Text(m)) = Len(Line(m)) + Len(m.body)
           /\ \A i \in 1..Len(Line(m)) : Text(m)[i] = Line(m)[i]
           /\ \A i \in 1..Len(m.body) : Text(m)[Len(Line(m)) + i] = m.body[i]
<1>1. /\ m.type \in Types /\ m.name \in Seq(Units) /\ m.body \in Seq(Units)
      /\ m.pieces \in BOOLEAN
    BY MessagesAssumption
<1>2. <<m.type>> \in Seq(Units) /\ <<"eol", "eol">> \in Seq(Units)
    BY <1>1, UnitsAssumption
<1>3. /\ <<m.type>> \o m.name \in Seq(Units)
      /\ Len(<<m.type>> \o m.name) = Len(m.name) + 1
      /\ (<<m.type>> \o m.name)[1] = m.type
      /\ \A i \in 1..Len(m.name) : (<<m.type>> \o m.name)[i + 1] = m.name[i]
    BY <1>1, <1>2
<1>4. /\ Line(m) = (<<m.type>> \o m.name) \o <<"eol", "eol">>
      /\ Len(<<"eol", "eol">>) = 2
      /\ <<"eol", "eol">>[1] = "eol" /\ <<"eol", "eol">>[2] = "eol"
    BY DEF Line, Delimiter
<1>5. /\ Line(m) \in Seq(Units) /\ Len(Line(m)) = Len(m.name) + 3
      /\ \A i \in 1..Len(m.name) + 1 : Line(m)[i] = (<<m.type>> \o m.name)[i]
      /\ Line(m)[Len(m.name) + 2] = "eol" /\ Line(m)[Len(m.name) + 3] = "eol"
    BY <1>1, <1>2, <1>3, <1>4, ConcatProperties
<1>6. /\ Text(m) \in Seq(Units) /\ Len(Text(m)) = Len(Line(m)) + Len(m.body)
      /\ \A i \in 1..Len(Line(m)) + Len(m.body) :
            Text(m)[i] = IF i <= Len(Line(m)) THEN Line(m)[i] ELSE m.body[i - Len(Line(m))]
    BY <1>1, <1>5, ConcatProperties DEF Text
<1>7. /\ \A i \in 1..Len(Line(m)) : Text(m)[i] = Line(m)[i]
      /\ \A i \in 1..Len(m.body) : Text(m)[Len(Line(m)) + i] = m.body[i]
    <2>1. Len(Line(m)) \in Nat /\ Len(m.body) \in Nat
        BY <1>1, <1>5
    <2>2. ASSUME NEW i \in 1..Len(Line(m)) PROVE Text(m)[i] = Line(m)[i]
        <3>1. i \in 1..Len(Line(m)) + Len(m.body) /\ i <= Len(Line(m))
            BY <2>1
        <3> QED
            BY <1>6, <3>1
    <2>3. ASSUME NEW i \in 1..Len(m.body) PROVE Text(m)[Len(Line(m)) + i] = m.body[i]
        <3>1. /\ Len(Line(m)) + i \in 1..Len(Line(m)) + Len(m.body)
              /\ ~(Len(Line(m)) + i <= Len(Line(m))) /\ Len(Line(m)) + i - Len(Line(m)) = i
            BY <2>1
        <3> QED
            BY <1>6, <3>1
    <2> QED
        BY <2>2, <2>3
<1>8. /\ Line(m)[1] = m.type
      /\ \A i \in 1..Len(m.name) : Line(m)[i + 1] = m.name[i]
    <2>1. Len(m.name) \in Nat
        BY <1>1
    <2>2. 1 \in 1..Len(m.name) + 1 /\ \A i \in 1..Len(m.name) : i + 1 \in 1..Len(m.name) + 1
        BY <2>1
    <2> QED
        BY <1>3, <1>5, <2>2
<1> QED
    BY <1>1, <1>5, <1>6, <1>7, <1>8

\* What is left when the first units of the first record have been read.
Rest(s, l) ==
    IF l = Len(Head(s)) THEN Tail(s)
    ELSE <<SubSeq(Head(s), l + 1, Len(Head(s)))>> \o Tail(s)

\* It goes on where they end.
LEMMA SpellsRest ==
    ASSUME NEW s, NEW text \in Seq(Units), NEW k, NEW n, Spells(s, text, k, n),
           s # <<>>, NEW l \in 0..Len(Head(s))
    PROVE  /\ Head(s) \in Seq(Units)
           /\ k + l \in 0..Len(text)
           /\ \A j \in 1..l : Head(s)[j] = text[k + j]
           /\ Spells(Rest(s, l), text, k + l, n)
<1>1. s \in Seq(Seq(Units)) /\ Len(s) \in Nat \ {0} /\ Head(s) = s[1] /\ Head(s) \in Seq(Units)
    BY DEF Spells
<1>2. PICK ends \in [0..Len(s) -> 0..Len(text)] :
          /\ ends[0] = k /\ ends[Len(s)] = n
          /\ \A i \in 1..Len(s) :
                /\ Len(s[i]) = ends[i] - ends[i - 1]
                /\ \A j \in 1..Len(s[i]) : s[i][j] = text[ends[i - 1] + j]
    BY DEF Spells
<1>3. /\ k \in 0..Len(text) /\ ends[1] \in 0..Len(text) /\ Len(s[1]) = ends[1] - k
      /\ \A j \in 1..Len(s[1]) : s[1][j] = text[k + j]
    <2>1. 0 \in 0..Len(s) /\ 1 \in 0..Len(s) /\ 1 \in 1..Len(s) /\ 1 - 1 = 0
        BY <1>1
    <2> QED
        BY <1>2, <2>1
<1>4. k + l \in 0..Len(text)
    BY <1>1, <1>3
<1>5. \A j \in 1..l : Head(s)[j] = text[k + j]
    BY <1>1, <1>3
<1>6. Tail(s) \in Seq(Seq(Units)) /\ Len(Tail(s)) = Len(s) - 1
      /\ \A i \in 1..Len(s) - 1 : Tail(s)[i] = s[i + 1]
    BY <1>1
<1>7. CASE l = Len(Head(s))
    <2> DEFINE e == [i \in 0..Len(s) - 1 |-> ends[i + 1]]
               t == Tail(s)
    <2>1. /\ e \in [0..Len(s) - 1 -> 0..Len(text)]
          /\ \A i \in 0..Len(s) - 1 : e[i] = ends[i + 1]
        BY <1>1, <1>2
    <2>2. t = Rest(s, l)
        BY <1>7 DEF Rest
    <2>3. /\ t \in Seq(Seq(Units)) /\ Len(t) = Len(s) - 1
          /\ \A i \in 1..Len(s) - 1 : t[i] = s[i + 1]
        BY <1>6
    <2> HIDE DEF e, t
    <2>4. e[0] = k + l /\ e[Len(t)] = n
        <3>1. 0 \in 0..Len(s) - 1 /\ Len(s) - 1 \in 0..Len(s) - 1
              /\ 0 + 1 = 1 /\ Len(s) - 1 + 1 = Len(s)
            BY <1>1
        <3>2. e[0] = ends[1] /\ e[Len(t)] = ends[Len(s)]
            BY <2>1, <2>3, <3>1
        <3>3. ends[1] = k + l
            BY <1>1, <1>3, <1>7
        <3> QED
            BY <1>2, <3>2, <3>3
    <2>5. ASSUME NEW i \in 1..Len(t)
          PROVE  /\ Len(t[i]) = e[i] - e[i - 1]
                 /\ \A j \in 1..Len(t[i]) : t[i][j] = text[e[i - 1] + j]
        <3>1. t[i] = s[i + 1] /\ e[i] = ends[i + 1] /\ e[i - 1] = ends[i]
              /\ i + 1 \in 1..Len(s) /\ i + 1 - 1 = i
            BY <1>1, <2>1, <2>3, SMTT(30)
        <3> QED
            BY <1>2, <3>1
    <2>6. Spells(t, text, k + l, n)
        <3>1. e \in [0..Len(t) -> 0..Len(text)]
            BY <2>1, <2>3
        <3> QED
            BY <2>3, <2>4, <2>5, <3>1 DEF Spells
    <2> QED
        BY <1>1, <1>4, <1>5, <2>2, <2>6
<1>8. CASE l # Len(Head(s))
    <2> DEFINE h == SubSeq(Head(s), l + 1, Len(Head(s)))
               e == [ends EXCEPT ![0] = k + l]
               t == <<h>> \o Tail(s)
    <2>1. /\ h \in Seq(Units) /\ Len(h) = Len(s[1]) - l
          /\ \A j \in 1..Len(h) : h[j] = s[1][l + j]
        BY <1>1, <1>8
    <2> HIDE DEF h
    <2>2. <<h>> \in Seq(Seq(Units)) /\ Len(<<h>>) = 1 /\ <<h>>[1] = h
        BY <2>1
    <2>3. /\ t \in Seq(Seq(Units)) /\ Len(t) = Len(s)
          /\ t[1] = h /\ \A i \in 2..Len(s) : t[i] = s[i]
        BY <1>1, <1>6, <2>2, ConcatProperties
    <2>4. /\ e \in [0..Len(t) -> 0..Len(text)]
          /\ e[0] = k + l /\ \A i \in 1..Len(s) : e[i] = ends[i]
        BY <1>1, <1>2, <1>4, <2>3
    <2>5. t = Rest(s, l)
        BY <1>8 DEF Rest, h
    <2> HIDE DEF t, e
    <2>6. ASSUME NEW i \in 1..Len(t)
          PROVE  /\ Len(t[i]) = e[i] - e[i - 1]
                 /\ \A j \in 1..Len(t[i]) : t[i][j] = text[e[i - 1] + j]
        <3>1. CASE i = 1
            <4>1. Len(h) = ends[1] - (k + l)
                BY <1>1, <1>3, <2>1
            <4>2. ASSUME NEW j \in 1..Len(h) PROVE h[j] = text[k + l + j]
                <5>1. l + j \in 1..Len(s[1]) /\ k + (l + j) = k + l + j
                    BY <1>1, <1>3, <2>1
                <5> QED
                    BY <1>3, <2>1, <5>1
            <4>3. t[i] = h /\ e[i] = ends[1] /\ e[i - 1] = k + l
                BY <2>3, <2>4, <3>1
            <4> QED
                BY <4>1, <4>2, <4>3
        <3>2. CASE i # 1
            <4>1. t[i] = s[i] /\ e[i] = ends[i] /\ e[i - 1] = ends[i - 1] /\ i \in 1..Len(s)
                BY <2>3, <2>4, <3>2
            <4> QED
                BY <1>2, <4>1
        <3> QED
            BY <3>1, <3>2
    <2>7. e[Len(t)] = n
        BY <1>1, <1>2, <2>3, <2>4
    <2>8. Spells(t, text, k + l, n)
        BY <2>3, <2>4, <2>6, <2>7 DEF Spells
    <2> QED
        BY <1>1, <1>4, <1>5, <2>5, <2>8
<1> QED
    BY <1>7, <1>8


\* The first records alone go up to some place in the text.
LEMMA SpellsPrefix ==
    ASSUME NEW s, NEW t \in Seq(Seq(Units)), NEW w \in Seq(Seq(Units)), s = w \o t,
           NEW text \in Seq(Units), NEW k, NEW n, Spells(s, text, k, n)
    PROVE  \E i \in 0..Len(text) : Spells(w, text, k, i)
<1>1. PICK ends \in [0..Len(s) -> 0..Len(text)] :
          /\ ends[0] = k /\ ends[Len(s)] = n
          /\ \A i \in 1..Len(s) :
                /\ Len(s[i]) = ends[i] - ends[i - 1]
                /\ \A j \in 1..Len(s[i]) : s[i][j] = text[ends[i - 1] + j]
    BY DEF Spells
<1>2. /\ Len(s) = Len(w) + Len(t) /\ Len(w) \in Nat /\ Len(t) \in Nat
      /\ \A i \in 1..Len(w) : s[i] = w[i]
    BY ConcatProperties
<1> DEFINE e == [i \in 0..Len(w) |-> ends[i]]
<1>3. /\ e \in [0..Len(w) -> 0..Len(text)]
      /\ e[0] = k /\ e[Len(w)] \in 0..Len(text)
      /\ \A i \in 0..Len(w) : e[i] = ends[i]
    <2>1. \A i \in 0..Len(w) : i \in 0..Len(s)
        BY <1>2
    <2>2. 0 \in 0..Len(w) /\ Len(w) \in 0..Len(w)
        BY <1>2
    <2> QED
        BY <1>1, <2>1, <2>2
<1> HIDE DEF e
<1>4. ASSUME NEW i \in 1..Len(w)
      PROVE  /\ Len(w[i]) = e[i] - e[i - 1]
             /\ \A j \in 1..Len(w[i]) : w[i][j] = text[e[i - 1] + j]
    <2>1. i \in 1..Len(s) /\ i \in 0..Len(w) /\ i - 1 \in 0..Len(w)
        BY <1>2
    <2>2. s[i] = w[i] /\ e[i] = ends[i] /\ e[i - 1] = ends[i - 1]
        BY <1>2, <1>3, <2>1
    <2> QED
        BY <1>1, <2>1, <2>2
<1>5. Spells(w, text, k, e[Len(w)])
    BY <1>3, <1>4 DEF Spells
<1> QED
    BY <1>3, <1>5

\* Nothing is spelled by no records.
LEMMA SpellsNothing ==
    ASSUME NEW text \in Seq(Units), NEW k \in 0..Len(text)
    PROVE  /\ Spells(<<>>, text, k, k)
           /\ \A n : Spells(<<>>, text, k, n) => n = k
<1> DEFINE e == [i \in 0..0 |-> k]
<1>1. e \in [0..0 -> 0..Len(text)] /\ e[0] = k
    OBVIOUS
<1>2. <<>> \in Seq(Seq(Units)) /\ Len(<<>>) = 0 /\ 1..0 = {}
    OBVIOUS
<1> HIDE DEF e
<1> QED
    BY <1>1, <1>2 DEF Spells

\* As many pieces as a body is cut into reach its end.
LEMMA EnoughPieces ==
    ASSUME NEW n \in Nat
    PROVE  /\ (n + MaxLength - 1) \div MaxLength \in Nat
           /\ ((n + MaxLength - 1) \div MaxLength) * MaxLength >= n
<1>1. ASSUME NEW a \in Nat, NEW m \in Nat \ {0}
      PROVE  a \div m \in Nat /\ a < (a \div m) * m + m
    OBVIOUS
<1>2. n + MaxLength - 1 \in Nat
    BY MaxLengthAssumption
<1>3. (n + MaxLength - 1) \div MaxLength \in Nat
    BY <1>1, <1>2, MaxLengthAssumption
<1> DEFINE q == (n + MaxLength - 1) \div MaxLength
<1>4. n + MaxLength - 1 < q * MaxLength + MaxLength /\ q \in Nat
    BY <1>1, <1>2, <1>3, MaxLengthAssumption
<1> HIDE DEF q
<1>5. q * MaxLength \in Nat
    BY <1>4, MaxLengthAssumption
<1>6. q * MaxLength >= n
    BY <1>4, <1>5, MaxLengthAssumption
<1> QED
    BY <1>3, <1>6 DEF q

\* Where the i-th piece of n units ends.
UpTo(i, n) == IF i * MaxLength <= n THEN i * MaxLength ELSE n

LEMMA UpToParts ==
    ASSUME NEW n \in Nat
    PROVE  /\ \A i \in Nat : UpTo(i, n) \in 0..n
           /\ UpTo(0, n) = 0
           /\ \A i \in Nat : i * MaxLength >= n => UpTo(i, n) = n
<1>1. ASSUME NEW m \in Nat, NEW i \in Nat PROVE i * m \in Nat /\ 0 * m = 0
    OBVIOUS
<1>2. \A i \in Nat : i * MaxLength \in Nat
    BY <1>1, MaxLengthAssumption
<1>3. 0 * MaxLength = 0
    BY <1>1, MaxLengthAssumption
<1>4. ASSUME NEW i \in Nat
      PROVE  UpTo(i, n) \in 0..n /\ (i * MaxLength >= n => UpTo(i, n) = n)
    <2> DEFINE k == i * MaxLength
    <2>1. k \in Nat /\ UpTo(i, n) = IF k <= n THEN k ELSE n
        BY <1>2 DEF UpTo
    <2> HIDE DEF k
    <2>2. UpTo(i, n) \in 0..n /\ (k >= n => UpTo(i, n) = n)
        BY <2>1
    <2> QED
        BY <2>2 DEF k
<1>5. UpTo(0, n) = 0
    BY <1>3 DEF UpTo
<1> QED
    BY <1>4, <1>5

\* The pieces of a body, one behind the other, are the body.
LEMMA PieceParts ==
    ASSUME NEW body \in Seq(Units), NEW n, n = Len(body)
    PROVE  \E q \in Nat :
              /\ UpTo(q, n) = n
              /\ Pieces(body) \in Seq(Seq(Units)) /\ Len(Pieces(body)) = q
              /\ \A i \in 1..q :
                    /\ Len(Pieces(body)[i]) = UpTo(i, n) - UpTo(i - 1, n)
                    /\ \A j \in 1..Len(Pieces(body)[i]) :
                          Pieces(body)[i][j] = body[UpTo(i - 1, n) + j]
<1>1. PICK q \in Nat : q = (n + MaxLength - 1) \div MaxLength /\ q * MaxLength >= n
    BY EnoughPieces
<1>2. n \in Nat /\ UpTo(q, n) = n
    BY <1>1, UpToParts
<1>3. Pieces(body) = [i \in 1..q |->
                        SubSeq(body, (i - 1) * MaxLength + 1, Min({i * MaxLength, n}))]
    BY <1>1 DEF Pieces
<1>4. ASSUME NEW i \in 1..q
      PROVE  /\ Pieces(body)[i] \in Seq(Units)
             /\ Len(Pieces(body)[i]) = UpTo(i, n) - UpTo(i - 1, n)
             /\ \A j \in 1..Len(Pieces(body)[i]) :
                   Pieces(body)[i][j] = body[UpTo(i - 1, n) + j]
    <2> DEFINE p == (i - 1) * MaxLength
               a == UpTo(i - 1, n)
               b == UpTo(i, n)
    <2>1. p \in Nat /\ i * MaxLength = p + MaxLength
        <3>1. ASSUME NEW m \in Nat \ {0} PROVE (i - 1) * m \in Nat /\ i * m = (i - 1) * m + m
            OBVIOUS
        <3> QED
            BY <3>1, MaxLengthAssumption
    <2>2. b = Min({i * MaxLength, n})
        BY <1>2, <2>1, LeastOfTwo, MaxLengthAssumption DEF UpTo
    <2>3. Pieces(body)[i] = SubSeq(body, p + 1, b)
        BY <1>3, <2>2
    <2>4. /\ a = IF p <= n THEN p ELSE n
          /\ b = IF p + MaxLength <= n THEN p + MaxLength ELSE n
        BY <2>1 DEF UpTo
    <2> HIDE DEF p, a, b
    <2>5. /\ a \in 0..n /\ b \in 0..n
          /\ p + 1 <= b => a = p
          /\ ~(p + 1 <= b) => a = b
        BY <1>2, <2>1, <2>4, MaxLengthAssumption
    <2>6. /\ SubSeq(body, p + 1, b) \in Seq(Units)
          /\ Len(SubSeq(body, p + 1, b)) = IF p + 1 <= b THEN b - p ELSE 0
          /\ \A j \in 1..b - p : SubSeq(body, p + 1, b)[j] = body[p + j]
        <3>1. p + 1 \in Int /\ b \in Int /\ \A j \in p + 1 .. b : body[j] \in Units
            BY <1>2, <2>1, <2>5
        <3>2. b - (p + 1) + 1 = b - p /\ \A j \in 1..b - p : p + 1 + j - 1 = p + j
            BY <1>2, <2>1, <2>5
        <3> QED
            BY <3>1, <3>2, SubSeqProperties
    <2>7. /\ Pieces(body)[i] \in Seq(Units)
          /\ Len(Pieces(body)[i]) = b - a
          /\ \A j \in 1..Len(Pieces(body)[i]) : Pieces(body)[i][j] = body[a + j]
        BY <1>2, <2>1, <2>3, <2>5, <2>6
    <2> QED
        BY <2>7 DEF a, b
<1>5. Pieces(body) \in Seq(Seq(Units)) /\ Len(Pieces(body)) = q
    <2>1. Pieces(body) \in [1..q -> Seq(Units)]
        BY <1>3, <1>4
    <2> QED
        BY <2>1, SeqDef
<1> QED
    BY <1>2, <1>4, <1>5

\* The records a message is sent as spell it.
LEMMA RecordsSpell ==
    ASSUME NEW m \in Messages
    PROVE  /\ Spells(Records(m), Text(m), 0, Len(Text(m)))
           /\ Records(m) # <<>> /\ Len(Head(Records(m))) >= Len(Line(m))
           /\ m.pieces \/ Records(m) = <<Text(m)>>
<1> DEFINE text == Text(m)
           L == Len(Line(m))
           B == Len(m.body)
<1>1. /\ L \in Nat \ {0} /\ B \in Nat
      /\ text \in Seq(Units) /\ Len(text) = L + B
      /\ \A j \in 1..L : text[j] = Line(m)[j]
      /\ \A j \in 1..B : text[L + j] = m.body[j]
    <2>1. m.body \in Seq(Units) /\ m.name \in Seq(Units) /\ L = Len(m.name) + 3
        BY TextParts
    <2>2. L \in Nat \ {0} /\ B \in Nat
        BY <2>1
    <2>3. text \in Seq(Units) /\ Len(text) = L + B
        BY TextParts
    <2>4. \A j \in 1..L : text[j] = Line(m)[j]
        BY TextParts
    <2>5. \A j \in 1..B : text[L + j] = m.body[j]
        BY TextParts
    <2> QED
        BY <2>2, <2>3, <2>4, <2>5
<1>2. CASE ~m.pieces
    <2>1. Records(m) = <<text>>
        BY <1>2 DEF Records, Text
    <2> HIDE DEF text, L, B
    <2> DEFINE e == [i \in 0..1 |-> IF i = 0 THEN 0 ELSE Len(text)]
    <2>2. e \in [0..1 -> 0..Len(text)] /\ e[0] = 0 /\ e[1] = Len(text)
        BY <1>1
    <2> HIDE DEF e
    <2>3. /\ <<text>> \in Seq(Seq(Units)) /\ Len(<<text>>) = 1
          /\ <<text>>[1] = text /\ Head(<<text>>) = text /\ <<text>> # <<>>
        BY <1>1
    <2>4. ASSUME NEW i \in 1..1
          PROVE  /\ Len(<<text>>[i]) = e[i] - e[i - 1]
                 /\ \A j \in 1..Len(<<text>>[i]) : <<text>>[i][j] = text[e[i - 1] + j]
        <3>1. i = 1 /\ i - 1 = 0
            OBVIOUS
        <3> QED
            BY <1>1, <2>2, <2>3, <3>1
    <2>5. Spells(<<text>>, text, 0, Len(text))
        BY <2>2, <2>3, <2>4 DEF Spells
    <2>6. Len(text) >= L
        BY <1>1
    <2> QED
        BY <2>1, <2>3, <2>5, <2>6 DEF text, L
<1>3. CASE m.pieces
    <2> DEFINE s == Records(m)
               p == Pieces(m.body)
    <2>1. PICK q \in Nat :
              /\ UpTo(q, B) = B
              /\ p \in Seq(Seq(Units)) /\ Len(p) = q
              /\ \A i \in 1..q :
                    /\ Len(p[i]) = UpTo(i, B) - UpTo(i - 1, B)
                    /\ \A j \in 1..Len(p[i]) : p[i][j] = m.body[UpTo(i - 1, B) + j]
        <3>1. m.body \in Seq(Units)
            BY TextParts
        <3> QED
            BY <3>1, PieceParts
    <2>2. /\ s \in Seq(Seq(Units)) /\ Len(s) = q + 1 /\ s[1] = Line(m)
          /\ \A i \in 1..q : s[i + 1] = p[i]
        <3>1. <<Line(m)>> \in Seq(Seq(Units)) /\ Len(<<Line(m)>>) = 1 /\ <<Line(m)>>[1] = Line(m)
            BY TextParts
        <3>2. s = <<Line(m)>> \o p
            BY <1>3 DEF Records
        <3> HIDE DEF s, p
        <3> QED
            BY <2>1, <3>1, <3>2, ConcatProperties
    <2>3. UpTo(0, B) = 0 /\ \A i \in 0..q : UpTo(i, B) \in 0..B
        <3>1. B \in Nat /\ \A i \in 0..q : i \in Nat
            BY <1>1
        <3> HIDE DEF B
        <3> QED
            BY <3>1, UpToParts
    <2> HIDE DEF s, p, text, L, B
    <2> DEFINE e == [i \in 0..q + 1 |-> IF i = 0 THEN 0 ELSE L + UpTo(i - 1, B)]
    <2>4. ASSUME NEW i \in 0..q + 1
          PROVE  (IF i = 0 THEN 0 ELSE L + UpTo(i - 1, B)) \in 0..Len(text)
        <3>1. CASE i = 0
            BY <1>1, <3>1
        <3>2. CASE i # 0
            <4>1. UpTo(i - 1, B) \in 0..B
                BY <2>3, <3>2
            <4> QED
                BY <1>1, <3>2, <4>1
        <3> QED
            BY <3>1, <3>2
    <2>5. e \in [0..Len(s) -> 0..Len(text)]
        BY <2>2, <2>4
    <2>6. /\ e[0] = 0
          /\ \A i \in 0..q : e[i + 1] = L + UpTo(i, B)
        OBVIOUS
    <2> HIDE DEF e
    <2>7. e[1] = L /\ e[Len(s)] = Len(text)
        <3>1. 0 \in 0..q /\ 0 + 1 = 1 /\ q \in 0..q
            OBVIOUS
        <3> QED
            BY <1>1, <2>1, <2>2, <2>3, <2>6, <3>1
    <2>8. ASSUME NEW i \in 1..Len(s)
          PROVE  /\ Len(s[i]) = e[i] - e[i - 1]
                 /\ \A j \in 1..Len(s[i]) : s[i][j] = text[e[i - 1] + j]
        <3>1. CASE i = 1
            <4>1. s[i] = Line(m) /\ e[i] = L /\ e[i - 1] = 0
                BY <2>2, <2>6, <2>7, <3>1
            <4> QED
                BY <1>1, <4>1 DEF L
        <3>2. CASE i # 1
            <4>1. PICK k \in 1..q : i = k + 1
                <5>1. i - 1 \in 1..q /\ i = i - 1 + 1
                    BY <2>2, <3>2
                <5> QED
                    BY <5>1
            <4>2. /\ s[i] = p[k] /\ e[i] = L + UpTo(k, B) /\ e[i - 1] = L + UpTo(k - 1, B)
                  /\ UpTo(k, B) \in 0..B /\ UpTo(k - 1, B) \in 0..B
                <5>1. k \in 0..q /\ k - 1 \in 0..q /\ k - 1 + 1 = k /\ i - 1 = k
                    BY <4>1
                <5> QED
                    BY <2>2, <2>3, <2>6, <4>1, <5>1
            <4>3. Len(p[k]) = UpTo(k, B) - UpTo(k - 1, B)
                BY <2>1
            <4>4. ASSUME NEW j \in 1..Len(p[k]) PROVE p[k][j] = text[e[i - 1] + j]
                <5>1. /\ UpTo(k - 1, B) + j \in 1..B
                      /\ e[i - 1] + j = L + (UpTo(k - 1, B) + j)
                    <6>1. /\ L \in Nat /\ B \in Nat
                          /\ j \in Nat \ {0} /\ j <= UpTo(k, B) - UpTo(k - 1, B)
                        BY <1>1, <4>2, <4>3
                    <6> QED
                        BY <4>2, <6>1, SMTT(30)
                <5> QED
                    BY <1>1, <2>1, <5>1
            <4> QED
                BY <1>1, <4>2, <4>3, <4>4
        <3> QED
            BY <3>1, <3>2
    <2>9. Spells(s, text, 0, Len(text))
        BY <2>2, <2>5, <2>6, <2>7, <2>8 DEF Spells
    <2>10. s # <<>> /\ Head(s) = Line(m)
        BY <2>2
    <2> QED
        BY <1>1, <1>3, <2>9, <2>10 DEF s, text, L
<1>4. m.pieces \/ ~m.pieces
    OBVIOUS
<1> QED
    BY <1>2, <1>3, <1>4


-------------------------------------------------------------------------------
\* Where the delimiter is found first.
LEMMA FirstFound ==
    ASSUME NEW data \in Seq(Units), Found(data) # {}
    PROVE  /\ Min(Found(data)) \in Found(data)
           /\ \A i \in Found(data) : Min(Found(data)) <= i
<1>1. Found(data) \in SUBSET Nat
    BY DEF Found
<1>2. PICK i \in Found(data) : \A j \in Found(data) : <<j, i>> \notin OpToRel(<, Nat)
    BY <1>1, NatLessThanWellFounded, WFMin
<1>3. \A j \in Found(data) : i <= j
    <2>1. \A j \in Found(data) : i \in Nat /\ j \in Nat /\ ~(j < i)
        BY <1>1, <1>2 DEF OpToRel
    <2> QED
        BY <2>1
<1> QED
    BY <1>2, <1>3 DEF Min

LEMMA HandleBodyTypes ==
    ASSUME NEW p \in Types, NEW data \in Seq(Units), TypeOK, session = "open",
           NEW stored \in {NoFile} \union [path : Seq(Units), data : Seq(Units)],
           HandleBody(p, stored, data)
    PROVE  /\ session' \in {"open", "closed"}
           /\ file' \in {NoFile} \union [path : Seq(Units), data : Seq(Units)]
           /\ accepted' \in Seq(Documents)
<1>1. p # NoFile
    BY NoFileAssumption
<1>2. file \in {NoFile} \union [path : Seq(Units), data : Seq(Units)] /\ accepted \in Seq(Documents)
    BY DEF TypeOK
<1>3. CASE p = "Filename: " /\ stored = NoFile
    BY <1>1, <1>2, <1>3 DEF HandleBody, Refuse
<1>4. CASE p = "Filename: " /\ stored # NoFile
    <2>1. file' = [stored EXCEPT !.data = @ \o data] /\ UNCHANGED <<session, accepted>>
        BY <1>1, <1>4 DEF HandleBody
    <2>2. stored \in [path : Seq(Units), data : Seq(Units)]
        BY <1>4
    <2>3. stored.data \in Seq(Units)
        BY <2>2
    <2>4. stored.data \o data \in Seq(Units)
        BY <2>3, ConcatProperties
    <2>5. file' \in [path : Seq(Units), data : Seq(Units)]
        BY <2>1, <2>2, <2>4
    <2> QED
        BY <1>2, <2>1, <2>5
<1>5. CASE p = "Authentication: "
    <2>1. CASE IsJson(data)
        <3>1. accepted' = Append(accepted, data) /\ UNCHANGED <<session, file>>
            BY <1>1, <1>5, <2>1 DEF HandleBody
        <3>2. Append(accepted, data) \in Seq(Documents)
            BY <1>2, <2>1, AppendProperties DEF IsJson
        <3> QED
            BY <1>2, <3>1, <3>2
    <2>2. CASE ~IsJson(data)
        BY <1>1, <1>2, <1>5, <2>2 DEF HandleBody, Refuse
    <2> QED
        BY <2>1, <2>2
<1> QED
    BY <1>3, <1>4, <1>5 DEF Types

\* The header and what follows it, when its delimiter is at i.
LEMMA Cut ==
    ASSUME NEW data \in Seq(Units), NEW i \in Found(data)
    PROVE  /\ i \in 1..Len(data) - 1 /\ data[i] = "eol" /\ data[i + 1] = "eol"
           /\ SubSeq(data, 1, i - 1) \in Seq(Units)
           /\ Len(SubSeq(data, 1, i - 1)) = i - 1
           /\ \A j \in 1..i - 1 : SubSeq(data, 1, i - 1)[j] = data[j]
           /\ After(data, i) \in Seq(Units)
           /\ Len(After(data, i)) = Len(data) - (i + 1)
           /\ \A j \in 1..Len(data) - (i + 1) : After(data, i)[j] = data[i + 1 + j]
<1>1. i \in 1..Len(data) - 1 /\ SubSeq(data, i, i + 1) = <<"eol", "eol">>
    BY DEF Found, Delimiter
<1>2. data[i] = "eol" /\ data[i + 1] = "eol"
    <2>1. SubSeq(data, i, i + 1)[1] = data[i] /\ SubSeq(data, i, i + 1)[2] = data[i + 1]
        BY <1>1
    <2>2. <<"eol", "eol">>[1] = "eol" /\ <<"eol", "eol">>[2] = "eol"
        OBVIOUS
    <2> QED
        BY <1>1, <2>1, <2>2
<1>3. /\ SubSeq(data, 1, i - 1) \in Seq(Units)
      /\ Len(SubSeq(data, 1, i - 1)) = i - 1
      /\ \A j \in 1..i - 1 : SubSeq(data, 1, i - 1)[j] = data[j]
    <2>1. 1 \in Int /\ i - 1 \in Int /\ \A j \in 1 .. i - 1 : data[j] \in Units
        BY <1>1
    <2>2. /\ i - 1 - 1 + 1 = i - 1 /\ \A j \in 1..i - 1 : 1 + j - 1 = j
          /\ (IF 1 <= i - 1 THEN i - 1 - 1 + 1 ELSE 0) = i - 1
        BY <1>1
    <2> QED
        BY <2>1, <2>2, SubSeqProperties
<1>4. After(data, i) = SubSeq(data, i + 2, Len(data))
    BY DEF After, Delimiter
<1>5. /\ SubSeq(data, i + 2, Len(data)) \in Seq(Units)
      /\ Len(SubSeq(data, i + 2, Len(data))) = Len(data) - (i + 1)
      /\ \A j \in 1..Len(data) - (i + 1) : SubSeq(data, i + 2, Len(data))[j] = data[i + 1 + j]
    <2>1. i + 2 \in Int /\ Len(data) \in Int /\ \A j \in i + 2 .. Len(data) : data[j] \in Units
        BY <1>1
    <2>2. /\ Len(data) - (i + 2) + 1 = Len(data) - (i + 1)
          /\ \A j \in 1..Len(data) - (i + 1) : i + 2 + j - 1 = i + 1 + j
        BY <1>1
    <2>3. (IF i + 2 <= Len(data) THEN Len(data) - (i + 2) + 1 ELSE 0) = Len(data) - (i + 1)
        BY <1>1
    <2> QED
        BY <2>1, <2>2, <2>3, SubSeqProperties
<1> QED
    BY <1>1, <1>2, <1>3, <1>4, <1>5

\* A piece that is read leaves the types right and finds a parser to go to.
LEMMA ParseTypes ==
    ASSUME NEW data \in Seq(Units), TypeOK, Chosen, session = "open", Parse(data)
    PROVE  /\ session' \in {"open", "closed"}
           /\ header' \in Seq(Units) /\ current' \in Types \union {NoFile}
           /\ file' \in {NoFile} \union [path : Seq(Units), data : Seq(Units)]
           /\ accepted' \in Seq(Documents) /\ refused' \in BOOLEAN
           /\ session' = "open" /\ header' # <<>> => current' # NoFile
<1>1. CASE header = <<>> /\ Found(data) = {}
    <2>1. UNCHANGED parser
        BY <1>1 DEF Parse
    <2> QED
        BY <1>1, <2>1 DEF parser, TypeOK
<1>2. CASE header # <<>>
    <2>1. HandleBody(current, file, data) /\ UNCHANGED <<header, current, refused>>
        BY <1>2 DEF Parse
    <2>2. current \in Types /\ current # NoFile
        BY <1>2 DEF TypeOK, Chosen
    <2> QED
        BY <2>1, <2>2, HandleBodyTypes DEF TypeOK
<1>3. CASE header = <<>> /\ Found(data) # {}
    <2> DEFINE i == Min(Found(data))
               h == SubSeq(data, 1, i - 1)
               d == After(data, i)
    <2>1. HandleHeader(h, d)
        BY <1>3 DEF Parse
    <2>2. h \in Seq(Units) /\ d \in Seq(Units)
        BY <1>3, FirstFound, Cut
    <2> HIDE DEF h, d
    <2>3. CASE ~Typed(h)
        BY <2>1, <2>2, <2>3 DEF HandleHeader, Refuse, TypeOK
    <2>4. CASE Typed(h)
        <3>1. header' = h /\ current' = h[1] /\ h[1] \in Types /\ h[1] # NoFile
            BY <2>1, <2>4, NoFileAssumption DEF HandleHeader, Typed
        <3>2. CASE h[1] = "Authentication: "
            <4>1. HandleBody(h[1], file, d) /\ UNCHANGED refused
                BY <2>1, <2>4, <3>2 DEF HandleHeader
            <4> QED
                BY <2>2, <3>1, <4>1, HandleBodyTypes DEF TypeOK
        <3>3. CASE h[1] = "Filename: "
            <4>1. OpenFile(Tail(h), d)
                BY <2>1, <2>4, <3>3 DEF HandleHeader
            <4>2. CASE Refuse /\ refused' = TRUE /\ UNCHANGED <<file, accepted>>
                BY <2>2, <3>1, <4>2 DEF Refuse, TypeOK
            <4>3. CASE /\ HandleBody("Filename: ", [path |-> Tail(h), data |-> <<>>], d)
                       /\ UNCHANGED refused
                <5>1. /\ "Filename: " \in Types
                      /\ [path |-> Tail(h), data |-> <<>>] \in [path : Seq(Units), data : Seq(Units)]
                    <6>1. Tail(h) \in Seq(Units) /\ <<>> \in Seq(Units)
                        BY <2>2, <2>4 DEF Typed
                    <6> QED
                        BY <6>1 DEF Types
                <5> QED
                    BY <2>2, <3>1, <4>3, <5>1, HandleBodyTypes DEF TypeOK
            <4> QED
                BY <4>1, <4>2, <4>3 DEF OpenFile
        <3> QED
            BY <3>1, <3>2, <3>3 DEF Types
    <2> QED
        BY <2>3, <2>4
<1> QED
    BY <1>1, <1>2, <1>3


\* What a read is cut into.
HeaderIn(data) == SubSeq(data, 1, Min(Found(data)) - 1)
BodyIn(data) == After(data, Min(Found(data)))

\* A first read with the whole line in it finds the line's end, and no other.
LEMMA FirstRead ==
    ASSUME NEW m \in Messages, NEW data \in Seq(Units), Len(data) >= Len(Line(m)),
           \A j \in 1..Len(data) : data[j] = Text(m)[j], Len(data) <= Len(Text(m))
    PROVE  /\ Found(data) # {}
           /\ Typed(HeaderIn(data)) /\ HeaderIn(data) \in Seq(Units) /\ HeaderIn(data) # <<>>
           /\ HeaderIn(data)[1] = m.type /\ Tail(HeaderIn(data)) = m.name
           /\ BodyIn(data) \in Seq(Units) /\ Len(BodyIn(data)) = Len(data) - Len(Line(m))
           /\ \A j \in 1..Len(BodyIn(data)) : BodyIn(data)[j] = m.body[j]
<1> DEFINE i == Min(Found(data))
           h == HeaderIn(data)
           d == BodyIn(data)
<1>0. i = Min(Found(data)) /\ h = SubSeq(data, 1, i - 1) /\ d = After(data, i)
    BY DEF HeaderIn, BodyIn
<1> HIDE DEF i, h, d
<1> DEFINE e == Len(m.name) + 2
<1>1. /\ m.type \in Types /\ m.name \in Seq(Units) /\ m.body \in Seq(Units)
      /\ Len(Line(m)) = Len(m.name) + 3 /\ Len(Text(m)) = Len(Line(m)) + Len(m.body)
    BY TextParts
<1>2. /\ Len(m.name) \in Nat /\ Len(m.body) \in Nat /\ Len(data) \in Nat
      /\ e \in 2..Len(data) - 1 /\ e = Len(m.name) + 2
    BY <1>1
<1> HIDE DEF e
<1>3. \A j \in 1..e + 1 : data[j] = Line(m)[j]
    <2>1. \A j \in 1..e + 1 : j \in 1..Len(Line(m)) /\ j \in 1..Len(data)
        BY <1>1, <1>2
    <2> QED
        BY <2>1, TextParts
<1>4. /\ data[1] = m.type
      /\ \A j \in 1..Len(m.name) : data[j + 1] = m.name[j]
      /\ data[e] = "eol" /\ data[e + 1] = "eol"
    <2>1. /\ 1 \in 1..e + 1 /\ e \in 1..e + 1 /\ e + 1 \in 1..e + 1
          /\ \A j \in 1..Len(m.name) : j + 1 \in 1..e + 1
          /\ e + 1 = Len(m.name) + 3
        BY <1>2
    <2>2. \A j \in 1..Len(m.name) : data[j + 1] = Line(m)[j + 1]
        BY <1>3, <2>1
    <2>3. data[1] = Line(m)[1] /\ data[e] = Line(m)[e] /\ data[e + 1] = Line(m)[e + 1]
        BY <1>3, <2>1
    <2>4. /\ Line(m)[1] = m.type
          /\ \A j \in 1..Len(m.name) : Line(m)[j + 1] = m.name[j]
          /\ Line(m)[e] = "eol" /\ Line(m)[e + 1] = "eol"
        BY <1>2, <2>1, TextParts
    <2> QED
        BY <2>2, <2>3, <2>4
<1>5. e \in Found(data)
    <2>1. /\ Len(SubSeq(data, e, e + 1)) = 2 /\ SubSeq(data, e, e + 1) \in Seq(Units)
          /\ SubSeq(data, e, e + 1)[1] = data[e] /\ SubSeq(data, e, e + 1)[2] = data[e + 1]
        <3>1. e \in Int /\ e + 1 \in Int /\ \A j \in e .. e + 1 : data[j] \in Units
            BY <1>2
        <3>2. /\ (IF e <= e + 1 THEN e + 1 - e + 1 ELSE 0) = 2
              /\ 1 \in 1 .. e + 1 - e + 1 /\ 2 \in 1 .. e + 1 - e + 1
              /\ e + 1 - 1 = e /\ e + 2 - 1 = e + 1
            BY <1>2
        <3> QED
            BY <3>1, <3>2, SubSeqProperties
    <2>2. /\ Len(<<"eol", "eol">>) = 2 /\ <<"eol", "eol">> \in Seq(Units)
          /\ <<"eol", "eol">>[1] = "eol" /\ <<"eol", "eol">>[2] = "eol"
        BY UnitsAssumption
    <2>3. \A j \in 1..2 : SubSeq(data, e, e + 1)[j] = <<"eol", "eol">>[j]
        <3>1. \A j \in 1..2 : j = 1 \/ j = 2
            OBVIOUS
        <3> QED
            BY <1>4, <2>1, <2>2, <3>1
    <2>4. SubSeq(data, e, e + 1) = <<"eol", "eol">>
        BY <2>1, <2>2, <2>3, SeqEqual
    <2> QED
        BY <1>2, <2>4 DEF Found, Delimiter
<1>6. Found(data) # {} /\ i \in Found(data) /\ i <= e
    BY <1>0, <1>5, FirstFound
<1>7. i = e
    <2>1. i \in 1..Len(data) - 1 /\ data[i] = "eol"
        BY <1>6, Cut
    <2>2. i # 1
        BY <1>1, <1>4, <2>1 DEF Types
    <2>3. ASSUME i < e PROVE FALSE
        <3>1. i - 1 \in 1..Len(m.name) /\ i - 1 + 1 = i
            BY <1>2, <2>1, <2>2, <2>3
        <3>2. m.name[i - 1] = "eol"
            BY <1>4, <2>1, <3>1
        <3>3. i - 1 \in DOMAIN m.name
            BY <1>1, <3>1
        <3> QED
            BY <3>2, <3>3, NamesAssumption
    <2> QED
        BY <1>2, <1>6, <2>1, <2>3
<1>8. /\ h \in Seq(Units) /\ Len(h) = Len(m.name) + 1
      /\ \A j \in 1..Len(m.name) + 1 : h[j] = data[j]
    <2>1. i - 1 = Len(m.name) + 1
        BY <1>2, <1>7
    <2> QED
        BY <1>0, <1>6, <2>1, Cut
<1>9. h # <<>> /\ h[1] = m.type
    <2>1. Len(h) # 0 /\ 1 \in 1..Len(m.name) + 1
        BY <1>2, <1>8, SMTT(30)
    <2> QED
        BY <1>4, <1>8, <2>1
<1>10. Tail(h) = m.name
    <2>1. /\ Tail(h) \in Seq(Units) /\ Len(Tail(h)) = Len(m.name)
          /\ \A j \in 1..Len(m.name) : Tail(h)[j] = h[j + 1]
        <3>1. /\ Tail(h) \in Seq(Units) /\ Len(Tail(h)) = Len(h) - 1
              /\ \A j \in 1..Len(Tail(h)) : Tail(h)[j] = h[j + 1]
            BY <1>8, <1>9, HeadTailProperties
        <3>2. Len(h) - 1 = Len(m.name)
            BY <1>2, <1>8
        <3> QED
            BY <3>1, <3>2
    <2>2. \A j \in 1..Len(m.name) : j + 1 \in 1..Len(m.name) + 1
        BY <1>2
    <2>3. \A j \in 1..Len(m.name) : Tail(h)[j] = m.name[j]
        BY <1>4, <1>8, <2>1, <2>2
    <2> QED
        BY <1>1, <2>1, <2>3, SeqEqual
<1>11. d \in Seq(Units) /\ Len(d) = Len(data) - Len(Line(m))
       /\ \A j \in 1..Len(d) : d[j] = data[Len(Line(m)) + j]
    <2>1. i + 1 = Len(Line(m))
        BY <1>1, <1>2, <1>7
    <2>2. /\ d \in Seq(Units) /\ Len(d) = Len(data) - (i + 1)
          /\ \A j \in 1..Len(data) - (i + 1) : d[j] = data[i + 1 + j]
        BY <1>0, <1>6, Cut
    <2> QED
        BY <2>1, <2>2
<1>12. \A j \in 1..Len(d) : d[j] = m.body[j]
    <2>1. ASSUME NEW j \in 1..Len(d)
          PROVE  Len(Line(m)) + j \in 1..Len(data) /\ j \in 1..Len(m.body)
        <3>1. Len(Line(m)) \in Nat /\ Len(d) \in Nat
            BY <1>1, <1>2, <1>11
        <3>2. Len(d) <= Len(m.body)
            <4>1. Len(data) <= Len(Line(m)) + Len(m.body)
                BY <1>1
            <4> QED
                BY <1>2, <1>11, <3>1, <4>1
        <3>3. j <= Len(data) - Len(Line(m))
            BY <1>11, <3>1
        <3> QED
            BY <1>2, <3>1, <3>2, <3>3
    <2>2. ASSUME NEW j \in 1..Len(d) PROVE d[j] = m.body[j]
        <3>1. d[j] = data[Len(Line(m)) + j] /\ data[Len(Line(m)) + j] = Text(m)[Len(Line(m)) + j]
            BY <1>11, <2>1
        <3>2. Text(m)[Len(Line(m)) + j] = m.body[j]
            BY <2>1, TextParts
        <3> QED
            BY <3>1, <3>2
    <2> QED
        BY <2>2
<1> QED
    BY <1>1, <1>6, <1>8, <1>9, <1>10, <1>11, <1>12 DEF Typed, h, d

-------------------------------------------------------------------------------
\* Nothing that Prefix speaks of changes but when what comes is read.
LEMMA SameComing ==
    ASSUME IInv, Coming' = Coming, UNCHANGED <<message, broken, parser>>
    PROVE  Prefix' /\ Chosen'
<1>1. UNCHANGED <<message, broken, session, header, current, file, accepted, refused>>
    BY DEF parser
<1>0. broken' <=> broken
    OBVIOUS
<1>2. ASSUME NEW k, InOrder(k) PROVE InOrder(k)'
    BY <1>1, <1>2 DEF InOrder
<1>3. ASSUME Fresh PROVE Fresh'
    BY <1>1, <1>2, <1>3 DEF Fresh
<1>4. ASSUME Storing PROVE Storing'
    BY <1>0, <1>1, <1>2, <1>4 DEF Storing
<1>5. ASSUME Accepting PROVE Accepting'
    BY <1>1, <1>5 DEF Accepting
<1> QED
    BY <1>1, <1>3, <1>4, <1>5 DEF IInv, Prefix, Chosen

LEMMA InitIInv == Init => IInv
<1> SUFFICES ASSUME Init PROVE IInv
    OBVIOUS
<1>1. /\ message \in Messages /\ Records(message) \in Seq(Seq(Units))
      /\ Spells(Records(message), Text(message), 0, Len(Text(message)))
      /\ Records(message) # <<>> /\ Len(Head(Records(message))) >= Len(Line(message))
      /\ message.pieces \/ Records(message) = <<Text(message)>>
    BY RecordsSpell DEF Init, Spells
<1>2. TypeOK
    <2>1. \A S : <<>> \in Seq(S)
        OBVIOUS
    <2> QED
        BY <1>1, <2>1 DEF Init, TypeOK
<1>3. Coming = Records(message)
    BY <1>1, ConcatEmptySeq DEF Init, Coming
<1>4. InOrder(0)
    <2>1. Len(Text(message)) \in 0..Len(Text(message))
        BY <1>1, TextParts
    <2> QED
        BY <1>1, <1>3, <2>1 DEF InOrder
<1>5. Fresh /\ header = <<>>
    BY <1>1, <1>3, <1>4 DEF Init, Fresh
<1> QED
    BY <1>2, <1>5 DEF Init, IInv, Prefix, Chosen

LEMMA SendIInv == ASSUME IInv, Send PROVE IInv'
<1>1. /\ wire \in Seq(Seq(Units)) /\ unsent \in Seq(Seq(Units)) /\ unsent # <<>>
      /\ wire' = Append(wire, Head(unsent)) /\ unsent' = Tail(unsent)
      /\ UNCHANGED <<message, broken, parser>>
    BY DEF IInv, TypeOK, Send
<1>2. Head(unsent) \in Seq(Units) /\ Tail(unsent) \in Seq(Seq(Units))
    BY <1>1
<1>3. wire' \in Seq(Seq(Units)) /\ unsent' \in Seq(Seq(Units))
    BY <1>1, <1>2
<1>4. Coming' = Coming
    <2>1. wire' = wire \o <<Head(unsent)>> /\ <<Head(unsent)>> \in Seq(Seq(Units))
        BY <1>1, <1>2, AppendIsConcat
    <2>2. <<Head(unsent)>> \o Tail(unsent) = unsent
        BY <1>1, <1>2
    <2> QED
        BY <1>1, <1>2, <2>1, <2>2, ConcatAssociative DEF Coming
<1>5. TypeOK'
    BY <1>1, <1>3 DEF IInv, TypeOK, parser
<1> QED
    BY <1>1, <1>4, <1>5, SameComing DEF IInv

LEMMA BreakIInv == ASSUME IInv, Break PROVE IInv'
<1>1. /\ wire \in Seq(Seq(Units)) /\ unsent \in Seq(Seq(Units))
      /\ unsent' = <<>> /\ broken' /\ UNCHANGED <<message, parser>>
      /\ wire' \in {<<>>, wire}
    BY DEF IInv, TypeOK, Break
<1>2. UNCHANGED <<session, header, current, file, accepted, refused>>
    BY <1>1 DEF parser
<1>3. <<>> \in Seq(Seq(Units)) /\ wire' \in Seq(Seq(Units)) /\ Coming' = wire'
    <2>1. <<>> \in Seq(Seq(Units)) /\ Coming' = wire' \o <<>>
        BY <1>1 DEF Coming
    <2>2. wire' \in Seq(Seq(Units))
        BY <1>1, <2>1
    <2> QED
        BY <2>1, <2>2, ConcatEmptySeq
<1>4. TypeOK'
    BY <1>1, <1>2, <1>3 DEF IInv, TypeOK
<1>5. ASSUME NEW k, InOrder(k) PROVE InOrder(k)'
    <2>1. message \in Messages /\ Text(message) \in Seq(Units) /\ Len(Text(message)) \in Nat
        BY TextParts DEF IInv, TypeOK
    <2>2. PICK n \in 0..Len(Text(message)) : Spells(Coming, Text(message), k, n)
        BY <1>5 DEF InOrder
    <2>3. \E i \in 0..Len(Text(message)) : Spells(wire', Text(message), k, i)
        <3>1. CASE wire' = wire
            BY <1>1, <2>1, <2>2, <3>1, SpellsPrefix DEF Coming
        <3>2. CASE wire' = <<>>
            <4>1. k \in 0..Len(Text(message))
                <5>1. Coming \in Seq(Seq(Units))
                    BY <1>1, ConcatProperties DEF Coming
                <5>2. 0 \in 0..Len(Coming)
                    BY <5>1
                <5> QED
                    BY <2>2, <5>2 DEF Spells
            <4> QED
                BY <2>1, <3>2, <4>1, SpellsNothing
        <3> QED
            BY <1>1, <3>1, <3>2
    <2> QED
        BY <1>1, <1>3, <2>3 DEF InOrder
<1>6. ASSUME Fresh PROVE Fresh'
    <2>1. ASSUME wire' # <<>>
          PROVE  /\ Len(Head(wire')) >= Len(Line(message))
                 /\ message.pieces \/ wire' = <<Text(message)>>
        <3>1. wire' = wire /\ wire # <<>>
            BY <1>1, <2>1
        <3>2. /\ Coming # <<>> /\ Head(Coming) = Head(wire)
              /\ Len(Coming) = Len(wire) + Len(unsent) /\ Coming[1] = wire[1]
            BY <1>1, <3>1 DEF Coming
        <3>3. ASSUME Coming = <<Text(message)>> PROVE wire = <<Text(message)>>
            <4>1. Len(wire) = 1 /\ wire[1] = Text(message)
                BY <1>1, <3>1, <3>2, <3>3
            <4> QED
                BY <1>1, <4>1
        <3> QED
            BY <1>6, <3>1, <3>2, <3>3 DEF Fresh
    <2> QED
        BY <1>1, <1>2, <1>3, <1>5, <1>6, <2>1 DEF Fresh
<1>7. ASSUME Storing PROVE Storing'
    BY <1>1, <1>2, <1>5, <1>7 DEF Storing
<1>8. ASSUME Accepting PROVE Accepting'
    <2>1. ASSUME Coming = <<>> PROVE Coming' = <<>>
        BY <1>1, <1>3, <2>1, ConcatEqualIffEmpty DEF Coming
    <2> QED
        BY <1>1, <1>2, <1>8, <2>1 DEF Accepting
<1> QED
    BY <1>1, <1>2, <1>4, <1>6, <1>7, <1>8 DEF IInv, Prefix, Chosen


\* What a read takes, and what it leaves.
LEMMA ReadParts ==
    ASSUME IInv, Read
    PROVE  \E n \in Nat, data \in Seq(Units) :
              /\ Coming \in Seq(Seq(Units)) /\ Coming # <<>> /\ session = "open"
              /\ Len(data) = n /\ Parse(data) /\ UNCHANGED client
              /\ n = (IF MaxLength <= Len(Head(Coming)) THEN MaxLength ELSE Len(Head(Coming)))
              /\ Coming' = Rest(Coming, n) /\ wire' \in Seq(Seq(Units))
              /\ n \in 0..Len(Head(Coming))
              /\ \A j \in 1..n : data[j] = Head(Coming)[j]
<1> DEFINE record == Head(wire)
           n == Min({MaxLength, Len(record)})
           data == SubSeq(record, 1, n)
<1>1. /\ wire \in Seq(Seq(Units)) /\ unsent \in Seq(Seq(Units)) /\ wire # <<>>
      /\ session = "open" /\ UNCHANGED client /\ Parse(data)
      /\ wire' = IF n = Len(record) THEN Tail(wire)
                 ELSE <<SubSeq(record, n + 1, Len(record))>> \o Tail(wire)
    BY DEF IInv, TypeOK, Read
<1>2. record \in Seq(Units) /\ Len(record) \in Nat
    BY <1>1
<1>3. /\ n = (IF MaxLength <= Len(record) THEN MaxLength ELSE Len(record))
      /\ n \in 0..Len(record)
    BY <1>2, LeastOfTwo, MaxLengthAssumption
<1> HIDE DEF n
<1>4. data \in Seq(Units) /\ Len(data) = n /\ \A j \in 1..n : data[j] = record[j]
    BY <1>2, <1>3
<1> HIDE DEF data, record
<1>5. /\ Coming \in Seq(Seq(Units)) /\ Coming # <<>> /\ Head(Coming) = record
      /\ Tail(Coming) = Tail(wire) \o unsent
    <2>1. Coming \in Seq(Seq(Units)) /\ Coming # <<>>
        BY <1>1, ConcatProperties, ConcatEqualIffEmpty DEF Coming
    <2>2. Head(Coming) = record
        BY <1>1, <2>1 DEF Coming, record
    <2>3. wire = <<record>> \o Tail(wire) /\ Tail(wire) \in Seq(Seq(Units))
        BY <1>1 DEF record
    <2>4. Coming = <<record>> \o (Tail(wire) \o unsent)
        BY <1>1, <1>2, <2>3, ConcatAssociative, SMTT(30) DEF Coming
    <2>5. Tail(wire) \o unsent \in Seq(Seq(Units))
        BY <1>1, <2>3, ConcatProperties
    <2>6. \A t \in Seq(Seq(Units)) : Tail(<<record>> \o t) = t
        BY <1>2
    <2> QED
        BY <2>1, <2>2, <2>4, <2>5, <2>6
<1>6. wire' \in Seq(Seq(Units)) /\ Coming' = Rest(Coming, n)
    <2>1. unsent' = unsent
        BY <1>1 DEF client
    <2>2. Tail(wire) \in Seq(Seq(Units))
        BY <1>1
    <2>3. CASE n = Len(record)
        BY <1>1, <1>5, <2>1, <2>2, <2>3 DEF Coming, Rest
    <2>4. CASE n # Len(record)
        <3> DEFINE left == <<SubSeq(record, n + 1, Len(record))>>
        <3>1. left \in Seq(Seq(Units))
            BY <1>2, <1>3, <2>4
        <3>2. wire' = left \o Tail(wire)
            BY <1>1, <2>4
        <3>3. Rest(Coming, n) = left \o (Tail(wire) \o unsent)
            BY <1>5, <2>4 DEF Rest
        <3> HIDE DEF left
        <3>4. Coming' = (left \o Tail(wire)) \o unsent
            BY <2>1, <3>2 DEF Coming
        <3> QED
            <4>1. left \o Tail(wire) \in Seq(Seq(Units))
                BY <2>2, <3>1, ConcatProperties
            <4>2. (left \o Tail(wire)) \o unsent = left \o (Tail(wire) \o unsent)
                <5>1. \A a, b, c \in Seq(Seq(Units)) : (a \o b) \o c = a \o (b \o c)
                    BY ConcatAssociative, SMTT(30)
                <5> QED
                    BY <1>1, <2>2, <3>1, <5>1
            <4> QED
                BY <3>2, <3>3, <3>4, <4>1, <4>2
    <2> QED
        BY <2>3, <2>4
<1>7. /\ n \in Nat /\ data \in Seq(Units) /\ Len(data) = n
      /\ n = (IF MaxLength <= Len(Head(Coming)) THEN MaxLength ELSE Len(Head(Coming)))
      /\ n \in 0..Len(Head(Coming)) /\ \A j \in 1..n : data[j] = Head(Coming)[j]
    BY <1>2, <1>3, <1>4, <1>5
<1> QED
    BY <1>1, <1>5, <1>6, <1>7

\* A header that fits in a read is there when the first has been made.
LEMMA FirstReadPrefix ==
    ASSUME IInv, HeaderFits(message), header = <<>>, UNCHANGED <<message, broken>>,
           NEW data \in Seq(Units), Parse(data), session = "open",
           \A j \in 1..Len(data) : data[j] = Text(message)[j],
           Len(data) >= Len(Line(message)), Len(data) <= Len(Text(message)),
           NEW l, l = Len(data), InOrder(l)',
           FitsInRead(message) /\ ~message.pieces =>
              Coming' = <<>> /\ Len(data) = Len(Text(message))
    PROVE  Prefix'
<1> DEFINE h == HeaderIn(data)
           d == BodyIn(data)
<1>1. message \in Messages /\ Fresh
    BY DEF IInv, TypeOK, Prefix
<1>2. /\ Found(data) # {}
      /\ Typed(h) /\ h \in Seq(Units) /\ h # <<>> /\ h[1] = message.type /\ Tail(h) = message.name
      /\ d \in Seq(Units) /\ Len(d) = Len(data) - Len(Line(message))
      /\ \A j \in 1..Len(d) : d[j] = message.body[j]
    BY <1>1, FirstRead
<1>3. HandleHeader(h, d)
    BY <1>2 DEF Parse, HeaderIn, BodyIn
<1> HIDE DEF h, d
<1>4. /\ message.type \in Types /\ message.body \in Seq(Units) /\ message.name \in Seq(Units)
      /\ Len(message.body) \in Nat /\ Len(Line(message)) \in Nat /\ Len(d) \in Nat
      /\ Len(Text(message)) = Len(Line(message)) + Len(message.body)
    <2>1. message.body \in Seq(Units) /\ Line(message) \in Seq(Units)
        BY <1>1, TextParts
    <2> QED
        BY <1>1, <1>2, <2>1, TextParts
<1>5. header' = h /\ current' = message.type
    BY <1>2, <1>3 DEF HandleHeader
<1>6. CASE message.type = "Filename: "
    <2>1. OpenFile(message.name, d)
        BY <1>2, <1>3, <1>6 DEF HandleHeader
    <2>2. file = NoFile
        BY <1>1 DEF Fresh
    <2>3. CASE Refuse /\ refused' = TRUE /\ UNCHANGED <<file, accepted>>
        <3>1. Storing'
            BY <1>5, <1>6, <2>2, <2>3 DEF Storing, Refuse
        <3> QED
            BY <1>2, <1>5, <1>6, <3>1 DEF Prefix
    <2>4. CASE /\ HandleBody("Filename: ", [path |-> message.name, data |-> <<>>], d)
               /\ UNCHANGED refused
        <3> DEFINE f == [path |-> message.name, data |-> <<>>]
        <3>1. f \in [path : Seq(Units), data : Seq(Units)] /\ f # NoFile
            <4>1. <<>> \in Seq(Units)
                OBVIOUS
            <4>2. f \in [path : Seq(Units), data : Seq(Units)]
                BY <1>4, <4>1
            <4> QED
                BY <4>2, NoFileAssumption
        <3>2. file' = [f EXCEPT !.data = @ \o d] /\ UNCHANGED session
            <4>1. "Filename: " # NoFile
                BY NoFileAssumption DEF Types
            <4> QED
                BY <2>4, <3>1, <4>1 DEF HandleBody
        <3>3. file'.path = message.name /\ file'.data = d
            BY <1>2, <3>2, ConcatEmptySeq
        <3>4. Len(d) <= Len(message.body) /\ Len(Line(message)) + Len(d) = Len(data)
            BY <1>2, <1>4
        <3>5. InOrder(l)' /\ l = Len(Line(message)) + Len(file'.data)
            BY <3>3, <3>4
        <3>6. session' = "open" /\ file' # NoFile
            <4>1. file' \in [path : Seq(Units), data : Seq(Units)]
                <5>1. f.data \o d \in Seq(Units)
                    BY <1>2, ConcatEmptySeq
                <5> QED
                    BY <3>1, <3>2, <5>1
            <4> QED
                BY <3>2, <4>1, NoFileAssumption
        <3>7. /\ Len(file'.data) <= Len(message'.body)
              /\ \A j \in 1..Len(file'.data) : file'.data[j] = message'.body[j]
            BY <1>2, <3>3, <3>4
        <3>8. Storing'
            BY <1>5, <1>6, <3>3, <3>5, <3>6, <3>7 DEF Storing
        <3> QED
            BY <1>2, <1>5, <1>6, <3>8 DEF Prefix
    <2> QED
        BY <2>1, <2>3, <2>4 DEF OpenFile
<1>7. CASE message.type = "Authentication: "
    <2>1. HandleBody("Authentication: ", file, d) /\ UNCHANGED refused
        BY <1>2, <1>3, <1>7 DEF HandleHeader
    <2>2. file' = NoFile /\ accepted = <<>>
        <3>1. "Authentication: " # NoFile
            BY NoFileAssumption DEF Types
        <3> QED
            BY <1>1, <2>1, <3>1 DEF Fresh, HandleBody
    <2>3. ~message.pieces /\ message.body \in Documents
        BY <1>1, <1>7, MessagesAssumption
    <2>4. ASSUME FitsInRead(message) PROVE Coming' = <<>> /\ accepted' = <<message.body>>
        <3>1. Coming' = <<>> /\ Len(d) = Len(message.body)
            BY <1>2, <1>4, <2>3, <2>4
        <3>2. d = message.body
            BY <1>2, <1>4, <3>1, SeqEqual
        <3>3. accepted' = Append(accepted, message.body)
            <4>1. "Authentication: " # NoFile
                BY NoFileAssumption DEF Types
            <4> QED
                BY <2>1, <2>3, <3>2, <4>1 DEF HandleBody, IsJson
        <3> QED
            BY <2>2, <3>1, <3>3
    <2>5. Accepting'
        BY <2>2, <2>4 DEF Accepting, FitsInRead, HeaderFits
    <2> QED
        BY <1>2, <1>5, <1>7, <2>5 DEF Prefix
<1> QED
    BY <1>4, <1>6, <1>7 DEF Types


\* A later read goes on with the body.
Matches(data, text, k) == \A j \in 1..Len(data) : data[j] = text[k + j]

LEMMA NextReadStores ==
    ASSUME IInv, HeaderFits(message), header # <<>>, UNCHANGED <<message, broken>>,
           NEW data \in Seq(Units), Parse(data), session = "open",
           Storing, NEW k \in Nat, k = Len(Line(message)) + Len(file.data),
           NEW l, l = k + Len(data), InOrder(l)', l <= Len(Text(message)),
           Matches(data, Text(message), k)
    PROVE  Storing' /\ header' = header
<1>1. /\ HandleBody(current, file, data) /\ UNCHANGED <<header, current, refused>>
    BY DEF Parse
<1>2. /\ message.type \in Types /\ message.body \in Seq(Units)
      /\ Len(message.body) \in Nat /\ Len(Line(message)) \in Nat /\ Len(data) \in Nat
      /\ Len(Text(message)) = Len(Line(message)) + Len(message.body)
    <2>1. message \in Messages
        BY DEF IInv, TypeOK
    <2>2. /\ message.type \in Types /\ message.body \in Seq(Units) /\ Line(message) \in Seq(Units)
          /\ Len(Text(message)) = Len(Line(message)) + Len(message.body)
        BY <2>1, TextParts
    <2> QED
        BY <2>2
<1>3. Storing'
    <2>2. /\ file # NoFile /\ current = "Filename: " /\ file.path = message.name
          /\ Len(file.data) <= Len(message.body)
          /\ \A j \in 1..Len(file.data) : file.data[j] = message.body[j]
        BY DEF Storing
    <2>1. \A j \in 1..Len(file.data) : file.data[j] = message.body[j]
        BY <2>2
    <2>3. file \in [path : Seq(Units), data : Seq(Units)] /\ file.data \in Seq(Units)
          /\ Len(file.data) \in Nat
        <3>1. file \in [path : Seq(Units), data : Seq(Units)]
            BY <2>2 DEF IInv, TypeOK
        <3>2. file.data \in Seq(Units)
            BY <3>1
        <3> QED
            BY <3>1, <3>2
    <2>4. file' = [file EXCEPT !.data = @ \o data] /\ UNCHANGED session
        <3>1. "Filename: " # NoFile
            BY NoFileAssumption DEF Types
        <3> QED
            BY <1>1, <2>2, <3>1 DEF HandleBody
    <2>5. /\ file.data \o data \in Seq(Units)
          /\ Len(file.data \o data) = Len(file.data) + Len(data)
          /\ \A j \in 1..Len(file.data) + Len(data) :
                (file.data \o data)[j] = IF j <= Len(file.data) THEN file.data[j]
                                         ELSE data[j - Len(file.data)]
        BY <2>3, ConcatProperties
    <2>6. /\ file' \in [path : Seq(Units), data : Seq(Units)] /\ file' # NoFile
          /\ file'.path = message.name /\ file'.data = file.data \o data
        BY <2>2, <2>3, <2>4, <2>5, NoFileAssumption
    <2> DEFINE L == Len(Line(message))
               B == Len(message.body)
               f == Len(file.data)
    <2>7. /\ L \in Nat /\ B \in Nat /\ f \in Nat /\ Len(data) \in Nat
          /\ k = L + f /\ l = k + Len(data) /\ l <= L + B
          /\ Len(file.data \o data) = f + Len(data)
        BY <1>2, <2>2, <2>3, <2>5
    <2> HIDE DEF f, L, B
    <2>8. /\ f + Len(data) <= B /\ l = L + (f + Len(data))
          /\ \A j \in 1..f + Len(data) : ~(j <= f) =>
                j - f \in 1..Len(data) /\ k + (j - f) = L + j /\ j \in 1..B
        <3> DEFINE d == Len(data)
        <3>1. d \in Nat /\ l = k + d
            BY <2>7
        <3> HIDE DEF d
        <3>2. f + d <= B /\ l = L + (f + d)
            BY <2>7, <3>1
        <3>3. ASSUME NEW j \in 1..f + d, ~(j <= f)
              PROVE  j - f \in 1..d /\ k + (j - f) = L + j /\ j \in 1..B
            BY <2>7, <3>1, <3>2, <3>3
        <3> QED
            BY <3>2, <3>3 DEF d
    <2>12. ASSUME NEW j \in 1..f + Len(data) PROVE (file.data \o data)[j] = message.body[j]
        <3>1. CASE j <= f
            <4>1. (file.data \o data)[j] = file.data[j] /\ j \in 1..f
                BY <2>5, <2>7, <3>1 DEF f
            <4> QED
                BY <2>1, <4>1 DEF f
        <3>2. CASE ~(j <= f)
            <4>1. (file.data \o data)[j] = data[j - f]
                BY <2>5, <3>2 DEF f
            <4>2. j - f \in 1..Len(data) /\ k + (j - f) = L + j /\ j \in 1..B
                BY <2>8, <3>2
            <4>3. data[j - f] = Text(message)[L + j]
                BY <4>2 DEF Matches
            <4>4. Text(message)[L + j] = message.body[j]
                BY <4>2, TextParts DEF L, B, IInv, TypeOK
            <4> QED
                BY <4>1, <4>3, <4>4
        <3> QED
            BY <3>1, <3>2
    <2>9. /\ Len(file'.data) <= Len(message'.body)
          /\ \A j \in 1..Len(file'.data) : file'.data[j] = message'.body[j]
          /\ InOrder(l)' /\ l = Len(Line(message)) + Len(file'.data)
        <3>1. Len(file.data \o data) <= B /\ l = L + Len(file.data \o data)
            BY <2>7, <2>8
        <3>2. Len(file'.data) <= Len(message'.body)
            BY <2>6, <3>1 DEF B
        <3>3. \A j \in 1..Len(file'.data) : file'.data[j] = message'.body[j]
            BY <2>6, <2>7, <2>12
        <3>4. InOrder(l)' /\ l = Len(Line(message)) + Len(file'.data)
            BY <2>2, <2>6, <3>1 DEF L
        <3> QED
            BY <3>2, <3>3, <3>4
    <2>10. session' = "open"
        BY <2>4
    <2>11. Storing'
        BY <1>1, <2>2, <2>6, <2>9, <2>10 DEF Storing
    <2> QED
        BY <2>11
<1> QED
    BY <1>1, <1>3

\* Credentials that fit in a read leave no later one.
LEMMA NextReadAccepts ==
    ASSUME IInv, HeaderFits(message), header # <<>>, UNCHANGED message,
           NEW data \in Seq(Units), Parse(data), Coming # <<>>,
           message.type = "Authentication: "
    PROVE  Prefix'
<1>1. /\ HandleBody(current, file, data) /\ UNCHANGED <<header, current, refused>>
    BY DEF Parse
<1>2. Accepting
    BY DEF IInv, Prefix
<1>3. file' = NoFile
    BY <1>1, <1>2 DEF Accepting, HandleBody
<1>4. ~FitsInRead(message)
    BY <1>2 DEF Accepting
<1>5. Accepting'
    BY <1>3, <1>4 DEF Accepting, FitsInRead, HeaderFits
<1> QED
    BY <1>1, <1>5 DEF Prefix

LEMMA ReadIInv == ASSUME IInv, Read PROVE IInv'
<1>1. PICK n \in Nat, data \in Seq(Units) :
          /\ Coming \in Seq(Seq(Units)) /\ Coming # <<>> /\ session = "open"
          /\ Len(data) = n /\ Parse(data) /\ UNCHANGED client
          /\ n = (IF MaxLength <= Len(Head(Coming)) THEN MaxLength ELSE Len(Head(Coming)))
          /\ Coming' = Rest(Coming, n) /\ wire' \in Seq(Seq(Units))
          /\ n \in 0..Len(Head(Coming))
          /\ \A j \in 1..n : data[j] = Head(Coming)[j]
    BY ReadParts
<1>2. UNCHANGED <<message, unsent, broken>>
    BY <1>1 DEF client
<1>3. TypeOK' /\ Chosen'
    <2>1. /\ session' \in {"open", "closed"}
          /\ header' \in Seq(Units) /\ current' \in Types \union {NoFile}
          /\ file' \in {NoFile} \union [path : Seq(Units), data : Seq(Units)]
          /\ accepted' \in Seq(Documents) /\ refused' \in BOOLEAN
          /\ session' = "open" /\ header' # <<>> => current' # NoFile
        BY <1>1, ParseTypes DEF IInv
    <2> QED
        BY <1>1, <1>2, <2>1 DEF IInv, TypeOK, Chosen
<1>4. /\ message \in Messages /\ Text(message) \in Seq(Units) /\ Len(Text(message)) \in Nat
    BY TextParts DEF IInv, TypeOK
<1>5. ASSUME NEW k, InOrder(k)
      PROVE  /\ InOrder(k + n)' /\ k + n \in 0..Len(Text(message))
             /\ \A j \in 1..n : data[j] = Text(message)[k + j]
    <2>1. PICK m \in 0..Len(Text(message)) :
              /\ Spells(Coming, Text(message), k, m)
              /\ broken \/ m = Len(Text(message))
        BY <1>5 DEF InOrder
    <2>2. /\ k + n \in 0..Len(Text(message))
          /\ \A j \in 1..n : Head(Coming)[j] = Text(message)[k + j]
          /\ Spells(Rest(Coming, n), Text(message), k + n, m)
        BY <1>1, <1>4, <2>1, SpellsRest
    <2>3. InOrder(k + n)'
        BY <1>1, <1>2, <2>1, <2>2 DEF InOrder
    <2> QED
        BY <1>1, <2>2, <2>3
<1>6. ASSUME HeaderFits(message), header = <<>> PROVE Prefix'
    <2>1. Fresh
        BY <1>6 DEF IInv, Prefix
    <2>2. /\ InOrder(0) /\ Len(Head(Coming)) >= Len(Line(message))
          /\ message.pieces \/ Coming = <<Text(message)>>
        BY <1>1, <2>1 DEF Fresh
    <2>3. /\ InOrder(n)' /\ n <= Len(Text(message)) /\ \A j \in 1..n : data[j] = Text(message)[j]
        <3>1. 0 + n = n /\ \A j \in 1..n : 0 + j = j
            OBVIOUS
        <3> QED
            BY <1>5, <2>2, <3>1
    <2>4. n >= Len(Line(message))
        BY <1>1, <1>6, <2>2 DEF HeaderFits
    <2>5. ASSUME FitsInRead(message), ~message.pieces
          PROVE  Coming' = <<>> /\ n = Len(Text(message))
        <3>1. Coming = <<Text(message)>> /\ Len(Text(message)) <= MaxLength
            BY <2>2, <2>5 DEF FitsInRead, Text
        <3>2. Head(Coming) = Text(message) /\ Tail(Coming) = <<>>
            BY <1>4, <3>1
        <3>3. n = Len(Text(message))
            BY <1>1, <1>4, <3>1, <3>2, MaxLengthAssumption
        <3> QED
            BY <1>1, <3>2, <3>3 DEF Rest
    <2> QED
        BY <1>1, <1>2, <1>6, <2>3, <2>4, <2>5, FirstReadPrefix
<1>7. ASSUME HeaderFits(message), header # <<>> PROVE Prefix'
    <2>1. CASE message.type = "Filename: "
        <3>1. Storing
            BY <1>7, <2>1 DEF IInv, Prefix
        <3>2. file \in [path : Seq(Units), data : Seq(Units)]
            BY <1>1, <3>1 DEF Storing, IInv, TypeOK
        <3>3. file.data \in Seq(Units) /\ Line(message) \in Seq(Units)
            BY <1>4, <3>2, TextParts
        <3>4. PICK k \in Nat : k = Len(Line(message)) + Len(file.data)
            BY <3>3
        <3>5. InOrder(k)
            BY <1>1, <3>1, <3>4, NoFileAssumption, <3>2 DEF Storing
        <3> DEFINE l == k + n
        <3>6. /\ InOrder(l)' /\ l <= Len(Text(message)) /\ l = k + Len(data)
              /\ Matches(data, Text(message), k)
            <4>1. /\ InOrder(k + n)' /\ k + n \in 0..Len(Text(message))
                  /\ \A j \in 1..n : data[j] = Text(message)[k + j]
                BY <1>5, <3>5
            <4> QED
                BY <1>1, <1>4, <4>1 DEF Matches
        <3> HIDE DEF l
        <3> QED
            <4>1. Storing' /\ header' = header
                BY <1>1, <1>2, <1>7, <3>1, <3>4, <3>6, NextReadStores
            <4> QED
                BY <1>2, <1>7, <2>1, <4>1 DEF Prefix
    <2>2. CASE message.type = "Authentication: "
        BY <1>1, <1>2, <1>7, <2>2, NextReadAccepts
    <2>3. message.type \in Types
        BY <1>4, TextParts
    <2> QED
        BY <2>1, <2>2, <2>3 DEF Types
<1>8. ASSUME ~HeaderFits(message) PROVE Prefix'
    BY <1>2, <1>8 DEF Prefix, HeaderFits
<1> QED
    BY <1>3, <1>6, <1>7, <1>8 DEF IInv


LEMMA ReadFailsIInv == ASSUME IInv, ReadFails PROVE IInv'
<1>1. /\ session = "open" /\ session' = "closed" /\ wire = <<>> /\ unsent = <<>>
      /\ UNCHANGED <<message, unsent, broken, wire, header, current, file, accepted, refused>>
    BY DEF ReadFails, client
<1>2. TypeOK' /\ Chosen'
    BY <1>1 DEF IInv, TypeOK, Chosen
<1>3. Coming = <<>> /\ Coming' = <<>>
    BY <1>1 DEF Coming
<1>4. message \in Messages /\ Text(message) \in Seq(Units)
      /\ Len(Text(message)) = Len(Line(message)) + Len(message.body)
      /\ Len(Line(message)) \in Nat \ {0} /\ Len(message.body) \in Nat
    <2>1. message \in Messages
        BY DEF IInv, TypeOK
    <2>2. /\ message.body \in Seq(Units) /\ message.name \in Seq(Units)
          /\ Len(Line(message)) = Len(message.name) + 3
        BY <2>1, TextParts
    <2>3. Text(message) \in Seq(Units) /\ Len(Text(message)) = Len(Line(message)) + Len(message.body)
        BY <2>1, TextParts
    <2>4. Len(Line(message)) \in Nat \ {0} /\ Len(message.body) \in Nat
        BY <2>2
    <2> QED
        BY <2>1, <2>3, <2>4
<1>5. ASSUME NEW k, InOrder(k) PROVE InOrder(k)' /\ (broken \/ k = Len(Text(message)))
    <2>1. PICK n \in 0..Len(Text(message)) :
              Spells(<<>>, Text(message), k, n) /\ (broken \/ n = Len(Text(message)))
        BY <1>3, <1>5 DEF InOrder
    <2>2. k \in 0..Len(Text(message))
        <3>1. 0 \in 0..Len(<<>>)
            OBVIOUS
        <3> QED
            BY <2>1, <3>1 DEF Spells
    <2>3. n = k
        BY <1>4, <2>1, <2>2, SpellsNothing
    <2>4. InOrder(k)'
        BY <1>1, <1>3, <2>1 DEF InOrder
    <2> QED
        BY <2>1, <2>3, <2>4
<1>6. ASSUME Fresh PROVE Fresh'
    <2>1. InOrder(0)' /\ (broken \/ 0 = Len(Text(message)))
        BY <1>5, <1>6 DEF Fresh
    <2>2. 0 # Len(Text(message))
        BY <1>4
    <2> QED
        BY <1>1, <1>3, <1>6, <2>1, <2>2 DEF Fresh
<1>7. ASSUME Storing PROVE Storing'
    <2>1. ASSUME file # NoFile PROVE broken \/ Len(file.data) = Len(message.body)
        <3>1. file \in [path : Seq(Units), data : Seq(Units)]
            BY <2>1 DEF IInv, TypeOK
        <3>2. file.data \in Seq(Units)
            BY <3>1
        <3>3. PICK k \in Nat : k = Len(Line(message)) + Len(file.data)
            BY <1>4, <3>2
        <3>4. InOrder(k)
            BY <1>1, <1>7, <2>1, <3>3 DEF Storing
        <3>5. broken \/ k = Len(Text(message))
            BY <1>5, <3>4
        <3>6. k = Len(Text(message)) => Len(file.data) = Len(message.body)
            BY <1>4, <3>2, <3>3
        <3> QED
            BY <3>5, <3>6
    <2> QED
        BY <1>1, <1>7, <2>1 DEF Storing
<1>8. ASSUME Accepting PROVE Accepting'
    BY <1>1, <1>3, <1>8 DEF Accepting
<1> QED
    BY <1>1, <1>2, <1>6, <1>7, <1>8 DEF IInv, Prefix

-------------------------------------------------------------------------------
\* Every step keeps the inductive invariant: what has been read, is on its way
\* and is unsent are one text, cut into records.
THEOREM Inductive == IInv /\ [Next]_vars => IInv'
<1> SUFFICES ASSUME IInv, [Next]_vars PROVE IInv'
    OBVIOUS
<1>1. CASE UNCHANGED vars
    <2>1. UNCHANGED <<message, unsent, broken, wire, parser>>
        BY <1>1 DEF vars, client
    <2>2. Coming' = Coming
        BY <2>1 DEF Coming
    <2>3. TypeOK'
        BY <2>1 DEF IInv, TypeOK, parser
    <2> QED
        BY <2>1, <2>2, <2>3, SameComing DEF IInv
<1> QED
    BY <1>1, SendIInv, BreakIInv, ReadIInv, ReadFailsIInv DEF Next

THEOREM Invariant == Spec => []IInv
BY InitIInv, Inductive, PTL DEF Spec

\* The types hold; what is accepted as credentials is a document, and what is
\* stored consists of units.
THEOREM TypeCorrect == Spec => []TypeOK
<1>1. IInv => TypeOK
    BY DEF IInv
<1> QED
    BY <1>1, Invariant, PTL

\* For every message and every length of a read, handleBody() has a parser to
\* be called on.
THEOREM ParserIsThere == Spec => []NeverCrashes
<1>1. IInv => NeverCrashes
    BY DEF IInv, Chosen, NeverCrashes
<1> QED
    BY <1>1, Invariant, PTL

\* For every message whose header fits in a read, what has been stored is a
\* prefix of its body, under its name, wherever the connection breaks.
THEOREM PrefixStored == Spec => []StoredIsPrefix
<1>1. ASSUME IInv PROVE StoredIsPrefix
    <2> SUFFICES ASSUME file # NoFile, HeaderFits(message)
                 PROVE  /\ message.type = "Filename: " /\ file.path = message.name
                        /\ IsPrefix(file.data, message.body)
        BY DEF StoredIsPrefix
    <2>1. message \in Messages /\ message.type \in Types
        BY <1>1, TextParts DEF IInv, TypeOK
    <2>2. message.type = "Filename: " /\ Storing
        BY <1>1, <2>1 DEF IInv, Prefix, Fresh, Accepting, Types
    <2>3. /\ file.path = message.name /\ Len(file.data) <= Len(message.body)
          /\ \A j \in 1..Len(file.data) : file.data[j] = message.body[j]
        BY <2>2 DEF Storing
    <2>4. file \in [path : Seq(Units), data : Seq(Units)]
        BY <1>1 DEF IInv, TypeOK
    <2>5. file.data \in Seq(Units) /\ message.body \in Seq(Units)
        BY <2>1, <2>4, TextParts
    <2>6. SubSeq(file.data, 1, Len(file.data)) = file.data
        BY <2>5, SubSeqFull
    <2>7. SubSeq(message.body, 1, Len(file.data)) = file.data
        <3> DEFINE f == file.data
                   b == message.body
        <3>1. /\ f \in Seq(Units) /\ b \in Seq(Units) /\ Len(f) <= Len(b)
              /\ \A j \in 1..Len(f) : f[j] = b[j]
            BY <2>3, <2>5
        <3> HIDE DEF f, b
        <3>2. /\ SubSeq(b, 1, Len(f)) \in Seq(Units) /\ Len(SubSeq(b, 1, Len(f))) = Len(f)
              /\ \A j \in 1..Len(f) : SubSeq(b, 1, Len(f))[j] = b[j]
            BY <3>1
        <3>3. SubSeq(b, 1, Len(f)) = f
            BY <3>1, <3>2, SeqEqual
        <3> QED
            BY <3>3 DEF f, b
    <2> QED
        BY <2>2, <2>3, <2>6, <2>7 DEF IsPrefix
<1>2. IInv => StoredIsPrefix
    BY <1>1
<1> QED
    BY <1>2, Invariant, PTL

\* For every message that fits, the whole of it has arrived when the session
\* ends, unless the connection broke or the file could not be opened.
THEOREM WholeReceived == Spec => []ReceivedWhole
<1>1. ASSUME IInv PROVE ReceivedWhole
    <2> SUFFICES ASSUME Over, FitsInRead(message) PROVE Arrived
        BY DEF ReceivedWhole
    <2>1. HeaderFits(message) /\ session = "closed" /\ ~broken /\ ~refused
        BY DEF Over, FitsInRead
    <2>2. message \in Messages /\ message.type \in Types
        BY <1>1, TextParts DEF IInv, TypeOK
    <2>3. header # <<>>
        BY <1>1, <2>1 DEF IInv, Prefix, Fresh
    <2>4. CASE message.type = "Filename: "
        <3>1. Storing
            BY <1>1, <2>1, <2>3, <2>4 DEF IInv, Prefix
        <3>2. file # NoFile
            BY <2>1, <3>1 DEF Storing
        <3>3. file \in [path : Seq(Units), data : Seq(Units)]
            BY <1>1, <3>2 DEF IInv, TypeOK
        <3>4. file.data \in Seq(Units) /\ message.body \in Seq(Units)
            BY <2>2, <3>3, TextParts
        <3>5. /\ file.path = message.name /\ Len(file.data) = Len(message.body)
              /\ \A j \in 1..Len(file.data) : file.data[j] = message.body[j]
            BY <2>1, <3>1, <3>2 DEF Storing
        <3>6. file.data = message.body
            BY <3>4, <3>5, SeqEqual
        <3>7. file = [path |-> message.name, data |-> message.body]
            BY <3>3, <3>5, <3>6
        <3> QED
            BY <2>4, <3>7 DEF Arrived
    <2>5. CASE message.type = "Authentication: "
        BY <1>1, <2>1, <2>3, <2>5 DEF IInv, Prefix, Accepting, Arrived
    <2> QED
        BY <2>2, <2>4, <2>5 DEF Types
<1>2. IInv => ReceivedWhole
    BY <1>1
<1> QED
    BY <1>2, Invariant, PTL

===============================================================================
