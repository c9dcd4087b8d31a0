------------------------------ MODULE SyncStream ------------------------------
(***************************************************************************)
(* One connection to the file sync server, byte stream to stored file: the *)
(* client sends a header, "type: name" and an empty line, and then a body  *)
(* (upload_file: a file in pieces; credcopier: credentials, at once); the  *)
(* session reads at most 1024 bytes at a time (doRead, doWrite) and gives  *)
(* each piece to Parser::parse, which finds the header, lets               *)
(* ParserCollections choose a parser by its type, and hands over the body. *)
(* Sources: filesync/src/parser.hpp, parser_collections.hpp, sync.hpp,     *)
(* file_handler.hpp, auth_handler.hpp, and what file_sync_session.hpp and  *)
(* credcopier/src/credcopier.cpp send.                                     *)
(*                                                                         *)
(* A unit stands for some bytes that matter together.  "Filename: " and    *)
(* "Authentication: " are units; the empty line, "\r\n\r\n", is two, since *)
(* a read may end within it.  When the bytes of a file reach the disk is   *)
(* the subject of FileSync.                                                *)
(***************************************************************************)
EXTENDS Naturals, Sequences, SequencesExt, FiniteSetsExt

CONSTANTS
    Units,      \* the units that names and bodies are made of
    Messages,   \* what a client may send: [type, name, body, pieces]; pieces
                \* is FALSE if all of it is sent at once
    Documents,  \* the bodies that are JSON
    MaxLength,  \* the units of one read, and of a piece of a file
    NoFile      \* no file opened, no parser chosen

Types == {"Filename: ", "Authentication: "}
Delimiter == <<"eol", "eol">>

ASSUME UnitsAssumption == Types \union {"eol"} \subseteq Units
ASSUME MessagesAssumption ==
    /\ Messages \subseteq [type : Types, name : Seq(Units), body : Seq(Units), pieces : BOOLEAN]
    /\ Documents \subseteq Seq(Units) \ {<<>>}
    /\ \A m \in Messages : m.type = "Authentication: " => m.body \in Documents /\ ~m.pieces
\* A name with a line's end in it would end the header: no client sends one.
ASSUME NamesAssumption ==
    \A m \in Messages : \A i \in DOMAIN m.name : m.name[i] # "eol"
ASSUME MaxLengthAssumption == MaxLength \in Nat \ {0}
ASSUME NoFileAssumption ==
    NoFile \notin Types /\ NoFile \notin [path : Seq(Units), data : Seq(Units)]

VARIABLES
    message,   \* what the client of this connection sends
    unsent,    \* the records it has not sent yet
    wire,      \* the records sent and not read
    broken,    \* the connection broke
    session,   \* the server's: "open", "closed", or "crashed"
    header,    \* Parser::header of the collection, <<>> while empty
    current,   \* currentParser, NoFile for nullptr
    file,      \* what the FileParser has opened, and written to it
    accepted,  \* the credentials the AuthParser has parsed
    refused    \* history: the file could not be opened

client == <<message, unsent, broken>>
parser == <<session, header, current, file, accepted, refused>>
vars == <<client, wire, parser>>

\* The records of a message: one send() each.
Line(m) == <<m.type>> \o m.name \o Delimiter
Pieces(body) ==
    [i \in 1..((Len(body) + MaxLength - 1) \div MaxLength) |->
        SubSeq(body, (i - 1) * MaxLength + 1, Min({i * MaxLength, Len(body)}))]
Records(m) == IF m.pieces THEN <<Line(m)>> \o Pieces(m.body) ELSE <<Line(m) \o m.body>>

Init ==
    /\ message \in Messages
    /\ unsent = Records(message)
    /\ wire = <<>>
    /\ broken = FALSE
    /\ session = "open"
    /\ header = <<>>
    /\ current = NoFile
    /\ file = NoFile
    /\ accepted = <<>>
    /\ refused = FALSE

-------------------------------------------------------------------------------
Send ==
    /\ unsent # <<>> /\ ~broken
    /\ wire' = Append(wire, Head(unsent))
    /\ unsent' = Tail(unsent)
    /\ UNCHANGED <<message, broken, parser>>

\* The connection breaks.  What is on its way may be lost, and what the client
\* has not sent is not sent.
Break ==
    /\ session = "open" /\ ~broken /\ unsent \o wire # <<>>
    /\ broken' = TRUE
    /\ unsent' = <<>>
    /\ wire' \in {<<>>, wire}
    /\ UNCHANGED <<message, parser>>

\* Where the header's delimiter begins in the data.
Found(data) ==
    {i \in 1..Len(data) - 1 : SubSeq(data, i, i + 1) = Delimiter}

\* Operators named Of_mistake are Of with a mistake in it, for checking that a
\* property can tell: no definition uses them.
Refuse_goesOn == UNCHANGED session

\* parse() returns false, also for an exception, and doWrite() reads no more.
Refuse == session' = "closed"

IsJson_begins(data) == \E d \in Documents : data # <<>> /\ IsPrefix(data, d)
IsJson(data) == data \in Documents

\* handleBody() of the parser p.
HandleBody(p, stored, data) ==
    \/ /\ p = "Filename: " /\ stored = NoFile
       /\ Refuse
       /\ UNCHANGED <<accepted, file>>
    \/ /\ p = "Filename: " /\ stored # NoFile
       /\ file' = [stored EXCEPT !.data = @ \o data]
       /\ UNCHANGED <<session, accepted>>
    \/ /\ p = "Authentication: " /\ IsJson(data)
       /\ accepted' = Append(accepted, data)
       /\ UNCHANGED <<session, file>>
    \/ /\ p = "Authentication: " /\ ~IsJson(data)
       /\ Refuse
       /\ UNCHANGED <<accepted, file>>
    \/ /\ p = NoFile
       /\ session' = "crashed"
       /\ UNCHANGED <<accepted, file>>

\* openFile(): the directories are made and the file emptied; a name that is
\* empty throws, and either may fail.
OpenFile(name, data) ==
    \/ /\ name # <<>>
       /\ HandleBody("Filename: ", [path |-> name, data |-> <<>>], data)
       /\ UNCHANGED refused
    \/ /\ Refuse
       /\ refused' = TRUE
       /\ UNCHANGED <<file, accepted>>

\* The header begins with a type some parser was added for.
Typed(h) == h # <<>> /\ h[1] \in Types

\* processHeader(), and the rest of the data after it.
HandleHeader(h, data) ==
    /\ header' = h
    /\ \/ /\ ~Typed(h)
          /\ Refuse
          /\ UNCHANGED <<current, file, accepted, refused>>
       \/ /\ Typed(h)
          /\ current' = h[1]
          /\ \/ h[1] = "Filename: " /\ OpenFile(Tail(h), data)
             \/ /\ h[1] = "Authentication: "
                /\ HandleBody(h[1], file, data)
                /\ UNCHANGED refused

\* The data behind the delimiter at i.
After_delimiterToo(data, i) == SubSeq(data, i, Len(data))
After(data, i) == SubSeq(data, i + Len(Delimiter), Len(data))

\* parse() without the look at what header already holds.
Parse_rescans(data) ==
    \/ /\ Found(data) = {} /\ header = <<>>
       /\ UNCHANGED parser
    \/ /\ Found(data) = {} /\ header # <<>>
       /\ HandleBody(current, file, data)
       /\ UNCHANGED <<header, current, refused>>
    \/ /\ Found(data) # {}
       /\ LET i == Min(Found(data)) IN
          HandleHeader(SubSeq(data, 1, i - 1), After(data, i))

\* parse(): currentdata is the data of this read alone, so what was read while
\* the header was not complete is forgotten.
Parse(data) ==
    \/ /\ header = <<>> /\ Found(data) = {}
       /\ UNCHANGED parser
    \/ /\ header = <<>> /\ Found(data) # {}
       /\ LET i == Min(Found(data)) IN
          HandleHeader(SubSeq(data, 1, i - 1), After(data, i))
    \/ /\ header # <<>>
       /\ HandleBody(current, file, data)
       /\ UNCHANGED <<header, current, refused>>

\* doRead() and doWrite(): a read gives at most MaxLength units of one record.
Read ==
    /\ session = "open" /\ wire # <<>>
    /\ LET record == Head(wire)
           n == Min({MaxLength, Len(record)})
       IN  /\ wire' = IF n = Len(record) THEN Tail(wire)
                      ELSE <<SubSeq(record, n + 1, Len(record))>> \o Tail(wire)
           /\ Parse(SubSeq(record, 1, n))
    /\ UNCHANGED client

\* A read that looks only for the orderly end of the stream.
ReadFails_orderly ==
    /\ session = "open" /\ wire = <<>> /\ unsent = <<>> /\ ~broken
    /\ session' = "closed"
    /\ UNCHANGED <<client, wire, header, current, file, accepted, refused>>

\* doRead() returns on the error at the end of the stream, or at the break.
ReadFails ==
    /\ session = "open" /\ wire = <<>> /\ unsent = <<>>
    /\ session' = "closed"
    /\ UNCHANGED <<client, wire, header, current, file, accepted, refused>>

Next == Send \/ Break \/ Read \/ ReadFails

Spec == Init /\ [][Next]_vars

\* The client sends on, and what has arrived, or the end, is read.
FairSpec == Spec /\ WF_vars(Send) /\ WF_vars(Read) /\ WF_vars(ReadFails)
-------------------------------------------------------------------------------
\* Types.  What has been accepted as credentials are whole documents.
TypeOK ==
    /\ message \in Messages
    /\ unsent \in Seq(Seq(Units)) /\ wire \in Seq(Seq(Units))
    /\ broken \in BOOLEAN /\ refused \in BOOLEAN
    /\ session \in {"open", "closed", "crashed"}
    /\ header \in Seq(Units)
    /\ current \in Types \union {NoFile}
    /\ file \in {NoFile} \union [path : Seq(Units), data : Seq(Units)]
    /\ accepted \in Seq(Documents)

\* handleBody() is never called through the null currentParser: a header that
\* no parser takes ends the session, whatever follows it.
NeverCrashes == session # "crashed"

\* The header line ends within the first read.
HeaderFits(m) == Len(Line(m)) <= MaxLength

\* Then a file holds a prefix of what its own client sent, under the name it
\* sent, at every moment and wherever the connection breaks: also when the body
\* has empty lines, or what looks like a header, in it.
StoredIsPrefix ==
    file # NoFile /\ HeaderFits(message) =>
        /\ message.type = "Filename: "
        /\ file.path = message.name
        /\ IsPrefix(file.data, message.body)

\* The whole message has arrived where it belongs.
Arrived ==
    IF message.type = "Filename: "
      THEN file = [path |-> message.name, data |-> message.body]
      ELSE accepted = <<message.body>>

Over == session = "closed" /\ ~broken /\ ~refused

\* A message whose header, and whose credentials if it carries any, fit in one
\* read has arrived when the session ends, unless the connection broke or the
\* file could not be opened.
FitsInRead(m) == HeaderFits(m) /\ (~m.pieces => Len(Line(m) \o m.body) <= MaxLength)
ReceivedWhole == Over /\ FitsInRead(message) => Arrived

\* What the comment in parse() says of an incomplete header, that it waits for
\* more data: then a file arrives however long its name is.
WaitsForHeader == Over /\ message.type = "Filename: " => Arrived

\* A session ends, with its client's stream or before.
SessionEnds == <>(session # "open")

===============================================================================
