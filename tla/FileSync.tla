------------------------------- MODULE FileSync -------------------------------
(***************************************************************************)
(* Two file sync services keep one file in step.  Each polls the time of   *)
(* its copy (checkChanges) and uploads the copy to the other service when  *)
(* the time has changed; each writes what it receives over its own copy    *)
(* and records the new time, so as not to take it for a change.  Sources:  *)
(* filesync/src/file_sync_session.hpp, syncdb.hpp, file_handler.hpp,       *)
(* sync.hpp.                                                               *)
(*                                                                         *)
(* The monitor, the uploads and the receiving sessions are coroutines of   *)
(* one io_context: a step runs from one asynchronous wait to the next.     *)
(* The monitored files interact only with the directory they are in, and   *)
(* in SyncDb's storage when one is added there, so one file in one         *)
(* directory is followed, and beside it a second file as far as its entry  *)
(* goes.  A copy is the sequence of its blocks, a block being what the     *)
(* streams read or write at a time; two times of a copy differ if it was   *)
(* written in between, two times of the directory if a file was created.   *)
(* No file is deleted.                                                     *)
(***************************************************************************)
EXTENDS Naturals, Sequences, SequencesExt, FiniteSets

CONSTANTS
    Peers,       \* the two services
    Configured,  \* those whose configuration lists the file in "paths"
    Watching,    \* those whose configuration lists its directory there
    Present,     \* those on whose machine the file exists at first
    Missing,     \* those on whose machine not even the directory does
    Crowded,     \* those on whose machine a second file may come into the directory
    Writers,     \* those on whose machine a program may change the file
    Writes,      \* the changes, each made at most once, in the order of numbers
    Blocks,      \* the number of blocks a program writes
    Slots,       \* bounds the uploads of one service that are open at a time
    Failures,    \* TRUE: connections may fail or break
    Restarts,    \* TRUE: a service may be restarted
    Calm         \* TRUE: a program waits for the sync before it changes the file

ASSUME PeersAssumption ==
    /\ IsFiniteSet(Peers) /\ Cardinality(Peers) = 2
    /\ Configured \subseteq Peers /\ Writers \subseteq Peers /\ Crowded \subseteq Peers
    /\ Watching \subseteq Peers \ Configured /\ Present \subseteq Peers
    /\ Missing \subseteq Peers \ (Watching \union Present)
ASSUME BlocksAssumption == Blocks \in Nat
ASSUME WritesAssumption == Writes \subseteq Nat \ {0}

\* The connection of upload s of service p leads to the other service.
Uploads == Peers \X Slots
Other(p) == CHOOSE q \in Peers : q # p

\* Block i of a change, and all of them; what a file system puts before a write behind the end;
\* what upload_file sends first.
Block(w, i) == [write |-> w, place |-> i]
Hole == Block(0, 0)
Changed(w) == [i \in 1..Blocks |-> Block(w, i)]
Header == Block(0, Blocks + 1)

VARIABLES
    present,   \* the services on whose machine the file exists
    copy,      \* copy[p]: the blocks of the file at p
    db,        \* db[p]: SyncDb's entry for it: "absent", or whether its
               \* lastWriteTime is that of the copy: "same" or "differs"
    dir,       \* dir[p]: SyncDb's entry for the directory, in the same way;
               \* "missing" while the directory does not exist
    beside,    \* beside[p]: the second file: "none", or whether it has an entry:
               \* "unlisted" or "listed"
    sender,    \* sender[u]: upload_file: "none", "connecting", "sending"
    pos,       \* pos[u]: the blocks it has read
    wire,      \* wire[u]: what it has sent and the other side not yet read
    session,   \* session[u]: the receiving side: "none", "reading", "open"
    written,   \* written[u]: the blocks the output stream has passed on
    held,      \* held[u]: the blocks it holds back
    made,      \* the changes made
    change     \* history: change[p] is "made" once a program has changed the
               \* file at p, "overlaid" once received blocks have been written
               \* over the change, and "none" once an upload of it has begun
               \* or a received file has replaced it

files == <<present, copy, db, dir, beside>>
conn == <<sender, pos, wire, session, written, held>>
vars == <<files, conn, made, change>>

Idle == \A u \in Uploads : sender[u] = "none" /\ session[u] = "none"

\* addPaths(): what the configuration lists has the default time.  A directory
\* brings the files in it.
Listed(p, exists) ==
    IF p \in Configured \/ (p \in Watching /\ p \in exists) THEN "differs" ELSE "absent"
ListedDir(p) == IF p \in Watching THEN "differs" ELSE "absent"

Init ==
    /\ present = Present
    /\ copy = [p \in Peers |-> <<>>]
    /\ db = [p \in Peers |-> Listed(p, Present)]
    /\ dir = [p \in Peers |-> IF p \in Missing THEN "missing" ELSE ListedDir(p)]
    /\ sender = [u \in Uploads |-> "none"]
    /\ pos = [u \in Uploads |-> 0]
    /\ wire = [u \in Uploads |-> <<>>]
    /\ session = [u \in Uploads |-> "none"]
    /\ written = [u \in Uploads |-> 0]
    /\ held = [u \in Uploads |-> <<>>]
    /\ made = {}
    /\ beside = [p \in Peers |-> "none"]
    /\ change = [p \in Peers |-> "none"]

-------------------------------------------------------------------------------
\* The time of a copy or a directory has changed, and SyncDb, whose entry was
\* this, does not know of it.
Differs(entry) == IF entry = "absent" THEN "absent" ELSE "differs"

\* checkChanges() finds that the time of the copy at p has changed.
Due(p) == p \in present /\ db[p] = "differs"

\* Nothing is being sent and no time differs: only a program can cause a step.
Settled == Idle /\ \A p \in Peers : ~Due(p) /\ dir[p] # "differs"

\* A program on p's machine rewrites the file, or creates it, and the directory
\* if there is none.
Change(p, w) ==
    /\ p \in Writers /\ w \notin made /\ \A v \in Writes \ made : w <= v
    /\ Calm => Settled
    /\ made' = made \union {w}
    /\ copy' = [copy EXCEPT ![p] = Changed(w)]
    /\ db' = [db EXCEPT ![p] = Differs(@)]
    /\ present' = present \union {p}
    /\ dir' = [dir EXCEPT ![p] = IF @ = "missing" THEN "absent"
                                 ELSE IF p \in present THEN @ ELSE Differs(@)]
    /\ change' = [change EXCEPT ![p] = "made"]
    /\ UNCHANGED <<conn, beside>>

\* A second file comes into the directory on p's machine: a program creates it,
\* or a session that receives it does, which makes an entry for it.
Appear(p, entry) ==
    /\ p \in Crowded /\ beside[p] = "none"
    /\ beside' = [beside EXCEPT ![p] = entry]
    /\ dir' = [dir EXCEPT ![p] =
                  IF @ # "missing" THEN Differs(@)
                  ELSE IF entry = "listed" THEN "differs" ELSE "absent"]
    /\ UNCHANGED <<present, copy, db, conn, made, change>>

\* Operators named Of_mistake are Of with a mistake in it, for checking that a
\* property can tell: no definition uses them.

ApplyDirectoryChanges_none(p) == db[p]

\* upload_file() of the directory: applyDirectoryChanges() gives the default
\* time to every file in it, known or not.
ApplyDirectoryChanges(p) == IF p \in present THEN "differs" ELSE db[p]

\* upload_file() of the file begins, and runs up to the wait for its connection.
BeginUpload(p) ==
    \E u \in {p} \X Slots :
        /\ sender[u] = "none" /\ session[u] = "none"
        /\ sender' = [sender EXCEPT ![u] = "connecting"]
        /\ change' = [change EXCEPT ![p] = "none"]

\* The service at p is started again: its connections break, what its streams
\* hold back is lost, and SyncDb knows only the configuration.
Restarted(p) ==
    /\ db' = [db EXCEPT ![p] = Listed(p, present)]
    /\ dir' = [dir EXCEPT ![p] = IF @ = "missing" THEN @ ELSE ListedDir(p)]
    /\ beside' = [beside EXCEPT ![p] =
                     IF @ = "none" THEN @ ELSE IF p \in Watching THEN "listed" ELSE "unlisted"]
    /\ LET receives(u) == u[1] # p /\ session[u] # "none" IN
       /\ sender' = [u \in Uploads |-> IF u[1] = p \/ receives(u) THEN "none" ELSE sender[u]]
       /\ session' = [u \in Uploads |-> IF receives(u) THEN "none" ELSE session[u]]
       /\ held' = [u \in Uploads |-> IF receives(u) THEN <<>> ELSE held[u]]
       /\ wire' = [u \in Uploads |-> IF u[1] = p \/ receives(u) THEN <<>> ELSE wire[u]]
    /\ UNCHANGED <<present, copy, pos, written, made, change>>

\* What the poll makes of the entries of the directory and of what is in it.
Applied(p) == IF dir[p] = "differs" THEN ApplyDirectoryChanges(p) ELSE db[p]
ChecksDir(p) ==
    /\ dir' = [dir EXCEPT ![p] = IF @ = "differs" THEN "same" ELSE @]
    /\ beside' = [beside EXCEPT ![p] =
                     IF dir[p] = "differs" /\ @ = "unlisted" THEN "listed" ELSE @]

\* applyDirectoryChanges() adds an entry, and another one is behind that of the
\* directory.
Moves(p) ==
    /\ dir[p] = "differs"
    /\ (p \in present /\ db[p] = "absent") \/ beside[p] = "unlisted"
    /\ (p \notin Configured /\ db[p] # "absent") \/ beside[p] = "listed"

\* monitorFiles(): the timer has expired, and checkChanges() goes through the
\* entries, that of a configured file first, any other behind the directory's.
\* A new time is recorded before what is to be done about it begins.  An entry
\* made meanwhile is not gone through.
\* If one is, the storage may move: the entries behind the directory's are then
\* read, and their times recorded, where they are no longer.  The file may be
\* found and uploaded there or not, but keeps the time that it was given; or the
\* process ends, and is started again.
CheckChanges(p) ==
    LET entry == IF p \in Configured THEN db[p] ELSE Applied(p)
        uploads == db[p] # "absent" /\ entry = "differs" /\ p \in present
        last == IF p \in Configured /\ dir[p] = "differs" THEN "directory" ELSE "file"
    IN  \/ /\ Due(p) \/ dir[p] = "differs"
           /\ ChecksDir(p)
           /\ db' = [db EXCEPT ![p] = IF uploads /\ last = "file" THEN "same" ELSE Applied(p)]
           /\ \/ uploads /\ BeginUpload(p)
              \/ ~uploads /\ UNCHANGED <<sender, change>>
           /\ UNCHANGED <<present, copy, pos, wire, session, written, held, made>>
        \/ /\ Moves(p)
           /\ ChecksDir(p)
           /\ db' = [db EXCEPT ![p] = Applied(p)]
           /\ (uploads /\ BeginUpload(p)) \/ UNCHANGED <<sender, change>>
           /\ UNCHANGED <<present, copy, pos, wire, session, written, held, made>>
        \/ Moves(p) /\ Restarted(p)

Connect_keepsPos(u) ==
    /\ sender[u] = "connecting"
    /\ sender' = [sender EXCEPT ![u] = "sending"]
    /\ wire' = [wire EXCEPT ![u] = <<Header>>]
    /\ session' = [session EXCEPT ![u] = "reading"]
    /\ UNCHANGED <<files, pos, written, held, made, change>>

\* upload_file(): the connection is there, and the header is sent.
Connect(u) ==
    /\ sender[u] = "connecting"
    /\ sender' = [sender EXCEPT ![u] = "sending"]
    /\ pos' = [pos EXCEPT ![u] = 0]
    /\ wire' = [wire EXCEPT ![u] = <<Header>>]
    /\ session' = [session EXCEPT ![u] = "reading"]
    /\ UNCHANGED <<files, written, held, made, change>>

\* connect() returns false, and so does upload_file(): nothing tries again.
ConnectFails(u) ==
    /\ Failures
    /\ sender[u] = "connecting"
    /\ sender' = [sender EXCEPT ![u] = "none"]
    /\ UNCHANGED <<files, pos, wire, session, written, held, made, change>>

\* The next block is read from the file as it is now, and sent.
SendBlock(u) ==
    /\ sender[u] = "sending"
    /\ pos[u] < Len(copy[u[1]])
    /\ wire' = [wire EXCEPT ![u] = Append(@, copy[u[1]][pos[u] + 1])]
    /\ pos' = [pos EXCEPT ![u] = @ + 1]
    /\ UNCHANGED <<files, sender, session, written, held, made, change>>

EndUpload_records(u) ==
    /\ sender[u] = "sending"
    /\ pos[u] >= Len(copy[u[1]])
    /\ sender' = [sender EXCEPT ![u] = "none"]
    /\ db' = [db EXCEPT ![u[1]] = "same"]
    /\ UNCHANGED <<present, copy, dir, beside, pos, wire, session, written, held, made, change>>

\* The end of the file: the client's destructor closes the connection.
EndUpload(u) ==
    /\ sender[u] = "sending"
    /\ pos[u] >= Len(copy[u[1]])
    /\ sender' = [sender EXCEPT ![u] = "none"]
    /\ UNCHANGED <<files, pos, wire, session, written, held, made, change>>

\* The connection breaks: what was on its way is lost, and send() returns
\* false.
Break(u) ==
    /\ Failures
    /\ session[u] # "none"
    /\ sender' = [sender EXCEPT ![u] = "none"]
    /\ wire' = [wire EXCEPT ![u] = <<>>]
    /\ UNCHANGED <<files, pos, session, written, held, made, change>>

-------------------------------------------------------------------------------
Put_appends(file, n, data) == file \o data

\* The file after a write of `data` behind the first n blocks.
Put(file, n, data) ==
    [i \in 1..(IF n + Len(data) > Len(file) THEN n + Len(data) ELSE Len(file)) |->
        IF i \in n + 1 .. n + Len(data) THEN data[i - n]
        ELSE IF i <= Len(file) THEN file[i] ELSE Hole]

\* The output stream of u's session passes data on to the file at q.
Pass(u, q, data) ==
    /\ copy' = [copy EXCEPT ![q] = Put(@, written[u], data)]
    /\ written' = [written EXCEPT ![u] = @ + Len(data)]
    /\ held' = [held EXCEPT ![u] = <<>>]
    /\ change' = [change EXCEPT ![q] = IF @ = "made" THEN "overlaid" ELSE @]

\* addConfig(path, last_write_time(path))
Record_onlyNew(q) ==
    db' = [db EXCEPT ![q] = IF @ = "absent" THEN "same" ELSE "differs"]
Record(q) == db' = [db EXCEPT ![q] = "same"]

\* makeDirectories() and the opening of the file.  A directory that it makes is
\* recorded, and is then watched: it changes when the file is created.
Open(q) ==
    /\ present' = present \union {q}
    /\ dir' = [dir EXCEPT ![q] = IF @ = "missing" THEN "differs"
                                 ELSE IF q \in present THEN @ ELSE Differs(@)]

ReceiveHeader_keepsWritten(u) ==
    /\ session[u] = "reading"
    /\ wire[u] # <<>>
    /\ LET q == Other(u[1]) IN
       /\ copy' = [copy EXCEPT ![q] = <<>>]
       /\ change' = [change EXCEPT ![q] = "none"]
       /\ Record(q)
       /\ Open(q)
    /\ session' = [session EXCEPT ![u] = "open"]
    /\ wire' = [wire EXCEPT ![u] = Tail(@)]
    /\ UNCHANGED <<beside, sender, pos, written, held, made>>

\* openFile(): the file is emptied, and its time recorded by handleBody(),
\* which the rest of the header's block is passed to.
ReceiveHeader(u) ==
    /\ session[u] = "reading"
    /\ wire[u] # <<>>
    /\ LET q == Other(u[1]) IN
       /\ copy' = [copy EXCEPT ![q] = <<>>]
       /\ change' = [change EXCEPT ![q] = "none"]
       /\ Record(q)
       /\ Open(q)
    /\ session' = [session EXCEPT ![u] = "open"]
    /\ written' = [written EXCEPT ![u] = 0]
    /\ wire' = [wire EXCEPT ![u] = Tail(@)]
    /\ UNCHANGED <<beside, sender, pos, held, made>>

\* handleBody(): the block is written, and the time of the file recorded, of
\* which the stream may have passed on everything or nothing new.
ReceiveBlock(u) ==
    /\ session[u] = "open"
    /\ wire[u] # <<>>
    /\ wire' = [wire EXCEPT ![u] = Tail(@)]
    /\ LET q == Other(u[1])
           data == Append(held[u], Head(wire[u]))
       IN  /\ Record(q)
           /\ \/ Pass(u, q, data)
              \/ /\ held' = [held EXCEPT ![u] = data]
                 /\ UNCHANGED <<copy, written, change>>
    /\ UNCHANGED <<present, dir, beside, sender, pos, session, made>>

EndSession_drops(u) ==
    /\ session[u] # "none"
    /\ sender[u] = "none" /\ wire[u] = <<>>
    /\ session' = [session EXCEPT ![u] = "none"]
    /\ held' = [held EXCEPT ![u] = <<>>]
    /\ UNCHANGED <<files, sender, pos, wire, written, made, change>>

\* The read fails at the end of the connection.  The session and its stream
\* are destroyed, which passes on what was held back; no one records the time.
EndSession(u) ==
    /\ session[u] # "none"
    /\ sender[u] = "none" /\ wire[u] = <<>>
    /\ session' = [session EXCEPT ![u] = "none"]
    /\ LET q == Other(u[1]) IN
       IF held[u] = <<>>
         THEN UNCHANGED <<copy, written, held, change, db>>
         ELSE Pass(u, q, held[u]) /\ db' = [db EXCEPT ![q] = Differs(@)]
    /\ UNCHANGED <<present, dir, beside, sender, pos, wire, made>>

\* The service at p is killed, and started again.
Restart(p) == Restarts /\ Restarted(p)

Next ==
    \/ \E p \in Peers, w \in Writes : Change(p, w)
    \/ \E p \in Peers, entry \in {"unlisted", "listed"} : Appear(p, entry)
    \/ \E p \in Peers : CheckChanges(p) \/ Restart(p)
    \/ \E u \in Uploads :
          \/ Connect(u) \/ ConnectFails(u)
          \/ SendBlock(u) \/ EndUpload(u) \/ Break(u)
          \/ ReceiveHeader(u) \/ ReceiveBlock(u) \/ EndSession(u)

Spec == Init /\ [][Next]_vars

\* The timers expire, connecting ends, and what is sent on a connection that
\* does not break is read.
Fairness ==
    /\ \A p \in Peers : WF_vars(CheckChanges(p))
    /\ \A u \in Uploads :
          /\ WF_vars(Connect(u) \/ ConnectFails(u))
          /\ WF_vars(SendBlock(u) \/ EndUpload(u))
          /\ WF_vars(ReceiveHeader(u) \/ ReceiveBlock(u) \/ EndSession(u))

FairSpec == Spec /\ Fairness
-------------------------------------------------------------------------------
BlocksOfFile == {Block(w, i) : w \in Writes, i \in 1..Blocks} \union {Hole}

\* Types.  No upload reads, and no session writes, more blocks than a file has.
TypeOK ==
    /\ present \subseteq Peers
    /\ copy \in [Peers -> Seq(BlocksOfFile)]
    /\ dir \in [Peers -> {"missing", "absent", "same", "differs"}]
    /\ db \in [Peers -> {"absent", "same", "differs"}]
    /\ sender \in [Uploads -> {"none", "connecting", "sending"}]
    /\ pos \in [Uploads -> 0..Blocks]
    /\ wire \in [Uploads -> Seq(BlocksOfFile \union {Header})]
    /\ session \in [Uploads -> {"none", "reading", "open"}]
    /\ written \in [Uploads -> 0..Blocks]
    /\ held \in [Uploads -> Seq(BlocksOfFile)]
    /\ made \subseteq Writes
    /\ beside \in [Peers -> {"none", "unlisted", "listed"}]
    /\ change \in [Peers -> {"none", "made", "overlaid"}]

\* However uploads, echoes, restarts and changes interleave, every block of a
\* copy is one that a program wrote at that very place, or a hole: a file may
\* become a mixture of two versions, but none of its blocks moves.
BlocksKeepTheirPlace ==
    \A p \in Peers : \A i \in DOMAIN copy[p] :
        copy[p][i] = Hole \/ copy[p][i].place = i

\* A program's change at a service that monitors the file is not taken for
\* something received as long as it is whole: until an upload begins or received
\* data are written over it, its time differs from the recorded one, or a session
\* there holds back data and will make it differ.  (Not so once a received block
\* is written over one of its blocks: then the time of the mixture is recorded as
\* that of something received, and the rest of the change is not uploaded.)
ChangeIsNoticed ==
    \A p \in Peers :
        change[p] = "made" /\ db[p] = "same" =>
            \E u \in Uploads : u[1] # p /\ session[u] = "open" /\ held[u] # <<>>

\* No file is overlooked in a directory that is watched, whoever created it and
\* when, be it alone there or not: it has an entry, or the time of the directory
\* is yet to be found changed.
NoFileOverlooked ==
    \A p \in Peers : dir[p] = "same" =>
        /\ p \in present => db[p] # "absent"
        /\ beside[p] # "unlisted"

Equal == \A p, q \in Peers : (p \in present <=> q \in present) /\ copy[p] = copy[q]

\* When the services have nothing left to do, the copies are the same.  (Not so
\* once a connection has failed: checkChanges() has recorded the time before
\* the upload, and no one tries again.)
SettledIsEqual == Settled => Equal

\* If programs wait for the sync, every change reaches both services: they come
\* to have it, or a later one, whole.
ChangeArrives ==
    \A w \in Writes :
        w \in made ~> \E v \in made : v >= w /\ \A p \in Peers : copy[p] = Changed(v)

\* If programs wait for the sync, the copies agree again after every change,
\* even though held back data makes the services upload to each other for ever.
KeepsUp == []<>Equal

\* As long as no stream holds anything back there are no such echoes: what the
\* receiving side recorded is the time of its copy, and the services come to
\* rest with equal copies.
Converges == [](\A u \in Uploads : held[u] = <<>>) => <>[](Settled /\ Equal)

===============================================================================
