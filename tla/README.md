# Formal models of bmcgw

TLA+ specifications of the programs in this repository that have concurrency or
protocol logic of their own, model-checked with TLC on small instances, and with
theorems that TLAPS proves for every size. Paths below are relative to the
repository's root.

1. [The system](#1-the-system): components, state, operations, what is hard
2. [The modules](#2-the-modules): how each corresponds to the code
3. [The runs](#3-the-runs): what is checked, with which bounds, what it shows
4. [Fairness and other assumptions](#4-fairness-and-other-assumptions)
5. [The theorems](#5-the-theorems)
6. [Findings](#6-findings)
7. [What is not modelled](#7-what-is-not-modelled)
8. [The plan](#8-the-plan)

To check a run: `tlc -config Aggregator_overlap.cfg MCAggregator.tla`. To check the
proofs: `tlapm AggregatorProofs.tla`, and likewise the other `...Proofs` modules.

## 1. The system

bmcgw is a set of small services for the management controllers (BMCs) of a
server, each a process built on the Reactor library (not in the repository), which
wraps boost::asio. Every process has one `io_context` on one thread: handlers
and stackful coroutines run one at a time, from one asynchronous wait to the next.
Interleaving is at the waits. The services meet only over the network and,
for the file sync, over files.

| Component | State it keeps | Operations | Talks to | What is hard | What makes it correct |
|---|---|---|---|---|---|
| **Aggregator** `aggregator/` | `blocks` (a map from target path to a count, results and a continuation), the requesters | `operator()`, `forward`, `mergeWithAggregated`, `aggregate`, `mergeMembers` | the clients; the master's and the satellites' Redfish servers | replies of several satellites to several clients in any order meet in one map; errors; exceptions in callbacks; a count that is unsigned | one answer per request; a merge has exactly the replies to that request; links of members lead back to their satellite |
| **Requester** `include/requester.hpp` | the session token | `getToken`, `applyToken`, `forward`, `aggregate`, `post` | a satellite | the token is read before a wait and written after it; a failed login calls no one | a login happens once; a token is not lost |
| **File sync, monitor and upload** `filesync/` | `SyncDb`: path and last known time of each file | `monitorFiles`, `checkChanges`, `addConfig`, `upload_file` | the file sync server of the peer; the file system | the file changes while it is being sent or received; the receiver's own writes look like changes; failures | after the last change the copies become equal; no change is overlooked |
| **File sync, server** `filesync/` | per connection: a parser collection and the open file | `doRead`, `doWrite`, `Parser::parse`, `handleHeader`, `handleBody` | uploaders, CredCopier | a byte stream cut anywhere; header and body in one read or in many; the connection breaks | what is stored is what was sent, under that name |
| **CredCopier** `credcopier/` | none | connect, send the credentials once | a file sync server | its message must survive the server's reads | the credentials arrive whole |
| **Reverse proxy** `reverseproxy/` | the routes, by path; the default | `addRoute`, `getForwarder`, `wildCardMatch`, `forward` | clients and local services | five waits per request, each of which may fail; the order of an unordered map | one answer per request, from a service the configuration names |
| **Heartbeat server**, **secure channel** `heartbeatserver/` | targets, a timer, the flag `sending`; the key | `findPeers`, `sendBeats`, `handleRead`, `getKey` | peers, by UDP broadcast | a list that grows while a coroutine walks it; one timer for all loops; lost, late and repeated datagrams; text that one side encrypts and the other does not | every target is sent beats for ever; one loop of beats; who is found is a peer |
| **Certificate installer** `httpserver/` | files and links of the trust store | `install`, `session` | the certificate generator, any client | overlapping installs; a failing `system("ln ...")` that no one looks at | a link of a hash leads to a certificate of that hash |
| Others: `cert_generator`, `httpserver` demos, `httpclient`, `netlinkmon`, `credcopier/src/inotify.cpp` | none | | | straight-line code | |

How they interact. The *aggregator* uses one *requester* for the master and one per
satellite; the handlers it passes to them (`forward`'s and `aggregate`'s
continuations) are the callbacks whose order matters. The *file sync* process is both
halves at once, and they share `SyncDb`: the server records the time of what it has
written so that the monitor does not send it back. *CredCopier* is another client of
the same server and shares its parsers. The *reverse proxy* is independent of the
others; *certificate generator* and *heartbeat server* use the HTTP servers.

The hazards, line by line, with the properties that cover each, are in
`PROJECT.json`, "hazards".

## 2. The modules

```
RedfishRouting ------ operators on paths -----+---> MemberLinks ---> MemberLinksProofs
                                              |
ScatterGather (abstract promise) <--refines-- Aggregator ----------> AggregatorProofs
                                                                      |
                       AggregatorPromiseProofs <--- AggregatorMergeProofs

Beacon (abstract promise) <--------refines-- HeartBeat ------------> HeartBeatProofs

FileSync (two services, one file) --------------------------------> FileSyncProofs
SyncStream (one connection, its bytes) ----------------------------> SyncStreamProofs
ReverseProxy -----------------------------------------------------> ReverseProxyProofs
```

An `MC...` module beside each holds the constants of its TLC instances. Operators with a
name like `Dec_signed` or `Connect_keepsPos` are *mistakes*: the definition before
the underscore with a plausible bug in it. No specification uses them. Put in
place of the original, each makes TLC report the violation of a named property
(`PROJECT.json`, "mutants"), which is how each property is known to look at something.

### RedfishRouting
The pure part of `aggregator.hpp`: `findResourceRequester`, `isAggregatedResource`,
`stripSateliteInfo`, `isAggregatedCollection`, the renaming in `mergeMembers`.
A path is a sequence of segments and a segment a sequence of the words between its
underscores, because `starts_with(name + "_")`, `find('_')` and `split('/')` see
nothing finer. Aggregator and MemberLinks share these operators.

### Aggregator, and the abstract ScatterGather
`Aggregator` has one action per callback:

| Action | Code |
|---|---|
| `Handle` | `operator()`, up to the forwarded request |
| `ForwardReply` | the continuation of `forward()`: relay, answer 500, throw, or `mergeWithAggregated` and the scatter of `aggregate()` |
| `ForwardFailed` | that continuation on a connection error |
| `LoginReply` | `Requester::getToken`'s continuation, with the request that follows it |
| `CallReply` | the callback of `aggregate()`: `results.push_back`, `--count`, `onFinish`, `erase` |

`blocks` is the map `Aggregator::blocks`, with its key as the code has it, the target. Three
things of C++ matter and are modelled: `emplace` leaves an existing entry alone
(the second client's continuation is lost); `operator[]` makes an entry out of
nothing for a late reply (`DefaultBlock`), whose `size_t` count then wraps (`Dec`); and
an exception in a callback unwinds past `erase` and leaves a block without results behind
(`Spent`), and may or may not end the process (`Throw`: that is decided in the
library). Bodies are abstracted to what the code tells apart (`KnownBodies`,
`KnownReplies`).

`ScatterGather` says what one client is promised, in three variables (phase, replies, answer):
answered at most once, by a relayed answer or by a merge of exactly one reply
of each satellite to that request, once all are in; or lost. `KeepsPromise` is that
specification under a refinement mapping (end of `Aggregator.tla`).

### MemberLinks
A life of the link of a member: servers have members, `List` merges them as
`mergeMembers` does, `Follow` sends a request as `forward()` does, with only the link to go
by. The code checks nothing of the names in `Exposes` or of the ids, and the model asks
nothing of them: two names may be the same, have underscores, or be the beginning
of one another. `Unambiguous` says, from names and ids alone, which links can find their
member: one of the master that no configured name begins, and one of a satellite whose
name has no underscore, unless a name configured before it begins the link as well.
`LinkLeadsHome` says that exactly these do.

### FileSync
Two services and one file. `CheckChanges` is a tick of `monitorFiles`; `Connect`,
`SendBlock`, `EndUpload` are `upload_file` from wait to wait; `ReceiveHeader`,
`ReceiveBlock`, `EndSession` the receiving session; `Change` is any program that
rewrites the file; `ConnectFails`, `Break`, `Restart` are what may go wrong. A copy
is a sequence of blocks, each marked with the change that wrote it and its place.
Of times the model keeps what `checkChanges` asks: whether the recorded one is that
of the copy. That two times differ if the copy was written in between is assumed of
the file system. An output stream may pass a block on at once or hold it back (`held`),
as `ofstream` does, until it is destroyed.

`change` follows a program's change: "made" while it is whole, "overlaid" once received
blocks have been written over it, "none" once an upload of it has begun or a received file
has replaced it. The properties tell the first two apart, because the code does: a
whole change has a time of its own, an overlaid one is recorded as received
(`handleBody()` records the time of the mixture), and if the connection then breaks the rest
of it is not uploaded.

A configuration may list the file (`Configured`) or the directory it is in
(`Watching`). `present` says where the file exists, `dir` is the entry of the
directory in `SyncDb`, with "missing" for a directory that is not there. `CheckChanges` is
the whole poll: the directory's entry first, whose new time makes
`applyDirectoryChanges` give the default time to every file in it, then the file's; a file
that is listed by itself comes first.
`Open` is what a received header does: `makeDirectories` records a directory it
makes, which from then on is watched, and the file is created in it.

Beside the file, a second one may come into the directory where `Crowded` says so
(`Appear`): a program creates it, or a session that receives it, which makes an entry for it.
Of it the model has its entry alone (`beside`). It matters because `checkChanges()` is
a range-for over `monitorConfigs`, into which `applyDirectoryChanges()` may append
(`filesync/src/syncdb.hpp:47`, `:40`, `:16`). When an entry is added and another is behind
the directory's, the storage may have moved (`Moves`), and the loop reads and writes
freed memory: `CheckChanges` then may find the file there and upload it, or not; the time
it records is lost, so the file keeps the time the directory's change gave it; or the process ends
and is started again (`Restarted`).

### SyncStream
One connection to the server, at the level of the bytes: `Send` is a client's
`send()`, `Read` a read of at most 1024 bytes and the call of `Parser::parse`
it leads to, with `handleHeader`, `openFile`, `handleBody` of the parser chosen;
`ReadFails` and `Break` end it. FileSync takes from here that a file arrives
as sent; SyncStream takes from FileSync when its bytes reach the disk. Credentials
go through the same session. A name is assumed to have no line's end in it
(`NamesAssumption`): the code would take it for the end of the header.

### HeartBeat, and the abstract Beacon
Several hosts, each with the client and the server of `heartbeatserver.cpp` in one
process, and between them `net`, the set of all datagrams ever sent. A datagram
is received by an action that leaves it in `net`: so it may be received never, late, twice
and out of order, as with UDP.

| Action | Code |
|---|---|
| `Start` | `main()`: `client.start()` before the `io_context` runs, so that what it spawns is "queued" |
| `Broadcast`, `Found`, `WindowCloses` | `findPeers()`: the probe, its callback, and the end of the 15 seconds |
| `BeginQueued`, `SendBeats` | the call of `sendBeats()` by `start()`, and by the callback; a coroutine spawned by a coroutine runs at once, up to its wait |
| `WaitEnds`, `Beat` | the timer; one `send_to` of the range-for, with what follows it up to the next wait, which after the last target is `sending = false; sendBeats()` |
| `HandleRead` | `handleRead()`: decrypt, `checkSelf`, answer |
| `GetKey` | `SecureChannel::Server::getKey` |
| `Kill`, `StaleCrash` | the process is killed; or ends by what a round reads from a list that has moved |

Three things are modelled as the code has them and look odd. `checkSelf()` is true of
every sender *but* the host itself, and `handleRead` answers where it is false: so
the answers come from oneself, and only on a host whose name resolves to the address others see
(`Resolves`). The probe is sent in plain text and decrypted by the server,
with an empty key until someone has asked for one; what AES makes of that is left open
(`Keyless`: the text, garbage, an exception), and with a key it is never the
text. And `targets` may grow while a round is between two waits in a range-for over it:
when its storage moves, the round goes on through freed memory (`stale`), where it
may find the old targets, send to no one, or end the process. A vector's storage is
taken to double when full (`Full`).

`Beacon` says what the known hosts are promised, in terms of the phase of each
service, its list, where its round is, and whom it has served in it: rounds for ever, in each
of which every entry the list had at the beginning is served, once and in order; if the list
grows meanwhile, the rest of that round may be lost, and no other; nothing is forgotten
before a stop. `KeepsBeating` is `Beacon!FairSpec` under the mapping at the end of `HeartBeat.tla`.
Served means that a beat was sent: `beaten` has the targets of the datagrams that the
latest round has put on the network, and only `SendTo` adds to it.

The server only logs the beats it gets: no one is found to be dead, so there is nothing
about failure detection to state.

### ReverseProxy
`table`, `defaultForwarder` are what the constructor builds from the configuration;
`order` is the unordered map's order, any; `Request` is `operator()` with
`getForwarder`; `Proceed`, `Relay`, `Fail`, `Shutdown` are the waits of
`forward`: resolve, connect, handshake, write, read, shutdown. The handshake is made
whatever the route's type, and fails with a service that is not in `Secure`
(`HandshakeFails`); with `Failures` any wait may fail by itself as well.

## 3. The runs

| Run | States | Checks | Shows |
|---|---|---|---|
| `aggregator_overlap` | 405,196 | TypeOK, OwnersMatch, AtMostOneAnswer, BlocksAccounted, MergedRepliesMatchTarget, NoReplyMergedTwice, UndisturbedIsExact, OrphanedBlockIsPermanent, TokenKept | clients that ask for the same collection at once disturb each other, and how far that goes: never across paths, never two answers, never a reply twice, not a client that found its path quiet and keeps it, and not a token once the logins to its satellite are over |
| `aggregator_serial` | 14,592 | KeepsPromise, AnsweredUnlessExcused | with one request per path at a time the aggregator does what it should, for every kind of request and reply |
| `aggregator_promise` | violation | EveryMergeIsComplete | finding 1 |
| `member_links` | 200,684 | TypeOK, LinkLeadsHome, LinksDistinct, MembersAreRelayed | which links survive the round trip, and that the others do not, with names and ids that have underscores and look like another satellite's link |
| `filesync_any` | 1,925,206 | TypeOK, BlocksKeepTheirPlace, ChangeIsNoticed, NoFileOverlooked | whatever happens, blocks keep their place, no change is mistaken for a received one while it is whole, and no new file in a watched directory is overlooked, also when the storage of the entries moves |
| `filesync_calm` | 4,601 | SettledIsEqual, ChangeArrives, KeepsUp, Converges | with programs that wait and connections that hold, every change, or a later one, arrives whole on both sides, the copies agree again after it, and the services come to rest unless a stream holds data back |
| `filesync_failed` | violation | SettledIsEqual | finding 2 |
| `stream_any` | 490 | TypeOK, NeverCrashes, StoredIsPrefix, ReceivedWhole, SessionEnds | cut anywhere, a message whose header fits in a read is stored as sent; the null `currentParser` is never used |
| `stream_long` | violation | WaitsForHeader | finding 3 |
| `proxy` | 28,740 | TypeOK, AnsweredExactlyOnce, RelayedByARoute, EveryRequestAnswered | five waits that may each fail, one answer, from a service with a route |
| `proxy_plain` | violation | NoTlsNeeded | finding 4 |
| `heartbeat` | 42,390 | TypeOK, OneLoop, FoundOnlyAtHome, EveryTargetBeaten, KeepsBeating | one loop of beats per service, whatever comes in at whatever moment; in a round a beat is sent to every target unless the list has moved, which costs the rest of that round only; but a broadcast finds no one but oneself |

Bounds, all in the `.cfg` files and the MC modules:

- *Aggregator*: two satellites, since an answer is complete or not from two on; three
  clients where they may overlap (one that opens a block, one that feeds it, one that
  meets what the two left behind) and two collections, so that blocks of two paths coexist;
  two clients where they may not. `SizeMax = 15` stands for 2^64 - 1: the counts in
  reach are at most 2, and 6 late replies count down from it without coming back to
  zero, as on a real machine. `Clients` are symmetric in `aggregator_overlap` only,
  which has no liveness property.
- *MemberLinks*: three satellites, one with an underscore in its name and in front of
  the one that its name begins with, and ids that look like a renamed one or make one
  satellite's link look like another's.
- *FileSync*: two changes (a version, and one that overtakes it) of two blocks each
  (so that a file can be a mixture), one or two open uploads per service (`Slots`). With
  two slots two uploads of one service overlap, and with failures and restarts as
  well the state space gets out of hand: `filesync_any` has one slot and all
  disturbances, on one side a watched directory without files, into which a second
  file may come as well (`Crowded`), on the other not even a directory; `filesync_calm` has two slots, three changes of three blocks, and a file
  listed on both sides. The changes are made in the order of their numbers, as only
  that they differ matters.
- *HeartBeat*: one host with a configured list and two that look for peers, one of which
  resolves its own name: so there is a finder that finds itself and one that cannot.
  Two loops per host, one more than `OneLoop` says there can be. Lists of at most
  two targets (`MaxTargets`): the first append moves the storage of an empty
  vector, the second that of a full one, during a round.
- *SyncStream*: reads of five units, names of 0 to 5 and bodies of 0 to 11 of them: less
  than one read, exactly one, several, and a delimiter cut in two.
- *ReverseProxy*: two requests, and one service without TLS, with the configuration of
  `reverseproxy/README.md` extended by a duplicate, a plain path and an unknown type;
  the configuration itself in `proxy_plain`, where one request is enough and nothing fails
  but handshakes with services that do not speak TLS.

No run has a state constraint, and no counter is cut off but the length of a list
by `MaxTargets`: histories are finite because
each client asks once and each change is made once. `CHECK_DEADLOCK FALSE` is set where
the program may come to rest (all requests answered, all files equal).

What else TLC told us of FileSync, from instances that are not kept as runs: with one
writer that does not wait for the sync, `SettledIsEqual` holds as long as a service
has one upload open at a time; with two open uploads, or with two writers, the
copies may settle differently, even without failures. With data that a stream holds
back, two monitoring services may echo a file to each other for ever, which is why
`KeepsUp` says "again and again" and only `Converges`, without held data, says "at rest".

And one about directories. Take `FileSync_calm.cfg` with `Configured = {}`,
`Watching = {a}`, `Present = {}`, `Missing = {b}`, `Writers = {a}`, `Writes = {1}`: one new
file, one writer, no failure. `SettledIsEqual` is violated. The receiver makes the
directory and so begins to watch it (`filesync/src/file_handler.hpp:22`); the file that is
created in it changes the directory's time; the receiver's next poll gives the file, of
which a part has arrived, the default time and uploads it back; the sender opens
its own file for that, which empties it, while it is still sending it. The
copies may settle at less than the whole file. No doc or test speaks of
directories at the receiver, so this is listed as a hazard and not as a finding.

A second file in a watched directory has an effect of its own. With `Crowded = {a}`,
`Watching = {a}` and `Configured = {b}` in `FileSync_calm.cfg`, `SettledIsEqual` is violated:
the new file makes the old one, which has not changed, be uploaded again (and through moved
storage twice), and this upload may cross a change that comes from the other side and
write over it. This, too, is listed as a hazard.

And one about routes. `reverseproxy/README.md:11` expects that requests for a service's
own paths reach it; `wildCardMatch` takes the first match in the order of an unordered map
(`reverseproxy/src/request_forwarder.hpp:105`), so with the README's own configuration
`/redfish/v1/*` may win over `/redfish/v1/Dump/*`. That the answer comes from *some* route that
matches is what `RelayedByARoute` says.

## 4. Fairness and other assumptions

- *Aggregator*, *ReverseProxy*: weak fairness of the replies: every exchange with a peer
  ends, with an answer or an error. This is an assumption on the peers and the
  network, as the code has no timeout: a peer that keeps a connection open and says
  nothing keeps its client waiting for ever. Clients need not ask, so `Handle`
  and `Request` have no fairness.
- *FileSync*: weak fairness of the timers, of connecting, of sending and of
  receiving: the `io_context` runs every ready coroutine. None of
  `Change`, `Break`, `Restart`: these may or may not happen.
- *SyncStream*: weak fairness of the client's sends and the server's reads.
- *HeartBeat*: weak fairness of `Broadcast` and of each loop's coroutine: the timers expire,
  `send_to` ends, the `io_context` of a running service runs. None of starts and stops, and
  none of the network: a datagram need not arrive.
- One thread: `io_context` is run by one thread in every `main`, so a callback is atomic.
- Where the Reactor library decides something that is not in the repository, the
  model leaves it open (does an exception end the process, is a failed connection an
  empty response or an exception).

## 5. The theorems

The aggregator's are in three modules, each over the one before. They hold for any
set of clients, list of satellites, set of requests and kind of reply, from the
assumptions in Aggregator.tla: the names are a sequence, as many as a `size_t` can
count; the kinds of bodies and replies are the known ones; `Nobody` is no client; and
there are no more clients times satellites than a `size_t` can count
(`ClientsAssumption`: each client of the model asks once, and 2^64 requests are out of
reach of a process).

`AggregatorProofs` proves what holds however requests overlap:

- `TypeCorrect`: `Spec => []TypeOK`, which includes that counts stay in range;
- `AnswerOnce`: `Spec => []AtMostOneAnswer`;
- `OneBlockPerClient`: `Spec => []OwnersMatch`;
- `CountsAgree`: `Spec => []BlocksAccounted`;
- `OrphansStay`: `Spec => OrphanedBlockIsPermanent`, an action property;
- `MergedAtMostOnce`: `Spec => []NoReplyMergedTwice`.

None of these is inductive by itself. That a client is not answered twice needs that
its block is the only one that has it for a client and that it still waits (`OwnersMatch`);
that a block which has answered is gone, or has no client that waits, needs that its count
and results agree even when the count has wrapped (`BlocksAccounted`); and both need
that who has asked has a request and that only who has been answered by the master has
scattered calls (`Asked`, in the proof module). The invariant is

    IInv == TypeOK /\ Asked /\ OwnersMatch /\ AtMostOneAnswer /\ BlocksAccounted

with `InitIInv`, `Inductive` (one step per action, one lemma per action and part) and
`Invariant`. A block may lose its client only by being erased, and is never given one
but by `Emplace` on a free path: `OrphansStay` follows from that and `IInv`.

`MergedAtMostOnce` needs an invariant of its own over `IInv`. That no two results
of one answer stem from one call follows only if it holds of the blocks the
answer is made of, and stays true only if no call in a block is one that may still
be answered: `OnceInv` says that every result is of a call that is over, and is in one place of
one block or of one answer.

`AggregatorMergeProofs` proves what a merge is made of:

- `MergesFitTheRequest`: `Spec => []MergedRepliesMatchTarget`;
- `UndisturbedMergesAreExact`: `Spec => []UndisturbedIsExact`, from `SoloHolds`.

The first is an argument by counting. A count that has wrapped could come back to zero
only after more replies than all clients together can cause: the results of a
block are replies to distinct calls (`OnceInv`), so there are at most
`Cardinality(Clients) * N` (`FewResults`, an injection into the calls), and the count
and the results agree up to the wrap (`BlocksAccounted`). `TargetInv` adds that all
results in a block are to requests for its path. For the second, a client in
`solo` is one that found its path quiet and has since kept it; `SoloInv` follows its
block: while it gathers, the block is its own, its results are exactly its answered
calls, no one else's call for the path is open, and the count is what is still to come.
N replies to distinct calls of one client are one of each satellite (`EverySat`).

`AggregatorPromiseProofs` proves the refinement:

- `PromiseIsKept`: with one request per path at a time (`~Overlap`),
  `Spec => KeepsPromise`, which is `ScatterGather!Spec` under the mapping;
- `SerialHolds`: `Spec => []Serial`, the invariant it needs;
- `TokensAreKept`: `Spec => TokenKept`, an action property.

`Serial` says that, without overlap, at most one client waits for a path
(`OneWaiter`), only a client that gathers has calls open (`OpenWhileGathering`), and a
client that gathers and is not in `solo` has found a block in its way which is not its own
(`Late`): one that an earlier request left behind. So each reply either completes the
client's own block with the last of its calls, or goes to one that no reply of this
client can complete (`SerialReply`). Each action then maps to an action of ScatterGather
or a stutter (`ScatterSeen`, `EndSeen`, `LoginSeen`, `CallSeen`, ...).

`TokensAreKept` needs neither `~Overlap` nor anything about collections. `TokenKept` is about
a satellite the requester is logged in to: it has a token, and no login to it is open. A
login is begun only where there is no token, so from then on none is, and
nothing else writes it. What it does not say is that the token is there after
overlapping logins: of two that are under way at once, the later answer may
put an empty token in place of the first one's, which the model lets it.

`MemberLinksProofs` proves `LinksLeadHome`: `Spec => []LinkLeadsHome`, for every list of
names and all ids, with nothing asked of them but that none is empty. Its lemmas are
about the routing: a name is the beginning of what it is put in front of
(`PrefixOfConcat`), `find_if` takes the first name that begins a segment (`FirstOwner`), so the
owner is the one whose name was put there exactly if none before it fits
(`OwnerOfMember`), and stripping a segment of its first word undoes the renaming exactly if
the name is one word (`TailOfConcat`); together `RoundTrip`, and `MasterLink` for the
master's own. From there, and the invariant that a listing has nothing but links that
were made so (`ListingsAreMade`), follow `TypeCorrect`, `LinksAreDistinct` (two unambiguous
members with one link would both be where it leads) and `MembersRelayed` (a satellite's
member is never merged).

`ReverseProxyProofs` proves for every configuration and every number of requests:

- `TypeCorrect`: `Spec => []TypeOK`; a request that is taken has a service to go to,
  because the proxy serves only once `Start` has found a default;
- `OneAnswer`: `Spec => []AnsweredExactlyOnce`;
- `RelayedByRoute`: `Spec => []RelayedByARoute`.

The invariant adds to these that the map's order lists every key (`Ordered`) and that
the service of a request is one of `Eligible`, those with a route for its path
(`Served`). The substance is `ForwarderMatches`: the first wildcard in any order of the map, the path's
own entry, and the default are each in `Eligible`, the default because a key that
matched would have been found. `LeastOfNaturals` and `LastOfIndices` show that the
first match and the last entry of a duplicate exist, so that `CHOOSE` names them.

`HeartBeatProofs` proves for any hosts, configurations, ciphers, numbers of loops and of
targets:

- `TypeCorrect`: `Spec => []TypeOK`, with every round within the list it goes through;
- `OneLoopAlways`: `Spec => []OneLoop`;
- `NoPeerIsFound`: `Spec => []FoundOnlyAtHome`;
- `RefinesBeacon`: `Spec => AsBeacon!Spec`, the safety part of `KeepsBeating`, in which
  an entry is served only by a beat sent to it.

The invariant adds where a service may be between two steps (`HostInv`: a loop is
"queued" only while the flag is not set and no broadcast is open, so nothing can begin a
second one; the flag is set exactly while a loop runs; only a round has a place in the list), and
that answers in plain text come home (`AnswersComeHome`). The last is what makes
`FoundOnlyAtHome` inductive: the network keeps every datagram, so a property of
whom one finds must be one of all that was ever sent.

`FileSyncProofs` proves for two services (`PeersAssumption`; `OnePeer` shows that `Other` is
then the other one) and any number of blocks, changes and uploads open at a time, whoever
is configured, watching or missing the directory:

- `TypeCorrect`: `Spec => []TypeOK`;
- `BlocksInPlace`: `Spec => []BlocksKeepTheirPlace`;
- `ChangesNoticed`: `Spec => []ChangeIsNoticed`;
- `NoneOverlooked`: `Spec => []NoFileOverlooked`;
- `CopiesAgree`: where nothing disturbs the services (`Undisturbed`),
  `Spec => []SettledIsEqual`.

That blocks keep their places says nothing of those on the way, so it is not inductive. The
invariant follows a block from one file to the other (`Arrives`): behind the header, until
that is read, the blocks from the first on; then what the wire has follows what the
stream holds back, which follows what was written; and the sender has read as
many as there are. `SeqAt(s, n)`, "s follows n blocks", is kept by appending, taking the
first, and writing at a place (`SeqAtAppend`, `SeqAtTail`, `SeqAtPut`). The other two are
inductive together (`Noticed`), with the type invariant of the step's end. A poll is split
into its cases (`CheckChangesCases`): an ordinary one, one in storage that has moved, one
that ends the process. `ChangesNoticed` is about changes that are whole. Of a change with
received data over it the opposite may hold, as section 2 says.

`CopiesAgree` is about the protocol as a whole, and needs an installation in which it
works. `Undisturbed` asks that connections hold (finding 2) and no service is restarted;
that programs wait for the sync before they change the file; that no file is created in
a directory that a monitor watches, this one or another beside it; that a file which a program changes is
monitored there; and that where not both machines have the file, the one that has it lists
it. It is sufficient, not necessary, but `FileSync_calm.cfg` with any one part given up in turn
has instances which violate `SettledIsEqual`: `Failures`, `Restarts` or not `Calm`; a
directory that both watch and neither has the file in, or a listed file whose directory is
missing; a second file that comes into a watched directory; a writer without an entry; a file on one machine, listed on the other.
Under it, `SyncInv` says what the system as a whole is doing: all copies are still empty
(`Empty`, when uploads of the first poll may overlap), or everything is at rest and
equal (`AtRest`), or one change waits for its poll (`Announced`), or one transfer is under
way (`Transfer`). In a transfer the copy being written is a beginning of the one being read,
what is held back follows it, what is on the wire follows that, and if the sender is done
this is all of it (`Writing`; `Part` and the lemmas on it). The end of a session either
leaves equal copies at rest or, if it passed on what was held, equal copies and one
announced change, the echo. The invariant has no bound on how often that repeats, which is why
`CopiesAgree` says nothing of coming to rest.

`SyncStreamProofs` proves for any messages whose names have no line's end and whose
credentials are sent at once (`NamesAssumption`, `MessagesAssumption`), and any length of a read:

- `TypeCorrect`: `Spec => []TypeOK`;
- `ParserIsThere`: `Spec => []NeverCrashes`;
- `PrefixStored`: `Spec => []StoredIsPrefix`;
- `WholeReceived`: `Spec => []ReceivedWhole`.

The invariant says that what is on the wire and unsent, read in order, is the text of
the message behind what has been stored (`Prefix`), up to its end unless the connection
broke. That some records are, one behind the other, a stretch of a text is said by
a function that gives the place where each ends (`Spells`), as a fold could not be unfolded.
A client's division of its message satisfies it (`RecordsSpell`); a read of a part
of a record, or of a whole one, and a loss at the end keep it (`SpellsRest`, `SpellsPrefix`).
The first line's end of the first read is that of the header (`FirstRead`), because the
name has none and the header fits.

Every safety invariant and action property that a passing run checks is a theorem. Only
model-checked is what needs fairness, which is out of the prover's reach:
`AnsweredUnlessExcused`, `ChangeArrives`, `KeepsUp`, `Converges`, `SessionEnds`,
`EveryRequestAnswered`, `EveryTargetBeaten`, and the fairness that `KeepsBeating` asks for
beyond `RefinesBeacon`.

## 6. Findings

1. **Two requests for one collection at once** (`aggregator_promise`): `blocks` is keyed by
   the target alone (`aggregator/src/aggregator.hpp:65`). The second client is never
   answered, the first may get a merge in which one satellite appears twice and another
   not at all, and the remaining replies make an orphaned block under that
   path, after which no GET of that collection is answered (`OrphanedBlockIsPermanent`).
2. **A failed upload is not retried** (`filesync_failed`): `checkChanges` records the new
   time before the upload (`filesync/src/syncdb.hpp:59`); when it fails the services
   rest with different copies until the file changes again.
3. **A header longer than a read** (`stream_long`): the comment at
   `filesync/src/parser.hpp:55` says "wait for more data", but what was read is not kept.
4. **A service without TLS is never reached** (`proxy_plain`): `reverseproxy/README.md:36` says
   that services need not implement https and can have non encrypted end points, but
   `forward()` makes the handshake with each of them
   (`reverseproxy/src/forwarder.hpp:77`), and answers 500 when it fails.

## 7. What is not modelled

- `executeGuarded` after an exception: it starts the same function again without a
  pause, which for a missing certificate file is an endless loop. Whether the
  file is there does not change while the service runs, so there is nothing to interleave.
- *Other files than the one followed*: of a second one in the directory, its entry
  and what it does to the poll; its contents and its uploads, which have streams and
  connections of their own, are not.
- *A file that is deleted*: `checkChanges` skips it and no one is told; a copy on
  the other side stays. Deletion would add a state to `present` in which nothing happens.
- *Links inside a relayed resource* of a satellite, and paths below one: `forward()` looks
  at the last segment alone, so they reach the master. The module has the links that
  `mergeMembers` makes.
- *TLS*: contexts and certificates are set up once per connection; that a handshake
  fails is in the models as a connection that fails.
- *Depth of recursion* of `doRead`/`doWrite`: each read is a nested call, which
  bounds no behaviour here but may exhaust a stack.
- *Expiry of a satellite's token*: the code never drops one; a satellite that rejects
  it answers an error, which is one of the replies.
- *Secure channel, client side*: used by nothing in the repository.
- *Certificate installer*: `install()` runs from its request to its response without a wait, so
  nothing interleaves with it. What can go wrong (a link that exists, an `ln` that
  fails) is in the file system and in how OpenSSL looks up certificates later.
- *Certificate generator*: OpenSSL calls in a straight line, and one post.
- *HTTP demos* (dump uploader, hello handlers), *HTTP client*: a response formatted
  from one request.
- *Inotify example, netlink monitor*: a loop that prints events.
- *Reactor library*: not in the repository; modelled inside the actions, from its use.

## 8. The plan

1. Done: aggregator (with routing and links), file sync (both halves, with directories),
   reverse proxy, heartbeats; the theorems of section 5.
2. **Proofs**: an abstract specification of FileSync (two registers, of which one is copied
   to the other) that it implements where nothing disturbs it, from `SyncInv`; a weaker
   `Undisturbed` for one writer who does not wait, with one upload open at a time.
3. **Two whole files** in FileSync: `applyDirectoryChanges` uploads all files of a
   directory at once. The second file's entry is there; its contents matter only together
   with a bound on connections that the code does not have.
4. **Overlaid changes**: a weaker promise for a program that changes a file while it is
   received, as far as the code keeps one when the upload runs to its end.
