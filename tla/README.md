# ftpiiu in TLA+

Models, model checks and proofs for the ftpiiu plugin (`source/`, `include/`), an
FTP server that runs in a background thread of the Wii U. The build that is
modelled is the plugin's: `__WIIU__`, `CLASSIC`, glob support, and no `NDEBUG`,
so every `assert` in the code is live and ends the process when it fails.

    tlc -workers 2 -config MCSession.cfg MCFtpSession       # one run, see below
    tlapm FtpSession_proofs.tla                             # one proof module

## 1. The system

Two threads. The **plugin thread** runs the callbacks of `wiiu/platform.cpp`:
an application starts or ends, the configuration menu switches the server or the
access to the system files. It mounts volumes, fills a table of virtual
directories, creates the `FtpServer` and destroys it. The **server thread** loops
over the listening socket, mDNS and the sessions. All sessions are driven by that
one thread from `FtpSession::poll`; what they share is the configuration, the files
and directories of the devices, and the virtual directories.

| Part | State | Operations | What is hard | What makes it correct |
|---|---|---|---|---|
| FTP session (`ftpSession.cpp`) | three sockets and the closing ones, state, PASV/PORT flags, direction, open file and directory, transfer buffer, login, rename | `poll`, dispatch of events, `setState`, `dataAccept`/`dataConnect`, four transfer routines | poll results are a snapshot compared by address; commands run between the events; replies fail inside handlers; a socket may have two owners | ownership of sockets, the asserts of `poll`, nothing left over after a transfer, every command answered once, the call returns, idle sessions go |
| FTP commands (`ftpSession.cpp`) | as above | 36 handlers | pipelining, commands during a transfer | as above, and: no effect before login |
| Response buffer (`ioBuffer.cpp`, `sendResponse`, `writeResponse`) | bytes, start, end | append, write, compact | partial and blocked writes, exactly full | replies arrive in order, once; room is given back |
| Command buffer (`readCommand`) | bytes, urgent flag | read, cut into commands, Telnet Synch | a command split across reads, urgent data, full buffer | every line is executed whole, in order and once, none across a Synch, none left lying |
| Server loop (`ftpServer.cpp`) | listening and mDNS socket, sessions, quit flag | loop, network found and lost, destruction | network loss at any point, stop at any point | recovers by itself, stops when asked |
| Plugin entry (`wiiu/platform.cpp`) | two settings, mounts, virtual directories, the server pointer | application start and end, two switches | mounts that fail, stale table, stop while busy | the access switch is obeyed, no unmount under open files |
| Sockets and addresses (`socket.cpp`, `sockAddr.cpp`) | a descriptor | wrappers of system calls | their failures | (part of the users) |
| Configuration (`ftpConfig.cpp`) | user, password, port, host name | load, save, set | changed by any session | what SITE set is used and saved |
| Virtual directories (`IOAbstraction.cpp`) | table, open virtual directories | opendir, readdir, closedir, stat, clear | handles are addresses in a list all sessions share; stop while listings are open | every handle has one session, a listing is complete |
| Paths (`resolvePath`, `buildPath`, `changeDir`) | working directory, rename | CWD, CDUP, RNFR/RNTO, every path argument | dots and slashes; what others remove meanwhile | a path is what its text means, a session stands in a directory |
| mDNS (`mdns.cpp`) | probe state, times, host name, all static | probe, announce, answer, rename | time, names that change meanwhile, sends that fail, answers that delay announcements | announced after three probes, and known in the end, as far as sends go through |
| Files (`fs.cpp`, REST, `xferFile`) | FILE, stdio buffer, offset, transfer buffer | open, seek, read, write, close | short reads and writes, offsets beyond 2^31, a flush that fails, a session destroyed | the file is its old bytes with the upload in place; what is acknowledged is whole |
| Glob, logging, desktop entry point | | | vendored, output only, other targets | |

They interact by calls: `FtpServer::loop` calls `FtpSession::poll` and drops
sessions that are `dead ()`; a session calls the socket, file, glob, configuration
and mDNS modules; the plugin thread only touches the server through its
constructor, `m_quit` and the join in its destructor. `PROJECT.json` lists for
each part what is modelled, and under `hazards` the places, with their lines,
where this code is hard to test, each with the properties that cover it or the
reason why none does.

## 2. The modules

    SessionObject <- SessionCommands <- FtpSession <- MCFtpSession
                                              ^------ FtpSession_proofs
    IOBuffer <- ResponseStream <- MCResponseStream, ResponseStream_proofs
                      |  implements
                     Pipe
    FtpServer <- MCFtpServer, FtpServer_proofs
    Mdns <- MCMdns, Mdns_proofs
    IOBuffer <- CommandStream <- CommandStream_proofs
                      |  implements
                 CommandLines
    IOBuffer <- Transfer <- MCTransfer, Transfer_proofs
    Paths <- IOAbstraction <- Files <- MCFiles, Files_proofs
    IOBuffer_proofs: lemmas for the three proof modules about a buffer

**SessionObject** is the `FtpSession` object as a record, one field per member
that controls anything, and its private methods as operators. A method whose
outcome depends on a socket, the file system or the allocator returns the *set* of
records it may leave, so a handler is a composition of such sets, in the order of
its calls, with every early return. Sockets are heap addresses, because that is
what `poll` compares; an address is free again once its object is destroyed. The
transfer buffer is reduced to "empty", "bytes of this transfer", "bytes of an
earlier one"; the history field `owed` counts final replies; `fault` says how the
process died (null pointer, failed assert, `std::abort`, empty write).

**SessionCommands** has the handlers, an operator each. Those that do not touch
sockets, transfers, login or `m_rename` return to COMMAND and reply once (`Settle`).
Results of parsing, of the file system and of the configuration are free choices.

**FtpSession** is the control flow of `FtpSession::poll`: `pc` is the place in it,
`reported` the entries of `pollInfo` still to be looked at.

| Action | Code |
|---|---|
| `Poll` | closing pending sockets, building `pollInfo` with its asserts, `::poll`, the return when nothing is polled |
| `WriteResponse`, `ReadUrgent`, `ReadCommand`, `HangUp` | an event of the command socket |
| `UnknownCommand`, `RefuseCommand`, `ExecuteCommand` | one round of the loop over buffered commands: 502, 503, handler |
| `NotData`, `DataInCommand`, `DataConnectEvent`, `DataTransferEvent` | an event of the data socket, by state |
| `ListTransfer`, `GlobTransfer`, `RetrieveTransfer`, `StoreTransfer` | one call of `m_transfer` in the loop of at most five seconds |
| `IdleTest` | closing an idle session |
| `Reap`, `Destroy` | what the server does to one session |

Operators of the form `XKeepsY`, commented "Mutant", are plausible bugs; they are
not part of the specification and only serve to show that a property can fail.

**IOBuffer** and **ResponseStream** keep the response buffer byte by byte with its
two offsets; **Pipe** is what the connection promises: accepted bytes are delivered
in order, once each. `FtpSession` only knows whether the buffer holds something.
The two meet in `sendResponse`: what fails in `ResponseStream` closes the command
socket in `FtpSession`.

**FtpServer** has the two threads. A session there is present, dead or gone and
has files open on volumes; `Reap` is the session's `Reap`, `NetworkLost` and
`StopReturned` its `Destroy`. `start_server` runs while there is no server thread,
and so does `stop_server` after the join, so each is part of one step; the join
itself is a step of its own that waits (`Joined`), and every step of the server
thread can come between `Stop` and `StopReturned`. Mounts may fail, and so may `Mocha_UnmountFS`, whose
results `stop_server` does not look at: `stuck` is the history of what it left mounted. With
`sMochaPathsWereMounted` reset nothing tries again before the access was allowed once more, so such a volume can
still be reached by its name while access is off; `SystemFilesHidden` names it as the one exception, and shows that it is
not listed.

**Mdns** is the responder with its static variables. `handleSocket` is one action: the
probe or announcement that is due (`Timed`) and then the message that was received
(`Answered`), of which only the questions that match types and classes count. SITE HOST
comes from a session (`SiteHost`), the socket from `FtpServer`'s network handling
(`createSocket`, `NetworkLost`), and `Restart` is the constructor of the next server.
Time points are kept as ages up to the first beyond a quarter of the TTL, the longest
interval they are compared with. `writeTo` may fail for each datagram of a call (`failed`); as in the code nobody looks
at that: the time is noted and the state goes on. `probes`, `lost` and `known` are history: what went out,
what did not, and whether all were told the name. That a datagram which was sent arrives is not
claimed; `known` is about sending.

**CommandStream** is `readCommand` byte by byte: the bytes of the client on their way
(`net`), the urgent byte and the mark before which it stands, `m_commandBuffer`. The
steps are `Poll` (what is reported), `ReadUrgent` (POLLPRI: what was sent before the Synch is
dropped, then the urgent byte), `ReadInBand` (a read of any length, the test for a full
buffer, the search for the data mark) and `NextCommand` (one round of the loop).
Urgent data works as in BSD sockets: it is announced ahead of the bytes before it,
a read stops at the mark, a later urgent byte replaces one that was not read.
**CommandLines** is the promise without any buffer: bytes sent and not dealt with, and
steps that execute, drop or ignore a first part of them. It lets a line be executed only
if it ends with the first LF, in the order sent, and lets nothing sent after a Synch be
touched before that was dealt with. `FtpSession` takes the lines of one read as a batch.

**Transfer** is one file and one client: REST, `xferFile`, the two transfer functions, the
numbers and the stdio buffer (`pending`: taken by fwrite, not on the disk; a close writes
some of it, and `fclose` is not asked). A 64-bit offset is parsed modulo `UMax + 1` and
becomes a long in `Narrow`. The history variables say what the client asked for (`asked`),
where the transfer began and what the file held then (`at`, `base`). `Broken` and `Destroy`
are what `FtpSession` and `FtpServer` may do to a transfer at any point.

**Paths**, **IOAbstraction** and **Files** are what sessions share. A path is the sequence of its
components; `Collapsed` is the loop of `resolvePath`, and `Meant` an independent definition of
what the text means, by counting. `IOAbstraction` is the class of that name, a directory
handle being the address of a DIR. `Files` has the commands on directories and names, the
listings and the life of sessions: `Connect`, `Destroy`, and `Restart` for `stop_server` and the
next `start_server`. What a device does is external: it may have, make, remove and rename, and
may refuse; which paths with dots it understands is left open.

## 3. The runs

| Run | Module, cfg | Shows |
|---|---|---|
| session | MCFtpSession, MCSession | types, socket ownership, the asserts of poll, clean COMMAND, a file for every file transfer, fresh transfer buffer, data sockets shut down, transfers undisturbed, nothing before login, one final reply per command |
| progress | MCFtpSession, MCLive | `poll` returns; a silent session is reaped |
| responses | MCResponseStream, MCResponses | the buffer implements `Pipe`, room is reclaimed |
| server | MCFtpServer, MCServer | access switch, listings, unmounting, recovery, stopping |
| mdns | MCMdns, MCMdns | nothing is announced before it was probed three times, as far as sends go through; a name that stays becomes known if one of its two announcements goes out |
| framing | CommandStream, MCFraming | the command stream implements `CommandLines`; only long lines are refused; no line is left lying |
| transfer | MCTransfer, MCTransfer | bytes sent and stored in order, from where the client asked if a long can hold the offset; what 226 is worth; what failures may do to a file |
| files | MCFiles, MCFiles | directory handles, whole listings, paths, working directories |
| stale_pasv, empty_write, reply_full, offset | | what the code's comments and asserts say and the code does not do, see section 6 |

**Bounds.** *Addresses*: a session holds at most a command, a listening and a data
socket at once, plus closing ones. Three addresses let one transfer's sockets be
closing while the next one is set up, let every address be in use (creation
fails), and let a new socket get the address of one that was just destroyed; the
liveness run has two, which still allows PASV, one transfer and the shared socket.
Addresses are interchangeable, hence the symmetry in the safety runs; the liveness
runs use none. *MaxBatch* is the number of complete commands in one read: two are
needed for a command to act between an event and its handling after another one
(ABOR then PASV), and a third adds no new neighbour. *Commands*: the run session executes every kind of
handler, `OTHER` standing for those that are just `Settle`; the other runs have the commands
their properties are about. *Response buffer*: four bytes, replies of
one to three, at most eight bytes in all: it can be exactly full, one short,
wrapped by compaction and refilled. *Server*: two sessions and two of the eight
volumes, so that one mount fails while the other succeeds and one session dies
while the other lives. *mDNS*: the default name, one with a dot and one too long
to send; waits of one, two and three ticks keep the order of 250 ms, 1 s and 30 s; two
questions, of which the second must not be answered when the first is. `probes` and `lost` need
no bound: there are three probes and two announcements while name and socket stay. *Command stream*: a buffer of
three bytes, four bytes and two Synchs sent: a line of one byte with CR LF just fits, one of
two does not, two lines fit into one read, a CR LF may be cut in two, and a second Synch
finds the first announced, there, read, or waiting for its data mark; the bytes are the four
that matter to the code. *Transfer*: a buffer of two bytes and uploads of up to three, so that the
buffer is filled twice and a short write leaves one byte behind; a file of three; a 5-bit
`uint64_t` and a 4-bit `long`, with an offset inside the file, one behind its end, one that
is negative as a long, one that wraps to a small number, two that overflow while they are
read and one that is no number; two transfers, because what the first leaves behind meets
the second. *Files*: two clients and two addresses (a third client would find none to list
with), one volume with two entries and one entry below, so that a directory with something in
it can be listed, renamed, and be stood in; the table the plugin fills, and the empty one it
leaves when the library fails; arguments with dots inside, before and behind a name. The one that goes above the root,
`/fs/../../fs`, is always refused here (the directory it names first is on no device): what becomes of such a path where a
device takes it is not seen by TLC, but part of `CollapsedAsMeant` and `PathsFollowed`, which hold for all paths. Clients and addresses are interchangeable there.

**Deadlock** is checked in every run. A destroyed session and a dead process only
stutter (`Over`).

**Fairness.** `FtpSession`: the server thread keeps running (`WF` of `ThreadStep`),
except that a call of poll with nothing of the session to poll gets nowhere unless
another session has something, which is not assumed (`AtUnpolled`);
the clock advances, so some poll finds IDLE_TIMEOUT passed since `m_timestamp`
(`SF` of `Poll` setting `stale`) and the five seconds of a transfer loop
run out (`WF` of leaving it). Nothing is assumed of the client or of what it sends.
`SilentSessionReaped` is about a session from which nothing is reported any more
while others are silent too: `handled` is set by the events of any session, so a
busy session really does keep others alive, and the property does not say
otherwise. `FtpServer`: both threads run, which for `PollSessions` is what
`PollReturns` shows of each session, and setting up the listening socket succeeds
some time if it is tried for ever (`SF`), which the loop does each round.
`networkVisible ()` is constantly true on this platform. `Mdns`: the loop calls
`handleSocket` and the clock runs; nobody needs to ask, and anybody may, as often as
they like. Nothing is assumed of the sends: `BecomesKnown` says instead that one of the two announcements is enough, and
excepts two cases in which a name that stays is never announced, both real. If both fail, the responder is `Complete`
and makes no third. And an answer to all notes the time also when it fails, so answers that fail for ever put
the announcement off for ever. `CommandStream`: the thread goes on (`WF` of `Server`), and an urgent byte that
was announced arrives (`WF` of `UrgentArrives`; TCP delivers it or the connection breaks,
which is `Close`). The client need not send anything. `Transfer` and `Files` state no
liveness: their data sockets are `FtpSession`'s, and `PollReturns` is shown there.

## 4. The proofs

All by `tlapm`, for every value of the constants: any number of addresses, any
subset of the commands, any batch, buffer size, set of replies, number of clients,
set of volumes, alphabet, file, upload, tree of directories and width of integers. Assumptions: `None` is no address, `NUL` is a byte, `Size` is
positive, replies are non-empty and contain no NUL, `Commands` are commands,
`MaxBatch` is positive, "fs" is no system volume, the default host name is a name and
not empty, the mDNS waits are naturals in their order, CR, LF, NUL and the data mark are
different bytes, dots are no names, `None` is no handle and no open directory.

`Files` assumes two things of where files can be. `DevicesAssumption`: there is a device, every place is on one, none
is inside another, and a place that is no root is in a place. `AboveAssumption`: a table that is not
empty lists the root, the directory above each of its paths and above each device, and of the paths on
a device only the root. That is what `start_server` (`platform.cpp`) fills in: "/", "/fs" and "/fs/vol"
as directories of names, "/fs/vol/content", "/fs/vol/save" and the mounted "/storage_..." as roots, with
their parents in the table; and nothing at all when Mocha cannot be initialised, which is why
`CwdIsDirectory` excepts the empty table.

Version 1.4.5 of `tlapm` gives its SMT solver an axiom on sequences that holds only of
sequences (`DOMAIN s = 1..N <=> Len(s) = N`, for every `s`), so it is too strong for functions that are
none. All proofs here have also been checked with the implication from right to left left out;
none depends on it.

**FtpSession_proofs.** `SocketOwnership`, `PollAssertions` and `CommandIsClean` are
not inductive: a handler passes through states that break them, and what poll
asserts depends on how each state was entered. `IndInv` (in `FtpSession`)
consists of

 * `Core`: closing sockets have no other owner, the listening socket has one, PASV
   and PORT are exclusive, no assert has failed. It holds at every point *inside* a
   handler too, which is what makes the handlers compositional.
 * `Mode`: what each state promises - COMMAND has no data socket, direction or
   directory; DATA_CONNECT has one direction and a data socket exactly when it is not
   waiting for PASV; DATA_TRANSFER has one direction, no listening socket, and loses
   its data socket only together with the command socket it shared.
 * `OutputEntriesKept`: a socket reported writable is not destroyed before its entry
   is handled. Without it, an address reported for a PORT connection could by then
   name another object and `dataConnect`'s completion would find no socket.
 * `ControlOK`: which places have an entry at hand.
 * `CommandEntryOnce`: the command socket has one entry, the first, reported writable only with a
   reply to write - unless MLST or STAT share it (`Shares`).

There is one lemma per method and handler (from `Core` and perhaps `Mode` to `Core` and
`Mode`), then one per action, then `IndInvNext`. The theorems `Invariance`,
`TypeCorrect`, `Ownership`, `AssertionsHold`, `CleanCommand` follow; `CommandIsClean`
and the others are conjuncts or consequences. `DataKept` proves the action property
`DataSocketsShutDown` from the same case analysis. The idle test is the one place
that closes everything and leaves `m_state`: such a session is dead and is not polled
again, which `IndInv` says.

`WritesUnshared` gives the exact cause of the run `empty_write` (section 6): without MLST and STAT among the
commands `WritesSomething` holds. `CallAdvances` is the part of `PollReturns` a prover can reach: a call takes up
two entries at most, and every step of it ends the call, ends an entry, lowers `Left` (the places behind `pc` and
the commands read, at most `MaxBatch + 4`), or is a round of a transfer. That the rounds end, and that the session
runs at all, is fairness.

A second invariant, `FineInv` (in `FtpSession_proofs`), is about the transfer's source, the login and
the replies. Between calls a session is `Idle` (in COMMAND, no reply owed, a name for RNTO only for a client that is
logged in) or `Busy` (not in COMMAND, logged in, a file or /devZero for a file transfer, no old bytes in
the buffer, one reply owed); inside a handler it is `Called`, or `Busy` with two replies owed. It reads no address, so
it is inductive without `IndInv`. The lemmas say of each method what it pays of `owed` and what it leaves alike.
`FileAtHand`, `LoginKept`, `AnsweredOnce`, `NoOldBytes` are read off it; `SourceKept`
is the action property `TransferUndisturbed`: `Goes`, shown of every step, says that a
transfer that is under way before and after a step has the same source.

**IOBuffer_proofs** says what `markUsed`, `markFree`, `coalesce` and `clear` do to the sequence of
used bytes, and collects facts about cutting sequences that the library lacks.

**ResponseStream_proofs.** `StreamStep` shows that each action hands over
a chunk and delivers a prefix, and `Delivered` is the refinement
`Spec => PipeSpec`. `Reclaimed` is the invariant it needs.

**FtpServer_proofs.** `IndInv` adds to the properties `VolumesOK` (what is mounted is
flagged and allowed, or stuck; what is listed is mounted, and allowed but for "fs"; without a server
nothing is listed and only what is stuck is mounted) and
`CallbackOK` (what each callback inside `stop_server` is there for). From it
`SystemFilesHidden`, `ListedIsMounted`, `VolumesInUse`, `ServerFollowsSwitch`,
`SessionsBehindSocket` and `TypeOK`. `StopAdvances` is the part of `StopReturns` without fairness: from the
entry of `stop_server` on no callback and no new round of the loop comes in between, and each step of the server thread
lowers `Distance`, at most 4, to its end. It needs `QuitOK` beside `IndInv`: `m_quit` stays set while the callback waits.

**Mdns_proofs.** `ProbedFirst` only speaks of the time after the probes. Inductive is
`Counted`: in every state the probes made for this name on this socket, those that went out and
those that `writeTo` failed to send, are as many as come before the state. `TimedOK` shows that the timed part moves both
together, `CountSplit` that a probe is counted on one side only, `AnsweredOK` that answering touches neither, and
`SetHostnameFacts` that a name which changes starts from the first probe. `TypeCorrect` and `Probed` follow.

**CommandStream_proofs.** `StreamInv` (in `CommandStream`) says what holds between reads: no gap in the
buffer, no whole line outside the loop, no data mark while one is waited for, a Synch being
looked at while it is due. One lemma per action proves it kept (`InvariantKept`), and
`OnlyLongLinesRefused` is one of its conjuncts. For the refinement `WholeLines` every step is mapped
to one of `CommandLines`: the work is in showing that cutting the buffer and cutting buffer and
`net` behind each other are the same (`Used(buffer) \o net`), and that the first delimiter `parseCommand`
finds, CR LF or LF, is the end of the first line.

**Transfer_proofs.** The inductive invariant is `SentInOrder` and `StoredInOrder` together with the types and
what each state leaves empty. The heart is `PatchGoesOn`: a second piece put
behind a first is both in one piece, whatever gap or tail the file has. From the invariant
`WholeFiles` and `FilesChangeByUpload` follow action by action; for a destroyed session the witness is
what reached the disk. `OffsetsAsWritten` says that REST's loop, with its test for overflow before each
step, computes the number the text means or refuses it, for every width. `Parsed` and `Value` are
recursive functions over the digits. `LoopRuns` shows that such a function has the values of the loop
it is defined by, and `LoopKeeps` that a relation which holds at first and is kept by every round holds at the end.
Both rest on `NaturalsUpwards`: a set of naturals that has 0 and with each its successor has all,
because what it lacks would have a smallest member (`WFMin`, `NatLessThanWellFounded`); induction as a fact about sets,
since the library's induction rules take a predicate as a parameter. `OffsetsNarrowed` then follows with an
invariant of its own (`OffsetKept` and the others, by action): a transfer begins at the lower bits of the number that was
written (`LowerBits`), which is that number if and only if a long can hold it. That larger ones are honoured is what the run
`offset` refutes.

**Files_proofs.** `ListInv` is `HandlesOpen` and `ListedWhole` with the types of handles and listings. What a step can
do to them is one of `OpenKeeps`, `CloseKeeps`, `EntryKeeps` (opendir, closedir, readdir) or `UnchangedKeeps`,
and every action is put down to one of these. `VirtualNames`, `OneMore` and `AllOfThem` say what a listing has
shown when it is begun, goes on and is at its end.

`CollapsedAsMeant` is about `buildPath` and its loop over the components, for every working directory and argument:
the code keeps a stack, the reference `Meant` keeps a name when no later ".." takes it away, that is when from it on the ".."
are never more than the names. `Depth` turns both into one number: 1 for a name, -1 for "..". `DepthCounts`
equates depth and counts; `StackStep` shows, round by round, that the stack holds exactly the positions
whose depth is not undercut since, in order (`IsStack`), the empty stack included, where ".." does nothing
to the stack; `RankInStack` turns positions into indices. `UpMeant` is the same for CDUP's argument. With `PathInv`
(types of working directories and names to rename, beside the equation) `PathsFollowed` is one case per command.

`CwdIsDirectory` is not inductive: CDUP and `CWD ..` go to the parent without a look, so the parent has to be a
directory whenever the child is. `TreeInv` says so: what is in the tree is on a device whose root is there and has its parent
there as a directory (`Rooted`, `Left` for what was taken away), and every session stands in such a place (`Standing`). `RemovedRooted`, `AddedRooted` and
`RenamedRooted` keep it through the three ways the tree changes; `ParentStands` is the step of CDUP, where the assumption
on the table is needed for the parent of a device's root. TLC checked `TreeInv` on the run `files` before.

**Only model-checked:** the liveness properties (`PollReturns`, `SilentSessionReaped`, `StopReturns`, `ListensAgain`,
`BecomesKnown`, `NothingLeftLying`), because liveness under fairness and `ENABLED` are out of the prover's
reach, and what the four runs of section 6 refute. Every other property of the runs is the
conclusion of a theorem. No module declares a `RECURSIVE` operator.

## 5. What is not modelled

How commands and the fields of PORT are read; the texts of listings, replies and help; the
settings behind SITE, OPTS and MODE and their storage; the layout of mDNS messages; glob,
logging, formatting. `FtpConfig` is loaded before there is a session and saved by SITE SAVE:
reading and writing lines of text under a lock, without a state of its own that could get
out of step. SITE SAVE seems not to work on this platform in any case: `mkdirParent` looks
for the empty path first, and the file's name reaches the C library as a path on a device
that is not there. Two clients that store or rename the same file while it is being
transferred are the file system's subject; `Transfer` has one client. The
null dereference of the command socket after a reply fails in the middle of a
handler is modelled (`nullCommand`) but no property is stated against it, since
nothing in the repository says the socket is there. Whether `accept` can block is
left to the console's network stack.

## 6. Where code and comments disagree

 * **stale_pasv.** `setState (COMMAND, true, true)` closes the listening socket but
   leaves `m_pasv`; the next transfer command waits on a socket that is gone.
 * **empty_write.** MLST and STAT share the command socket, which is then polled
   twice; the second entry writes an empty buffer and the assert of `Socket::write`
   fails.
 * **reply_full.** A response buffer filled exactly fails the assert of `freeArea`
   at the next reply.
 * **offset.** REST takes 64 bits, `fseek` a long of 32: an offset of 2^31 and more fails
   with 450, one of 2^32 and more begins somewhere else, and STOR overwrites what is there.

Not runs of their own. In `FtpSession`: ABOR and PASV in one read may put the new listening
socket at the address of the polled one, whose old event then reaches `std::abort`
(`DataInCommand`); NLST with a wildcard does not clear the transfer buffer, so bytes of an aborted
transfer precede the matches (`XferGlob`); PASV then QUIT leaves a session with only a listening
socket, which is never polled, found idle or reaped while no other session is polled (`Unpolled`).

In `Transfer`: a session that is destroyed during an upload - idle, or with the server - destroys the
stdio buffer it gave to `setvbuf` before `fclose` writes it out, so what is written is what the
memory holds by then (`Destroy`; `OnlyUploadedBytes` says how far the damage goes). A STOR that is
refused with 503 or 425 has emptied the file already. A 450 does not reset the offset of REST,
which the next transfer then uses. 226 is sent before the file is closed, so a failing flush goes
unnoticed (`result` "lost").

In `Files`: `resolvePath` makes "sure parent is a directory" with the text before its dots are collapsed, so
`CWD /./fs` is refused although `/fs` is there. "make sure the previous command was RNFR" in RNTO looks
at `m_rename` only, which every command that is executed clears but which an unknown one leaves.
`CWD ..` and CDUP answer 200 without a look at the directory. `IOAbstraction::closedir` locks a
`std::mutex` twice in one thread, which works because this platform's are recursive.

PORT sums its fields in an int that many digits overflow, and takes the dots of the client for
separators. Further: a formatted reply exactly as long as the free area loses its
last byte to the NUL of `vsnprintf` (`Formatted` in `ResponseStream`); SITE HOST, which
the help text offers, sets the host name and then answers 550; `encode` in `mdns.cpp` garbles every label
between the first and the last, so a `.local` answer for a host name with a dot carries
another name (`Intact` in `Mdns`), and as such an answer to all still puts the next
announcement off, `BecomesKnown` leaves those names out. A host name too long to
encode goes through all states unsent. A probe or announcement that `writeTo` fails to send is not repeated: a name may be
announced after fewer than three probes, or be `Complete` with nothing announced. The state Conflict is never entered: responses
are decoded and dropped, so another host's claim to the name goes unnoticed.

## 7. Plan

What was planned is modelled: the command stream, the transfers, the virtual directories and the
paths. What could follow:

1. **Login**: USER, PASS and SITE with a configuration that several sessions change, instead of
   free choices, down to the order of `lockGuard` and `std::scoped_lock`.
2. **Commands** as text: the lookup in the handlers table and the fields of PORT, against reference
   definitions.
3. **Glob**: which matches NLST sends while directories change under it.
4. Two clients at one file: `Transfer` inside `Files`.

Further theorems: `OnlyLongLinesRefused`'s counterpart for `ResponseStream`, that a reply fails the
assert of `reply_full` only behind one that filled the buffer exactly; and a measure for the rounds of
a transfer like those of `CallAdvances` and `StopAdvances`.
