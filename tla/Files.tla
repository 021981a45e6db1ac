------------------------------- MODULE Files -------------------------------
(***************************************************************************)
(* What the sessions share: the directories and files of the devices, and   *)
(* the virtual directories.  Each has its working directory, the path of a  *)
(* rename that was begun and the handle of the listing it is sending; what  *)
(* one makes, removes or renames, others may just stand in, have named or   *)
(* be listing.  Clients are logged in, and the sockets are FtpSession's     *)
(* subject: here a listing goes on or is given up.                          *)
(***************************************************************************)
EXTENDS IOAbstraction

CONSTANTS Client,
          Places,      \* the paths there can be something at, on devices
          Volumes,     \* those of them that are roots of devices
          Tables,      \* what start_server may fill the table with
          Args         \* what clients write behind a command

ASSUME PlacesAssumption == Volumes \subseteq Places /\ \A p \in Places : p \in Seq(Name)
ASSUME TablesAssumption ==
  \A t \in Tables : \A p \in DOMAIN t : p \in Seq(Name) /\ t[p] \in Seq(Name)
ASSUME ArgsAssumption == Args \subseteq Arguments

\* Every place is on a device, no device is in another one, and a place that is not the root
\* of one is in a place.
ASSUME DevicesAssumption ==
  /\ Volumes # {}
  /\ \A p \in Places : \E v \in Volumes : Below(p, v)
  /\ \A v, w \in Volumes : Below(v, w) => v = w
  /\ \A p \in Places \ Volumes : parent(p) \in Places

\* start_server fills the table with the root and all that is above or between the devices, or
\* not at all, and with no path on a device but its root.
ASSUME AboveAssumption ==
  \A t \in Tables : DOMAIN t # {} =>
    /\ <<>> \in DOMAIN t
    /\ \A p \in DOMAIN t \cup Volumes : parent(p) \in DOMAIN t
    /\ DOMAIN t \cap Places \subseteq Volumes

Nowhere == [path |-> <<>>, set |-> FALSE]
At(path) == [path |-> path, set |-> TRUE]

NoHandle == [handle |-> None, path |-> <<>>]

VARIABLES io,         \* IOAbstraction
          tree,       \* what the devices have at each place
          sessions,   \* the clients that have one
          cwd,        \* m_cwd
          rename,     \* m_rename
          dir,        \* m_dir and m_lwd while a listing is sent
          shown,      \* the entries sent of it
          complete,   \* the virtual directory the client was told it has all of: 226
          meantCwd, meantRename,   \* history: what cwd and rename should be
          gone                     \* history: directories that were taken away

listings == <<io, dir, shown, complete>>
history  == <<meantCwd, meantRename, gone>>
vars == <<tree, sessions, cwd, rename, listings, history>>

TypeOK == /\ io.virtual \in [Handle -> VirtualDirectory \cup {None}]
          /\ io.real \subseteq Handle
          /\ tree \in [Places -> {"none", "file", "dir"}]
          /\ sessions \subseteq Client
          /\ \A c \in Client : /\ cwd[c] \in Seq(Name)
                               /\ rename[c] \in [path : Seq(Name), set : BOOLEAN]
                               /\ dir[c] # NoHandle => c \in sessions
                               /\ dir[c] \in [handle : Handle \cup {None}, path : Seq(Name)]
                               /\ shown[c] \in Seq(Name)
                               /\ complete[c] \in [path : Seq(Name), set : BOOLEAN]
          /\ gone \subseteq Places

Init == /\ \E t \in Tables : io = clear(NewState, t)
        /\ tree = [p \in Places |-> IF p \in Volumes THEN "dir" ELSE "none"]
        /\ sessions = {}
        /\ cwd = [c \in Client |-> <<>>]
        /\ rename = [c \in Client |-> Nowhere]
        /\ dir = [c \in Client |-> NoHandle]
        /\ shown = [c \in Client |-> <<>>]
        /\ complete = [c \in Client |-> Nowhere]
        /\ meantCwd = cwd /\ meantRename = rename
        /\ gone = {}

-----------------------------------------------------------------------------
\* Looking at paths.  Devices are asked first, the table then, with the text as it is.

OnDevice(path) == IF path \in Places THEN tree[path] ELSE "none"

\* stat of a path.  A device that refuses with EPERM is asked for the directory.
stat(path) ==
  IF OnDevice(path) # "none" THEN OnDevice(path)
  ELSE IF path \in DOMAIN io.table THEN "dir" ELSE "none"

IsDirectory(path) == stat(path) = "dir"

\* The first component names the device, which may understand the dots behind it or find
\* nothing of that name.
DirectoryFound(path) ==
  IF \A i \in DOMAIN path : path[i] \notin Dots THEN {IsDirectory(path)}
  ELSE IF Head(path) \in Dots THEN {FALSE}
  ELSE {FALSE, OnDevice(<<Head(path)>> \o Collapsed(Tail(path))) = "dir"}

\* resolvePath: what comes of it, or nothing.
resolvePath(text) ==
  { At(Collapsed(text.parts)) : found \in DirectoryFound(dirName(text)) \cap {TRUE} }
  \cup { Nowhere : found \in DirectoryFound(dirName(text)) \cap {FALSE} }

buildResolvedPath(c, args) == resolvePath(buildPath(cwd[c], args))

-----------------------------------------------------------------------------
\* A command of c starts from COMMAND: no listing, and nothing shown of an earlier one.

Ready(c) == c \in sessions /\ dir[c] = NoHandle

Settled(c) == /\ shown' = [shown EXCEPT ![c] = <<>>]
              /\ complete' = [complete EXCEPT ![c] = Nowhere]
              /\ UNCHANGED <<io, dir, sessions>>

\* Every command that is executed forgets it, but for RNTO.
Forgets(c) == /\ rename' = [rename EXCEPT ![c] = Nowhere]
              /\ meantRename' = [meantRename EXCEPT ![c] = Nowhere]

Moves(c, path, meant) == /\ cwd' = [cwd EXCEPT ![c] = path]
                         /\ meantCwd' = [meantCwd EXCEPT ![c] = meant]

\* Mutant: the new directory is not looked at, only the one it is in.
CWDUnchecked(c, args) ==
  /\ Ready(c) /\ Settled(c) /\ Forgets(c)
  /\ \E r \in buildResolvedPath(c, args) :
       r.set /\ Moves(c, r.path, Meant(meantCwd[c], args))
  /\ UNCHANGED <<tree, gone>>

CWD(c, args) ==
  /\ Ready(c) /\ Settled(c) /\ Forgets(c)
  /\ args.parts # <<"..">> \/ args.absolute \/ args.slash
  /\ \E r \in buildResolvedPath(c, args) :
       r.set /\ IsDirectory(r.path) /\ Moves(c, r.path, Meant(meantCwd[c], args))
  /\ UNCHANGED <<tree, gone>>

Up == [absolute |-> FALSE, parts |-> <<"..">>, slash |-> FALSE]

\* CDUP, and CWD with "..": the last component goes, and nobody looks.
CDUP(c) ==
  /\ Ready(c) /\ Settled(c) /\ Forgets(c)
  /\ Moves(c, parent(cwd[c]), Meant(meantCwd[c], Up))
  /\ UNCHANGED <<tree, gone>>

\* A change of what devices have.
Change(t) == /\ tree' = t
             /\ gone' = (gone \cup { p \in Places : tree[p] = "dir" /\ t[p] # "dir" })
                          \ { p \in Places : t[p] = "dir" }

Room(path) == /\ path \in Places /\ tree[path] = "none"
              /\ path # <<>> /\ OnDevice(parent(path)) = "dir"

Empty(path) == \A p \in Places : tree[p] # "none" => p = path \/ ~Below(p, path)

\* The handlers resolve, ask the device, which may refuse, and answer.
MKD(c, args) ==
  /\ Ready(c) /\ Settled(c) /\ Forgets(c)
  /\ \E r \in buildResolvedPath(c, args) :
       r.set /\ Room(r.path) /\ Change([tree EXCEPT ![r.path] = "dir"])
  /\ UNCHANGED <<cwd, meantCwd>>

RMD(c, args) ==
  /\ Ready(c) /\ Settled(c) /\ Forgets(c)
  /\ \E r \in buildResolvedPath(c, args) :
       /\ r.set /\ r.path \in Places \ Volumes
       /\ tree[r.path] = "dir" /\ Empty(r.path)
       /\ Change([tree EXCEPT ![r.path] = "none"])
  /\ UNCHANGED <<cwd, meantCwd>>

DELE(c, args) ==
  /\ Ready(c) /\ Settled(c) /\ Forgets(c)
  /\ \E r \in buildResolvedPath(c, args) :
       /\ r.set /\ r.path \in Places /\ tree[r.path] = "file"
       /\ Change([tree EXCEPT ![r.path] = "none"])
  /\ UNCHANGED <<cwd, meantCwd>>

\* xferFile's fopen with "wb" or "ab"; the transfer itself is Transfer's subject.
STOR(c, args) ==
  /\ Ready(c) /\ Settled(c) /\ Forgets(c)
  /\ \E r \in buildResolvedPath(c, args) :
       r.set /\ Room(r.path) /\ Change([tree EXCEPT ![r.path] = "file"])
  /\ UNCHANGED <<cwd, meantCwd>>

\* Any other command, and one of these that is refused.
Other(c) ==
  /\ Ready(c) /\ Settled(c) /\ Forgets(c)
  /\ UNCHANGED <<tree, cwd, meantCwd, gone>>

RNFR(c, args) ==
  /\ Ready(c) /\ Settled(c)
  /\ \E r \in buildResolvedPath(c, args) :
       /\ r.set /\ stat(r.path) # "none"
       /\ rename' = [rename EXCEPT ![c] = r]
       /\ meantRename' = [meantRename EXCEPT ![c] = At(Meant(meantCwd[c], args))]
  /\ UNCHANGED <<tree, cwd, meantCwd, gone>>

\* What is at or below from is at or below to.
Renamed(from, to) ==
  [p \in Places |->
     IF Below(p, to)
     THEN LET was == from \o SubSeq(p, Len(to) + 1, Len(p))
          IN  IF was \in Places THEN tree[was] ELSE "none"
     ELSE IF Below(p, from) THEN "none" ELSE tree[p]]

RenameOver(c) == /\ Ready(c) /\ Settled(c)
                 /\ rename[c].set
                 /\ Forgets(c)
                 /\ UNCHANGED <<cwd, meantCwd>>

RNTO(c, args) ==
  /\ RenameOver(c)
  /\ \E r \in buildResolvedPath(c, args) :
       LET from == rename[c].path
       IN  /\ r.set /\ from \in Places \ Volumes /\ tree[from] # "none"
           /\ Room(r.path) /\ ~Below(r.path, from)
           /\ Change(Renamed(from, r.path))

\* 550 or 554.
RNTOFails(c) == RenameOver(c) /\ UNCHANGED <<tree, gone>>

-----------------------------------------------------------------------------
\* Listings: LIST, MLSD, NLST and STAT.

Listed(c, path, opened) ==
  /\ io' = opened.io
  /\ dir' = [dir EXCEPT ![c] = [handle |-> opened.handle, path |-> path]]
  /\ shown' = [shown EXCEPT ![c] = <<>>]
  /\ complete' = [complete EXCEPT ![c] = Nowhere]
  /\ Forgets(c)
  /\ UNCHANGED <<tree, sessions, cwd, meantCwd, gone>>

\* xferDir of the working directory or of an argument that is a directory.
xferDir(c, args) ==
  /\ Ready(c)
  /\ \E r \in IF args.parts = <<>> /\ ~args.absolute THEN {At(cwd[c])}
              ELSE { q \in buildResolvedPath(c, args) : q.set /\ IsDirectory(q.path) } :
       \E opened \in opendir(io, r.path, OnDevice(r.path) = "dir") :
         Listed(c, r.path, opened)

\* setState (COMMAND) closes m_dir, whose deleter is closedir.
CloseDir(c, all) ==
  /\ io' = closedir(io, dir[c].handle)
  /\ dir' = [dir EXCEPT ![c] = NoHandle]
  /\ complete' = [complete EXCEPT ![c] = all]

Sending(c) == c \in sessions /\ dir[c] # NoHandle

IsVirtual(c) == io.virtual[dir[c].handle] # None

\* One round of the loop in listTransfer, in a virtual directory.
listEntry(c) ==
  /\ Sending(c) /\ IsVirtual(c) /\ MoreToRead(io, dir[c].handle)
  /\ io' = readdir(io, dir[c].handle)
  /\ LET name == Entry(io, dir[c].handle)
     IN  shown' = [shown EXCEPT ![c] = IF name \in Dots THEN @ ELSE Append(@, name)]
  /\ UNCHANGED <<dir, complete>>

\* readdir returns null: 226.
listEnd(c) ==
  /\ Sending(c)
  /\ IsVirtual(c) => ~MoreToRead(io, dir[c].handle)
  /\ CloseDir(c, IF IsVirtual(c) THEN At(dir[c].path) ELSE Nowhere)
  /\ UNCHANGED shown

\* 425, 426, 501, 503 or 550, ABOR, or a command that ends a transfer.
listFails(c) ==
  /\ Sending(c)
  /\ CloseDir(c, Nowhere)
  /\ UNCHANGED shown

listTransfer(c) ==
  /\ listEntry(c) \/ listEnd(c) \/ listFails(c)
  /\ UNCHANGED <<tree, sessions, cwd, rename, history>>

-----------------------------------------------------------------------------
\* Sessions come and go.

Connect(c) ==
  /\ c \notin sessions
  /\ sessions' = sessions \cup {c}
  /\ UNCHANGED <<tree, cwd, rename, listings, history>>

\* Mutant: a session that is destroyed leaves its directory open.
DestroyKeepsDir(c) ==
  /\ c \in sessions
  /\ sessions' = sessions \ {c}
  /\ UNCHANGED <<tree, cwd, rename, listings, history>>

\* A session is reaped, or goes with all the others; its members are destroyed.
Destroy(c) ==
  /\ c \in sessions
  /\ sessions' = sessions \ {c}
  /\ cwd' = [cwd EXCEPT ![c] = <<>>] /\ meantCwd' = [meantCwd EXCEPT ![c] = <<>>]
  /\ Forgets(c)
  /\ shown' = [shown EXCEPT ![c] = <<>>]
  /\ IF dir[c] = NoHandle
     THEN UNCHANGED <<io, dir>> /\ complete' = [complete EXCEPT ![c] = Nowhere]
     ELSE CloseDir(c, Nowhere)
  /\ UNCHANGED <<tree, gone>>

\* stop_server has destroyed the server, and start_server fills the table again.
Restart(table) ==
  /\ sessions = {}
  /\ io' = clear(io, table)
  /\ UNCHANGED <<tree, sessions, cwd, rename, dir, shown, complete, history>>

Command(c) == \/ CDUP(c) \/ RNTOFails(c) \/ Other(c)
              \/ \E args \in Args : \/ CWD(c, args)  \/ MKD(c, args)  \/ RMD(c, args)
                                    \/ DELE(c, args) \/ STOR(c, args) \/ RNFR(c, args)
                                    \/ RNTO(c, args) \/ xferDir(c, args)

Next == \/ \E c \in Client : Connect(c) \/ Command(c) \/ listTransfer(c) \/ Destroy(c)
        \/ \E table \in Tables : Restart(table)

Spec == Init /\ [][Next]_vars

-----------------------------------------------------------------------------

\* Every handle a session holds is open, nobody else holds it, and nothing is open that no
\* session holds: no listing reads another one's directory, closes it, or leaves one behind,
\* whoever opens, gives up or is destroyed in between, and also when the server is stopped.
HandlesOpen ==
  /\ ~io.dangling
  /\ Used(io) = { dir[c].handle : c \in { d \in Client : dir[d] # NoHandle } }
  /\ \A c, d \in Client : dir[c].handle = dir[d].handle => c = d \/ dir[c] = NoHandle

\* A client that lists a virtual directory is sent its names in order, none twice and none
\* left out, and is told that this was all only when it was.
ListedWhole ==
  \A c \in Client :
    /\ Sending(c) /\ IsVirtual(c) =>
         LET open == io.virtual[dir[c].handle]
         IN  /\ open.names = Virtual(io.table[dir[c].path]).names
             /\ shown[c] = SubSeq(open.names, 3, open.next - 1)
    /\ complete[c].set => shown[c] = io.table[complete[c].path]

\* Whatever the client wrote, with dots, slashes and commands in between, its working
\* directory and the path it wants to rename are those the text means.
PathsAsMeant == cwd = meantCwd /\ rename = meantRename

\* A session stands in a directory, or in one that was taken away since, or the table is
\* missing that would have it: never in a file or in what was never there.
CwdIsDirectory ==
  \A c \in sessions :
    \/ IsDirectory(cwd[c]) \/ cwd[c] \in gone
    \/ DOMAIN io.table = {} /\ \E v \in Volumes : Below(v, cwd[c])

=============================================================================
