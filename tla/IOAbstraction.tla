--------------------------- MODULE IOAbstraction ---------------------------
(***************************************************************************)
(* Virtual directories beside those of the devices, as class IOAbstraction  *)
(* offers them: a directory handle is the address of a DIR, which is in a   *)
(* VirtualDirectory or was allocated by ::opendir, and an address is used   *)
(* again once it is free.                                                   *)
(*                                                                          *)
(* State is a record of                                                     *)
(*   table    sVirtualDirs: the names in each virtual directory             *)
(*   virtual  sOpenVirtualDirectories, by address                           *)
(*   real     the handles from ::opendir (external)                         *)
(*   dangling a handle was used that is no longer there: undefined          *)
(* Everything runs on the server thread, but for the calls that fill and    *)
(* clear the table while there is none: the mutex has nobody to keep out.   *)
(* It is a std::mutex that closedir locks a second time in                  *)
(* remove_locked_first_if; the platform's mutexes are recursive.            *)
(***************************************************************************)
EXTENDS Paths

CONSTANTS Handle,     \* the addresses of DIRs
          None        \* no handle, and at an address where no VirtualDirectory is

VirtualDirectory == [names : Seq(Name \cup Dots), next : Nat]

ASSUME NoneAssumption == None \notin Handle /\ None \notin VirtualDirectory

\* A VirtualDirectory: mDirectories and mCurIterator.
Virtual(names) == [names |-> <<".", "..">> \o names, next |-> 1]

NoHandles == [a \in Handle |-> None]

NewState == [table |-> <<>>, virtual |-> NoHandles, real |-> {}, dangling |-> FALSE]

Used(io) == { a \in Handle : io.virtual[a] # None } \cup io.real

\* opendir of a path: the handles it may return, with the state then.  isDirectory says
\* that a device has this directory, and a device may still refuse; a virtual
\* directory is only looked for then.
opendir(io, path, isDirectory) ==
  { [handle |-> a, io |-> [io EXCEPT !.real = @ \cup {a}]]
      : a \in IF isDirectory THEN Handle \ Used(io) ELSE {} }
  \cup
  { [handle |-> a, io |-> [io EXCEPT !.virtual[a] = Virtual(io.table[path])]]
      : a \in IF path \in DOMAIN io.table THEN Handle \ Used(io) ELSE {} }

\* Mutant: remove_first_if without its predicate.
closedirFirst(io, a) ==
  IF \E b \in Handle : io.virtual[b] # None
  THEN [io EXCEPT !.virtual[CHOOSE b \in Handle : io.virtual[b] # None] = None]
  ELSE IF a \in io.real THEN [io EXCEPT !.real = @ \ {a}]
  ELSE [io EXCEPT !.dangling = TRUE]

closedir(io, a) ==
  CASE io.virtual[a] # None -> [io EXCEPT !.virtual[a] = None]
    [] io.virtual[a] = None /\ a \in io.real -> [io EXCEPT !.real = @ \ {a}]
    [] OTHER -> [io EXCEPT !.dangling = TRUE]

\* Mutant: the last entry counts as the end.
MoreToReadButLast(io, a) == io.virtual[a].next < Len(io.virtual[a].names)

\* The entry a virtual directory is at, if there is one more.
MoreToRead(io, a) == io.virtual[a].next <= Len(io.virtual[a].names)

Entry(io, a) == io.virtual[a].names[io.virtual[a].next]

\* The state after readdir returned an entry of a virtual directory.
readdir(io, a) == [io EXCEPT !.virtual[a].next = @ + 1]

\* clear and the addVirtualPath calls of the next start.
clear(io, table) == [io EXCEPT !.virtual = NoHandles, !.table = table]

=============================================================================
