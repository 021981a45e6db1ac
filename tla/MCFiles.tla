------------------------------ MODULE MCFiles ------------------------------
(***************************************************************************)
(* Instances of Files.  The virtual root has two names, one of them a       *)
(* virtual directory that leads to the only volume; the volume has room for *)
(* two entries, and for one below the first of them.                        *)
(***************************************************************************)
EXTENDS Files, TLC

MCPlaces == {<<"fs", "sd">>, <<"fs", "sd", "d">>, <<"fs", "sd", "e">>,
             <<"fs", "sd", "d", "e">>}

MCVolumes == {<<"fs", "sd">>}

\* With the library, and when it did not initialise.
MCTables == { (<<>> :> <<"slc", "fs">>) @@ (<<"fs">> :> <<"sd">>), <<>> }

Relative(parts) == [absolute |-> FALSE, parts |-> parts, slash |-> FALSE]
Absolute(parts) == [absolute |-> TRUE, parts |-> parts, slash |-> FALSE]

\* Nothing, the names, dots behind and before one, a way there, dots inside and above the
\* root, and a slash at the end.
MCArgs == { Relative(<<>>), Relative(<<"d">>), Relative(<<"e">>),
            Relative(<<"d", "..">>), Relative(<<"..", ".", "e">>), Absolute(<<"fs", "sd">>),
            Absolute(<<"fs", "..", "..", "fs">>),
            [absolute |-> FALSE, parts |-> <<"e">>, slash |-> TRUE] }

MCSymmetry == Permutations(Client) \cup Permutations(Handle)
=============================================================================
