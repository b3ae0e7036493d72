----------------------------- MODULE MCFileSystem -----------------------------
(* Path arguments for the file system. *)
EXTENDS FileSystem

Names == {"a", "b", "c"}

\* Three names in the root, two in /a, and deeper than MAX_PATH_DEPTH.
Plain == {<<"", n>> : n \in Names} \cup {<<"", "a", n>> : n \in {"a", "b"}}
           \cup {<<"", "a", "b", "a">>, <<"", "a", "b", "a", "a">>}

\* The empty path, the root, slashes only, at the end or doubled, dots.
Odd == {<<"">>, <<"", "">>, <<"", "", "">>, <<"a", "">>, <<"", "a", "", "b">>, <<"", "..">>, <<"", "a", ".">>}

AllPaths == Plain \cup Odd
=============================================================================
