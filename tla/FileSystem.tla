------------------------------ MODULE FileSystem ------------------------------
(***************************************************************************)
(* The in-memory file system of fs/mod.rs and fs/inode.rs.  The tree of    *)
(* inodes is a function from the names on the way down from the root to    *)
(* an inode; a file is known by the length of its data.  A path argument   *)
(* is the sequence of its segments, as they stand between the slashes:     *)
(* "/a/" is <<"", "a", "">>.                                               *)
(***************************************************************************)
EXTENDS Integers, Sequences, FiniteSets, SequencesExt

CONSTANTS Paths,        \* path arguments
          Lengths,      \* lengths of the data written
          MAX_FILE_SIZE, MAX_DIR_CHILDREN, MAX_PATH_DEPTH, MAX_TOTAL_INODES

ASSUME LimitAssumption ==
  /\ Paths \subseteq Seq(STRING) /\ Lengths \subseteq Nat
  /\ MAX_FILE_SIZE \in Nat /\ MAX_DIR_CHILDREN \in Nat /\ MAX_PATH_DEPTH \in Nat
  /\ MAX_TOTAL_INODES \in Nat \ {0}

VARIABLES tree,        \* names from the root |-> Directory or the length of a file
          inode_count,
          result       \* Ok or the FsError of the last call

vars == <<tree, inode_count, result>>

Directory == -1
Empty == ""     \* the segment before the first slash, after the last, between two
-----------------------------------------------------------------------------
(* Paths *)

\* The names among the first n segments of a path: empty segments are skipped.
Parts(path) ==
  LET parts[n \in 0..Len(path)] ==
        IF n = 0 THEN <<>>
        ELSE IF path[n] = Empty THEN parts[n - 1]
        ELSE Append(parts[n - 1], path[n])
  IN  parts

split_path(path) == Parts(path)[Len(path)]

\* What is left of a path when trim_matches('/') has cut its last empty segments;
\* nothing, if all are empty.
Trimmed(path) ==
  LET named == {i \in DOMAIN path : path[i] # Empty}
  IN  IF named = {} THEN 0 ELSE Max(named)

\* Mutant: slashes at the end are not trimmed.
resolve_path_untrimmed(path) ==
  IF path \in {<<Empty>>, <<Empty, Empty>>} \/ Last(path) \in {".", ".."}
    THEN [err |-> "InvalidPath"]
    ELSE [err |-> "Ok", parent |-> Parts(path)[Len(path) - 1], name |-> Last(path)]

\* Mutant: the name of an inode in the root may be dots.
resolve_path_dots(path) ==
  LET last == Trimmed(path)
      name == IF last = 0 THEN Empty ELSE path[last]
      parent == IF last = 0 THEN <<>> ELSE Parts(path)[last - 1]
  IN  IF path \in {<<Empty>>, <<Empty, Empty>>} \/ (name \in {".", ".."} /\ parent # <<>>)
        THEN [err |-> "InvalidPath"]
        ELSE [err |-> "Ok", name |-> name, parent |-> parent]

\* The parent directory (its path is split in turn) and the name in it.
resolve_path(path) ==
  LET last == Trimmed(path)
      name == IF last = 0 THEN Empty ELSE path[last]
  IN  IF path \in {<<Empty>>, <<Empty, Empty>>} \/ name \in {".", ".."}
        THEN [err |-> "InvalidPath"]
        ELSE [err |-> "Ok", name |-> name,
              parent |-> IF last = 0 THEN <<>> ELSE Parts(path)[last - 1]]

\* Walk down from the root.
find_inode(names) ==
  IF Len(names) > MAX_PATH_DEPTH THEN "PathTooDeep"
  ELSE IF names \notin DOMAIN tree THEN "NotFound"
  ELSE "Ok"

find_dir(names) ==
  IF find_inode(names) = "Ok" /\ tree[names] # Directory THEN "NotADirectory"
  ELSE find_inode(names)

find_file(names) ==
  IF find_inode(names) = "Ok" /\ tree[names] = Directory THEN "NotAFile"
  ELSE find_inode(names)

Children(dir) == {p \in DOMAIN tree : Len(p) = Len(dir) + 1 /\ IsPrefix(dir, p)}
-----------------------------------------------------------------------------
(* Operations *)

Answer(err) == result' = err /\ UNCHANGED <<tree, inode_count>>

\* What create_file and create_dir answer.
CreateAnswer(path) ==
  LET r == resolve_path(path)
  IN  IF inode_count >= MAX_TOTAL_INODES THEN "TooManyInodes"
      ELSE IF r.err # "Ok" THEN r.err
      ELSE IF find_dir(r.parent) # "Ok" THEN find_dir(r.parent)
      ELSE IF Append(r.parent, r.name) \in DOMAIN tree THEN "AlreadyExists"
      ELSE IF Cardinality(Children(r.parent)) >= MAX_DIR_CHILDREN THEN "TooManyChildren"
      ELSE "Ok"

CreatedAt(path) == Append(resolve_path(path).parent, resolve_path(path).name)

Put(names, inode) == [p \in DOMAIN tree \cup {names} |-> IF p = names THEN inode ELSE tree[p]]

create_file(path) ==
  IF CreateAnswer(path) # "Ok" THEN Answer(CreateAnswer(path))
  ELSE /\ tree' = Put(CreatedAt(path), 0)
       /\ inode_count' = inode_count + 1
       /\ result' = "Ok"

\* Mutant: directories are not counted.
create_dir_uncounted(path) ==
  IF CreateAnswer(path) # "Ok" THEN Answer(CreateAnswer(path))
  ELSE /\ tree' = Put(CreatedAt(path), Directory)
       /\ result' = "Ok"
       /\ UNCHANGED inode_count

create_dir(path) ==
  IF CreateAnswer(path) # "Ok" THEN Answer(CreateAnswer(path))
  ELSE /\ tree' = Put(CreatedAt(path), Directory)
       /\ inode_count' = inode_count + 1
       /\ result' = "Ok"

write_file(path, len) ==
  LET names == split_path(path)
      err == IF len > MAX_FILE_SIZE THEN "FileTooLarge" ELSE find_file(names)
  IN  IF err # "Ok" THEN Answer(err)
      ELSE tree' = Put(names, len) /\ result' = "Ok" /\ UNCHANGED inode_count

append_file(path, len) ==
  LET names == split_path(path)
      err == IF find_file(names) # "Ok" THEN find_file(names)
             ELSE IF tree[names] + len > MAX_FILE_SIZE THEN "FileTooLarge"
             ELSE "Ok"
  IN  IF err # "Ok" THEN Answer(err)
      ELSE tree' = Put(names, tree[names] + len) /\ result' = "Ok" /\ UNCHANGED inode_count

\* A removed directory takes everything below it along.
Without(names) == [p \in {q \in DOMAIN tree : ~IsPrefix(names, q)} |-> tree[p]]

remove(path) ==
  LET r == resolve_path(path)
      err == IF r.err # "Ok" THEN r.err
             ELSE IF find_dir(r.parent) # "Ok" THEN find_dir(r.parent)
             ELSE IF CreatedAt(path) \notin DOMAIN tree THEN "NotFound"
             ELSE "Ok"
  IN  IF err # "Ok" THEN Answer(err)
      ELSE /\ tree' = Without(CreatedAt(path))
           /\ inode_count' = Max({inode_count - 1, 0})
           /\ result' = "Ok"

\* The calls that only look: their answer is whether and what they find.
read_file(path) == Answer(find_file(split_path(path)))
list_dir(path) == Answer(find_dir(split_path(path)))
exists(path) == Answer(find_inode(split_path(path)))

Init ==
  /\ tree = [p \in {<<>>} |-> Directory]
  /\ inode_count = 1
  /\ result = "Ok"

Next ==
  \E path \in Paths :
    \/ create_file(path)
    \/ create_dir(path)
    \/ \E len \in Lengths : write_file(path, len) \/ append_file(path, len)
    \/ remove(path)
    \/ read_file(path) \/ list_dir(path) \/ exists(path)

Spec == Init /\ [][Next]_vars
-----------------------------------------------------------------------------
(* Properties *)

\* The inodes form a tree: the root is a directory and everything else is in
\* a directory, as in the nested maps of the code.  Whatever form a path is given
\* in, no inode gets a name that split_path cannot answer or that resolve_path
\* refuses to remove, but for the nameless one that a path of two or more slashes
\* puts into the root.
TypeOK ==
  /\ \A p \in DOMAIN tree :
       /\ tree[p] \in {Directory} \cup Nat
       /\ p # <<>> => Front(p) \in DOMAIN tree /\ tree[Front(p)] = Directory
       /\ p # <<Empty>> => \A i \in DOMAIN p : p[i] \notin {Empty, ".", ".."}
  /\ <<>> \in DOMAIN tree /\ tree[<<>>] = Directory
  /\ inode_count \in Nat

\* No sequence of calls exceeds the limits of the module's table on the size of
\* a file, the children of a directory and the number of inodes: inode_count never
\* falls behind the tree, whatever is removed, so that the limit checked on it
\* bounds the inodes there are.  The fourth limit of the table, MAX_PATH_DEPTH, is
\* not kept: creation looks up only the parent, so that an inode may be one level
\* deeper than the limit.
SizeLimitsHold ==
  /\ Cardinality(DOMAIN tree) <= inode_count
  /\ inode_count <= MAX_TOTAL_INODES
  /\ \A p \in DOMAIN tree :
       /\ tree[p] <= MAX_FILE_SIZE
       /\ Cardinality(Children(p)) <= MAX_DIR_CHILDREN

\* A creation that answers Ok has put an inode where the path leads (one level
\* below MAX_PATH_DEPTH the look-ups answer PathTooDeep all the same); a removal
\* that answers Ok leaves nothing there, at or below, so that reading and listing
\* answer NotFound.
AnswersAreTrue ==
  [][ \A path \in Paths :
        /\ create_file(path) /\ result' = "Ok" => split_path(path) \in DOMAIN tree'
        /\ remove(path) /\ result' = "Ok" /\ split_path(path) # <<>>
             => \A p \in DOMAIN tree' : ~IsPrefix(split_path(path), p) ]_vars
=============================================================================
