--------------------------- MODULE FileSystemProofs ---------------------------
(***************************************************************************)
(* For every set of paths and data lengths and every value of the limits:  *)
(* the inodes stay a tree within the limits, and what create_file and      *)
(* remove answer is true.                                                  *)
(***************************************************************************)
EXTENDS FileSystem, FiniteSetTheorems, SequenceTheorems, TLAPS

-----------------------------------------------------------------------------
(* Induction *)

\* Every set of naturals has a least element.
LEMMA LeastElement ==
  ASSUME NEW T, T \subseteq Nat, T # {}
  PROVE  \E x \in T : \A y \in T : x <= y
<1> DEFINE R == {ss \in Nat \X Nat : ss[1] < ss[2]}
<1>1. IsWellFoundedOn(R, Nat)
  BY NatLessThanWellFounded, Zenon DEF OpToRel
<1>2. \A x, y \in Nat : y < x => <<y, x>> \in R
  OBVIOUS
<1> HIDE DEF R
<1>3. PICK x \in T : \A y \in T : ~(<<y, x>> \in R)
  BY <1>1, WFMin, Zenon
<1>4. ASSUME NEW y \in T PROVE x <= y
  <2>1. x \in Nat /\ y \in Nat /\ ~(<<y, x>> \in R)
    BY <1>3
  <2>2. ~(y < x)
    BY <1>2, <2>1
  <2>3. QED
    BY <2>1, <2>2
<1>5. QED
  BY <1>4, Zenon

\* Induction, on the set of the numbers for which a claim holds.
LEMMA Induction ==
  ASSUME NEW S, 0 \in S, \A n \in Nat : n \in S => n + 1 \in S
  PROVE  \A n \in Nat : n \in S
<1> DEFINE T == Nat \ S
<1>1. SUFFICES ASSUME T # {} PROVE FALSE
  OBVIOUS
<1>2. PICK x \in T : \A y \in T : x <= y
  <2>1. T \subseteq Nat
    OBVIOUS
  <2> HIDE DEF T
  <2>2. QED
    BY <1>1, <2>1, LeastElement, Zenon
<1>3. x # 0
  OBVIOUS
<1>4. x - 1 \in Nat
  BY <1>3
<1>5. x - 1 \in S
  BY <1>2, <1>4
<1>6. QED
  BY <1>4, <1>5

\* A set of numbers from 1 to n has a greatest element.
LEMMA GreatestElement ==
  ASSUME NEW n \in Nat, NEW S, S \subseteq 1..n, S # {}
  PROVE  Max(S) \in S /\ \A i \in S : Max(S) >= i
<1> DEFINE T == {k \in Nat : n - k \in S}
<1>1. T \subseteq Nat /\ T # {}
  <2>1. PICK i \in S : TRUE
    BY Zenon
  <2>2. n - i \in Nat /\ n - (n - i) = i
    BY <2>1
  <2>3. QED
    BY <2>1, <2>2, Zenon
<1>2. PICK k \in T : \A y \in T : k <= y
  <2> HIDE DEF T
  <2>1. QED
    BY <1>1, LeastElement, Zenon
<1>3. ASSUME NEW i \in S PROVE n - k >= i
  <2>1. n - i \in Nat /\ n - (n - i) = i
    OBVIOUS
  <2>2. n - i \in T
    BY <2>1
  <2>3. QED
    BY <1>2, <2>1, <2>2
<1>4. n - k \in S
  OBVIOUS
<1>5. QED
  BY <1>3, <1>4, Zenon DEF Max
-----------------------------------------------------------------------------
(* Paths *)

PartAt(path, parts, n) ==
  IF n = 0 THEN <<>>
  ELSE IF path[n] = Empty THEN parts[n - 1]
  ELSE Append(parts[n - 1], path[n])

\* The recursion of split_path has a solution, so Parts is it.
LEMMA PartsDef ==
  ASSUME NEW path \in Seq(STRING)
  PROVE  Parts(path) = [n \in 0..Len(path) |-> PartAt(path, Parts(path), n)]
<1> DEFINE Good(m) == \E f : f = [n \in 0..m |-> PartAt(path, f, n)]
           S == {m \in Nat : m <= Len(path) => Good(m)}
<1>1. 0 \in S
  <2> DEFINE f == [n \in 0..0 |-> <<>>]
  <2>1. f = [n \in 0..0 |-> PartAt(path, f, n)]
    BY DEF PartAt
  <2>2. QED
    BY <2>1
<1>2. ASSUME NEW m \in Nat, m \in S PROVE m + 1 \in S
  <2>1. SUFFICES ASSUME m + 1 <= Len(path) PROVE Good(m + 1)
    OBVIOUS
  <2>2. PICK f : f = [n \in 0..m |-> PartAt(path, f, n)]
    BY <1>2, <2>1
  <2> DEFINE g == [n \in 0..m + 1 |-> IF n <= m THEN f[n] ELSE PartAt(path, f, n)]
  <2>3. ASSUME NEW n \in 0..m + 1 PROVE g[n] = PartAt(path, g, n)
    <3>1. n = 0 \/ n - 1 \in 0..m
      OBVIOUS
    <3>2. n # 0 => g[n - 1] = f[n - 1]
      BY <3>1
    <3>3. PartAt(path, g, n) = PartAt(path, f, n)
      BY <3>2 DEF PartAt
    <3>4. CASE n <= m
      <4>1. n \in 0..m
        BY <3>4
      <4>2. QED
        BY <2>2, <3>3, <3>4, <4>1
    <3>5. CASE n > m
      BY <3>3, <3>5
    <3>6. QED
      BY <3>4, <3>5
  <2>4. g = [n \in 0..m + 1 |-> PartAt(path, g, n)]
    BY <2>3
  <2>5. QED
    BY <2>4, Zenon
<1>3. Len(path) \in Nat
  OBVIOUS
<1>4. Len(path) \in S
  <2> HIDE DEF S
  <2>1. QED
    BY <1>1, <1>2, <1>3, Induction
<1>5. PICK f : f = [n \in 0..Len(path) |-> PartAt(path, f, n)]
  BY <1>3, <1>4
<1>6. QED
  BY <1>5, Zenon DEF Parts, PartAt

\* split_path yields names, none of them empty.
LEMMA PartsType ==
  ASSUME NEW path \in Seq(STRING), NEW k \in 0..Len(path)
  PROVE  Parts(path)[k] \in Seq(STRING \ {Empty})
<1> DEFINE S == {m \in Nat : m <= Len(path) => Parts(path)[m] \in Seq(STRING \ {Empty})}
<1>1. Len(path) \in Nat /\ \A n \in 1..Len(path) : path[n] \in STRING
  OBVIOUS
<1>2. \A n \in 0..Len(path) : Parts(path)[n] = PartAt(path, Parts(path), n)
  BY PartsDef
<1>3. 0 \in S
  <2>1. Parts(path)[0] = <<>>
    BY <1>1, <1>2 DEF PartAt
  <2>2. <<>> \in Seq(STRING \ {Empty})
    BY EmptySeq
  <2>3. Parts(path)[0] \in Seq(STRING \ {Empty})
    BY <2>1, <2>2
  <2>4. QED
    BY <2>3
<1>4. ASSUME NEW m \in Nat, m \in S PROVE m + 1 \in S
  <2>1. SUFFICES ASSUME m + 1 <= Len(path) PROVE Parts(path)[m + 1] \in Seq(STRING \ {Empty})
    OBVIOUS
  <2>2. Parts(path)[m] \in Seq(STRING \ {Empty})
    BY <1>1, <1>4, <2>1
  <2>3. m + 1 \in 1..Len(path) /\ m + 1 \in 0..Len(path) /\ m + 1 # 0 /\ (m + 1) - 1 = m
    BY <1>1, <2>1
  <2>4. Parts(path)[m + 1] = IF path[m + 1] = Empty THEN Parts(path)[m]
                             ELSE Append(Parts(path)[m], path[m + 1])
    BY <1>2, <2>3 DEF PartAt
  <2>5. path[m + 1] \in STRING
    BY <1>1, <2>3
  <2>6. QED
    BY <2>2, <2>4, <2>5, AppendProperties
<1>5. k \in S
  <2>1. k \in Nat
    BY <1>1
  <2> HIDE DEF S
  <2>2. QED
    BY <1>3, <1>4, <2>1, Induction
<1>6. QED
  BY <1>1, <1>5

\* Slashes at the end add no name.
LEMMA PartsOfTail ==
  ASSUME NEW path \in Seq(STRING), NEW last \in 0..Len(path),
         \A i \in 1..Len(path) : i > last => path[i] = Empty
  PROVE  Parts(path)[Len(path)] = Parts(path)[last]
<1> DEFINE S == {d \in Nat : last + d <= Len(path) => Parts(path)[last + d] = Parts(path)[last]}
<1>1. Len(path) \in Nat /\ last \in Nat
  OBVIOUS
<1>2. \A n \in 0..Len(path) : Parts(path)[n] = PartAt(path, Parts(path), n)
  BY PartsDef
<1>3. 0 \in S
  BY <1>1
<1>4. ASSUME NEW d \in Nat, d \in S PROVE d + 1 \in S
  <2>1. SUFFICES ASSUME last + (d + 1) <= Len(path)
                 PROVE  Parts(path)[last + (d + 1)] = Parts(path)[last]
    OBVIOUS
  <2>2. /\ last + (d + 1) \in 1..Len(path) /\ last + (d + 1) \in 0..Len(path)
        /\ last + (d + 1) > last /\ last + (d + 1) # 0
        /\ (last + (d + 1)) - 1 = last + d /\ last + d <= Len(path)
    BY <1>1, <2>1
  <2>3. path[last + (d + 1)] = Empty
    BY <2>2
  <2>4. Parts(path)[last + (d + 1)] = Parts(path)[last + d]
    BY <1>2, <2>2, <2>3 DEF PartAt
  <2>5. QED
    BY <1>4, <2>2, <2>4
<1>5. Len(path) - last \in S
  <2>1. Len(path) - last \in Nat
    BY <1>1
  <2> HIDE DEF S
  <2>2. QED
    BY <1>3, <1>4, <2>1, Induction
<1>6. last + (Len(path) - last) = Len(path)
  BY <1>1
<1>7. QED
  BY <1>1, <1>5, <1>6

\* The last segment that is not empty.
LEMMA TrimmedType ==
  ASSUME NEW path \in Seq(STRING), Trimmed(path) # 0
  PROVE  /\ Trimmed(path) \in 1..Len(path)
         /\ path[Trimmed(path)] \in STRING \ {Empty}
         /\ \A i \in 1..Len(path) : i > Trimmed(path) => path[i] = Empty
<1> DEFINE named == {i \in DOMAIN path : path[i] # Empty}
<1>1. Len(path) \in Nat /\ named \subseteq 1..Len(path)
  OBVIOUS
<1>2. named # {} /\ Trimmed(path) = Max(named)
  BY DEF Trimmed
<1>3. Max(named) \in named /\ \A i \in named : Max(named) >= i
  <2> HIDE DEF named
  <2>1. QED
    BY <1>1, <1>2, GreatestElement, Zenon
<1>4. \A i \in 1..Len(path) : path[i] \in STRING /\ (path[i] # Empty => i \in named)
  OBVIOUS
<1>5. Max(named) \in 1..Len(path) /\ path[Max(named)] # Empty
  BY <1>1, <1>3
<1>6. ASSUME NEW i \in 1..Len(path), i > Max(named) PROVE path[i] = Empty
  <2>1. ~(Max(named) >= i)
    BY <1>5, <1>6
  <2>2. QED
    BY <1>3, <1>4, <2>1
<1>7. QED
  BY <1>2, <1>4, <1>5, <1>6

\* What resolve_path and split_path make of the same path: the parent's names and
\* the name are the names of the path.
LEMMA SplitIsParentAndName ==
  ASSUME NEW path \in Seq(STRING), Trimmed(path) # 0
  PROVE  split_path(path) = Append(Parts(path)[Trimmed(path) - 1], path[Trimmed(path)])
<1> DEFINE last == Trimmed(path)
<1>1. /\ last \in 1..Len(path) /\ path[last] # Empty
      /\ \A i \in 1..Len(path) : i > last => path[i] = Empty
  BY TrimmedType
<1>2. last \in 0..Len(path) /\ last # 0
  BY <1>1
<1> HIDE DEF last
<1>3. Parts(path)[last] = PartAt(path, Parts(path), last)
  BY <1>2, PartsDef
<1>4. Parts(path)[last] = Append(Parts(path)[last - 1], path[last])
  BY <1>1, <1>2, <1>3 DEF PartAt
<1>5. Parts(path)[Len(path)] = Parts(path)[last]
  BY <1>1, PartsOfTail
<1>6. QED
  BY <1>4, <1>5 DEF split_path, last

\* A path of slashes only has no names.
LEMMA SplitOfSlashes ==
  ASSUME NEW path \in Seq(STRING), Trimmed(path) = 0
  PROVE  split_path(path) = <<>>
<1> DEFINE named == {i \in DOMAIN path : path[i] # Empty}
<1>1. Len(path) \in Nat /\ named \subseteq 1..Len(path)
  OBVIOUS
<1>2. named = {}
  <2>1. SUFFICES ASSUME named # {} PROVE FALSE
    OBVIOUS
  <2>2. Trimmed(path) = Max(named)
    BY <2>1 DEF Trimmed
  <2>3. Max(named) \in named
    <3> HIDE DEF named
    <3>1. QED
      BY <1>1, <2>1, GreatestElement, Zenon
  <2>4. QED
    BY <1>1, <2>2, <2>3
<1>3. \A i \in 1..Len(path) : path[i] = Empty
  BY <1>2
<1>4. 0 \in 0..Len(path)
  BY <1>1
<1>5. Parts(path)[Len(path)] = Parts(path)[0]
  BY <1>3, <1>4, PartsOfTail
<1>6. Parts(path)[0] = PartAt(path, Parts(path), 0)
  BY <1>4, PartsDef
<1>7. QED
  BY <1>5, <1>6 DEF split_path, PartAt

\* What an inode may be called.  (The empty string is a string, which the provers
\* do not know.)
InodeNames == STRING \cup {Empty}

\* What resolve_path answers to a path it accepts.
LEMMA ResolveType ==
  ASSUME NEW path \in Seq(STRING), resolve_path(path).err = "Ok"
  PROVE  LET r == resolve_path(path) IN
         /\ r.parent \in Seq(STRING \ {Empty})
         /\ r.name \in InodeNames \ {".", ".."}
         /\ r.name = Empty => r.parent = <<>>
         /\ Trimmed(path) # 0 => split_path(path) = CreatedAt(path)
<1> DEFINE last == Trimmed(path)
           r == resolve_path(path)
<1>1. r.name = (IF last = 0 THEN Empty ELSE path[last]) /\ r.name \notin {".", ".."}
  BY DEF resolve_path
<1>2. r.parent = (IF last = 0 THEN <<>> ELSE Parts(path)[last - 1])
  BY DEF resolve_path
<1>3. CASE last = 0
  <2>1. Empty \in InodeNames
    BY DEF InodeNames
  <2>2. <<>> \in Seq(STRING \ {Empty})
    BY EmptySeq
  <2>3. QED
    BY <1>1, <1>2, <1>3, <2>1, <2>2
<1>4. CASE last # 0
  <2>1. last \in 1..Len(path) /\ path[last] \in STRING \ {Empty}
    BY <1>4, TrimmedType
  <2>2. last - 1 \in 0..Len(path)
    BY <2>1
  <2>3. Parts(path)[last - 1] \in Seq(STRING \ {Empty})
    <3> HIDE DEF last
    <3>1. QED
      BY <2>2, PartsType
  <2>4. split_path(path) = Append(Parts(path)[last - 1], path[last])
    BY <1>4, SplitIsParentAndName
  <2>5. CreatedAt(path) = Append(Parts(path)[last - 1], path[last])
    BY <1>1, <1>2, <1>4 DEF CreatedAt
  <2>6. QED
    BY <1>1, <1>2, <1>4, <2>1, <2>3, <2>4, <2>5 DEF InodeNames
<1>5. QED
  BY <1>3, <1>4

\* Front undoes Append.
LEMMA FrontOfAppend ==
  ASSUME NEW S, NEW s \in Seq(S), NEW x \in S
  PROVE  Front(Append(s, x)) = s
<1> DEFINE t == Append(s, x)
<1>1. t \in Seq(S) /\ Len(t) = Len(s) + 1 /\ Len(s) \in Nat /\ \A i \in 1..Len(s) : t[i] = s[i]
  BY AppendProperties
<1> HIDE DEF t
<1>2. Len(t) - 1 = Len(s) /\ \A i \in 1..Len(s) : t[i] \in S
  BY <1>1
<1>3. /\ SubSeq(t, 1, Len(s)) \in Seq(S)
      /\ Len(SubSeq(t, 1, Len(s))) = Len(s)
      /\ \A i \in 1..Len(s) : SubSeq(t, 1, Len(s))[i] = s[i]
  BY <1>1
<1>4. SubSeq(t, 1, Len(s)) = s
  BY <1>3, SeqEqual
<1>5. QED
  BY <1>2, <1>4 DEF Front, t

\* The front of a sequence.
LEMMA FrontType ==
  ASSUME NEW S, NEW s \in Seq(S), s # <<>>
  PROVE  /\ Front(s) \in Seq(S)
         /\ Len(Front(s)) = Len(s) - 1
         /\ \A i \in 1..Len(s) - 1 : Front(s)[i] = s[i]
<1>1. Len(s) \in Nat \ {0} /\ \A i \in 1..Len(s) : s[i] \in S
  BY EmptySeq
<1> DEFINE n == Len(s) - 1
<1>2. n \in Nat /\ \A i \in 1..n : s[i] \in S
  BY <1>1
<1> HIDE DEF n
<1>3. SubSeq(s, 1, n) \in Seq(S)
  BY <1>2
<1>4. Len(SubSeq(s, 1, n)) = n
  BY <1>2
<1>5. \A i \in 1..n : SubSeq(s, 1, n)[i] = s[i]
  BY <1>2
<1>6. QED
  BY <1>3, <1>4, <1>5 DEF Front, n

\* A prefix agrees with the sequence as far as it goes.
LEMMA PrefixPointwise ==
  ASSUME NEW S, NEW s \in Seq(S), NEW t \in Seq(S)
  PROVE  IsPrefix(s, t) <=> Len(s) <= Len(t) /\ \A i \in 1..Len(s) : s[i] = t[i]
<1>1. Len(s) \in Nat /\ Len(t) \in Nat
  OBVIOUS
<1>2. SUFFICES ASSUME Len(s) <= Len(t)
               PROVE  SubSeq(s, 1, Len(s)) = SubSeq(t, 1, Len(s)) <=> \A i \in 1..Len(s) : s[i] = t[i]
  BY <1>1 DEF IsPrefix
<1>3. SubSeq(s, 1, Len(s)) = s
  BY SubSeqFull
<1>4. /\ SubSeq(t, 1, Len(s)) \in Seq(S)
      /\ Len(SubSeq(t, 1, Len(s))) = Len(s)
      /\ \A i \in 1..Len(s) : SubSeq(t, 1, Len(s))[i] = t[i]
  BY <1>1, <1>2
<1>5. ASSUME \A i \in 1..Len(s) : s[i] = t[i] PROVE SubSeq(t, 1, Len(s)) = s
  BY <1>4, <1>5, SeqEqual
<1>6. QED
  BY <1>3, <1>4, <1>5

\* The children of a directory are the nodes whose front it is.
LEMMA ChildIffFront ==
  ASSUME NEW S, NEW d \in Seq(S), NEW p \in Seq(S)
  PROVE  Len(p) = Len(d) + 1 /\ IsPrefix(d, p) <=> p # <<>> /\ Front(p) = d
<1>1. Len(d) \in Nat /\ Len(p) \in Nat /\ (p # <<>> => Len(p) # 0)
  BY EmptySeq
<1>2. IsPrefix(d, p) <=> Len(d) <= Len(p) /\ \A i \in 1..Len(d) : d[i] = p[i]
  BY PrefixPointwise
<1>3. ASSUME Len(p) = Len(d) + 1, IsPrefix(d, p) PROVE p # <<>> /\ Front(p) = d
  <2>1. p # <<>>
    BY <1>1, <1>3
  <2>2. /\ Front(p) \in Seq(S) /\ Len(Front(p)) = Len(p) - 1
        /\ \A i \in 1..Len(p) - 1 : Front(p)[i] = p[i]
    BY <2>1, FrontType
  <2>3. Len(Front(p)) = Len(d) /\ \A i \in 1..Len(Front(p)) : Front(p)[i] = d[i]
    BY <1>1, <1>2, <1>3, <2>2
  <2>4. QED
    BY <2>1, <2>2, <2>3, SeqEqual
<1>4. ASSUME p # <<>>, Front(p) = d PROVE Len(p) = Len(d) + 1 /\ IsPrefix(d, p)
  <2>1. Len(d) = Len(p) - 1 /\ \A i \in 1..Len(p) - 1 : d[i] = p[i]
    BY <1>4, FrontType
  <2>2. QED
    BY <1>1, <1>2, <2>1
<1>5. QED
  BY <1>3, <1>4
-----------------------------------------------------------------------------
(* The invariant *)

\* There are finitely many inodes, at paths, and they form a tree within the limits on sizes.
FsInv ==
  /\ DOMAIN tree \subseteq Seq(InodeNames)
  /\ IsFiniteSet(DOMAIN tree)
  /\ TypeOK
  /\ SizeLimitsHold

\* The children of a directory in a set of nodes.
ChildrenIn(T, dir) == {p \in T : p # <<>> /\ Front(p) = dir}

\* Children and ChildrenIn are the same.
LEMMA ChildrenAreFronts ==
  ASSUME NEW T, T \subseteq Seq(InodeNames), NEW dir \in Seq(InodeNames)
  PROVE  {p \in T : Len(p) = Len(dir) + 1 /\ IsPrefix(dir, p)} = ChildrenIn(T, dir)
<1>1. ASSUME NEW p \in T
      PROVE  Len(p) = Len(dir) + 1 /\ IsPrefix(dir, p) <=> p # <<>> /\ Front(p) = dir
  BY ChildIffFront
<1>2. QED
  BY <1>1, Zenon DEF ChildrenIn

\* Initially there is the root only.
LEMMA InitEstablishes == ASSUME LimitAssumption, Init PROVE FsInv
<1>1. DOMAIN tree = {<<>>} /\ tree[<<>>] = Directory /\ inode_count = 1
  BY DEF Init
<1>2. <<>> \in Seq(InodeNames)
  BY EmptySeq
<1>3. IsFiniteSet({<<>>}) /\ Cardinality({<<>>}) = 1
  BY FS_Singleton, Zenon
<1>4. \A i \in DOMAIN <<>> : FALSE
  OBVIOUS
<1>5. TypeOK
  BY <1>1, <1>4 DEF TypeOK, Directory
<1>6. Children(<<>>) = {}
  <2>1. Children(<<>>) = ChildrenIn({<<>>}, <<>>)
    BY <1>1, <1>2, ChildrenAreFronts, Zenon DEF Children
  <2>2. QED
    BY <2>1 DEF ChildrenIn
<1>7. Cardinality(Children(<<>>)) = 0
  BY <1>6, FS_EmptySet
<1>8. SizeLimitsHold
  BY <1>1, <1>3, <1>7 DEF SizeLimitsHold, LimitAssumption, Directory
<1>9. QED
  BY <1>1, <1>2, <1>3, <1>5, <1>8 DEF FsInv

\* create_file and create_dir, when they answer Ok, keep the invariant.
LEMMA CreateKeeps ==
  ASSUME LimitAssumption, FsInv, NEW path \in Paths, NEW inode \in {Directory, 0},
         CreateAnswer(path) = "Ok",
         tree' = Put(CreatedAt(path), inode),
         inode_count' = inode_count + 1
  PROVE  FsInv'
<1> DEFINE parent == resolve_path(path).parent
           name == resolve_path(path).name
           new == CreatedAt(path)
<1>1. path \in Seq(STRING)
  BY DEF LimitAssumption
<1>2. resolve_path(path).err = "Ok"
  BY DEF CreateAnswer
<1>3. /\ inode_count < MAX_TOTAL_INODES /\ inode_count \in Nat
      /\ MAX_TOTAL_INODES \in Nat
  BY DEF CreateAnswer, FsInv, TypeOK, LimitAssumption
<1>4. find_dir(parent) = "Ok"
  BY DEF CreateAnswer
<1>5. parent \in DOMAIN tree /\ tree[parent] = Directory
  BY <1>4 DEF find_dir, find_inode
<1>6. new \notin DOMAIN tree /\ ~(Cardinality(Children(parent)) >= MAX_DIR_CHILDREN)
  BY DEF CreateAnswer, CreatedAt
<1>7. /\ parent \in Seq(STRING \ {Empty}) /\ name \in InodeNames \ {".", ".."}
      /\ name = Empty => parent = <<>>
  BY <1>1, <1>2, ResolveType
<1>8. parent \in Seq(InodeNames) /\ new = Append(parent, name)
  BY <1>5 DEF CreatedAt, FsInv
<1> HIDE DEF parent, name, new
<1>9. /\ new \in Seq(InodeNames) /\ new # <<>> /\ Len(new) = Len(parent) + 1
      /\ Len(parent) \in Nat
      /\ \A i \in 1..Len(parent) : new[i] = parent[i]
      /\ new[Len(parent) + 1] = name
  BY <1>7, <1>8, AppendProperties
<1>10. Front(new) = parent
  BY <1>7, <1>8, FrontOfAppend
<1>11. DOMAIN tree' = DOMAIN tree \cup {new} /\ tree'[new] = inode
       /\ \A p \in DOMAIN tree : tree'[p] = tree[p]
  BY <1>6 DEF Put, new
<1>12. /\ DOMAIN tree' \subseteq Seq(InodeNames)
       /\ IsFiniteSet(DOMAIN tree')
       /\ Cardinality(DOMAIN tree') = Cardinality(DOMAIN tree) + 1
  BY <1>6, <1>9, <1>11, FS_AddElement DEF FsInv
<1>13. TypeOK'
  <2>1. ASSUME new # <<Empty>> PROVE \A i \in DOMAIN new : new[i] \notin {Empty, ".", ".."}
    <3>1. name # Empty
      <4>1. SUFFICES ASSUME name = Empty PROVE FALSE
        OBVIOUS
      <4>2. new = Append(<<>>, Empty)
        BY <1>7, <1>8, <4>1
      <4>3. Append(<<>>, Empty) = <<Empty>>
        OBVIOUS
      <4>4. QED
        BY <2>1, <4>2, <4>3
    <3>2. parent # <<Empty>>
      <4>1. SUFFICES ASSUME parent = <<Empty>> PROVE FALSE
        OBVIOUS
      <4>2. Len(parent) = 1 /\ parent[1] = Empty
        BY <4>1
      <4>3. parent[1] \in STRING \ {Empty}
        BY <1>7, <4>2, ElementOfSeq
      <4>4. QED
        BY <4>2, <4>3
    <3>3. \A i \in DOMAIN parent : parent[i] \notin {Empty, ".", ".."}
      BY <1>5, <3>2 DEF FsInv, TypeOK
    <3>4. DOMAIN parent = 1..Len(parent) /\ DOMAIN new = 1..Len(new)
      BY <1>8, <1>9, LenProperties
    <3>5. QED
      BY <1>7, <1>9, <3>1, <3>3, <3>4
  <2>2. inode \in {Directory} \cup Nat
    OBVIOUS
  <2>3. ASSUME NEW p \in DOMAIN tree'
        PROVE  /\ tree'[p] \in {Directory} \cup Nat
               /\ p # <<>> => Front(p) \in DOMAIN tree' /\ tree'[Front(p)] = Directory
               /\ p # <<Empty>> => \A i \in DOMAIN p : p[i] \notin {Empty, ".", ".."}
    <3>1. CASE p \in DOMAIN tree
      BY <1>11, <3>1 DEF FsInv, TypeOK
    <3>2. CASE p = new
      BY <1>5, <1>10, <1>11, <2>1, <2>2, <3>2
    <3>3. QED
      BY <1>11, <3>1, <3>2
  <2>4. <<>> \in DOMAIN tree' /\ tree'[<<>>] = Directory
    BY <1>11 DEF FsInv, TypeOK
  <2>5. inode_count' \in Nat
    BY <1>3
  <2>6. QED
    BY <2>3, <2>4, <2>5 DEF TypeOK, Directory
<1>14. SizeLimitsHold'
  <2>1. Cardinality(DOMAIN tree) \in Nat /\ Cardinality(DOMAIN tree) <= inode_count
    BY FS_CardinalityType DEF FsInv, SizeLimitsHold
  <2>2. Cardinality(DOMAIN tree') <= inode_count' /\ inode_count' <= MAX_TOTAL_INODES
    BY <1>3, <1>12, <2>1
  <2>3. \A p \in DOMAIN tree' : tree'[p] <= MAX_FILE_SIZE
    BY <1>11 DEF FsInv, SizeLimitsHold, LimitAssumption, Directory
  <2>4. ASSUME NEW p \in DOMAIN tree' PROVE Cardinality(Children(p)') <= MAX_DIR_CHILDREN
    <3>1. p \in Seq(InodeNames)
      BY <1>12
    <3>2. Children(p)' = ChildrenIn(DOMAIN tree \cup {new}, p)
      BY <1>11, <1>12, <3>1, ChildrenAreFronts DEF Children
    <3>3. Children(p) = ChildrenIn(DOMAIN tree, p)
      BY <3>1, ChildrenAreFronts DEF Children, FsInv
    <3>4. CASE p = parent
      <4>1. Children(p)' = Children(p) \cup {new}
        BY <1>9, <1>10, <3>2, <3>3, <3>4 DEF ChildrenIn
      <4>2. new \notin Children(p) /\ Children(p) \in SUBSET DOMAIN tree
        BY <1>6 DEF Children
      <4>3. IsFiniteSet(Children(p))
        BY <4>2, FS_Subset DEF FsInv
      <4>4. Cardinality(Children(p)') = Cardinality(Children(p)) + 1
        BY <4>1, <4>2, <4>3, FS_AddElement, Zenon
      <4>5. Cardinality(Children(p)) \in Nat
        BY <4>3, FS_CardinalityType
      <4>6. QED
        BY <1>6, <3>4, <4>4, <4>5 DEF LimitAssumption
    <3>5. CASE p # parent /\ p \in DOMAIN tree
      <4>1. Children(p)' = Children(p)
        BY <1>10, <3>2, <3>3, <3>5 DEF ChildrenIn
      <4>2. QED
        BY <3>5, <4>1 DEF FsInv, SizeLimitsHold
    <3>6. CASE p # parent /\ p = new
      <4>1. Children(p)' = {}
        BY <1>6, <1>10, <3>2, <3>6 DEF ChildrenIn, FsInv, TypeOK
      <4>2. QED
        BY <4>1, FS_EmptySet DEF LimitAssumption
    <3>7. QED
      BY <1>11, <3>4, <3>5, <3>6
  <2>5. QED
    BY <2>2, <2>3, <2>4 DEF SizeLimitsHold
<1>15. QED
  BY <1>12, <1>13, <1>14 DEF FsInv

\* write_file and append_file, when they answer Ok, keep the invariant.
LEMMA WriteKeeps ==
  ASSUME LimitAssumption, FsInv, NEW names, NEW len \in Nat,
         find_file(names) = "Ok", len <= MAX_FILE_SIZE,
         tree' = Put(names, len), UNCHANGED inode_count
  PROVE  FsInv'
<1>1. names \in DOMAIN tree /\ tree[names] # Directory
  BY DEF find_file, find_inode
<1>2. /\ DOMAIN tree' = DOMAIN tree
      /\ \A p \in DOMAIN tree : tree'[p] = IF p = names THEN len ELSE tree[p]
  BY <1>1 DEF Put
<1>3. \A p \in DOMAIN tree : tree[p] = Directory => tree'[p] = Directory
  BY <1>1, <1>2
<1>4. TypeOK'
  BY <1>2, <1>3 DEF FsInv, TypeOK, Directory
<1>5. \A p : Children(p)' = Children(p)
  BY <1>2 DEF Children
<1>6. SizeLimitsHold'
  BY <1>2, <1>5 DEF FsInv, SizeLimitsHold
<1>7. QED
  BY <1>2, <1>4, <1>6 DEF FsInv

\* What remove cuts off: the inode and all below it.
LEMMA WithoutDomain ==
  ASSUME NEW names, tree' = Without(names)
  PROVE  /\ DOMAIN tree' = {q \in DOMAIN tree : ~IsPrefix(names, q)}
         /\ \A p \in DOMAIN tree' : tree'[p] = tree[p]
  BY DEF Without

\* A removal that answers Ok keeps the invariant: one inode less is counted, and one
\* or more are gone.
LEMMA RemoveKeeps ==
  ASSUME LimitAssumption, FsInv, NEW names \in DOMAIN tree, names # <<>>,
         tree' = Without(names), inode_count' = Max({inode_count - 1, 0})
  PROVE  FsInv'
<1>1. names \in Seq(InodeNames) /\ DOMAIN tree \subseteq Seq(InodeNames) /\ IsFiniteSet(DOMAIN tree)
  BY DEF FsInv
<1>2. /\ DOMAIN tree' = {q \in DOMAIN tree : ~IsPrefix(names, q)}
      /\ \A p \in DOMAIN tree' : tree'[p] = tree[p]
  BY WithoutDomain, Zenon
<1>3. \A q \in Seq(InodeNames) :
        IsPrefix(names, q) <=> Len(names) <= Len(q) /\ \A i \in 1..Len(names) : names[i] = q[i]
  BY <1>1, PrefixPointwise
<1>4. Len(names) \in Nat \ {0}
  BY <1>1, EmptySeq
<1>5. names \notin DOMAIN tree'
  <2>1. IsPrefix(names, names)
    BY <1>1, <1>3, <1>4
  <2>2. QED
    BY <1>2, <2>1
<1>6. <<>> \in DOMAIN tree'
  <2>1. <<>> \in Seq(InodeNames) /\ Len(<<>>) = 0
    BY EmptySeq
  <2>2. IsPrefix(names, <<>>) => Len(names) <= Len(<<>>)
    BY <1>3, <2>1, Zenon
  <2>3. ~IsPrefix(names, <<>>)
    BY <1>4, <2>1, <2>2
  <2>4. <<>> \in DOMAIN tree
    BY DEF FsInv, TypeOK
  <2>5. QED
    BY <1>2, <2>3, <2>4, Zenon
<1>7. ASSUME NEW p \in DOMAIN tree', p # <<>> PROVE Front(p) \in DOMAIN tree'
  <2>1. p \in DOMAIN tree /\ p \in Seq(InodeNames) /\ ~IsPrefix(names, p)
    BY <1>1, <1>2
  <2>2. Front(p) \in DOMAIN tree /\ Front(p) \in Seq(InodeNames)
    BY <1>1, <1>7, <2>1 DEF FsInv, TypeOK
  <2>3. Len(p) \in Nat \ {0}
    BY <1>7, <2>1, EmptySeq
  <2>4. Len(Front(p)) = Len(p) - 1 /\ \A i \in 1..Len(p) - 1 : Front(p)[i] = p[i]
    BY <1>7, <2>1, FrontType
  <2>5. ~IsPrefix(names, Front(p))
    <3>1. SUFFICES ASSUME Len(names) <= Len(p) - 1, \A i \in 1..Len(names) : names[i] = Front(p)[i]
                   PROVE  FALSE
      BY <1>3, <2>2, <2>4
    <3>2. Len(names) <= Len(p)
      BY <1>4, <2>3, <3>1
    <3>3. ASSUME NEW i \in 1..Len(names) PROVE names[i] = p[i]
      <4>1. i \in 1..Len(p) - 1
        BY <1>4, <2>3, <3>1
      <4>2. QED
        BY <2>4, <3>1, <4>1
    <3>4. QED
      BY <1>3, <2>1, <3>2, <3>3
  <2>6. QED
    BY <1>2, <2>2, <2>5
<1>8. /\ IsFiniteSet(DOMAIN tree')
      /\ Cardinality(DOMAIN tree') <= Cardinality(DOMAIN tree) - 1
      /\ Cardinality(DOMAIN tree') \in Nat /\ Cardinality(DOMAIN tree) \in Nat
  <2>1. IsFiniteSet(DOMAIN tree \ {names})
        /\ Cardinality(DOMAIN tree \ {names}) = Cardinality(DOMAIN tree) - 1
    BY <1>1, FS_RemoveElement
  <2>2. DOMAIN tree' \in SUBSET (DOMAIN tree \ {names})
    BY <1>2, <1>5
  <2>3. IsFiniteSet(DOMAIN tree') /\ Cardinality(DOMAIN tree') <= Cardinality(DOMAIN tree \ {names})
    BY <2>1, <2>2, FS_Subset
  <2>4. QED
    BY <1>1, <2>1, <2>3, FS_CardinalityType
<1>9. /\ inode_count \in Nat /\ Cardinality(DOMAIN tree) <= inode_count
      /\ inode_count <= MAX_TOTAL_INODES /\ MAX_TOTAL_INODES \in Nat
  BY DEF FsInv, TypeOK, SizeLimitsHold, LimitAssumption
<1>10. inode_count' = inode_count - 1 /\ inode_count' \in Nat
  <2> DEFINE n == inode_count - 1
  <2>1. n \in Nat
    BY <1>8, <1>9
  <2> HIDE DEF n
  <2>2. Max({n, 0}) = n
    BY <2>1 DEF Max
  <2>3. QED
    BY <2>1, <2>2 DEF n
<1>11. TypeOK'
  BY <1>2, <1>6, <1>7, <1>10 DEF FsInv, TypeOK, Directory
<1>12. Cardinality(DOMAIN tree') <= inode_count' /\ inode_count' <= MAX_TOTAL_INODES
  BY <1>8, <1>9, <1>10
<1>13. ASSUME NEW p \in DOMAIN tree' PROVE Cardinality(Children(p)') <= MAX_DIR_CHILDREN
  <2>1. Children(p)' \in SUBSET Children(p) /\ Children(p) \in SUBSET DOMAIN tree
    BY <1>2 DEF Children
  <2>2. IsFiniteSet(Children(p))
    BY <1>1, <2>1, FS_Subset
  <2>3. Cardinality(Children(p)') <= Cardinality(Children(p)) /\ IsFiniteSet(Children(p)')
    BY <2>1, <2>2, FS_Subset
  <2>4. Cardinality(Children(p)') \in Nat /\ Cardinality(Children(p)) \in Nat
    BY <2>2, <2>3, FS_CardinalityType
  <2>5. Cardinality(Children(p)) <= MAX_DIR_CHILDREN
    BY <1>2 DEF FsInv, SizeLimitsHold
  <2>6. QED
    BY <2>3, <2>4, <2>5 DEF LimitAssumption
<1>14. SizeLimitsHold'
  BY <1>2, <1>12, <1>13 DEF FsInv, SizeLimitsHold
<1>15. QED
  BY <1>1, <1>2, <1>8, <1>11, <1>14 DEF FsInv

\* A call that changes no inode keeps the invariant.
LEMMA AnswerKeeps == ASSUME FsInv, UNCHANGED <<tree, inode_count>> PROVE FsInv'
  BY Zenon DEF FsInv, TypeOK, SizeLimitsHold, Children

\* Where a removal cuts is not the root.
LEMMA RemovedIsBelowRoot ==
  ASSUME LimitAssumption, NEW path \in Paths, resolve_path(path).err = "Ok"
  PROVE  CreatedAt(path) # <<>>
<1>1. path \in Seq(STRING)
  BY DEF LimitAssumption
<1>2. resolve_path(path).parent \in Seq(STRING \ {Empty}) /\ resolve_path(path).name \in InodeNames
  BY <1>1, ResolveType
<1>3. resolve_path(path).parent \in Seq(InodeNames)
  BY <1>2, SeqMonotonic DEF InodeNames
<1>4. QED
  BY <1>2, <1>3, AppendProperties DEF CreatedAt
-----------------------------------------------------------------------------
(* The theorems *)

\* The inodes are a tree within the limits after every sequence of calls.
THEOREM FsInvariant == ASSUME LimitAssumption PROVE Spec => []FsInv
<1>1. Init => FsInv
  BY InitEstablishes
<1>2. FsInv /\ [Next]_vars => FsInv'
  <2> SUFFICES ASSUME FsInv, [Next]_vars PROVE FsInv'
    OBVIOUS
  <2>1. CASE UNCHANGED vars
    BY <2>1, AnswerKeeps DEF vars
  <2>2. ASSUME NEW path \in Paths, create_file(path) PROVE FsInv'
    BY <2>2, AnswerKeeps, CreateKeeps DEF create_file, Answer
  <2>3. ASSUME NEW path \in Paths, create_dir(path) PROVE FsInv'
    BY <2>3, AnswerKeeps, CreateKeeps DEF create_dir, Answer
  <2>4. ASSUME NEW path \in Paths, NEW len \in Lengths, write_file(path, len) PROVE FsInv'
    <3>1. len \in Nat
      BY DEF LimitAssumption
    <3>2. CASE UNCHANGED <<tree, inode_count>>
      BY <3>2, AnswerKeeps
    <3>3. CASE /\ ~(len > MAX_FILE_SIZE) /\ find_file(split_path(path)) = "Ok"
               /\ tree' = Put(split_path(path), len) /\ UNCHANGED inode_count
      <4>1. len <= MAX_FILE_SIZE
        BY <3>1, <3>3 DEF LimitAssumption
      <4>2. QED
        BY <3>1, <3>3, <4>1, WriteKeeps
    <3>4. QED
      BY <2>4, <3>2, <3>3 DEF write_file, Answer
  <2>5. ASSUME NEW path \in Paths, NEW len \in Lengths, append_file(path, len) PROVE FsInv'
    <3> DEFINE names == split_path(path)
               total == tree[names] + len
    <3>1. len \in Nat
      BY DEF LimitAssumption
    <3>2. CASE UNCHANGED <<tree, inode_count>>
      BY <3>2, AnswerKeeps
    <3>3. CASE /\ find_file(names) = "Ok" /\ ~(total > MAX_FILE_SIZE)
               /\ tree' = Put(names, total) /\ UNCHANGED inode_count
      <4>1. tree[names] \in Nat
        BY <3>3 DEF find_file, find_inode, FsInv, TypeOK
      <4>2. total \in Nat /\ total <= MAX_FILE_SIZE
        BY <3>1, <3>3, <4>1 DEF LimitAssumption
      <4> HIDE DEF total
      <4>3. QED
        BY <3>3, <4>2, WriteKeeps
    <3>4. QED
      BY <2>5, <3>2, <3>3 DEF append_file, Answer
  <2>6. ASSUME NEW path \in Paths, remove(path) PROVE FsInv'
    <3>1. CASE UNCHANGED <<tree, inode_count>>
      BY <3>1, AnswerKeeps
    <3>2. CASE /\ resolve_path(path).err = "Ok" /\ CreatedAt(path) \in DOMAIN tree
               /\ tree' = Without(CreatedAt(path)) /\ inode_count' = Max({inode_count - 1, 0})
      BY <3>2, RemoveKeeps, RemovedIsBelowRoot
    <3>3. QED
      BY <2>6, <3>1, <3>2 DEF remove, Answer
  <2>7. ASSUME NEW path \in Paths, read_file(path) \/ list_dir(path) \/ exists(path) PROVE FsInv'
    BY <2>7, AnswerKeeps DEF read_file, list_dir, exists, Answer
  <2>8. QED
    BY <2>1, <2>2, <2>3, <2>4, <2>5, <2>6, <2>7, Zenon DEF Next
<1>3. QED
  BY <1>1, <1>2, PTL DEF Spec

\* Whatever paths the calls are given, the inodes form a tree whose names paths can
\* mention.
THEOREM InodesFormATree == ASSUME LimitAssumption PROVE Spec => []TypeOK
<1>1. FsInv => TypeOK
  BY DEF FsInv
<1>2. QED
  BY <1>1, FsInvariant, PTL

\* No sequence of calls exceeds the limits on the size of a file, the children of a
\* directory and the number of inodes, and inode_count never falls behind the inodes
\* there are.  (The limit on depth is not kept by creation, and not claimed.)
THEOREM SizeLimitsNeverExceeded == ASSUME LimitAssumption PROVE Spec => []SizeLimitsHold
<1>1. FsInv => SizeLimitsHold
  BY DEF FsInv
<1>2. QED
  BY <1>1, FsInvariant, PTL

\* create_file and remove do what their answer says at the place where the look-up
\* calls will look.
THEOREM AnswersTrue == ASSUME LimitAssumption PROVE Spec => AnswersAreTrue
<1> DEFINE True(path) ==
      /\ create_file(path) /\ result' = "Ok" => split_path(path) \in DOMAIN tree'
      /\ remove(path) /\ result' = "Ok" /\ split_path(path) # <<>>
           => \A p \in DOMAIN tree' : ~IsPrefix(split_path(path), p)
<1>1. ASSUME FsInv, NEW path \in Paths PROVE True(path)
  <2>1. path \in Seq(STRING)
    BY DEF LimitAssumption
  <2>2. ASSUME create_file(path), result' = "Ok" PROVE split_path(path) \in DOMAIN tree'
    <3>1. CreateAnswer(path) = "Ok"
      BY <2>2 DEF create_file, Answer
    <3>2. resolve_path(path).err = "Ok"
      BY <3>1 DEF CreateAnswer
    <3>3. DOMAIN tree' = DOMAIN tree \cup {CreatedAt(path)}
      BY <2>2, <3>1 DEF create_file, Put
    <3>4. CASE Trimmed(path) = 0
      <4>1. split_path(path) = <<>>
        BY <2>1, <3>4, SplitOfSlashes
      <4>2. <<>> \in DOMAIN tree
        BY <1>1 DEF FsInv, TypeOK
      <4>3. QED
        BY <3>3, <4>1, <4>2, Zenon
    <3>5. CASE Trimmed(path) # 0
      BY <2>1, <3>2, <3>3, <3>5, ResolveType
    <3>6. QED
      BY <3>4, <3>5
  <2>3. ASSUME remove(path), result' = "Ok", split_path(path) # <<>>
        PROVE  \A p \in DOMAIN tree' : ~IsPrefix(split_path(path), p)
    <3>1. resolve_path(path).err = "Ok" /\ tree' = Without(CreatedAt(path))
      BY <2>3 DEF remove, Answer
    <3>2. Trimmed(path) # 0
      BY <2>1, <2>3, SplitOfSlashes
    <3>3. split_path(path) = CreatedAt(path)
      BY <2>1, <3>1, <3>2, ResolveType
    <3>4. QED
      BY <3>1, <3>3, WithoutDomain, Zenon
  <2>4. QED
    BY <2>2, <2>3
<1>2. ASSUME FsInv PROVE [\A path \in Paths : True(path)]_vars
  BY <1>1, <1>2
<1>3. QED
  BY <1>2, FsInvariant, PTL DEF AnswersAreTrue
=============================================================================
