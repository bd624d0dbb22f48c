--------------------------- MODULE BlobTreeProofs ---------------------------
(* Proofs about BlobTree: its inductive invariant, for paths of any length *)
(* and any number of writers, removers and walkers, and what follows.      *)
EXTENDS BlobTree, TLAPS, SequenceTheorems

(* Directories are prefixes of paths. *)
LEMMA DirFacts ==
    ASSUME NEW d \in Digests, NEW k \in 0 .. Depth(d)
    PROVE  /\ Path[d] \in Seq(Blocks) /\ Depth(d) \in Nat \ {0}
           /\ Dir(d, k) \in Seq(Blocks) /\ Len(Dir(d, k)) = k
           /\ \A i \in 1 .. k : Dir(d, k)[i] = Path[d][i]
<1>1. Path[d] \in Seq(Blocks) /\ Path[d] # <<>>
  BY TreeAssumption
<1>2. Depth(d) \in Nat \ {0}
  BY <1>1 DEF Depth
<1>3. QED
  BY <1>1, <1>2 DEF Dir, Depth

LEMMA SameDir ==
    ASSUME NEW S, NEW s \in Seq(S), NEW t \in Seq(S), Len(s) = Len(t),
           \A i \in 1 .. Len(s) : s[i] = t[i]
    PROVE  s = t
  OBVIOUS

(* The directory above, the path as a directory, and a directory's own      *)
(* prefixes.                                                               *)
LEMMA DirAbove ==
    ASSUME NEW d \in Digests, NEW k \in 1 .. Depth(d)
    PROVE  Above(Dir(d, k)) = Dir(d, k - 1)
<1>1. /\ Depth(d) \in Nat \ {0} /\ Dir(d, k) \in Seq(Blocks) /\ Len(Dir(d, k)) = k
      /\ \A i \in 1 .. k : Dir(d, k)[i] = Path[d][i]
  BY DirFacts
<1>2. /\ k - 1 \in 0 .. Depth(d) /\ k \in Nat
  BY <1>1
<1>3. /\ Dir(d, k - 1) \in Seq(Blocks) /\ Len(Dir(d, k - 1)) = k - 1
      /\ \A i \in 1 .. k - 1 : Dir(d, k - 1)[i] = Path[d][i]
  BY DirFacts, <1>2
<1>4. /\ Above(Dir(d, k)) \in Seq(Blocks) /\ Len(Above(Dir(d, k))) = k - 1
      /\ \A i \in 1 .. k - 1 : Above(Dir(d, k))[i] = Dir(d, k)[i]
  BY <1>1, <1>2 DEF Above
<1>5. QED
  BY <1>1, <1>2, <1>3, <1>4, SameDir

LEMMA DirWhole ==
    ASSUME NEW d \in Digests
    PROVE  Dir(d, Depth(d)) = Path[d] /\ Dir(d, 0) = Root /\ Path[d] # Root
<1>1. Path[d] \in Seq(Blocks) /\ Path[d] # <<>>
  BY TreeAssumption
<1>2. QED
  BY <1>1 DEF Dir, Depth, Root

LEMMA DirPrefix ==
    ASSUME NEW d \in Digests, NEW k \in 0 .. Depth(d), NEW j \in 1 .. k
    PROVE  SubSeq(Dir(d, k), 1, j) = Dir(d, j) /\ j \in 1 .. Depth(d)
<1>1. /\ Depth(d) \in Nat \ {0} /\ Dir(d, k) \in Seq(Blocks) /\ Len(Dir(d, k)) = k
      /\ \A i \in 1 .. k : Dir(d, k)[i] = Path[d][i]
  BY DirFacts
<1>2. j \in 0 .. Depth(d) /\ j \in Nat /\ j \in 1 .. Depth(d) /\ k \in Nat
  BY <1>1
<1>3. /\ Dir(d, j) \in Seq(Blocks) /\ Len(Dir(d, j)) = j
      /\ \A i \in 1 .. j : Dir(d, j)[i] = Path[d][i]
  BY DirFacts, <1>2
<1>4. /\ SubSeq(Dir(d, k), 1, j) \in Seq(Blocks) /\ Len(SubSeq(Dir(d, k), 1, j)) = j
      /\ \A i \in 1 .. j : SubSeq(Dir(d, k), 1, j)[i] = Dir(d, k)[i]
  BY <1>1, <1>2
<1>5. QED
  BY <1>1, <1>2, <1>3, <1>4, SameDir

(* Every directory of the tree is one of these. *)
LEMMA DirsAre ==
    ASSUME NEW p \in Dirs
    PROVE  \E d \in Digests : \E k \in 1 .. Depth(d) : p = Dir(d, k)
  BY DEF Dirs

LEMMA DirIn ==
    ASSUME NEW d \in Digests, NEW k \in 1 .. Depth(d)
    PROVE  Dir(d, k) \in Dirs /\ Dir(d, k) # Root
<1>1. k \in 0 .. Depth(d) /\ k # 0 /\ k \in Nat
  BY DirFacts, 0 \in 0 .. Depth(d)
<1>2. Len(Dir(d, k)) = k
  BY DirFacts, <1>1
<1>3. QED
  BY <1>1, <1>2 DEF Dirs, Root

-----------------------------------------------------------------------------
(* Where an operation is in the tree. *)
LEMMA HereFacts ==
    ASSUME TreeInv, NEW a \in Busy, at[a] # "idle"
    PROVE  /\ Working(a) /\ blob[a] \in Digests /\ level[a] \in Nat
           /\ level[a] = 0 => Here(a) = Root
           /\ level[a] > 0 => /\ Here(a) \in Dirs /\ Here(a) # Root
                              /\ Above(Here(a)) = Dir(blob[a], level[a] - 1)
           /\ level[a] = Depth(blob[a]) => Here(a) = Path[blob[a]]
           /\ level[a] < Depth(blob[a]) =>
                Above(Dir(blob[a], level[a] + 1)) = Here(a)
<1>1. Working(a) /\ blob[a] \in Digests /\ level[a] \in 0 .. Depth(blob[a])
  BY DEF TreeInv, Working
<1>2. Depth(blob[a]) \in Nat \ {0} /\ level[a] \in Nat
  BY <1>1, DirFacts
<1>3. level[a] > 0 => level[a] \in 1 .. Depth(blob[a])
  BY <1>1, <1>2
<1>4. level[a] < Depth(blob[a]) =>
        level[a] + 1 \in 1 .. Depth(blob[a]) /\ (level[a] + 1) - 1 = level[a]
  BY <1>1, <1>2
<1>5. level[a] < Depth(blob[a]) => Above(Dir(blob[a], level[a] + 1)) = Here(a)
  BY <1>1, <1>4, DirAbove DEF Here
<1>6. QED
  BY <1>1, <1>2, <1>3, <1>5, DirIn, DirAbove, DirWhole DEF Here

LEMMA TypeStep == TreeInv /\ [Next]_vars => TypeOK'
<1> SUFFICES ASSUME TreeInv, [Next]_vars PROVE TypeOK'
  OBVIOUS
<1> USE DEF TypeOK, walks, Goto, Return, Phases
<1>0. TypeOK /\ MaxFaults \in Nat /\ \A d \in Digests : d # None
  BY TreeAssumption DEF TreeInv
<1>a. \A d \in Digests : \A k \in 0 .. Depth(d) : k \in Levels
  BY DEF Levels
<1>b. \A d \in Digests : Depth(d) \in Nat \ {0} /\ 0 \in 0 .. Depth(d) /\ Depth(d) \in 0 .. Depth(d)
  BY DirFacts, TreeAssumption DEF Depth
<1>1. ASSUME NEW w \in Writers, NEW d \in Digests, Write(w, d) PROVE TypeOK'
  BY <1>0, <1>1, <1>a, <1>b DEF Write, Busy
<1>2. ASSUME NEW w \in Writers, Stat(w) PROVE TypeOK'
  <2> w \in Busy
    BY DEF Busy
  <2>1. /\ Working(w) /\ blob[w] \in Digests /\ level[w] \in 0 .. Depth(blob[w])
        /\ Depth(blob[w]) \in Nat
        /\ level[w] = 0 => Here(w) = Root
    BY <1>2, HereFacts, <1>b DEF Stat, Working
  <2>2. ~Exists(Here(w)) => level[w] - 1 \in 0 .. Depth(blob[w])
    BY <2>1 DEF Exists
  <2>3. level[w] # Depth(blob[w]) => level[w] + 1 \in 0 .. Depth(blob[w])
    BY <2>1
  <2>4. level' \in [Busy -> Levels]
    BY <1>0, <1>2, <1>a, <2>1, <2>2, <2>3 DEF Stat, Descend
  <2>5. QED
    BY <1>0, <1>2, <2>4 DEF Stat, Descend
<1>3. ASSUME NEW w \in Writers, at[w] # "idle", Descend(w)
      PROVE  level' \in [Busy -> Levels] /\ at' \in [Busy -> Phases] /\ blob' = blob
  <2> w \in Busy
    BY DEF Busy
  <2>1. /\ Working(w) /\ blob[w] \in Digests /\ level[w] \in 0 .. Depth(blob[w])
        /\ Depth(blob[w]) \in Nat
    BY <1>3, HereFacts, <1>b DEF Working
  <2>2. level[w] # Depth(blob[w]) => level[w] + 1 \in 0 .. Depth(blob[w])
    BY <2>1
  <2>3. QED
    BY <1>0, <1>3, <1>a, <2>1, <2>2 DEF Descend
<1>4. ASSUME NEW w \in Writers, Mkdir(w) PROVE TypeOK'
  <2>1. Here(w) \in Dirs
    BY <1>4, HereFacts DEF Mkdir, Working, Busy
  <2>2. QED
    BY <1>0, <1>3, <1>4, <2>1 DEF Mkdir
<1>5. ASSUME NEW w \in Writers, MkdirExists(w) PROVE TypeOK'
  BY <1>0, <1>5 DEF MkdirExists, Busy
<1>6. ASSUME NEW w \in Writers, Look(w) PROVE TypeOK'
  BY <1>0, <1>3, <1>6 DEF Look
<1>d. \A a \in Busy : at[a] # "idle" => 0 \in Levels
  BY HereFacts, <1>a, <1>b
<1>7. ASSUME NEW w \in Writers, WriteFails(w) PROVE TypeOK'
  BY <1>0, <1>7, <1>d DEF WriteFails, Busy
<1>8. ASSUME NEW w \in Writers, Rename(w) PROVE TypeOK'
  <2>1. blob[w] \in Digests
    BY <1>8, HereFacts DEF Rename, Busy
  <2>2. QED
    BY <1>0, <1>8, <1>d, <2>1 DEF Rename, Busy
<1>9. ASSUME NEW r \in Removers, NEW d \in Digests, Delete(r, d) PROVE TypeOK'
  BY <1>0, <1>9, <1>a, <1>b DEF Delete, Busy
<1>10. ASSUME NEW r \in Removers, Prune(r) PROVE TypeOK'
  <2> r \in Busy
    BY DEF Busy
  <2>1. /\ blob[r] \in Digests /\ level[r] \in 0 .. Depth(blob[r]) /\ Depth(blob[r]) \in Nat
    BY <1>10, HereFacts, <1>b DEF Prune, Working
  <2>2. level[r] > 0 => level[r] - 1 \in 0 .. Depth(blob[r])
    BY <2>1
  <2>3. level' \in [Busy -> Levels]
    BY <1>0, <1>10, <1>a, <1>d, <2>1, <2>2 DEF Prune
  <2>4. QED
    BY <1>0, <1>10, <2>3 DEF Prune
<1>11. ASSUME NEW l \in Walkers, WalkStep(l) PROVE TypeOK'
  BY <1>0, <1>11 DEF WalkStep, Walk, ReadDir, Info
<1>12. ASSUME NEW a \in Busy, Fault(a) PROVE TypeOK'
  BY <1>0, <1>12, <1>d DEF Fault
<1>13. CASE UNCHANGED vars
  BY <1>0, <1>13 DEF vars
<1>14. QED
  BY <1>1, <1>2, <1>4, <1>5, <1>6, <1>7, <1>8, <1>9, <1>10, <1>11, <1>12, <1>13
     DEF Next, WriteStep, RemoveStep

(* An operation stays on the path of its blob. *)
LEMMA WorkStep ==
    ASSUME TreeInv, [Next]_vars, NEW a \in Busy, at'[a] # "idle"
    PROVE  Working(a)'
<1> USE DEF walks, Goto, Return
<1>0. TypeOK /\ Writers \cap Removers = {} /\ (at[a] # "idle" => Working(a))
  BY TreeAssumption DEF TreeInv
<1>b. \A d \in Digests : Depth(d) \in Nat \ {0} /\ Depth(d) \in 0 .. Depth(d)
  BY DirFacts, TreeAssumption DEF Depth
<1>k. /\ at \in [Busy -> Phases] /\ blob \in [Busy -> Digests \cup {None}]
      /\ level \in [Busy -> Levels]
  BY <1>0 DEF TypeOK
<1>e. ASSUME at'[a] = at[a], blob'[a] = blob[a], level'[a] = level[a] PROVE Working(a)'
  BY <1>0, <1>e DEF Working, Depth
<1>1. ASSUME NEW w \in Writers, NEW d \in Digests, Write(w, d) PROVE Working(a)'
  <2>1. CASE a = w
    BY <1>0, <1>k, <1>b, <1>1, <2>1 DEF Write, Working, Depth
  <2>2. CASE a # w
    BY <1>k, <1>1, <1>e, <2>2 DEF Write
  <2>3. QED
    BY <2>1, <2>2
<1>2. ASSUME NEW w \in Writers, Stat(w) PROVE Working(a)'
  <2>1. CASE a = w
    <3>1. /\ level[w] \in 0 .. Depth(blob[w]) /\ Depth(blob[w]) \in Nat
          /\ blob[w] \in Digests /\ w \notin Removers
          /\ level[w] = 0 => Exists(Here(w))
      BY <1>0, <1>2, <1>b, <2>1, HereFacts DEF Stat, Working, Exists
    <3>2. /\ blob'[w] = blob[w] /\ Depth(blob[w])' = Depth(blob[w])
          /\ \/ at'[w] = "stat" /\ level'[w] = level[w] - 1 /\ level[w] # 0
             \/ at'[w] = "rename" /\ level'[w] = level[w] /\ level[w] = Depth(blob[w])
             \/ at'[w] = "mkdir" /\ level'[w] = level[w] + 1 /\ level[w] # Depth(blob[w])
      BY <1>k, <1>2, <2>1, <3>1 DEF Stat, Descend, Depth
    <3>3. /\ level'[w] \in 0 .. Depth(blob[w])
          /\ at'[w] \in {"stat", "mkdir", "rename"}
          /\ at'[w] \in {"mkdir", "rename"} => level'[w] > 0
          /\ at'[w] = "rename" => level'[w] = Depth(blob[w])
      BY <3>1, <3>2, <1>b
    <3>4. QED
      BY <2>1, <3>1, <3>2, <3>3 DEF Working, Depth
  <2>2. CASE a # w
    BY <1>k, <1>2, <1>e, <2>2 DEF Stat, Descend
  <2>3. QED
    BY <2>1, <2>2
<1>3. ASSUME NEW w \in Writers, at[w] # "idle", Descend(w) PROVE Working(a)'
  <2>1. CASE a = w
    <3>1. /\ level[w] \in 0 .. Depth(blob[w]) /\ Depth(blob[w]) \in Nat \ {0}
          /\ blob[w] \in Digests /\ w \notin Removers
      BY <1>0, <1>3, <1>b, <2>1 DEF Working
    <3>2. QED
      BY <1>k, <1>3, <2>1, <3>1 DEF Descend, Working, Depth
  <2>2. CASE a # w
    BY <1>k, <1>3, <1>e, <2>2 DEF Descend
  <2>3. QED
    BY <2>1, <2>2
<1>4. ASSUME NEW w \in Writers, MkdirExists(w) PROVE Working(a)'
  <2>1. CASE a = w
    BY <1>0, <1>k, <1>4, <2>1 DEF MkdirExists, Working, Depth
  <2>2. CASE a # w
    BY <1>k, <1>4, <1>e, <2>2 DEF MkdirExists
  <2>3. QED
    BY <2>1, <2>2
<1>5. ASSUME NEW c \in Busy, Return(c) PROVE Working(a)'
  BY <1>k, <1>5, <1>e
<1>6. ASSUME NEW r \in Removers, NEW d \in Digests, Delete(r, d) PROVE Working(a)'
  <2>1. CASE a = r
    BY <1>0, <1>k, <1>b, <1>6, <2>1 DEF Delete, Working, Depth
  <2>2. CASE a # r
    BY <1>k, <1>6, <1>e, <2>2 DEF Delete
  <2>3. QED
    BY <2>1, <2>2
<1>7. ASSUME NEW r \in Removers, Prune(r) PROVE Working(a)'
  <2>0. r \in Busy
    BY DEF Busy
  <2>1. CASE a = r /\ Goto(r, "prune", level[r] - 1) /\ level[r] > 0
    <3>1. level[r] \in 0 .. Depth(blob[r]) /\ Depth(blob[r]) \in Nat /\ blob[r] \in Digests
      BY <1>0, <1>7, <1>b, <2>1 DEF Prune, Working
    <3>2. QED
      BY <1>0, <1>k, <1>7, <2>1, <3>1 DEF Prune, Working, Depth
  <2>2. CASE a # r
    BY <1>k, <1>7, <1>e, <2>2 DEF Prune
  <2>3. CASE Return(r)
    BY <1>5, <2>0, <2>3
  <2>4. QED
    BY <1>7, <2>1, <2>2, <2>3 DEF Prune
<1>8. ASSUME UNCHANGED <<at, blob, level>> PROVE Working(a)'
  BY <1>e, <1>8
<1>9. ASSUME NEW w \in Writers, WriteStep(w) PROVE Working(a)'
  BY <1>1, <1>2, <1>3, <1>4, <1>5, <1>9
     DEF WriteStep, Mkdir, Look, WriteFails, Rename, Busy
<1>10. ASSUME NEW l \in Walkers, WalkStep(l) PROVE Working(a)'
  BY <1>8, <1>10 DEF WalkStep, Walk, ReadDir, Info
<1>11. QED
  BY <1>5, <1>6, <1>7, <1>8, <1>9, <1>10 DEF Next, RemoveStep, Fault, vars

(* Directories and files keep what is above them. *)
LEMMA RootedStep == TreeInv /\ [Next]_vars => Rooted'
<1> SUFFICES ASSUME TreeInv, [Next]_vars PROVE Rooted'
  OBVIOUS
<1> USE DEF walks
<1>0. Rooted /\ dirs \subseteq Dirs /\ blobs \subseteq Digests
  BY DEF TreeInv, TypeOK
<1>1. ASSUME NEW w \in Writers, Mkdir(w) PROVE Rooted'
  <2> w \in Busy
    BY DEF Busy
  <2> DEFINE p == Here(w)
  <2>1. /\ blob[w] \in Digests /\ level[w] \in 1 .. Depth(blob[w])
        /\ p = Dir(blob[w], level[w]) /\ Above(p) = Dir(blob[w], level[w] - 1)
        /\ Depth(blob[w]) \in Nat
    BY <1>1, HereFacts, DirFacts, TreeAssumption DEF Mkdir, Working, Here, Depth
  <2>2. ASSUME NEW k \in 1 .. level[w] PROVE SubSeq(p, 1, k) \in dirs'
    <3>1. SubSeq(p, 1, k) = Dir(blob[w], k)
      BY <2>1, <2>2, DirPrefix
    <3>2. CASE k = level[w]
      BY <1>1, <2>1, <3>1, <3>2 DEF Mkdir
    <3>3. CASE k < level[w]
      <4>1. level[w] - 1 \in 1 .. Depth(blob[w]) /\ k \in 1 .. level[w] - 1
            /\ level[w] - 1 \in 0 .. Depth(blob[w])
        BY <2>1, <2>2, <3>3
      <4>2. Above(p) \in dirs /\ Len(Above(p)) = level[w] - 1
        BY <1>1, <2>1, <4>1, DirIn, DirFacts DEF Mkdir, Exists
      <4>3. SubSeq(Above(p), 1, k) \in dirs
        BY <1>0, <4>1, <4>2 DEF Rooted
      <4>4. SubSeq(Above(p), 1, k) = Dir(blob[w], k)
        BY <2>1, <4>1, DirPrefix
      <4>5. QED
        BY <1>1, <3>1, <4>3, <4>4 DEF Mkdir
    <3>4. QED
      BY <2>1, <2>2, <3>2, <3>3
  <2>3. Len(p) = level[w]
    BY <2>1, DirFacts
  <2>4. \A q \in dirs' : q \in dirs \/ q = p
    BY <1>1 DEF Mkdir
  <2>5. \A q \in dirs' : \A k \in 1 .. Len(q) : SubSeq(q, 1, k) \in dirs'
    BY <1>0, <1>1, <2>2, <2>3, <2>4 DEF Mkdir, Rooted
  <2>6. QED
    BY <1>0, <1>1, <2>5 DEF Mkdir, Rooted
<1>2. ASSUME NEW w \in Writers, Rename(w) PROVE Rooted'
  <2>1. /\ Here(w) = Path[blob[w]] /\ Here(w) # Root
    BY <1>2, HereFacts, DirWhole DEF Rename, Working, Busy
  <2>2. QED
    BY <1>0, <1>2, <2>1 DEF Rename, Rooted, Exists
<1>3. ASSUME NEW r \in Removers, NEW d \in Digests, Delete(r, d) PROVE Rooted'
  BY <1>0, <1>3 DEF Delete, Rooted
<1>4. ASSUME NEW r \in Removers, Prune(r), Here(r) \in dirs, Empty(Here(r)),
             dirs' = dirs \ {Here(r)}
      PROVE  Rooted'
  <2>1. ASSUME NEW q \in dirs', NEW k \in 1 .. Len(q) PROVE SubSeq(q, 1, k) # Here(r)
    <3>0. PICK d \in Digests : \E m \in 1 .. Depth(d) : q = Dir(d, m)
      BY <1>0, <1>4, <2>1, DirsAre
    <3>1. PICK m \in 1 .. Depth(d) : q = Dir(d, m)
      BY <3>0
    <3>2. /\ Depth(d) \in Nat /\ m \in 0 .. Depth(d) /\ Len(q) = m /\ k \in 1 .. m
      BY <2>1, <3>1, DirFacts, TreeAssumption DEF Depth
    <3>3. SubSeq(q, 1, k) = Dir(d, k)
      BY <3>1, <3>2, DirPrefix
    <3>4. CASE k = m
      BY <1>4, <2>1, <3>1, <3>3, <3>4
    <3>5. CASE k < m
      <4>1. k + 1 \in 1 .. m /\ k + 1 \in 1 .. Depth(d) /\ (k + 1) - 1 = k
        BY <3>2, <3>5
      <4>2. SubSeq(q, 1, k + 1) = Dir(d, k + 1) /\ Above(Dir(d, k + 1)) = Dir(d, k)
        BY <3>1, <3>2, <4>1, DirPrefix, DirAbove
      <4>3. SubSeq(q, 1, k + 1) \in dirs
        BY <1>0, <1>4, <2>1, <3>2, <4>1 DEF Rooted
      <4>4. QED
        BY <1>4, <3>3, <4>2, <4>3 DEF Empty
    <3>6. QED
      BY <3>2, <3>4, <3>5
  <2>2. QED
    BY <1>0, <1>4, <2>1 DEF Rooted, Empty, Prune
<1>5. ASSUME NEW r \in Removers, Prune(r) PROVE Rooted'
  BY <1>0, <1>4, <1>5 DEF Prune, Rooted
<1>6. ASSUME UNCHANGED <<dirs, blobs>> PROVE Rooted'
  BY <1>0, <1>6 DEF Rooted
<1>7. ASSUME NEW w \in Writers, WriteStep(w) PROVE Rooted'
  BY <1>1, <1>2, <1>6, <1>7 DEF WriteStep, Write, Stat, MkdirExists, Look, WriteFails
<1>8. ASSUME NEW l \in Walkers, WalkStep(l) PROVE Rooted'
  BY <1>6, <1>8 DEF WalkStep, Walk, ReadDir, Info
<1>9. QED
  BY <1>3, <1>5, <1>6, <1>7, <1>8 DEF Next, RemoveStep, Fault, vars

-----------------------------------------------------------------------------
(* What an operation holds changes with its own steps only. *)
LEMMA StillHolds ==
    ASSUME NEW a, NEW p, at'[a] = at[a], blob'[a] = blob[a], level'[a] = level[a]
    PROVE  Holds(a, p)' <=> Holds(a, p)
  BY DEF Holds, Here, Dir

(* A writer that goes down holds the directory it has seen or made. *)
LEMMA DescendHolds ==
    ASSUME TreeInv, NEW w \in Writers, at[w] # "idle", Descend(w), NEW p
    PROVE  Holds(w, p)' <=> p = Here(w)
<1>1. /\ at \in [Busy -> Phases] /\ level \in [Busy -> Levels] /\ w \in Busy
  BY DEF TreeInv, TypeOK, Busy
<1>2. /\ level[w] \in Nat /\ Depth(blob[w]) \in Nat /\ level[w] \in 0 .. Depth(blob[w])
      /\ level[w] < Depth(blob[w]) => Above(Dir(blob[w], level[w] + 1)) = Here(w)
  BY <1>1, HereFacts, DirFacts DEF Working
<1>3. CASE level[w] = Depth(blob[w])
  BY <1>1, <1>3 DEF Descend, Goto, Holds, Here, Dir
<1>4. CASE level[w] # Depth(blob[w])
  <2>1. /\ at'[w] = "mkdir" /\ Here(w)' = Dir(blob[w], level[w] + 1)
    BY <1>1, <1>4 DEF Descend, Goto, Here, Dir
  <2>2. Above(Here(w))' = Here(w)
    BY <1>2, <1>4, <2>1 DEF Above
  <2>3. QED
    BY <2>1, <2>2 DEF Holds
<1>5. QED
  BY <1>3, <1>4

(* What a writer relies on stays, or its path was pruned. *)
LEMMA HeldStep == TreeInv /\ [Next]_vars => HeldIsThere'
<1> SUFFICES ASSUME TreeInv, [Next]_vars, NEW w \in Writers, w \notin pruned',
                    NEW p \in Dirs, Holds(w, p)'
             PROVE  p \in dirs'
  BY DEF HeldIsThere
<1> USE DEF walks
<1>0. /\ at \in [Busy -> Phases] /\ blob \in [Busy -> Digests \cup {None}]
      /\ level \in [Busy -> Levels]
      /\ Writers \cap Removers = {} /\ w \in Busy /\ HeldIsThere
      /\ p # Root
  BY TreeAssumption, DirsAre, DirIn DEF TreeInv, TypeOK, Busy
<1>1. ASSUME at'[w] = at[w], blob'[w] = blob[w], level'[w] = level[w], w \notin pruned,
             p \in dirs => p \in dirs'
      PROVE  p \in dirs'
  BY <1>0, <1>1, StillHolds DEF HeldIsThere
<1>2. ASSUME at'[w] \in {"idle", "stat"} PROVE p \in dirs'
  BY <1>2 DEF Holds
<1>3. ASSUME at[w] # "idle", Descend(w), Exists(Here(w)), dirs' = dirs PROVE p \in dirs'
  BY <1>0, <1>3, DescendHolds DEF Exists
<1>4. ASSUME NEW c \in Busy, Return(c), UNCHANGED <<dirs, pruned>> PROVE p \in dirs'
  BY <1>0, <1>1, <1>2, <1>4 DEF Return
<1>5. ASSUME NEW v \in Writers, WriteStep(v), v # w PROVE p \in dirs'
  BY <1>0, <1>1, <1>5
     DEF WriteStep, Write, Stat, Mkdir, MkdirExists, Look, WriteFails, Rename,
         Goto, Return, Descend
<1>6. ASSUME WriteStep(w) PROVE p \in dirs'
  <2>1. ASSUME NEW d \in Digests, Write(w, d) PROVE p \in dirs'
    BY <1>0, <1>2, <2>1 DEF Write
  <2>2. ASSUME Stat(w) PROVE p \in dirs'
    BY <1>0, <1>2, <1>3, <2>2 DEF Stat, Goto
  <2>3. ASSUME Mkdir(w) PROVE p \in dirs'
    BY <1>0, <1>3, <2>3, DescendHolds DEF Mkdir
  <2>4. ASSUME MkdirExists(w) PROVE p \in dirs'
    BY <1>0, <2>4 DEF MkdirExists, Goto, Holds, Exists, Here, Dir
  <2>5. ASSUME Look(w) PROVE p \in dirs'
    BY <1>3, <2>5 DEF Look
  <2>6. ASSUME WriteFails(w) \/ Rename(w) PROVE p \in dirs'
    BY <1>0, <1>4, <2>6 DEF WriteFails, Rename
  <2>7. QED
    BY <1>6, <2>1, <2>2, <2>3, <2>4, <2>5, <2>6 DEF WriteStep
<1>7. ASSUME NEW r \in Removers, Prune(r), Here(r) \in dirs, dirs' = dirs \ {Here(r)},
             pruned' = pruned \cup {v \in Writers : OnPath(v, Here(r))},
             Goto(r, "prune", level[r] - 1)
      PROVE  p \in dirs'
  <2>1. at'[w] = at[w] /\ blob'[w] = blob[w] /\ level'[w] = level[w] /\ w \notin pruned
    BY <1>0, <1>7 DEF Goto
  <2>2. Holds(w, p) /\ at[w] # "idle"
    BY <2>1, StillHolds DEF Holds
  <2>3. blob[w] \in Digests /\ blob[w] # None /\ \E k \in 1 .. Depth(blob[w]) : p = Dir(blob[w], k)
    <3>1. /\ Working(w) /\ blob[w] \in Digests /\ level[w] \in Nat
          /\ level[w] = 0 => Here(w) = Root
          /\ level[w] > 0 => Above(Here(w)) = Dir(blob[w], level[w] - 1)
          /\ Depth(blob[w]) \in Nat /\ level[w] \in 0 .. Depth(blob[w])
          /\ Dir(blob[w], 0) = Root
      BY <1>0, <2>2, HereFacts, DirFacts, DirWhole DEF Working
    <3>2. CASE at[w] = "mkdir"
      <4>1. level[w] > 0 /\ p = Dir(blob[w], level[w] - 1)
        BY <2>2, <3>1, <3>2 DEF Holds, Working
      <4>2. level[w] - 1 # 0
        BY <1>0, <3>1, <4>1
      <4>3. level[w] - 1 \in 1 .. Depth(blob[w])
        BY <3>1, <4>1, <4>2
      <4>4. QED
        BY <3>1, <4>1, <4>3, TreeAssumption
    <3>3. CASE at[w] # "mkdir"
      <4>1. p = Dir(blob[w], level[w])
        BY <2>2, <3>3 DEF Holds, Here
      <4>2. level[w] \in 1 .. Depth(blob[w])
        BY <1>0, <3>1, <4>1
      <4>3. QED
        BY <3>1, <4>1, <4>2, TreeAssumption
    <3>4. QED
      BY <3>2, <3>3
  <2>4. p # Here(r)
    BY <1>7, <2>3 DEF OnPath
  <2>5. QED
    BY <1>0, <1>7, <2>1, <2>2, <2>4 DEF HeldIsThere
<1>8. ASSUME NEW r \in Removers, RemoveStep(r) PROVE p \in dirs'
  <2>1. ASSUME NEW d \in Digests, Delete(r, d) PROVE p \in dirs'
    BY <1>0, <1>1, <2>1 DEF Delete
  <2>2. ASSUME Prune(r) PROVE p \in dirs'
    BY <1>4, <1>7, <2>2 DEF Prune, Busy
  <2>3. QED
    BY <1>8, <2>1, <2>2 DEF RemoveStep
<1>9. ASSUME NEW l \in Walkers, WalkStep(l) PROVE p \in dirs'
  BY <1>1, <1>9 DEF WalkStep, Walk, ReadDir, Info
<1>10. CASE UNCHANGED vars
  BY <1>1, <1>10 DEF vars
<1>11. QED
  BY <1>4, <1>5, <1>6, <1>8, <1>9, <1>10 DEF Next, Fault

(* Every empty directory has somebody who will fill or remove it. *)
LEMMA EmptyStep == TreeInv /\ [Next]_vars => EmptyIsHeld'
<1> SUFFICES ASSUME TreeInv, [Next]_vars, faults' = 0, NEW p \in dirs', Empty(p)'
             PROVE  \E a \in Busy : Holds(a, p)'
  BY DEF EmptyIsHeld
<1> USE DEF walks
<1>0. /\ at \in [Busy -> Phases] /\ blob \in [Busy -> Digests \cup {None}]
      /\ level \in [Busy -> Levels] /\ faults \in Nat
      /\ Writers \cap Removers = {} /\ Writers \subseteq Busy /\ Removers \subseteq Busy
      /\ dirs \subseteq Dirs /\ \A q \in Dirs : q # Root
  BY TreeAssumption, DirsAre, DirIn DEF TreeInv, TypeOK, Busy
<1>1. faults = 0
  BY <1>0 DEF Next, WriteStep, Write, Stat, Mkdir, MkdirExists, Look, WriteFails, Rename,
              RemoveStep, Delete, Prune, WalkStep, Walk, ReadDir, Info, Fault, vars
<1>2. Empty(p) /\ p \in dirs => \E a \in Busy : Holds(a, p)
  BY <1>1 DEF TreeInv, EmptyIsHeld
<1>3. ASSUME NEW c, Empty(p) /\ p \in dirs, ~Holds(c, p),
             \A a \in Busy \ {c} : at'[a] = at[a] /\ blob'[a] = blob[a] /\ level'[a] = level[a]
      PROVE  \E a \in Busy : Holds(a, p)'
  BY <1>2, <1>3, StillHolds
<1>4. ASSUME NEW c \in Busy, Return(c)
      PROVE  \A a \in Busy \ {c} : at'[a] = at[a] /\ blob'[a] = blob[a] /\ level'[a] = level[a]
  BY <1>0, <1>4 DEF Return
<1>5. ASSUME UNCHANGED <<dirs, blobs>> PROVE Empty(p) /\ p \in dirs
  BY <1>5 DEF Empty
<1>6. ASSUME NEW w \in Writers, NEW d \in Digests, Write(w, d)
      PROVE  \E a \in Busy : Holds(a, p)'
  BY <1>0, <1>3, <1>5, <1>6 DEF Write, Holds
<1>7. ASSUME NEW w \in Writers, Stat(w) PROVE \E a \in Busy : Holds(a, p)'
  BY <1>0, <1>3, <1>5, <1>7 DEF Stat, Descend, Goto, Holds
<1>8. ASSUME NEW w \in Writers, Mkdir(w) PROVE \E a \in Busy : Holds(a, p)'
  <2>1. \A q : Holds(w, q)' <=> q = Here(w)
    BY <1>8, DescendHolds DEF Mkdir
  <2>2. CASE p = Here(w)
    BY <1>0, <2>1, <2>2
  <2>3. CASE p # Here(w)
    <3>1. Empty(p) /\ p \in dirs
      BY <1>8, <2>3 DEF Mkdir, Empty
    <3>2. ~Holds(w, p)
      BY <1>8 DEF Mkdir, Empty, Holds
    <3>3. QED
      BY <1>0, <1>3, <1>8, <3>1, <3>2 DEF Mkdir, Descend, Goto
  <2>4. QED
    BY <2>2, <2>3
<1>9. ASSUME NEW w \in Writers, MkdirExists(w) PROVE \E a \in Busy : Holds(a, p)'
  <2>1. Here(w) \in dirs
    BY <1>0, <1>9, HereFacts DEF MkdirExists, Exists, Working
  <2>2. Empty(p) /\ p \in dirs /\ ~Holds(w, p)
    BY <1>5, <1>9, <2>1 DEF MkdirExists, Holds, Empty
  <2>3. QED
    BY <1>0, <1>3, <1>9, <2>2 DEF MkdirExists, Goto
<1>10. ASSUME NEW w \in Writers, Look(w) PROVE \E a \in Busy : Holds(a, p)'
  <2>1. Empty(p) /\ p \in dirs
    BY <1>5, <1>10 DEF Look
  <2>2. CASE p = Here(w)
    BY <1>0, <1>10, <2>2, DescendHolds DEF Look
  <2>3. CASE p # Here(w)
    <3>1. ~Holds(w, p)
      BY <1>10, <2>3 DEF Look, Holds
    <3>2. QED
      BY <1>0, <1>3, <1>10, <2>1, <3>1 DEF Look, Descend, Goto
  <2>4. QED
    BY <2>2, <2>3
<1>11. ASSUME NEW w \in Writers, WriteFails(w) PROVE \E a \in Busy : Holds(a, p)'
  <2>1. Empty(p) /\ p \in dirs /\ ~Holds(w, p)
    BY <1>5, <1>11 DEF WriteFails, Holds, Exists
  <2>2. QED
    BY <1>0, <1>3, <1>4, <1>11, <2>1 DEF WriteFails
<1>12. ASSUME NEW w \in Writers, Rename(w) PROVE \E a \in Busy : Holds(a, p)'
  <2>1. Here(w) = Path[blob[w]] /\ blob[w] \in Digests
    BY <1>0, <1>12, HereFacts DEF Rename, Working
  <2>2. Empty(p) /\ p \in dirs /\ ~Holds(w, p)
    BY <1>12, <2>1 DEF Rename, Holds, Empty
  <2>3. QED
    BY <1>0, <1>3, <1>4, <1>12, <2>2 DEF Rename
<1>13. ASSUME NEW r \in Removers, NEW d \in Digests, Delete(r, d)
       PROVE  \E a \in Busy : Holds(a, p)'
  <2>1. CASE Empty(p)
    BY <1>0, <1>3, <1>13, <2>1 DEF Delete, Holds
  <2>2. CASE ~Empty(p)
    <3>1. p = Path[d]
      BY <1>13, <2>2 DEF Delete, Empty
    <3>2. at'[r] = "prune" /\ Here(r)' = Dir(d, Depth(d))
      BY <1>0, <1>13 DEF Delete, Here, Dir
    <3>3. QED
      BY <1>0, <3>1, <3>2, DirWhole DEF Holds
  <2>3. QED
    BY <2>1, <2>2
<1>14. ASSUME NEW r \in Removers, Prune(r) PROVE \E a \in Busy : Holds(a, p)'
  <2>1. /\ at[r] = "prune" /\ level[r] \in Nat
        /\ level[r] = 0 => Here(r) = Root
        /\ level[r] > 0 => Above(Here(r)) = Dir(blob[r], level[r] - 1)
    BY <1>0, <1>14, HereFacts DEF Prune
  <2>2. CASE level[r] > 0 /\ Here(r) \in dirs /\ Empty(Here(r))
    <3>1. /\ dirs' = dirs \ {Here(r)} /\ blobs' = blobs /\ Goto(r, "prune", level[r] - 1)
      BY <1>14, <2>2 DEF Prune
    <3>2. CASE Empty(p)
      <4>1. ~Holds(r, p)
        BY <2>1, <3>1 DEF Holds
      <4>2. QED
        BY <1>0, <1>3, <3>1, <3>2, <4>1 DEF Goto
    <3>3. CASE ~Empty(p)
      <4>1. p = Above(Here(r))
        BY <3>1, <3>3 DEF Empty
      <4>2. at'[r] = "prune" /\ Here(r)' = Dir(blob[r], level[r] - 1)
        BY <1>0, <3>1 DEF Goto, Here, Dir
      <4>3. QED
        BY <1>0, <2>1, <2>2, <4>1, <4>2 DEF Holds
    <3>4. QED
      BY <3>2, <3>3
  <2>3. CASE ~(level[r] > 0 /\ Here(r) \in dirs /\ Empty(Here(r)))
    <3>1. Return(r) /\ dirs' = dirs /\ blobs' = blobs
      BY <1>14, <2>3 DEF Prune
    <3>2. Empty(p) /\ p \in dirs
      BY <1>5, <3>1
    <3>3. ~Holds(r, p)
      BY <1>0, <2>1, <2>3, <3>2 DEF Holds
    <3>4. QED
      BY <1>0, <1>3, <1>4, <3>1, <3>2, <3>3
  <2>4. QED
    BY <2>2, <2>3
<1>15. ASSUME UNCHANGED <<dirs, blobs, at, blob, level>> PROVE \E a \in Busy : Holds(a, p)'
  BY <1>2, <1>5, <1>15, StillHolds
<1>16. ASSUME NEW l \in Walkers, WalkStep(l) PROVE \E a \in Busy : Holds(a, p)'
  BY <1>15, <1>16 DEF WalkStep, Walk, ReadDir, Info
<1>17. ASSUME NEW a \in Busy, Fault(a) PROVE FALSE
  BY <1>0, <1>17 DEF Fault
<1>18. QED
  BY <1>6, <1>7, <1>8, <1>9, <1>10, <1>11, <1>12, <1>13, <1>14, <1>15, <1>16, <1>17
     DEF Next, WriteStep, RemoveStep, vars

(* No step takes a blob that stays off the way into a listing. *)
LEMMA MissedStep == TreeInv /\ [Next]_vars => NoneMissed'
<1> SUFFICES ASSUME TreeInv, [Next]_vars, NEW l \in Walkers, NEW d \in steady'[l]
             PROVE  d \in blobs' /\ OnItsWay(l, d)'
  BY DEF NoneMissed
<1>0. /\ todo \in [Walkers -> SUBSET (Dirs \cup {Root})] /\ files \in [Walkers -> SUBSET Digests]
      /\ found \in [Walkers -> SUBSET Digests] /\ steady \in [Walkers -> SUBSET Digests]
      /\ blobs \subseteq Digests /\ Rooted
      /\ d \in steady[l] => d \in blobs /\ OnItsWay(l, d)
  BY DEF TreeInv, TypeOK, NoneMissed
<1>1. ASSUME UNCHANGED <<todo, files, found>>, d \in steady[l], d \in blobs => d \in blobs'
      PROVE  d \in blobs' /\ OnItsWay(l, d)'
  BY <1>0, <1>1 DEF OnItsWay, Dir, Depth
<1>2. ASSUME NEW w \in Writers, WriteStep(w) PROVE d \in blobs' /\ OnItsWay(l, d)'
  BY <1>1, <1>2
     DEF WriteStep, Write, Stat, Mkdir, MkdirExists, Look, WriteFails, Rename, walks
<1>3. ASSUME NEW r \in Removers, RemoveStep(r) PROVE d \in blobs' /\ OnItsWay(l, d)'
  BY <1>0, <1>1, <1>3 DEF RemoveStep, Delete, Prune, walks
<1>4. ASSUME NEW m \in Walkers, Walk(m) PROVE d \in blobs' /\ OnItsWay(l, d)'
  <2>1. CASE l = m
    <3>1. d \in Digests /\ d \in blobs' /\ Root \in todo'[l]
      BY <1>0, <1>4, <2>1 DEF Walk
    <3>2. 0 \in 0 .. Depth(d) /\ Dir(d, 0) = Root
      BY <3>1, DirWhole, DirFacts, TreeAssumption DEF Depth
    <3>3. QED
      BY <3>1, <3>2 DEF OnItsWay, Dir, Depth
  <2>2. CASE l # m
    BY <1>0, <1>4, <2>2 DEF Walk, OnItsWay, Dir, Depth
  <2>3. QED
    BY <2>1, <2>2
<1>5. ASSUME NEW m \in Walkers, NEW p \in todo[m], ReadDir(m, p)
      PROVE  d \in blobs' /\ OnItsWay(l, d)'
  <2>1. d \in steady[l] /\ d \in blobs /\ d \in blobs' /\ d \in Digests /\ OnItsWay(l, d)
    BY <1>0, <1>5 DEF ReadDir
  <2>2. CASE l # m
    BY <1>0, <1>5, <2>1, <2>2 DEF ReadDir, OnItsWay, Dir, Depth
  <2>3. CASE l = m
    <3>1. /\ todo'[l] = (todo[l] \ {p}) \cup {q \in dirs : Above(q) = p}
          /\ files'[l] = files[l] \cup {e \in blobs : Path[e] = p} /\ found' = found
      BY <1>0, <1>5, <2>3 DEF ReadDir
    <3>2. CASE d \in found[l] \cup files[l]
      <4>1. d \in found'[l] \cup files'[l]
        BY <3>1, <3>2
      <4>2. QED
        BY <2>1, <4>1 DEF OnItsWay
    <3>3. ASSUME NEW k \in 0 .. Depth(d), Dir(d, k) \in todo'[l] PROVE OnItsWay(l, d)'
      BY <3>3 DEF OnItsWay, Dir, Depth
    <3>4. ASSUME NEW k \in 0 .. Depth(d), Dir(d, k) \in todo[l] PROVE OnItsWay(l, d)'
      <4>1. CASE Dir(d, k) # p
        BY <3>1, <3>3, <3>4, <4>1
      <4>2. CASE Dir(d, k) = p /\ k = Depth(d)
        <5>1. d \in files'[l]
          BY <2>1, <3>1, <4>2, DirWhole
        <5>2. QED
          BY <5>1 DEF OnItsWay
      <4>3. CASE Dir(d, k) = p /\ k # Depth(d)
        <5>1. /\ Depth(d) \in Nat /\ k + 1 \in 1 .. Depth(d) /\ k + 1 \in 0 .. Depth(d)
              /\ (k + 1) - 1 = k /\ Path[d] = Dir(d, Depth(d)) /\ Len(Path[d]) = Depth(d)
          BY <2>1, <4>3, DirFacts, DirWhole, TreeAssumption DEF Depth
        <5>2. Dir(d, k + 1) \in dirs
          BY <1>0, <2>1, <5>1 DEF Rooted, Dir
        <5>3. Above(Dir(d, k + 1)) = p
          BY <2>1, <4>3, <5>1, DirAbove
        <5>4. Dir(d, k + 1) \in todo'[l]
          BY <3>1, <5>2, <5>3
        <5>5. QED
          BY <3>3, <5>1, <5>4
      <4>4. QED
        BY <4>1, <4>2, <4>3
    <3>5. QED
      BY <2>1, <3>2, <3>4 DEF OnItsWay
  <2>4. QED
    BY <2>2, <2>3
<1>6. ASSUME NEW m \in Walkers, NEW e \in files[m], Info(m, e)
      PROVE  d \in blobs' /\ OnItsWay(l, d)'
  <2>1. d \in steady[l] /\ d \in blobs /\ d \in blobs' /\ OnItsWay(l, d) /\ todo' = todo
    BY <1>0, <1>6 DEF Info
  <2>2. d \in found[l] \cup files[l] => d \in found'[l] \cup files'[l]
    BY <1>0, <1>6, <2>1 DEF Info
  <2>3. QED
    BY <2>1, <2>2 DEF OnItsWay, Dir, Depth
<1>7. ASSUME NEW a \in Busy, Fault(a) PROVE d \in blobs' /\ OnItsWay(l, d)'
  BY <1>1, <1>7 DEF Fault, walks
<1>8. CASE UNCHANGED vars
  BY <1>1, <1>8 DEF vars
<1>9. QED
  BY <1>2, <1>3, <1>4, <1>5, <1>6, <1>7, <1>8 DEF Next, WalkStep

-----------------------------------------------------------------------------
(* Working(a) for whoever works, EmptyIsHeld and the other parts hold in   *)
(* every state: a file has its directories, an empty directory has         *)
(* somebody who will fill or remove it (storage.go:281-299), what a writer *)
(* has seen is there unless it was pruned, and a listing misses nothing.   *)
THEOREM TreeInvariant == Spec => []TreeInv
<1>1. Init => TreeInv
  <2> SUFFICES ASSUME Init PROVE TreeInv
    OBVIOUS
  <2>1. TypeOK
    BY TreeAssumption DEF Init, TypeOK, Phases, Levels
  <2>2. QED
    BY <2>1 DEF Init, TreeInv, Rooted, EmptyIsHeld, HeldIsThere, NoneMissed, Holds, Busy
<1>2. TreeInv /\ [Next]_vars => TreeInv'
  BY TypeStep, WorkStep, RootedStep, EmptyStep, HeldStep, MissedStep DEF TreeInv
<1>3. QED
  BY <1>1, <1>2, PTL DEF Spec

(* Removing a blob destroys no other (storage.go:272-274). *)
THEOREM OthersSafe == Spec => OthersUntouched
<1>1. TreeInv /\ [Next]_vars =>
        [\A d \in Digests : d \in blobs /\ d \notin blobs' =>
           \E r \in Removers : at[r] = "idle" /\ blob'[r] = d]_vars
  <2> SUFFICES ASSUME TreeInv, Next, NEW d \in Digests, d \in blobs, d \notin blobs'
               PROVE  \E r \in Removers : at[r] = "idle" /\ blob'[r] = d
    OBVIOUS
  <2>1. blob \in [Busy -> Digests \cup {None}]
    BY DEF TreeInv, TypeOK
  <2>2. \E r \in Removers : Delete(r, d)
    BY DEF Next, WriteStep, Write, Stat, Mkdir, MkdirExists, Look, WriteFails, Rename,
           RemoveStep, Delete, Prune, WalkStep, Walk, ReadDir, Info, Fault
  <2>3. QED
    BY <2>1, <2>2 DEF Delete, Busy
<1>2. QED
  BY <1>1, TreeInvariant, PTL DEF Spec, OthersUntouched

(* When all have returned, and none was killed, no directory is empty      *)
(* (storage.go:271, 281-283).                                                 *)
THEOREM LeavesTidy == Spec => []Tidy
<1>1. TreeInv => Tidy
  BY DEF TreeInv, EmptyIsHeld, Tidy, Holds
<1>2. QED
  BY <1>1, TreeInvariant, PTL

(* A listing has every blob that was there throughout (repair.go:437).     *)
THEOREM ListsAll == Spec => []ListingComplete
<1>1. TreeInv => ListingComplete
  BY DEF TreeInv, NoneMissed, OnItsWay, ListingComplete, Listed
<1>2. QED
  BY <1>1, TreeInvariant, PTL

(* A write fails only because its path was pruned (storage.go:151, 294).   *)
THEOREM FailsIfPruned == Spec => FailsOnlyPruned
<1>1. TreeInv /\ [Next]_vars =>
        [\A w \in Writers :
           at[w] \notin {"idle"} /\ at'[w] = "idle" /\ faults' = faults =>
             blob[w] \in blobs' \/ w \in pruned]_vars
  <2> SUFFICES ASSUME TreeInv, Next, NEW w \in Writers, at[w] # "idle", at'[w] = "idle",
                      faults' = faults, w \notin pruned
               PROVE  blob[w] \in blobs'
    OBVIOUS
  <2>0. /\ at \in [Busy -> Phases] /\ faults \in Nat /\ w \in Busy
        /\ Writers \cap Removers = {} /\ HeldIsThere
    BY TreeAssumption DEF TreeInv, TypeOK, Busy
  <2>1. WriteFails(w) \/ Rename(w)
    <3>1. ASSUME NEW v \in Writers, WriteStep(v) PROVE WriteFails(w) \/ Rename(w)
      BY <2>0, <3>1 DEF WriteStep, Write, Stat, Mkdir, MkdirExists, Look, WriteFails, Rename,
                        Descend, Goto, Return
    <3>2. ASSUME NEW r \in Removers, RemoveStep(r) PROVE FALSE
      BY <2>0, <3>2 DEF RemoveStep, Delete, Prune, Goto, Return
    <3>3. ASSUME NEW l \in Walkers, WalkStep(l) PROVE FALSE
      BY <3>3 DEF WalkStep, Walk, ReadDir, Info
    <3>4. ASSUME NEW a \in Busy, Fault(a) PROVE FALSE
      BY <2>0, <3>4 DEF Fault
    <3>5. QED
      BY <3>1, <3>2, <3>3, <3>4 DEF Next
  <2>2. CASE Rename(w)
    BY <2>2 DEF Rename
  <2>3. CASE WriteFails(w)
    <3>1. /\ level[w] > 0 /\ level[w] \in 1 .. Depth(blob[w]) /\ blob[w] \in Digests
          /\ Depth(blob[w]) \in Nat
          /\ Here(w) \in Dirs /\ Above(Here(w)) = Dir(blob[w], level[w] - 1)
      BY <2>0, <2>3, HereFacts, DirFacts DEF WriteFails, Working
    <3>2. Above(Here(w)) \in Dirs \cup {Root}
      <4>1. CASE level[w] = 1
        BY <3>1, <4>1, DirWhole
      <4>2. CASE level[w] # 1
        <5>1. level[w] - 1 \in 1 .. Depth(blob[w])
          BY <3>1, <4>2
        <5>2. QED
          BY <3>1, <5>1, DirIn
      <4>3. QED
        BY <4>1, <4>2
    <3>3. FALSE
      BY <2>0, <2>3, <3>1, <3>2 DEF WriteFails, HeldIsThere, Holds, Exists
    <3>4. QED
      BY <3>3
  <2>4. QED
    BY <2>1, <2>2, <2>3
<1>2. QED
  BY <1>1, TreeInvariant, PTL DEF Spec, FailsOnlyPruned
=============================================================================
