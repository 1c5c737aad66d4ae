---------------------------- MODULE ArchiveProofs ----------------------------
(***************************************************************************)
(* Theorems about Archive, for any ids, processes, threads and bounds: as  *)
(* long as no process dies while its staged copy is empty, what has been   *)
(* added at rest survives, what has been removed stays gone, and for       *)
(* callers that take turns the archive is a set.                           *)
(*                                                                         *)
(* The first part is about sequences.  The library's induction takes an    *)
(* operator, which the provers cannot supply; induction over a set of      *)
(* numbers follows from the well-foundedness of < and is all that is used. *)
(***************************************************************************)
EXTENDS Archive, TLAPS, WellFoundedInduction, FiniteSetTheorems, SequenceTheorems

LEMMA LeastElement ==
    ASSUME NEW T \in SUBSET Nat, T # {}
    PROVE  \E x \in T : \A y \in T : x <= y
<1>1. \E R : IsWellFoundedOn(R, Nat) /\ \A x, y \in Nat : <<x, y>> \in R <=> x < y
  <2>1. PICK R \in {OpToRel(<, Nat)} : IsWellFoundedOn(R, Nat)
    BY NatLessThanWellFounded, Zenon
  <2>2. \A x, y \in Nat : <<x, y>> \in R <=> x < y
    BY <2>1 DEF OpToRel
  <2>3. QED
    BY <2>1, <2>2
<1>2. PICK R : IsWellFoundedOn(R, Nat) /\ \A x, y \in Nat : <<x, y>> \in R <=> x < y
  BY <1>1
<1>3. T \subseteq Nat /\ T # {} /\ IsWellFoundedOn(R, Nat)
  BY <1>2
<1>4. PICK x \in T : \A y \in T : ~(<<y, x>> \in R)
  BY <1>3, WFMin
<1>5. \A y \in T : y \in Nat /\ x \in Nat /\ ~(y < x)
  BY <1>2, <1>4
<1>6. QED
  BY <1>4, <1>5

LEMMA InductionUpTo ==
    ASSUME NEW n \in Nat, NEW T, 0 \in T, \A m \in 0..(n - 1) : m \in T => m + 1 \in T
    PROVE  0..n \subseteq T
<1> SUFFICES ASSUME NEW k \in 0..n, k \notin T PROVE FALSE
  OBVIOUS
<1>0. (0..n) \ T \in SUBSET Nat
  OBVIOUS
<1>1. PICK U \in SUBSET Nat : U = (0..n) \ T
  BY <1>0
<1>2. PICK x \in U : \A y \in U : x <= y
  BY <1>1, LeastElement
<1>3. x # 0 /\ x - 1 \in 0..(n - 1)
  BY <1>1
<1>4. x - 1 \in T
  BY <1>1, <1>2, <1>3
<1>5. QED
  BY <1>1, <1>3, <1>4

-----------------------------------------------------------------------------
(* What the loop over the lines keeps.                                     *)

\* f is what the loop has kept after each of the first n lines.
Loop(f, lines, v, n) ==
    f = [i \in 0..n |->
            IF i = 0 THEN <<>>
            ELSE IF lines[i] = v THEN f[i - 1] ELSE Append(f[i - 1], lines[i])]

LEMMA LoopExists ==
    ASSUME NEW S, NEW s \in Seq(S), NEW v
    PROVE  \E f : Loop(f, s, v, Len(s))
<1> DEFINE T == {n \in 0..Len(s) : \E f : Loop(f, s, v, n)}
<1>0. Len(s) \in Nat
  OBVIOUS
<1>1. 0 \in T
  <2>1. Loop([i \in 0..0 |-> <<>>], s, v, 0)
    BY DEF Loop
  <2>2. QED
    BY <1>0, <2>1
<1>2. ASSUME NEW m \in 0..(Len(s) - 1), m \in T PROVE m + 1 \in T
  <2>1. PICK f : Loop(f, s, v, m)
    BY <1>2
  <2>2. PICK g : g = [i \in 0..(m + 1) |->
                        IF i <= m THEN f[i]
                        ELSE IF s[i] = v THEN f[i - 1] ELSE Append(f[i - 1], s[i])]
    OBVIOUS
  <2>3. \A i \in 0..m : g[i] = f[i]
    BY <2>2
  <2>4. \A i \in 0..m : f[i] = IF i = 0 THEN <<>>
                               ELSE IF s[i] = v THEN f[i - 1] ELSE Append(f[i - 1], s[i])
    BY <2>1 DEF Loop
  <2>5. \A i \in 0..(m + 1) :
           g[i] = IF i = 0 THEN <<>>
                  ELSE IF s[i] = v THEN g[i - 1] ELSE Append(g[i - 1], s[i])
    BY <2>2, <2>3, <2>4
  <2>6. Loop(g, s, v, m + 1)
    BY <2>2, <2>5 DEF Loop
  <2>7. QED
    BY <1>0, <2>6
<1> HIDE DEF T
<1>3. 0..Len(s) \subseteq T
  BY <1>0, <1>1, <1>2, InductionUpTo
<1>4. QED
  BY <1>0, <1>3 DEF T

LEMMA WithoutIsLoop ==
    ASSUME NEW S, NEW s \in Seq(S), NEW v
    PROVE  \E f : Loop(f, s, v, Len(s)) /\ Without(s, v) = f[Len(s)]
<1>1. \E f : Loop(f, s, v, Len(s))
  BY LoopExists
<1>2. QED
  BY <1>1 DEF Without, Loop

LEMMA AppendAddsOne ==
    ASSUME NEW S, NEW s \in Seq(S), NEW e \in S
    PROVE  Append(s, e) \in Seq(S) /\ ToSet(Append(s, e)) = ToSet(s) \cup {e}
<1>1. DOMAIN s = 1..Len(s) /\ DOMAIN Append(s, e) = 1..(Len(s) + 1) /\ Len(s) \in Nat
  OBVIOUS
<1>2. \A i \in 1..(Len(s) + 1) : Append(s, e)[i] = IF i \in 1..Len(s) THEN s[i] ELSE e
  BY <1>1
<1>3. Len(s) + 1 \in DOMAIN Append(s, e) /\ Append(s, e)[Len(s) + 1] = e
  BY <1>1, <1>2
<1>4. QED
  BY <1>1, <1>2, <1>3 DEF ToSet

\* The loop keeps every line but those of v.
LEMMA WithoutKeepsOthers ==
    ASSUME NEW S, NEW s \in Seq(S), NEW v
    PROVE  Without(s, v) \in Seq(S) /\ ToSet(Without(s, v)) = ToSet(s) \ {v}
<1>0. Len(s) \in Nat
  OBVIOUS
<1>1. PICK f : Loop(f, s, v, Len(s)) /\ Without(s, v) = f[Len(s)]
  BY WithoutIsLoop
<1> DEFINE Before(n) == {s[i] : i \in 1..n}
           T == {n \in 0..Len(s) : f[n] \in Seq(S) /\ ToSet(f[n]) = Before(n) \ {v}}
<1>2. \A i \in 0..Len(s) :
         f[i] = IF i = 0 THEN <<>>
                ELSE IF s[i] = v THEN f[i - 1] ELSE Append(f[i - 1], s[i])
  BY <1>1 DEF Loop
<1>3. 0 \in T
  <2>1. f[0] = <<>>
    BY <1>0, <1>2
  <2>2. f[0] \in Seq(S) /\ ToSet(f[0]) = {} /\ Before(0) = {}
    BY <2>1 DEF ToSet
  <2>3. QED
    BY <1>0, <2>2
<1>4. ASSUME NEW m \in 0..(Len(s) - 1), m \in T PROVE m + 1 \in T
  <2>1. f[m] \in Seq(S) /\ ToSet(f[m]) = Before(m) \ {v} /\ s[m + 1] \in S
    BY <1>4
  <2>2. f[m + 1] = IF s[m + 1] = v THEN f[m] ELSE Append(f[m], s[m + 1])
    BY <1>0, <1>2
  <2>3. Before(m + 1) = Before(m) \cup {s[m + 1]}
    BY <1>0
  <2> HIDE DEF Before
  <2>4. Append(f[m], s[m + 1]) \in Seq(S)
        /\ ToSet(Append(f[m], s[m + 1])) = ToSet(f[m]) \cup {s[m + 1]}
    BY <2>1, AppendAddsOne
  <2>5. f[m + 1] \in Seq(S) /\ ToSet(f[m + 1]) = Before(m + 1) \ {v}
    BY <2>1, <2>2, <2>3, <2>4
  <2>6. QED
    BY <1>0, <2>5
<1>5. Before(Len(s)) = ToSet(s)
  BY DEF ToSet
<1> HIDE DEF T, Before
<1>6. 0..Len(s) \subseteq T
  BY <1>0, <1>3, <1>4, InductionUpTo
<1>7. QED
  BY <1>0, <1>1, <1>5, <1>6 DEF T

\* A write at the start of a file brings all it writes, nothing that was not
\* there before, and nothing else into an empty one.
LEMMA OverwriteBrings ==
    ASSUME NEW S, NEW old \in Seq(S), NEW new \in Seq(S)
    PROVE  /\ Overwrite(old, new) \in Seq(S)
           /\ ToSet(new) \subseteq ToSet(Overwrite(old, new))
           /\ ToSet(Overwrite(old, new)) \subseteq ToSet(new) \cup ToSet(old)
           /\ old = <<>> => Overwrite(old, new) = new
<1>1. Len(old) \in Nat /\ Len(new) \in Nat
  OBVIOUS
<1>2. PICK rest \in {SubSeq(old, Len(new) + 1, Len(old))} : TRUE
  OBVIOUS
<1>3. /\ rest \in Seq(S) /\ ToSet(rest) \subseteq ToSet(old)
      /\ old = <<>> => rest = <<>>
  <2>1. \A i \in (Len(new) + 1)..Len(old) : old[i] \in S
    BY <1>1
  <2>2. rest \in Seq(S)
    <3>1. SubSeq(old, Len(new) + 1, Len(old)) \in Seq(S)
      BY <1>1, <2>1, SubSeqProperties
    <3>2. QED
      BY <1>2, <3>1
  <2>3. ASSUME old = <<>> PROVE rest = <<>>
    <3>1. Len(old) = 0
      BY <2>3
    <3>2. SubSeq(old, Len(new) + 1, Len(old)) = <<>>
      BY <1>1, <3>1, SubSeqEmpty
    <3>3. QED
      BY <1>2, <3>2
  <2>4. ToSet(rest) \subseteq ToSet(old)
    <3>1. /\ Len(rest) = IF Len(new) + 1 <= Len(old) + 1 THEN Len(old) - Len(new) ELSE 0
          /\ \A i \in 1..(Len(old) - Len(new)) : rest[i] = old[Len(new) + i]
      <4>1. /\ Len(SubSeq(old, Len(new) + 1, Len(old))) =
                  IF Len(new) + 1 <= Len(old) + 1 THEN Len(old) - (Len(new) + 1) + 1 ELSE 0
            /\ \A i \in 1..(Len(old) - (Len(new) + 1) + 1) :
                  SubSeq(old, Len(new) + 1, Len(old))[i] = old[Len(new) + 1 + i - 1]
        BY <1>1, <2>1, SubSeqProperties
      <4>2. QED
        BY <1>1, <1>2, <4>1
    <3>2. DOMAIN rest = 1..Len(rest) /\ DOMAIN old = 1..Len(old)
      BY <2>2
    <3>3. \A i \in DOMAIN rest : Len(new) + i \in DOMAIN old /\ rest[i] = old[Len(new) + i]
      <4> SUFFICES ASSUME NEW i \in DOMAIN rest
                   PROVE  Len(new) + i \in DOMAIN old /\ rest[i] = old[Len(new) + i]
        OBVIOUS
      <4>1. i \in Nat /\ 1 <= i /\ i <= Len(rest)
        BY <2>2, <3>2
      <4>2. Len(rest) = Len(old) - Len(new)
        BY <1>1, <3>1, <4>1
      <4>3. i \in 1..(Len(old) - Len(new)) /\ Len(new) + i \in 1..Len(old)
        BY <1>1, <4>1, <4>2
      <4>4. QED
        BY <3>1, <3>2, <4>3
    <3>4. QED
      BY <3>3 DEF ToSet
  <2>5. QED
    BY <2>2, <2>3, <2>4
<1>4. /\ new \o rest \in Seq(S) /\ ToSet(new) \subseteq ToSet(new \o rest)
      /\ ToSet(new \o rest) \subseteq ToSet(new) \cup ToSet(rest)
  <2>1. /\ new \o rest \in Seq(S) /\ Len(rest) \in Nat
        /\ Len(new \o rest) = Len(new) + Len(rest)
        /\ \A i \in 1..Len(new) + Len(rest) :
              (new \o rest)[i] = IF i <= Len(new) THEN new[i] ELSE rest[i - Len(new)]
    BY <1>3, ConcatProperties
  <2>2. DOMAIN new = 1..Len(new) /\ DOMAIN (new \o rest) = 1..(Len(new) + Len(rest))
    BY <2>1
  <2>3. \A i \in DOMAIN new : i \in DOMAIN (new \o rest) /\ (new \o rest)[i] = new[i]
    BY <1>1, <2>1, <2>2
  <2>4. \A i \in DOMAIN (new \o rest) :
           \/ i \in DOMAIN new /\ (new \o rest)[i] = new[i]
           \/ i - Len(new) \in DOMAIN rest /\ (new \o rest)[i] = rest[i - Len(new)]
    BY <1>1, <1>3, <2>1, <2>2
  <2>5. QED
    BY <2>1, <2>3, <2>4 DEF ToSet
<1>5. rest = <<>> => new \o rest = new
  BY <1>1
<1>6. QED
  BY <1>2, <1>3, <1>4, <1>5 DEF Overwrite

-----------------------------------------------------------------------------
(* There is a file nobody uses.                                            *)

LEMMA FreeIsUnused ==
    /\ Free \in Inodes /\ Free # path.archive /\ Free # path.staged
    /\ \A w \in Workers : Free # fd[w]
<1> DEFINE Open == {fd[w] : w \in Workers}
           Used == {path.archive, path.staged} \cup Open
<1>1. IsFiniteSet(Open) /\ Cardinality(Open) <= Cardinality(Workers)
  <2>1. [w \in Workers |-> fd[w]] \in Surjection(Workers, Open)
    BY DEF Surjection
  <2>2. QED
    BY <2>1, FS_Surjection, ArchiveAssumption
<1>2. IsFiniteSet(Used) /\ Cardinality(Used) <= Cardinality(Workers) + 2
  <2> HIDE DEF Open
  <2>1. IsFiniteSet(Open \cup {path.archive})
        /\ Cardinality(Open \cup {path.archive}) <= Cardinality(Workers) + 1
    <3>1. Cardinality(Open) \in Nat /\ Cardinality(Workers) \in Nat
      BY <1>1, FS_CardinalityType, ArchiveAssumption
    <3>2. /\ IsFiniteSet(Open \cup {path.archive})
          /\ Cardinality(Open \cup {path.archive}) \in {Cardinality(Open), Cardinality(Open) + 1}
      BY <1>1, FS_AddElement
    <3>3. QED
      BY <1>1, <3>1, <3>2
  <2>2. IsFiniteSet((Open \cup {path.archive}) \cup {path.staged})
        /\ Cardinality((Open \cup {path.archive}) \cup {path.staged}) <= Cardinality(Workers) + 2
    <3> DEFINE Half == Open \cup {path.archive}
    <3> HIDE DEF Half
    <3>1. IsFiniteSet(Half) /\ Cardinality(Half) \in Nat /\ Cardinality(Workers) \in Nat
          /\ Cardinality(Half) <= Cardinality(Workers) + 1
      BY <2>1, FS_CardinalityType, ArchiveAssumption DEF Half
    <3>2. /\ IsFiniteSet(Half \cup {path.staged})
          /\ Cardinality(Half \cup {path.staged}) \in {Cardinality(Half), Cardinality(Half) + 1}
      BY <3>1, FS_AddElement
    <3>3. QED
      BY <3>1, <3>2 DEF Half
  <2>3. Used = (Open \cup {path.archive}) \cup {path.staged}
    OBVIOUS
  <2>4. QED
    BY <2>2, <2>3
<1>3. \E i \in Inodes : i \notin Used
  <2>1. SUFFICES ASSUME Inodes \subseteq Used PROVE FALSE
    OBVIOUS
  <2> HIDE DEF Used
  <2>2. IsFiniteSet(Inodes) /\ Cardinality(Inodes) <= Cardinality(Used)
    BY <1>2, <2>1, FS_Subset
  <2>3. Cardinality(Inodes) \in Nat /\ Cardinality(Used) \in Nat
        /\ Cardinality(Workers) \in Nat
    BY <1>2, <2>2, FS_CardinalityType, ArchiveAssumption
  <2>4. QED
    BY <1>2, <2>2, <2>3, ArchiveAssumption
<1>4. Free = CHOOSE i \in Inodes : i \notin Used
  BY DEF Free
<1> HIDE DEF Used
<1>5. Free \in Inodes /\ Free \notin Used
  BY <1>3, <1>4
<1>6. QED
  BY <1>5 DEF Used

-----------------------------------------------------------------------------
(* The invariant.  A removal has the archive to itself but for appends,    *)
(* and at each of its steps what has settled is in a file that counts.     *)

Shape ==
    /\ manner \in Manners
    /\ path \in [archive : {0} \cup Inodes, staged : {0} \cup Inodes]
    /\ disk \in [Inodes -> Seq(Ids)]
    /\ pc \in [Workers -> RemovePcs \cup {"idle", "append"}]
    /\ goal \in [Workers -> Ids]
    /\ kept \in [Workers -> Seq(Ids)]
    /\ fd \in [Workers -> {0} \cup Inodes]

\* Who may be where, and what it has open.
OneRemoval == \A v, w \in Workers : pc[v] \in RemovePcs /\ pc[w] \in RemovePcs => v = w

OneCall == manner = "turns" => \A v, w \in Workers : Busy(v) /\ Busy(w) => v = w

Names ==
    /\ path.archive = path.staged => path.archive = 0
    /\ \A w \in Workers :
          /\ pc[w] \in RemovePcs => path.archive # 0
          /\ pc[w] = "stage" => path.staged = 0
          /\ pc[w] \in RemovePcs \ {"stage"} => path.staged # 0

Opened ==
    \A w \in Workers :
        /\ pc[w] = "append" => fd[w] # 0 /\ fd[w] # path.staged
        /\ pc[w] = "append" /\ manner = "turns" => fd[w] = path.archive /\ path.staged = 0
        /\ pc[w] = "staging" => fd[w] = path.staged
        /\ pc[w] = "rewriting" => fd[w] = path.archive

\* Where the settled ids are, ...
Held ==
    /\ ~Removing => settled \subseteq ToSet(Lines(IF path.staged # 0 THEN path.staged ELSE path.archive))
    /\ \A w \in Workers :
          /\ pc[w] \in {"stage", "staging", "open", "rewriting"} => settled \subseteq ToSet(kept[w])
          /\ pc[w] \in {"stage", "staging", "unlink"} => settled \subseteq ToSet(disk[path.archive])
          /\ pc[w] \in {"open", "rewriting", "unlink"} => settled \subseteq ToSet(disk[path.staged])

\* ... and, when callers take turns, what exactly is in the files.
Exact ==
    manner = "turns" =>
        \A w \in Workers :
            /\ pc[w] \in {"stage", "staging"} =>
                  ToSet(kept[w]) = ToSet(disk[path.archive]) \ {goal[w]}
            /\ pc[w] = "staging" => disk[path.staged] = <<>>
            /\ pc[w] \in {"open", "rewriting", "unlink"} =>
                  ToSet(disk[path.staged]) = ToSet(kept[w])
            /\ pc[w] = "rewriting" => disk[path.archive] = <<>>
            /\ pc[w] = "unlink" => ToSet(disk[path.archive]) = ToSet(kept[w])

ArchiveInv ==
    /\ Shape
    /\ manner # "any" => OneRemoval /\ OneCall /\ Names /\ Opened /\ Held /\ Exact

LEMMA ArchiveInvInitially == Init => ArchiveInv
<1> SUFFICES ASSUME Init PROVE ArchiveInv
  OBVIOUS
<1>1. (CHOOSE v \in Ids : TRUE) \in Ids
  BY ArchiveAssumption
<1>2. Shape
  BY <1>1 DEF Init, Shape, RemovePcs
<1>3. OneRemoval /\ OneCall /\ Names /\ Opened
  BY DEF Init, OneRemoval, OneCall, Names, Opened, RemovePcs, Busy
<1>4. Held /\ Exact
  BY DEF Init, Held, Exact, RemovePcs
<1>5. QED
  BY <1>2, <1>3, <1>4 DEF ArchiveInv

LEMMA AddOpenKeeps ==
    ASSUME ArchiveInv, NEW w \in Workers, NEW v \in Ids, AddOpen(w, v)
    PROVE  ArchiveInv'
<1> DEFINE i == IF path.archive = 0 THEN Free ELSE path.archive
<1>1. /\ i \in Inodes /\ i # 0 /\ Shape /\ pc[w] = "idle"
      /\ path.archive = 0 => i # path.staged /\ \A u \in Workers : fd[u] # i
      /\ path.archive # 0 => i = path.archive
  <2>1. Shape /\ pc[w] = "idle" /\ path.archive \in {0} \cup Inodes
    BY DEF AddOpen, ArchiveInv, Shape, Busy
  <2>2. CASE path.archive = 0
    BY <2>1, <2>2, FreeIsUnused, ArchiveAssumption
  <2>3. CASE path.archive # 0
    BY <2>1, <2>3
  <2>4. QED
    BY <2>2, <2>3
<1>2. /\ path' = [path EXCEPT !.archive = i]
      /\ disk' = IF path.archive = 0 THEN [disk EXCEPT ![i] = <<>>] ELSE disk
      /\ fd' = [fd EXCEPT ![w] = i] /\ goal' = [goal EXCEPT ![w] = v]
      /\ pc' = [pc EXCEPT ![w] = "append"] /\ kept' = kept /\ settled' = settled
      /\ manner' = manner
  BY DEF AddOpen, Goto, history
<1> HIDE DEF i
<1>3. /\ path'.archive = i /\ path'.staged = path.staged
      /\ \A u \in Workers : /\ pc'[u] = IF u = w THEN "append" ELSE pc[u]
                            /\ fd'[u] = IF u = w THEN i ELSE fd[u]
      /\ \A j \in Inodes : j # i \/ path.archive # 0 => disk'[j] = disk[j]
  BY <1>1, <1>2 DEF Shape
<1>4. Shape'
  <2>1. path' \in [archive : {0} \cup Inodes, staged : {0} \cup Inodes]
    BY <1>1, <1>2 DEF Shape
  <2>2. disk' \in [Inodes -> Seq(Ids)]
    BY <1>1, <1>2 DEF Shape
  <2>3. pc' \in [Workers -> RemovePcs \cup {"idle", "append"}]
    BY <1>1, <1>2 DEF Shape
  <2>4. goal' \in [Workers -> Ids] /\ kept' \in [Workers -> Seq(Ids)]
        /\ fd' \in [Workers -> {0} \cup Inodes]
    BY <1>1, <1>2 DEF Shape
  <2>5. QED
    BY <1>1, <1>2, <2>1, <2>2, <2>3, <2>4 DEF Shape
<1>5. ASSUME manner # "any"
      PROVE  (OneRemoval /\ OneCall /\ Names /\ Opened /\ Held /\ Exact)'
  <2>0. /\ OneRemoval /\ OneCall /\ Names /\ Opened /\ Held /\ Exact
        /\ i # path.staged
    BY <1>1, <1>5 DEF ArchiveInv, Names
  <2>1. manner = "turns" => path.staged = 0 /\ \A u \in Workers : pc[u] = "idle"
    BY <1>5 DEF AddOpen, MayAdd, Leftover, Removing, Busy, RemovePcs
  <2>2. OneRemoval' /\ OneCall'
    BY <1>2, <1>3, <2>0, <2>1 DEF OneRemoval, OneCall, Busy, RemovePcs
  <2>3. Names'
    BY <1>1, <1>3, <2>0 DEF Names, RemovePcs
  <2>4. Opened'
    <3>1. \A u \in Workers : u # w =>
             /\ pc'[u] = pc[u] /\ fd'[u] = fd[u]
             /\ pc[u] = "rewriting" => path'.archive = path.archive
      BY <1>1, <1>3, <2>0 DEF Names, RemovePcs
    <3>2. \A u \in Workers : u # w => pc[u] # "append" \/ manner # "turns"
      BY <2>1
    <3>3. QED
      BY <1>1, <1>2, <1>3, <2>0, <2>1, <3>1, <3>2 DEF Opened
  <2>5. Held'
    <3>1. \A u \in Workers : pc'[u] \in RemovePcs <=> pc[u] \in RemovePcs
      BY <1>1, <1>3 DEF RemovePcs
    <3>2. \A u \in Workers : pc[u] \in RemovePcs =>
             /\ u # w /\ pc'[u] = pc[u] /\ path'.archive = path.archive
             /\ disk' = disk
      BY <1>1, <1>2, <1>3, <2>0 DEF Names, RemovePcs
    <3>3. \A u \in Workers :
             /\ pc'[u] \in {"stage", "staging", "open", "rewriting"} => settled' \subseteq ToSet(kept'[u])
             /\ pc'[u] \in {"stage", "staging", "unlink"} => settled' \subseteq ToSet(disk'[path'.archive])
             /\ pc'[u] \in {"open", "rewriting", "unlink"} => settled' \subseteq ToSet(disk'[path'.staged])
      BY <1>2, <1>3, <2>0, <3>1, <3>2 DEF Held, RemovePcs
    <3>4. ASSUME ~Removing
          PROVE  (settled \subseteq ToSet(Lines(IF path.staged # 0 THEN path.staged ELSE path.archive)))'
      <4>1. settled \subseteq ToSet(Lines(IF path.staged # 0 THEN path.staged ELSE path.archive))
        BY <2>0, <3>4 DEF Held
      <4>2. CASE path.staged # 0
        <5>1. path.staged \in Inodes /\ disk'[path.staged] = disk[path.staged]
          BY <1>1, <1>3, <2>0, <4>2 DEF Shape
        <5>2. QED
          BY <1>2, <1>3, <4>1, <4>2, <5>1 DEF Lines
      <4>3. CASE path.staged = 0 /\ path.archive # 0
        BY <1>1, <1>2, <1>3, <4>1, <4>3 DEF Lines
      <4>4. CASE path.staged = 0 /\ path.archive = 0
        <5>1. settled' = {}
          BY <1>2, <4>1, <4>4 DEF Lines, ToSet
        <5>2. QED
          BY <5>1
      <4>5. QED
        BY <4>2, <4>3, <4>4
    <3>5. QED
      BY <1>2, <1>3, <3>1, <3>3, <3>4 DEF Held, Removing
  <2>6. Exact'
    BY <1>2, <1>3, <2>1 DEF Exact
  <2>7. QED
    BY <2>2, <2>3, <2>4, <2>5, <2>6
<1>6. QED
  BY <1>2, <1>4, <1>5 DEF ArchiveInv

LEMMA AddWriteKeeps ==
    ASSUME ArchiveInv, NEW w \in Workers, AddWrite(w)
    PROVE  ArchiveInv'
<1>1. Shape /\ pc[w] = "append"
  BY DEF AddWrite, ArchiveInv
<1>2. /\ path' = path /\ manner' = manner /\ goal' = goal
      /\ disk' = [disk EXCEPT ![fd[w]] = Append(@, goal[w])]
      /\ fd' = [fd EXCEPT ![w] = 0] /\ kept' = [kept EXCEPT ![w] = <<>>]
      /\ pc' = [pc EXCEPT ![w] = "idle"]
      /\ settled' = IF ~Removing /\ path.staged = 0 /\ fd[w] = path.archive
                    THEN settled \cup {goal[w]} ELSE settled
  BY DEF AddWrite, Finish, Goto
<1>3. /\ \A u \in Workers : /\ pc'[u] = IF u = w THEN "idle" ELSE pc[u]
                            /\ fd'[u] = IF u = w THEN 0 ELSE fd[u]
                            /\ u # w => kept'[u] = kept[u]
      /\ \A j \in Inodes : j # fd[w] => disk'[j] = disk[j]
      /\ fd[w] \in Inodes => /\ ToSet(disk'[fd[w]]) = ToSet(disk[fd[w]]) \cup {goal[w]}
                             /\ disk'[fd[w]] \in Seq(Ids)
  <2>1. fd[w] \in Inodes => /\ disk'[fd[w]] = Append(disk[fd[w]], goal[w])
                            /\ disk[fd[w]] \in Seq(Ids) /\ goal[w] \in Ids
    BY <1>1, <1>2 DEF Shape
  <2>2. ASSUME fd[w] \in Inodes
        PROVE  /\ ToSet(disk'[fd[w]]) = ToSet(disk[fd[w]]) \cup {goal[w]}
               /\ disk'[fd[w]] \in Seq(Ids)
    <3>1. /\ ToSet(Append(disk[fd[w]], goal[w])) = ToSet(disk[fd[w]]) \cup {goal[w]}
          /\ Append(disk[fd[w]], goal[w]) \in Seq(Ids)
      BY <2>1, <2>2, AppendAddsOne
    <3>2. QED
      BY <2>1, <2>2, <3>1
  <2>3. QED
    BY <1>1, <1>2, <2>2 DEF Shape
<1>4. Shape'
  <2>1. disk' \in [Inodes -> Seq(Ids)]
    BY <1>1, <1>2, <1>3 DEF Shape
  <2>2. QED
    BY <1>1, <1>2, <2>1 DEF Shape
<1>5. ASSUME manner # "any"
      PROVE  (OneRemoval /\ OneCall /\ Names /\ Opened /\ Held /\ Exact)'
  <2>0. /\ OneRemoval /\ OneCall /\ Names /\ Opened /\ Held /\ Exact
        /\ fd[w] # 0 /\ fd[w] # path.staged /\ fd[w] \in Inodes
    BY <1>1, <1>5 DEF ArchiveInv, Opened, Shape
  <2>1. \A u \in Workers : pc'[u] \in RemovePcs <=> pc[u] \in RemovePcs
    BY <1>1, <1>3 DEF RemovePcs
  <2>2. OneRemoval' /\ OneCall'
    BY <1>2, <1>3, <2>0, <2>1 DEF OneRemoval, OneCall, Busy
  <2>3. Names'
    <3>1. \A u \in Workers : pc'[u] \in RemovePcs => pc'[u] = pc[u]
      BY <1>1, <1>3, <2>1 DEF RemovePcs
    <3>2. \A u \in Workers : pc'[u] = "stage" => pc'[u] = pc[u]
      BY <1>1, <1>3, <2>1 DEF RemovePcs
    <3>3. QED
      BY <1>2, <2>0, <3>1, <3>2 DEF Names
  <2>4. Opened'
    BY <1>2, <1>3, <2>0 DEF Opened
  <2>5. Held'
    <3>1. \A j \in Inodes : ToSet(disk[j]) \subseteq ToSet(disk'[j])
      BY <1>3, <2>0
    <3>2. path.staged # 0 => path.staged \in Inodes /\ disk'[path.staged] = disk[path.staged]
      BY <1>1, <1>3, <2>0 DEF Shape
    <3>3. path.archive # 0 => path.archive \in Inodes
      BY <1>1 DEF Shape
    <3>4. Removing' <=> Removing
      BY <2>1 DEF Removing
    <3>5. CASE ~Removing
      <4>1. settled' \subseteq ToSet(Lines(IF path.staged # 0 THEN path.staged ELSE path.archive))'
        BY <1>2, <1>3, <2>0, <3>1, <3>2, <3>3, <3>5 DEF Held, Lines
      <4>2. QED
        BY <2>1, <3>4, <3>5, <4>1 DEF Held, Removing, RemovePcs
    <3>6. CASE Removing
      <4>1. settled' = settled
        BY <1>2, <3>6
      <4>2. QED
        BY <1>1, <1>2, <1>3, <2>0, <2>1, <3>1, <3>2, <3>3, <3>4, <3>6, <4>1 DEF Held, Names, RemovePcs
    <3>7. QED
      BY <3>5, <3>6
  <2>6. Exact'
    <3>1. manner = "turns" => \A u \in Workers : pc'[u] = "idle"
      BY <1>1, <1>3, <2>0 DEF OneCall, Busy
    <3>2. QED
      BY <1>2, <3>1 DEF Exact
  <2>7. QED
    BY <2>2, <2>3, <2>4, <2>5, <2>6
<1>6. QED
  BY <1>2, <1>4, <1>5 DEF ArchiveInv

\* While one worker removes, the others add at most, and wait in turns.
LEMMA OthersAdd ==
    ASSUME Shape, OneRemoval, OneCall, NEW w \in Workers, pc[w] \in RemovePcs
    PROVE  \A u \in Workers : u # w => /\ pc[u] \in {"idle", "append"}
                                       /\ manner = "turns" => pc[u] = "idle"
BY DEF Shape, OneRemoval, OneCall, Busy, RemovePcs

LEMMA RemoveReadKeeps ==
    ASSUME ArchiveInv, NEW w \in Workers, NEW v \in Ids, RemoveRead(w, v)
    PROVE  ArchiveInv'
<1>1. /\ Shape /\ pc[w] = "idle" /\ path.archive \in {0} \cup Inodes
      /\ Contains(Lines(path.archive), v)
  BY DEF RemoveRead, ArchiveInv, Shape, Busy
<1>2. /\ path' = path /\ disk' = disk /\ fd' = fd /\ manner' = manner
      /\ kept' = [kept EXCEPT ![w] = Without(Lines(path.archive), v)]
      /\ goal' = [goal EXCEPT ![w] = v] /\ pc' = [pc EXCEPT ![w] = "stage"]
      /\ settled' = settled \ {v}
  BY DEF RemoveRead, Goto
<1>3. path.archive # 0 /\ path.archive \in Inodes /\ Lines(path.archive) = disk[path.archive]
  <2>1. path.archive # 0
    BY <1>1 DEF Contains, Lines
  <2>2. QED
    BY <1>1, <2>1 DEF Lines
<1>4. /\ Without(disk[path.archive], v) \in Seq(Ids)
      /\ ToSet(Without(disk[path.archive], v)) = ToSet(disk[path.archive]) \ {v}
  <2>1. disk[path.archive] \in Seq(Ids)
    BY <1>1, <1>3 DEF Shape
  <2>2. QED
    BY <2>1, WithoutKeepsOthers
<1>5. /\ kept'[w] = Without(disk[path.archive], v)
      /\ \A u \in Workers : /\ pc'[u] = IF u = w THEN "stage" ELSE pc[u]
                            /\ goal'[u] = IF u = w THEN v ELSE goal[u]
                            /\ u # w => kept'[u] = kept[u]
  BY <1>1, <1>2, <1>3 DEF Shape
<1>6. Shape'
  <2>1. kept' \in [Workers -> Seq(Ids)]
    BY <1>1, <1>2, <1>3, <1>4 DEF Shape
  <2>2. pc' \in [Workers -> RemovePcs \cup {"idle", "append"}] /\ goal' \in [Workers -> Ids]
    BY <1>1, <1>2 DEF Shape, RemovePcs
  <2>3. QED
    BY <1>1, <1>2, <2>1, <2>2 DEF Shape
<1>7. ASSUME manner # "any"
      PROVE  (OneRemoval /\ OneCall /\ Names /\ Opened /\ Held /\ Exact)'
  <2>0. OneRemoval /\ OneCall /\ Names /\ Opened /\ Held /\ Exact
    BY <1>7 DEF ArchiveInv
  <2>1. path.staged = 0 /\ ~Removing /\ (manner = "turns" => \A u \in Workers : pc[u] = "idle")
    <3>1. manner \in {"turns", "appends"}
      BY <1>1, <1>7, ArchiveAssumption DEF Shape
    <3>2. MayAdd /\ (manner = "appends" => ~Removing)
      BY DEF RemoveRead, MayRemove
    <3>3. manner = "turns" => \A u \in Workers : pc[u] = "idle"
      BY <3>2 DEF MayAdd, Busy
    <3>4. QED
      BY <1>7, <3>1, <3>2, <3>3 DEF MayAdd, Leftover, Removing, RemovePcs
  <2>2. \A u \in Workers : u # w => pc[u] \notin RemovePcs
    BY <2>1 DEF Removing
  <2>3. OneRemoval' /\ OneCall'
    BY <1>2, <1>5, <2>1, <2>2 DEF OneRemoval, OneCall, Busy
  <2>4. Names'
    BY <1>2, <1>3, <1>5, <2>0, <2>1, <2>2 DEF Names
  <2>5. Opened'
    BY <1>2, <1>5, <2>0, <2>1 DEF Opened
  <2>6. settled \subseteq ToSet(disk[path.archive])
    BY <1>3, <2>0, <2>1 DEF Held
  <2>7. Held'
    <3>1. Removing'
      BY <1>5 DEF Removing, RemovePcs
    <3>2. settled' \subseteq ToSet(kept'[w]) /\ settled' \subseteq ToSet(disk'[path'.archive])
      BY <1>2, <1>4, <1>5, <2>6
    <3>3. QED
      BY <1>5, <2>2, <3>1, <3>2 DEF Held, RemovePcs
  <2>8. Exact'
    BY <1>2, <1>4, <1>5, <2>2 DEF Exact, RemovePcs
  <2>9. QED
    BY <2>3, <2>4, <2>5, <2>7, <2>8
<1>8. QED
  BY <1>2, <1>6, <1>7 DEF ArchiveInv

LEMMA StageOpenKeeps ==
    ASSUME ArchiveInv, NEW w \in Workers, StageOpen(w)
    PROVE  ArchiveInv'
<1>1. Shape /\ pc[w] = "stage" /\ path.staged \in {0} \cup Inodes
  BY DEF StageOpen, ArchiveInv, Shape
<1>2. PICK i \in {IF path.staged = 0 THEN Free ELSE path.staged} : TRUE
  OBVIOUS
<1>3. /\ path' = [path EXCEPT !["staged"] = i] /\ disk' = [disk EXCEPT ![i] = <<>>]
      /\ fd' = [fd EXCEPT ![w] = i] /\ pc' = [pc EXCEPT ![w] = "staging"]
      /\ goal' = goal /\ kept' = kept /\ settled' = settled /\ manner' = manner
  BY <1>2 DEF StageOpen, OpenW, Goto, history
<1>4. i \in Inodes /\ i # 0
  BY <1>1, <1>2, FreeIsUnused, ArchiveAssumption
<1>5. /\ path'.archive = path.archive /\ path'.staged = i
      /\ \A u \in Workers : /\ pc'[u] = IF u = w THEN "staging" ELSE pc[u]
                            /\ fd'[u] = IF u = w THEN i ELSE fd[u]
      /\ disk'[i] = <<>> /\ \A j \in Inodes : j # i => disk'[j] = disk[j]
  BY <1>1, <1>3, <1>4 DEF Shape
<1>6. Shape'
  <2>1. path' \in [archive : {0} \cup Inodes, staged : {0} \cup Inodes]
    BY <1>1, <1>3, <1>4 DEF Shape
  <2>2. disk' \in [Inodes -> Seq(Ids)]
    <3>1. <<>> \in Seq(Ids)
      OBVIOUS
    <3>2. QED
      BY <1>1, <1>3, <1>4, <3>1 DEF Shape
  <2>3. pc' \in [Workers -> RemovePcs \cup {"idle", "append"}] /\ fd' \in [Workers -> {0} \cup Inodes]
    BY <1>1, <1>3, <1>4 DEF Shape, RemovePcs
  <2>4. QED
    BY <1>1, <1>3, <2>1, <2>2, <2>3 DEF Shape
<1>7. ASSUME manner # "any"
      PROVE  (OneRemoval /\ OneCall /\ Names /\ Opened /\ Held /\ Exact)'
  <2>0. /\ OneRemoval /\ OneCall /\ Names /\ Opened /\ Held /\ Exact
        /\ path.archive # 0 /\ path.archive \in Inodes
        /\ i # path.archive /\ \A u \in Workers : i # fd[u]
    <3>1. OneRemoval /\ OneCall /\ Names /\ Opened /\ Held /\ Exact
      BY <1>7 DEF ArchiveInv
    <3>2. path.archive # 0 /\ path.staged = 0
      BY <1>1, <3>1 DEF Names, RemovePcs
    <3>3. QED
      BY <1>1, <1>2, <3>1, <3>2, FreeIsUnused DEF Shape
  <2>1. \A u \in Workers : u # w => /\ pc[u] \in {"idle", "append"}
                                    /\ manner = "turns" => pc[u] = "idle"
    BY <1>1, <2>0, OthersAdd DEF RemovePcs
  <2>2. OneRemoval' /\ OneCall'
    BY <1>3, <1>5, <2>1 DEF OneRemoval, OneCall, Busy, RemovePcs
  <2>3. Names'
    BY <1>4, <1>5, <2>0, <2>1 DEF Names, RemovePcs
  <2>4. Opened'
    BY <1>3, <1>4, <1>5, <2>0, <2>1 DEF Opened
  <2>5. Held'
    <3>1. Removing'
      BY <1>5 DEF Removing, RemovePcs
    <3>2. settled' \subseteq ToSet(kept'[w]) /\ settled' \subseteq ToSet(disk'[path'.archive])
      BY <1>1, <1>3, <1>5, <2>0 DEF Held
    <3>3. QED
      BY <1>5, <2>1, <3>1, <3>2 DEF Held
  <2>6. Exact'
    BY <1>1, <1>3, <1>5, <2>0, <2>1 DEF Exact
  <2>7. QED
    BY <2>2, <2>3, <2>4, <2>5, <2>6
<1>8. QED
  BY <1>3, <1>6, <1>7 DEF ArchiveInv

\* The two writes of what is kept.
LEMMA WriteBrings ==
    ASSUME Shape, NEW w \in Workers, disk' = [disk EXCEPT ![fd[w]] = Overwrite(@, kept[w])]
    PROVE  /\ disk' \in [Inodes -> Seq(Ids)]
           /\ \A j \in Inodes : j # fd[w] => disk'[j] = disk[j]
           /\ fd[w] \in Inodes =>
                 /\ ToSet(kept[w]) \subseteq ToSet(disk'[fd[w]])
                 /\ ToSet(disk'[fd[w]]) \subseteq ToSet(kept[w]) \cup ToSet(disk[fd[w]])
                 /\ disk[fd[w]] = <<>> => disk'[fd[w]] = kept[w]
<1>1. ASSUME fd[w] \in Inodes
      PROVE  /\ disk'[fd[w]] = Overwrite(disk[fd[w]], kept[w])
             /\ Overwrite(disk[fd[w]], kept[w]) \in Seq(Ids)
             /\ ToSet(kept[w]) \subseteq ToSet(Overwrite(disk[fd[w]], kept[w]))
             /\ ToSet(Overwrite(disk[fd[w]], kept[w])) \subseteq ToSet(kept[w]) \cup ToSet(disk[fd[w]])
             /\ disk[fd[w]] = <<>> => Overwrite(disk[fd[w]], kept[w]) = kept[w]
  <2>1. disk[fd[w]] \in Seq(Ids) /\ kept[w] \in Seq(Ids)
    BY <1>1 DEF Shape
  <2>2. /\ Overwrite(disk[fd[w]], kept[w]) \in Seq(Ids)
        /\ ToSet(kept[w]) \subseteq ToSet(Overwrite(disk[fd[w]], kept[w]))
        /\ ToSet(Overwrite(disk[fd[w]], kept[w])) \subseteq ToSet(kept[w]) \cup ToSet(disk[fd[w]])
        /\ disk[fd[w]] = <<>> => Overwrite(disk[fd[w]], kept[w]) = kept[w]
    BY <2>1, OverwriteBrings
  <2>3. QED
    BY <1>1, <2>2 DEF Shape
<1>2. disk' \in [Inodes -> Seq(Ids)]
  BY <1>1 DEF Shape
<1>3. QED
  BY <1>1, <1>2 DEF Shape

LEMMA StageWriteKeeps ==
    ASSUME ArchiveInv, NEW w \in Workers, StageWrite(w)
    PROVE  ArchiveInv'
<1>1. /\ Shape /\ pc[w] = "staging" /\ path' = path /\ manner' = manner
      /\ goal' = goal /\ kept' = kept /\ settled' = settled
      /\ disk' = [disk EXCEPT ![fd[w]] = Overwrite(@, kept[w])]
      /\ fd' = [fd EXCEPT ![w] = 0] /\ pc' = [pc EXCEPT ![w] = "open"]
  BY DEF StageWrite, ArchiveInv, Goto, history
<1>2. /\ disk' \in [Inodes -> Seq(Ids)]
      /\ \A j \in Inodes : j # fd[w] => disk'[j] = disk[j]
      /\ fd[w] \in Inodes => /\ ToSet(kept[w]) \subseteq ToSet(disk'[fd[w]])
                             /\ disk[fd[w]] = <<>> => disk'[fd[w]] = kept[w]
  BY <1>1, WriteBrings
<1>3. \A u \in Workers : /\ pc'[u] = IF u = w THEN "open" ELSE pc[u]
                         /\ fd'[u] = IF u = w THEN 0 ELSE fd[u]
  BY <1>1 DEF Shape
<1>4. Shape'
  <2>1. pc' \in [Workers -> RemovePcs \cup {"idle", "append"}] /\ fd' \in [Workers -> {0} \cup Inodes]
    BY <1>1 DEF Shape, RemovePcs
  <2>2. QED
    BY <1>1, <1>2, <2>1 DEF Shape
<1>5. ASSUME manner # "any"
      PROVE  (OneRemoval /\ OneCall /\ Names /\ Opened /\ Held /\ Exact)'
  <2>0. /\ OneRemoval /\ OneCall /\ Names /\ Opened /\ Held /\ Exact
        /\ path.archive \in Inodes /\ path.staged \in Inodes
        /\ fd[w] = path.staged /\ path.archive # path.staged
    <3>1. OneRemoval /\ OneCall /\ Names /\ Opened /\ Held /\ Exact
      BY <1>5 DEF ArchiveInv
    <3>2. path.archive # 0 /\ path.staged # 0 /\ path.archive # path.staged
      BY <1>1, <3>1 DEF Names, RemovePcs
    <3>3. fd[w] = path.staged
      BY <1>1, <3>1 DEF Opened
    <3>4. QED
      BY <1>1, <3>1, <3>2, <3>3 DEF Shape
  <2>1. \A u \in Workers : u # w => /\ pc[u] \in {"idle", "append"}
                                    /\ manner = "turns" => pc[u] = "idle"
    BY <1>1, <2>0, OthersAdd DEF RemovePcs
  <2>2. OneRemoval' /\ OneCall'
    BY <1>1, <1>3, <2>1 DEF OneRemoval, OneCall, Busy, RemovePcs
  <2>3. Names'
    BY <1>1, <1>3, <2>0, <2>1 DEF Names, RemovePcs
  <2>4. Opened'
    BY <1>1, <1>3, <2>0, <2>1 DEF Opened
  <2>5. Held'
    <3>1. Removing'
      BY <1>3 DEF Removing, RemovePcs
    <3>2. settled \subseteq ToSet(kept[w])
      BY <1>1, <2>0 DEF Held
    <3>3. QED
      BY <1>1, <1>2, <1>3, <2>0, <2>1, <3>1, <3>2 DEF Held
  <2>6. Exact'
    BY <1>1, <1>2, <1>3, <2>0, <2>1 DEF Exact
  <2>7. QED
    BY <2>2, <2>3, <2>4, <2>5, <2>6
<1>6. QED
  BY <1>1, <1>4, <1>5 DEF ArchiveInv

LEMMA RewriteOpenKeeps ==
    ASSUME ArchiveInv, NEW w \in Workers, RewriteOpen(w)
    PROVE  ArchiveInv'
<1>1. Shape /\ pc[w] = "open" /\ path.archive \in {0} \cup Inodes
  BY DEF RewriteOpen, ArchiveInv, Shape
<1>2. PICK i \in {IF path.archive = 0 THEN Free ELSE path.archive} : TRUE
  OBVIOUS
<1>3. /\ path' = [path EXCEPT !["archive"] = i] /\ disk' = [disk EXCEPT ![i] = <<>>]
      /\ fd' = [fd EXCEPT ![w] = i] /\ pc' = [pc EXCEPT ![w] = "rewriting"]
      /\ goal' = goal /\ kept' = kept /\ settled' = settled /\ manner' = manner
  BY <1>2 DEF RewriteOpen, OpenW, Goto, history
<1>4. i \in Inodes /\ i # 0
  BY <1>1, <1>2, FreeIsUnused, ArchiveAssumption
<1>5. /\ path'.archive = i /\ path'.staged = path.staged
      /\ \A u \in Workers : /\ pc'[u] = IF u = w THEN "rewriting" ELSE pc[u]
                            /\ fd'[u] = IF u = w THEN i ELSE fd[u]
      /\ disk'[i] = <<>> /\ \A j \in Inodes : j # i => disk'[j] = disk[j]
  BY <1>1, <1>3, <1>4 DEF Shape
<1>6. Shape'
  <2>1. path' \in [archive : {0} \cup Inodes, staged : {0} \cup Inodes]
    BY <1>1, <1>3, <1>4 DEF Shape
  <2>2. disk' \in [Inodes -> Seq(Ids)]
    <3>1. <<>> \in Seq(Ids)
      OBVIOUS
    <3>2. QED
      BY <1>1, <1>3, <1>4, <3>1 DEF Shape
  <2>3. pc' \in [Workers -> RemovePcs \cup {"idle", "append"}] /\ fd' \in [Workers -> {0} \cup Inodes]
    BY <1>1, <1>3, <1>4 DEF Shape, RemovePcs
  <2>4. QED
    BY <1>1, <1>3, <2>1, <2>2, <2>3 DEF Shape
<1>7. ASSUME manner # "any"
      PROVE  (OneRemoval /\ OneCall /\ Names /\ Opened /\ Held /\ Exact)'
  <2>0. /\ OneRemoval /\ OneCall /\ Names /\ Opened /\ Held /\ Exact
        /\ path.staged \in Inodes /\ path.staged # 0
        /\ i = path.archive /\ i # path.staged
    <3>1. OneRemoval /\ OneCall /\ Names /\ Opened /\ Held /\ Exact
      BY <1>7 DEF ArchiveInv
    <3>2. path.archive # 0 /\ path.staged # 0 /\ path.archive # path.staged
      BY <1>1, <3>1 DEF Names, RemovePcs
    <3>3. QED
      BY <1>1, <1>2, <3>1, <3>2 DEF Shape
  <2>1. \A u \in Workers : u # w => /\ pc[u] \in {"idle", "append"}
                                    /\ manner = "turns" => pc[u] = "idle"
    BY <1>1, <2>0, OthersAdd DEF RemovePcs
  <2>2. OneRemoval' /\ OneCall'
    BY <1>3, <1>5, <2>1 DEF OneRemoval, OneCall, Busy, RemovePcs
  <2>3. Names'
    BY <1>4, <1>5, <2>0, <2>1 DEF Names, RemovePcs
  <2>4. Opened'
    BY <1>3, <1>4, <1>5, <2>0, <2>1 DEF Opened
  <2>5. Held'
    <3>1. Removing'
      BY <1>5 DEF Removing, RemovePcs
    <3>2. settled' \subseteq ToSet(kept'[w]) /\ settled' \subseteq ToSet(disk'[path'.staged])
      BY <1>1, <1>3, <1>5, <2>0 DEF Held
    <3>3. QED
      BY <1>5, <2>1, <3>1, <3>2 DEF Held
  <2>6. Exact'
    BY <1>1, <1>3, <1>5, <2>0, <2>1 DEF Exact
  <2>7. QED
    BY <2>2, <2>3, <2>4, <2>5, <2>6
<1>8. QED
  BY <1>3, <1>6, <1>7 DEF ArchiveInv

LEMMA RewriteWriteKeeps ==
    ASSUME ArchiveInv, NEW w \in Workers, RewriteWrite(w)
    PROVE  ArchiveInv'
<1>1. /\ Shape /\ pc[w] = "rewriting" /\ path' = path /\ manner' = manner
      /\ goal' = goal /\ kept' = kept /\ settled' = settled
      /\ disk' = [disk EXCEPT ![fd[w]] = Overwrite(@, kept[w])]
      /\ fd' = [fd EXCEPT ![w] = 0] /\ pc' = [pc EXCEPT ![w] = "unlink"]
  BY DEF RewriteWrite, ArchiveInv, Goto, history
<1>2. /\ disk' \in [Inodes -> Seq(Ids)]
      /\ \A j \in Inodes : j # fd[w] => disk'[j] = disk[j]
      /\ fd[w] \in Inodes => /\ ToSet(kept[w]) \subseteq ToSet(disk'[fd[w]])
                             /\ disk[fd[w]] = <<>> => disk'[fd[w]] = kept[w]
  BY <1>1, WriteBrings
<1>3. \A u \in Workers : /\ pc'[u] = IF u = w THEN "unlink" ELSE pc[u]
                         /\ fd'[u] = IF u = w THEN 0 ELSE fd[u]
  BY <1>1 DEF Shape
<1>4. Shape'
  <2>1. pc' \in [Workers -> RemovePcs \cup {"idle", "append"}] /\ fd' \in [Workers -> {0} \cup Inodes]
    BY <1>1 DEF Shape, RemovePcs
  <2>2. QED
    BY <1>1, <1>2, <2>1 DEF Shape
<1>5. ASSUME manner # "any"
      PROVE  (OneRemoval /\ OneCall /\ Names /\ Opened /\ Held /\ Exact)'
  <2>0. /\ OneRemoval /\ OneCall /\ Names /\ Opened /\ Held /\ Exact
        /\ path.archive \in Inodes /\ path.staged \in Inodes
        /\ fd[w] = path.archive /\ path.archive # path.staged
    <3>1. OneRemoval /\ OneCall /\ Names /\ Opened /\ Held /\ Exact
      BY <1>5 DEF ArchiveInv
    <3>2. path.archive # 0 /\ path.staged # 0 /\ path.archive # path.staged
      BY <1>1, <3>1 DEF Names, RemovePcs
    <3>3. fd[w] = path.archive
      BY <1>1, <3>1 DEF Opened
    <3>4. QED
      BY <1>1, <3>1, <3>2, <3>3 DEF Shape
  <2>1. \A u \in Workers : u # w => /\ pc[u] \in {"idle", "append"}
                                    /\ manner = "turns" => pc[u] = "idle"
    BY <1>1, <2>0, OthersAdd DEF RemovePcs
  <2>2. OneRemoval' /\ OneCall'
    BY <1>1, <1>3, <2>1 DEF OneRemoval, OneCall, Busy, RemovePcs
  <2>3. Names'
    BY <1>1, <1>3, <2>0, <2>1 DEF Names, RemovePcs
  <2>4. Opened'
    BY <1>1, <1>3, <2>0, <2>1 DEF Opened
  <2>5. Held'
    <3>1. Removing'
      BY <1>3 DEF Removing, RemovePcs
    <3>2. settled \subseteq ToSet(kept[w]) /\ settled \subseteq ToSet(disk[path.staged])
      BY <1>1, <2>0 DEF Held
    <3>3. QED
      BY <1>1, <1>2, <1>3, <2>0, <2>1, <3>1, <3>2 DEF Held
  <2>6. Exact'
    BY <1>1, <1>2, <1>3, <2>0, <2>1 DEF Exact
  <2>7. QED
    BY <2>2, <2>3, <2>4, <2>5, <2>6
<1>6. QED
  BY <1>1, <1>4, <1>5 DEF ArchiveInv

LEMMA UnlinkKeeps ==
    ASSUME ArchiveInv, NEW w \in Workers, Unlink(w)
    PROVE  ArchiveInv'
<1>1. /\ Shape /\ pc[w] = "unlink" /\ disk' = disk /\ manner' = manner
      /\ goal' = goal /\ settled' = settled /\ path' = [path EXCEPT !.staged = 0]
      /\ fd' = [fd EXCEPT ![w] = 0] /\ pc' = [pc EXCEPT ![w] = "idle"]
      /\ kept' = [kept EXCEPT ![w] = <<>>]
  BY DEF Unlink, Finish, ArchiveInv, Goto
<1>2. /\ path'.archive = path.archive /\ path'.staged = 0
      /\ \A u \in Workers : /\ pc'[u] = IF u = w THEN "idle" ELSE pc[u]
                            /\ fd'[u] = IF u = w THEN 0 ELSE fd[u]
  BY <1>1 DEF Shape
<1>3. Shape'
  <2>1. path' \in [archive : {0} \cup Inodes, staged : {0} \cup Inodes]
    BY <1>1 DEF Shape
  <2>2. kept' \in [Workers -> Seq(Ids)]
    <3>1. <<>> \in Seq(Ids)
      OBVIOUS
    <3>2. QED
      BY <1>1, <3>1 DEF Shape
  <2>3. pc' \in [Workers -> RemovePcs \cup {"idle", "append"}] /\ fd' \in [Workers -> {0} \cup Inodes]
    BY <1>1 DEF Shape, RemovePcs
  <2>4. QED
    BY <1>1, <2>1, <2>2, <2>3 DEF Shape
<1>4. ASSUME manner # "any"
      PROVE  (OneRemoval /\ OneCall /\ Names /\ Opened /\ Held /\ Exact)'
  <2>0. OneRemoval /\ OneCall /\ Names /\ Opened /\ Held /\ Exact
    BY <1>4 DEF ArchiveInv
  <2>1. \A u \in Workers : u # w => /\ pc[u] \in {"idle", "append"}
                                    /\ manner = "turns" => pc[u] = "idle"
    BY <1>1, <2>0, OthersAdd DEF RemovePcs
  <2>2. \A u \in Workers : pc'[u] \notin RemovePcs
    BY <1>2, <2>1 DEF RemovePcs
  <2>3. OneRemoval' /\ OneCall'
    BY <1>1, <1>2, <2>1, <2>2 DEF OneRemoval, OneCall, Busy
  <2>4. Names'
    <3>1. \A u \in Workers : pc'[u] # "stage"
      BY <2>2 DEF RemovePcs
    <3>2. QED
      BY <1>2, <2>2, <3>1 DEF Names
  <2>5. Opened'
    BY <1>1, <1>2, <2>0, <2>1 DEF Opened
  <2>6. Held'
    <3>1. path.archive # 0 /\ settled \subseteq ToSet(disk[path.archive])
      BY <1>1, <2>0 DEF Held, Names, RemovePcs
    <3>2. QED
      BY <1>1, <1>2, <2>2, <3>1 DEF Held, Lines, RemovePcs
  <2>7. Exact'
    BY <2>2 DEF Exact, RemovePcs
  <2>8. QED
    BY <2>3, <2>4, <2>5, <2>6, <2>7
<1>5. QED
  BY <1>1, <1>3, <1>4 DEF ArchiveInv

LEMMA ConstructKeeps ==
    ASSUME ArchiveInv, NEW p \in Processes, Construct(p)
    PROVE  ArchiveInv'
<1>1. /\ Shape /\ disk' = disk /\ manner' = manner /\ pc' = pc /\ goal' = goal
      /\ kept' = kept /\ fd' = fd /\ settled' = settled
      /\ path' = IF path.staged # 0 THEN [archive |-> path.staged, staged |-> 0] ELSE path
      /\ manner # "any" => ~Removing
  BY DEF Construct, MayConstruct, ArchiveInv, workerVars, history
<1>2. /\ path'.staged = 0
      /\ path'.archive = IF path.staged # 0 THEN path.staged ELSE path.archive
  BY <1>1 DEF Shape
<1>3. Shape'
  <2>1. path' \in [archive : {0} \cup Inodes, staged : {0} \cup Inodes]
    BY <1>1 DEF Shape
  <2>2. QED
    BY <1>1, <2>1 DEF Shape
<1>4. ASSUME manner # "any"
      PROVE  (OneRemoval /\ OneCall /\ Names /\ Opened /\ Held /\ Exact)'
  <2>0. OneRemoval /\ OneCall /\ Names /\ Opened /\ Held /\ Exact
    BY <1>4 DEF ArchiveInv
  <2>1. \A u \in Workers : pc[u] \notin RemovePcs
    BY <1>1, <1>4 DEF Removing
  <2>2. OneRemoval' /\ OneCall'
    BY <1>1, <2>0 DEF OneRemoval, OneCall, Busy
  <2>3. Names' /\ Exact'
    BY <1>1, <1>2, <2>1 DEF Names, Exact, RemovePcs
  <2>4. Opened'
    BY <1>1, <1>2, <2>0, <2>1 DEF Opened, RemovePcs
  <2>5. Held'
    BY <1>1, <1>2, <2>0, <2>1 DEF Held, Removing, Lines, RemovePcs
  <2>6. QED
    BY <2>2, <2>3, <2>4, <2>5
<1>5. QED
  BY <1>1, <1>3, <1>4 DEF ArchiveInv

\* A death in a removal leaves what has settled in the file that counts, if
\* it does not leave an empty staged copy.
LEMMA DieKeeps ==
    ASSUME ~TornStaging, ArchiveInv, NEW p \in Processes, Die(p)
    PROVE  ArchiveInv'
<1>1. /\ Shape /\ disk' = disk /\ manner' = manner /\ goal' = goal
      /\ path' = path /\ settled' = settled
      /\ \A w \in Workers : Process[w] = p => pc[w] # "staging"
      /\ pc' = [w \in Workers |-> IF Process[w] = p THEN "idle" ELSE pc[w]]
      /\ fd' = [w \in Workers |-> IF Process[w] = p THEN 0 ELSE fd[w]]
      /\ kept' = [w \in Workers |-> IF Process[w] = p THEN <<>> ELSE kept[w]]
  BY DEF Die, ArchiveInv, history
<1>2. Shape'
  <2>1. kept' \in [Workers -> Seq(Ids)]
    <3>1. <<>> \in Seq(Ids)
      OBVIOUS
    <3>2. QED
      BY <1>1, <3>1 DEF Shape
  <2>2. pc' \in [Workers -> RemovePcs \cup {"idle", "append"}] /\ fd' \in [Workers -> {0} \cup Inodes]
    BY <1>1 DEF Shape
  <2>3. QED
    BY <1>1, <2>1, <2>2 DEF Shape
<1>3. \A w \in Workers :
         \/ pc'[w] = "idle"
         \/ pc'[w] = pc[w] /\ fd'[w] = fd[w] /\ kept'[w] = kept[w]
  BY <1>1
<1>4. ASSUME manner # "any"
      PROVE  (OneRemoval /\ OneCall /\ Names /\ Opened /\ Held /\ Exact)'
  <2>0. OneRemoval /\ OneCall /\ Names /\ Opened /\ Held /\ Exact
    BY <1>4 DEF ArchiveInv
  <2>1. OneRemoval' /\ OneCall'
    BY <1>1, <1>3, <2>0 DEF OneRemoval, OneCall, Busy, RemovePcs
  <2>2. Names'
    BY <1>1, <1>3, <2>0 DEF Names, RemovePcs
  <2>3. Opened'
    BY <1>1, <1>3, <2>0 DEF Opened
  <2>4. Exact'
    BY <1>1, <1>3, <2>0 DEF Exact
  <2>5. Held'
    <3>1. \A w \in Workers :
             /\ pc'[w] \in {"stage", "staging", "open", "rewriting"} => settled' \subseteq ToSet(kept'[w])
             /\ pc'[w] \in {"stage", "staging", "unlink"} => settled' \subseteq ToSet(disk'[path'.archive])
             /\ pc'[w] \in {"open", "rewriting", "unlink"} => settled' \subseteq ToSet(disk'[path'.staged])
      BY <1>1, <1>3, <2>0 DEF Held
    <3>2. ASSUME ~Removing'
          PROVE  settled \subseteq ToSet(Lines(IF path.staged # 0 THEN path.staged ELSE path.archive))
      <4>1. CASE ~Removing
        BY <2>0, <4>1 DEF Held
      <4>2. CASE Removing
        <5>1. PICK w \in Workers : pc[w] \in RemovePcs
          BY <4>2 DEF Removing
        <5>2. pc[w] # "staging"
          BY <1>1, <3>2, <5>1 DEF Removing, RemovePcs
        <5>3. CASE pc[w] = "stage"
          BY <2>0, <5>3 DEF Held, Names, Lines, RemovePcs
        <5>4. CASE pc[w] \in {"open", "rewriting", "unlink"}
          BY <2>0, <5>4 DEF Held, Names, Lines, RemovePcs
        <5>5. QED
          BY <5>1, <5>2, <5>3, <5>4 DEF RemovePcs
      <4>3. QED
        BY <4>1, <4>2
    <3>3. QED
      BY <1>1, <3>1, <3>2 DEF Held, Lines
  <2>6. QED
    BY <2>1, <2>2, <2>3, <2>4, <2>5
<1>5. QED
  BY <1>1, <1>2, <1>4 DEF ArchiveInv

LEMMA ArchiveInvKept ==
    ASSUME ~TornStaging, ArchiveInv, [Next]_vars
    PROVE  ArchiveInv'
<1>1. ASSUME NEW w \in Workers, NEW v \in Ids, AddOpen(w, v) \/ RemoveRead(w, v)
      PROVE  ArchiveInv'
  BY <1>1, AddOpenKeeps, RemoveReadKeeps
<1>2. ASSUME NEW w \in Workers,
             AddWrite(w) \/ StageOpen(w) \/ StageWrite(w) \/ RewriteOpen(w) \/ RewriteWrite(w) \/ Unlink(w)
      PROVE  ArchiveInv'
  BY <1>2, AddWriteKeeps, StageOpenKeeps, StageWriteKeeps, RewriteOpenKeeps, RewriteWriteKeeps,
     UnlinkKeeps
<1>3. ASSUME NEW p \in Processes, Construct(p) \/ Die(p)
      PROVE  ArchiveInv'
  BY <1>3, ConstructKeeps, DieKeeps
<1>4. CASE UNCHANGED vars
  BY <1>4 DEF vars, workerVars, history, ArchiveInv, Shape, OneRemoval, OneCall, Names, Opened,
              Held, Exact, Busy, Removing, Lines
<1>5. QED
  BY <1>1, <1>2, <1>3, <1>4 DEF Next

LEMMA ArchiveInvariant == ASSUME ~TornStaging PROVE Spec => []ArchiveInv
<1>1. Init => ArchiveInv
  BY ArchiveInvInitially
<1>2. ArchiveInv /\ [Next]_vars => ArchiveInv'
  BY ArchiveInvKept
<1>3. QED
  BY <1>1, <1>2, PTL DEF Spec

\* Nothing that was added while nothing was being removed is ever lost, by
\* any interleaving of appends, removals, deaths and recoveries, unless a
\* process dies with an empty staged copy on the disk.
THEOREM SettledAreKept ==
    ASSUME ~TornStaging PROVE Spec => []SettledSurvive
<1>1. ArchiveInv => SettledSurvive
  <2>1. SUFFICES ASSUME ArchiveInv, manner # "any", AtRest PROVE settled \subseteq Entries
    BY DEF SettledSurvive
  <2>2. \A w \in Workers : pc[w] = "idle"
    BY <2>1 DEF AtRest, Busy
  <2>3. ~Removing /\ (Staged <=> path.staged # 0)
    BY <2>2 DEF Removing, RemovePcs, Staged
  <2>4. QED
    BY <2>1, <2>3 DEF ArchiveInv, Held, Entries
<1>2. QED
  BY <1>1, ArchiveInvariant, PTL

-----------------------------------------------------------------------------
(* What was removed.  No file that may still be published has it, nor what *)
(* a removal keeps; and what lies in the archive beside the kept lines when *)
(* it is rewritten was appended since.                                     *)

GoneFrom ==
    /\ gone \cap ToSet(Lines(path.archive)) = {}
    /\ gone \cap ToSet(Lines(path.staged)) = {}

GoneFromKept(w) == gone \cap ToSet(kept[w]) = {} /\ goal[w] \notin ToSet(kept[w])

GoneInv ==
    manner # "any" =>
        /\ GoneFrom
        /\ \A w \in Workers :
              /\ pc[w] \in RemovePcs => GoneFromKept(w)
              /\ pc[w] = "rewriting" => ToSet(Lines(path.archive)) \subseteq since
              /\ pc[w] = "unlink" => ToSet(Lines(path.archive)) \subseteq ToSet(kept[w]) \cup since

\* A step that a worker makes outside of a removal, or at its start.
LEMMA AddOpenGone ==
    ASSUME ArchiveInv, GoneInv, NEW w \in Workers, NEW v \in Ids, AddOpen(w, v)
    PROVE  GoneInv'
<1> SUFFICES ASSUME manner # "any" PROVE GoneInv'
  BY DEF GoneInv, AddOpen
<1>1. PICK i \in {IF path.archive = 0 THEN Free ELSE path.archive} : TRUE
  OBVIOUS
<1>2. /\ path' = [path EXCEPT !.archive = i]
      /\ disk' = IF path.archive = 0 THEN [disk EXCEPT ![i] = <<>>] ELSE disk
      /\ goal' = [goal EXCEPT ![w] = v] /\ pc' = [pc EXCEPT ![w] = "append"]
      /\ kept' = kept /\ gone' = gone /\ since' = since /\ pc[w] = "idle"
  BY <1>1 DEF AddOpen, Goto, history, ArchiveInv, Shape, Busy
<1>3. /\ i \in Inodes /\ i # 0 /\ Shape /\ Names
      /\ path.archive = 0 => i # path.staged
      /\ path.archive # 0 => i = path.archive
  <2>1. Shape /\ Names /\ path.archive \in {0} \cup Inodes
    BY DEF ArchiveInv, Shape
  <2>2. QED
    BY <1>1, <2>1, FreeIsUnused, ArchiveAssumption
<1>4. /\ path'.archive = i /\ path'.staged = path.staged
      /\ path.archive = 0 => disk'[i] = <<>>
      /\ path.archive # 0 => disk' = disk
      /\ \A j \in Inodes : j # i => disk'[j] = disk[j]
      /\ \A u \in Workers : /\ pc'[u] = IF u = w THEN "append" ELSE pc[u]
                            /\ u # w => goal'[u] = goal[u]
  BY <1>2, <1>3 DEF Shape
<1>5. path.archive # 0 => Lines(path.archive)' = Lines(path.archive)
  BY <1>3, <1>4 DEF Lines
<1>6. Lines(path.staged)' = Lines(path.staged)
  BY <1>3, <1>4 DEF Lines, Names, Shape
<1>7. GoneFrom'
  <2>1. path.archive = 0 => ToSet(Lines(path.archive)') = {}
    BY <1>3, <1>4 DEF Lines, ToSet
  <2>2. QED
    BY <1>2, <1>5, <1>6, <2>1 DEF GoneInv, GoneFrom
<1>8. ASSUME NEW u \in Workers, pc'[u] \in RemovePcs
      PROVE  u # w /\ pc'[u] = pc[u] /\ pc[u] \in RemovePcs /\ path.archive # 0
  BY <1>3, <1>4, <1>8 DEF RemovePcs, Names
<1>9. QED
  BY <1>2, <1>4, <1>5, <1>7, <1>8 DEF GoneInv, GoneFromKept, RemovePcs

\* An append takes its id out of gone, wherever its line goes.
LEMMA AddWriteGone ==
    ASSUME ArchiveInv, GoneInv, NEW w \in Workers, AddWrite(w)
    PROVE  GoneInv'
<1> SUFFICES ASSUME manner # "any" PROVE GoneInv'
  BY DEF GoneInv, AddWrite
<1>1. /\ path' = path /\ goal' = goal /\ pc[w] = "append"
      /\ disk' = [disk EXCEPT ![fd[w]] = Append(@, goal[w])]
      /\ kept' = [kept EXCEPT ![w] = <<>>] /\ pc' = [pc EXCEPT ![w] = "idle"]
      /\ gone' = gone \ {goal[w]} /\ since' = since \cup {goal[w]}
  BY DEF AddWrite, Finish, Goto
<1>2. /\ Shape /\ Names /\ fd[w] \in Inodes /\ fd[w] # path.staged
  BY <1>1 DEF ArchiveInv, Shape, Opened
<1>3. /\ \A u \in Workers : /\ pc'[u] = IF u = w THEN "idle" ELSE pc[u]
                            /\ u # w => kept'[u] = kept[u]
      /\ \A j \in Inodes : j # fd[w] => disk'[j] = disk[j]
      /\ disk'[fd[w]] = Append(disk[fd[w]], goal[w])
  BY <1>1, <1>2 DEF Shape
<1>4. ToSet(disk'[fd[w]]) = ToSet(disk[fd[w]]) \cup {goal[w]}
  <2>1. disk[fd[w]] \in Seq(Ids) /\ goal[w] \in Ids
    BY <1>2 DEF Shape
  <2>2. ToSet(Append(disk[fd[w]], goal[w])) = ToSet(disk[fd[w]]) \cup {goal[w]}
    BY <2>1, AppendAddsOne
  <2>3. QED
    BY <1>3, <2>2
<1>5. ToSet(Lines(path.archive)') \subseteq ToSet(Lines(path.archive)) \cup {goal[w]}
  <2>1. path.archive # 0 => path.archive \in Inodes
    BY <1>2 DEF Shape
  <2>2. QED
    BY <1>1, <1>2, <1>3, <1>4, <2>1 DEF Lines
<1>6. Lines(path.staged)' = Lines(path.staged)
  BY <1>1, <1>2, <1>3 DEF Lines, Shape
<1>7. GoneFrom'
  BY <1>1, <1>5, <1>6 DEF GoneInv, GoneFrom
<1>8. ASSUME NEW u \in Workers, pc'[u] \in RemovePcs
      PROVE  u # w /\ pc'[u] = pc[u] /\ pc[u] \in RemovePcs /\ kept'[u] = kept[u]
  BY <1>3, <1>8 DEF RemovePcs
<1>9. QED
  BY <1>1, <1>5, <1>7, <1>8 DEF GoneInv, GoneFromKept, RemovePcs

\* The loop keeps no line of the id that is removed, however often it is there.
LEMMA RemoveReadGone ==
    ASSUME ArchiveInv, GoneInv, NEW w \in Workers, NEW v \in Ids, RemoveRead(w, v)
    PROVE  GoneInv'
<1> SUFFICES ASSUME manner # "any" PROVE GoneInv'
  BY DEF GoneInv, RemoveRead
<1>1. /\ path' = path /\ disk' = disk /\ gone' = gone
      /\ kept' = [kept EXCEPT ![w] = Without(Lines(path.archive), v)]
      /\ goal' = [goal EXCEPT ![w] = v] /\ pc' = [pc EXCEPT ![w] = "stage"]
      /\ MayAdd /\ (manner = "appends" => ~Removing)
  BY DEF RemoveRead, Goto, MayRemove
<1>2. Shape /\ OneRemoval /\ OneCall /\ pc[w] = "idle"
  BY DEF ArchiveInv, RemoveRead, Shape, Busy
<1>3. ~Removing
  <2>1. manner \in {"turns", "appends"}
    BY <1>2, ArchiveAssumption DEF Shape
  <2>2. QED
    BY <1>1, <2>1 DEF MayAdd, Busy, Removing, RemovePcs
<1>4. ToSet(Without(Lines(path.archive), v)) = ToSet(Lines(path.archive)) \ {v}
  <2>1. Lines(path.archive) \in Seq(Ids)
    BY <1>2 DEF Lines, Shape
  <2>2. QED
    BY <2>1, WithoutKeepsOthers
<1>5. /\ kept'[w] = Without(Lines(path.archive), v) /\ goal'[w] = v /\ pc'[w] = "stage"
      /\ \A u \in Workers : u # w => pc'[u] \notin RemovePcs
  BY <1>1, <1>2, <1>3 DEF Shape, Removing
<1>6. GoneFromKept(w)'
  BY <1>1, <1>4, <1>5 DEF GoneInv, GoneFrom, GoneFromKept
<1>7. GoneFrom'
  BY <1>1 DEF GoneInv, GoneFrom, Lines
<1>8. QED
  BY <1>5, <1>6, <1>7 DEF GoneInv, RemovePcs

\* A file cut to nothing has nothing that is gone.
LEMMA OpensGone ==
    ASSUME ArchiveInv, GoneInv, NEW w \in Workers, StageOpen(w) \/ RewriteOpen(w)
    PROVE  GoneInv'
<1> SUFFICES ASSUME manner # "any" PROVE GoneInv'
  BY DEF GoneInv, StageOpen, RewriteOpen
<1>1. /\ goal' = goal /\ kept' = kept /\ gone' = gone /\ since' = since
      /\ Shape /\ OneRemoval /\ OneCall /\ Names
  BY DEF StageOpen, RewriteOpen, history, ArchiveInv
<1>2. ASSUME NEW name \in {"archive", "staged"}, OpenW(w, name),
             pc[w] \in RemovePcs, pc' = [pc EXCEPT ![w] = IF name = "archive" THEN "rewriting" ELSE "staging"],
             pc[w] = "stage" \/ path[name] # 0
      PROVE  GoneInv'
  <2>1. PICK i \in {IF path[name] = 0 THEN Free ELSE path[name]} : TRUE
    OBVIOUS
  <2>2. path' = [path EXCEPT ![name] = i] /\ disk' = [disk EXCEPT ![i] = <<>>]
    BY <1>2, <2>1 DEF OpenW
  <2>3. i \in Inodes /\ i # 0
    BY <1>1, <2>1, FreeIsUnused, ArchiveAssumption DEF Shape
  <2>4. /\ path'[name] = i /\ disk'[i] = <<>>
        /\ \A n \in {"archive", "staged"} : n # name => path'[n] = path[n] /\ path[n] # i
        /\ \A j \in Inodes : j # i => disk'[j] = disk[j]
    <3>1. path["archive"] = path.archive /\ path["staged"] = path.staged
      OBVIOUS
    <3>2. path.archive # 0
      BY <1>1, <1>2 DEF Names
    <3>3. \A n \in {"archive", "staged"} : n # name => path[n] # i
      BY <1>1, <2>1, <3>1, <3>2, FreeIsUnused DEF Names
    <3>4. QED
      BY <1>1, <2>2, <2>3, <3>3 DEF Shape
  <2>5. \A n \in {"archive", "staged"} : ToSet(Lines(path[n])') \subseteq ToSet(Lines(path[n]))
    <3>1. ToSet(Lines(path[name])') = {}
      BY <2>3, <2>4 DEF Lines, ToSet
    <3>2. ASSUME NEW n \in {"archive", "staged"}, n # name
          PROVE  Lines(path[n])' = Lines(path[n])
      BY <1>1, <2>4, <3>2 DEF Lines, Shape
    <3>3. QED
      BY <3>1, <3>2
  <2>6. GoneFrom'
    <3>1. /\ ToSet(Lines(path["archive"])') \subseteq ToSet(Lines(path["archive"]))
          /\ ToSet(Lines(path["staged"])') \subseteq ToSet(Lines(path["staged"]))
      BY <2>5
    <3>2. QED
      BY <1>1, <3>1 DEF GoneInv, GoneFrom
  <2>7. \A u \in Workers : u # w => pc'[u] = pc[u] /\ pc[u] \in {"idle", "append"}
    BY <1>1, <1>2, OthersAdd DEF Shape
  <2>8. name = "archive" => ToSet(Lines(path.archive)') = {}
    BY <2>3, <2>4 DEF Lines, ToSet
  <2>9. pc'[w] = IF name = "archive" THEN "rewriting" ELSE "staging"
    BY <1>1, <1>2 DEF Shape
  <2>10. QED
    BY <1>1, <1>2, <2>6, <2>7, <2>8, <2>9 DEF GoneInv, GoneFromKept, RemovePcs
<1>3. CASE StageOpen(w)
  <2>1. OpenW(w, "staged") /\ pc[w] = "stage" /\ pc' = [pc EXCEPT ![w] = "staging"]
    BY <1>3 DEF StageOpen, Goto
  <2>2. QED
    BY <1>2, <2>1 DEF RemovePcs
<1>4. CASE RewriteOpen(w)
  <2>1. OpenW(w, "archive") /\ pc[w] = "open" /\ pc' = [pc EXCEPT ![w] = "rewriting"]
    BY <1>4 DEF RewriteOpen, Goto
  <2>2. path["archive"] # 0
    BY <1>1, <2>1 DEF Names, RemovePcs
  <2>3. QED
    BY <1>2, <2>1, <2>2 DEF RemovePcs
<1>5. QED
  BY <1>3, <1>4

\* What a write at the start leaves behind it was there before.
LEMMA WritesGone ==
    ASSUME ArchiveInv, GoneInv, NEW w \in Workers, StageWrite(w) \/ RewriteWrite(w)
    PROVE  GoneInv'
<1> SUFFICES ASSUME manner # "any" PROVE GoneInv'
  BY DEF GoneInv, StageWrite, RewriteWrite
<1>1. /\ goal' = goal /\ kept' = kept /\ gone' = gone /\ since' = since /\ path' = path
      /\ Shape /\ OneRemoval /\ OneCall /\ Names /\ Opened
      /\ disk' = [disk EXCEPT ![fd[w]] = Overwrite(@, kept[w])]
      /\ \/ pc[w] = "staging" /\ pc' = [pc EXCEPT ![w] = "open"]
         \/ pc[w] = "rewriting" /\ pc' = [pc EXCEPT ![w] = "unlink"]
  BY DEF StageWrite, RewriteWrite, history, ArchiveInv, Goto
<1>2. /\ pc[w] \in RemovePcs
      /\ path.archive \in Inodes /\ path.staged \in Inodes /\ path.archive # path.staged
      /\ path.archive # 0 /\ path.staged # 0
      /\ fd[w] = IF pc[w] = "staging" THEN path.staged ELSE path.archive
  BY <1>1 DEF Shape, Names, Opened, RemovePcs
<1>3. /\ \A j \in Inodes : j # fd[w] => disk'[j] = disk[j]
      /\ ToSet(disk'[fd[w]]) \subseteq ToSet(kept[w]) \cup ToSet(disk[fd[w]])
  <2>1. /\ \A j \in Inodes : j # fd[w] => disk'[j] = disk[j]
        /\ fd[w] \in Inodes =>
              /\ ToSet(kept[w]) \subseteq ToSet(disk'[fd[w]])
              /\ ToSet(disk'[fd[w]]) \subseteq ToSet(kept[w]) \cup ToSet(disk[fd[w]])
              /\ disk[fd[w]] = <<>> => disk'[fd[w]] = kept[w]
    BY <1>1, WriteBrings
  <2>2. QED
    BY <1>2, <2>1
<1>4. GoneFrom /\ GoneFromKept(w)
  BY <1>2 DEF GoneInv
<1>5. GoneFrom'
  BY <1>1, <1>2, <1>3, <1>4 DEF GoneFrom, GoneFromKept, Lines
<1>6. \A u \in Workers : u # w => pc'[u] = pc[u] /\ pc[u] \in {"idle", "append"}
  BY <1>1, <1>2, OthersAdd DEF Shape
<1>7. pc[w] = "rewriting" => ToSet(Lines(path.archive)') \subseteq ToSet(kept[w]) \cup since
  BY <1>1, <1>2, <1>3 DEF GoneInv, Lines
<1>8. pc'[w] = IF pc[w] = "staging" THEN "open" ELSE "unlink"
  BY <1>1 DEF Shape
<1>9. QED
  BY <1>1, <1>4, <1>5, <1>6, <1>7, <1>8 DEF GoneInv, GoneFromKept, RemovePcs

\* The end of a removal: an id is gone unless it was appended meanwhile.
LEMMA UnlinkGone ==
    ASSUME ArchiveInv, GoneInv, NEW w \in Workers, Unlink(w)
    PROVE  GoneInv'
<1> SUFFICES ASSUME manner # "any" PROVE GoneInv'
  BY DEF GoneInv, Unlink
<1>1. /\ pc[w] = "unlink" /\ disk' = disk /\ path' = [path EXCEPT !.staged = 0]
      /\ pc' = [pc EXCEPT ![w] = "idle"] /\ gone' = (gone \cup {goal[w]}) \ since
      /\ Shape /\ OneRemoval /\ OneCall
  BY DEF Unlink, Finish, Goto, ArchiveInv
<1>2. path'.archive = path.archive /\ path'.staged = 0
  BY <1>1 DEF Shape
<1>3. \A u \in Workers : pc'[u] \in {"idle", "append"}
  BY <1>1, OthersAdd DEF Shape, RemovePcs
<1>4. /\ GoneFrom /\ goal[w] \notin ToSet(kept[w])
      /\ ToSet(Lines(path.archive)) \subseteq ToSet(kept[w]) \cup since
  BY <1>1 DEF GoneInv, GoneFromKept, RemovePcs
<1>5. Lines(path.archive)' = Lines(path.archive) /\ ToSet(Lines(path.staged)') = {}
  BY <1>1, <1>2 DEF Lines, ToSet
<1>6. GoneFrom'
  BY <1>1, <1>4, <1>5 DEF GoneFrom
<1>7. QED
  BY <1>3, <1>6 DEF GoneInv, RemovePcs

\* A recovery publishes a copy without what is gone; a death changes no file.
LEMMA ProcessesGone ==
    ASSUME ArchiveInv, GoneInv, NEW p \in Processes, Construct(p) \/ Die(p)
    PROVE  GoneInv'
<1> SUFFICES ASSUME manner # "any" PROVE GoneInv'
  BY DEF GoneInv, Construct, Die
<1>1. CASE Construct(p)
  <2>1. /\ disk' = disk /\ pc' = pc /\ gone' = gone
        /\ path' = IF path.staged # 0 THEN [archive |-> path.staged, staged |-> 0] ELSE path
        /\ \A u \in Workers : pc[u] \notin RemovePcs
    BY <1>1 DEF Construct, MayConstruct, Removing, workerVars, history
  <2>2. CASE path.staged = 0
    BY <2>1, <2>2 DEF GoneInv, GoneFrom, Lines, RemovePcs
  <2>3. CASE path.staged # 0
    <3>1. path'.archive = path.staged /\ path'.staged = 0
      BY <2>1, <2>3
    <3>2. ToSet(Lines(path.archive)') = ToSet(Lines(path.staged)) /\ ToSet(Lines(path.staged)') = {}
      BY <2>1, <3>1 DEF Lines, ToSet
    <3>3. QED
      BY <2>1, <3>2 DEF GoneInv, GoneFrom, RemovePcs
  <2>4. QED
    BY <2>2, <2>3
<1>2. CASE Die(p)
  <2>1. /\ disk' = disk /\ path' = path /\ gone' = gone /\ since' = since /\ goal' = goal
        /\ \A u \in Workers :
              \/ pc'[u] = "idle"
              \/ pc'[u] = pc[u] /\ kept'[u] = kept[u]
    BY <1>2 DEF Die, history
  <2>2. Lines(path.archive)' = Lines(path.archive) /\ Lines(path.staged)' = Lines(path.staged)
    BY <2>1 DEF Lines
  <2>3. QED
    BY <2>1, <2>2 DEF GoneInv, GoneFrom, GoneFromKept, RemovePcs
<1>3. QED
  BY <1>1, <1>2

\* What a removal has taken out does not come back: not by a second line, by
\* what the rewrite leaves behind it, or by a recovery; only by an addition.
THEOREM RemovedAreGone ==
    ASSUME ~TornStaging PROVE Spec => []RemovedStaysGone
<1>1. Init => GoneInv
  BY DEF Init, GoneInv, GoneFrom, RemovePcs
<1>2. ArchiveInv /\ GoneInv /\ [Next]_vars => GoneInv'
  <2> SUFFICES ASSUME ArchiveInv, GoneInv, [Next]_vars PROVE GoneInv'
    OBVIOUS
  <2>1. ASSUME NEW w \in Workers, NEW v \in Ids, AddOpen(w, v) \/ RemoveRead(w, v)
        PROVE  GoneInv'
    BY <2>1, AddOpenGone, RemoveReadGone
  <2>2. ASSUME NEW w \in Workers,
               AddWrite(w) \/ StageOpen(w) \/ StageWrite(w) \/ RewriteOpen(w) \/ RewriteWrite(w) \/ Unlink(w)
        PROVE  GoneInv'
    BY <2>2, AddWriteGone, OpensGone, WritesGone, UnlinkGone
  <2>3. ASSUME NEW p \in Processes, Construct(p) \/ Die(p)
        PROVE  GoneInv'
    BY <2>3, ProcessesGone
  <2>4. CASE UNCHANGED vars
    BY <2>4 DEF vars, workerVars, history, GoneInv, GoneFrom, GoneFromKept, Lines
  <2>5. QED
    BY <2>1, <2>2, <2>3, <2>4 DEF Next
<1>3. GoneInv => RemovedStaysGone
  <2>1. SUFFICES ASSUME GoneInv, manner # "any" PROVE gone \cap Entries = {}
    BY DEF RemovedStaysGone
  <2>2. Entries = ToSet(Lines(path.staged)) \/ Entries = ToSet(Lines(path.archive))
    BY DEF Entries
  <2>3. QED
    BY <2>1, <2>2 DEF GoneInv, GoneFrom
<1>4. QED
  BY <1>1, <1>2, <1>3, ArchiveInvariant, PTL DEF Spec

-----------------------------------------------------------------------------
(* In turns, a call changes the set at once: an addition when it writes,   *)
(* a removal when the staged copy is complete.  Every other step, a death  *)
(* and a recovery among them, leaves the set alone.                        *)

\* Where the set is, by what is going on.
LEMMA EntriesAre ==
    /\ path.staged = 0 => Entries = ToSet(Lines(path.archive))
    /\ (\E w \in Workers : pc[w] = "staging") => Entries = ToSet(Lines(path.archive))
    /\ path.staged # 0 /\ (\A w \in Workers : pc[w] # "staging") => Entries = ToSet(disk[path.staged])
BY DEF Entries, Staged, Lines

LEMMA EntriesBecome ==
    /\ path'.staged = 0 => Entries' = ToSet(Lines(path.archive)')
    /\ (\E w \in Workers : pc'[w] = "staging") => Entries' = ToSet(Lines(path.archive)')
    /\ path'.staged # 0 /\ (\A w \in Workers : pc'[w] # "staging") => Entries' = ToSet(disk'[path'.staged])
BY DEF Entries, Staged, Lines

InTurns == ArchiveInv /\ manner = "turns"

LEMMA InTurnsGives ==
    ASSUME InTurns
    PROVE  Shape /\ OneRemoval /\ OneCall /\ Names /\ Opened /\ Held /\ Exact /\ manner = "turns"
BY DEF InTurns, ArchiveInv

LEMMA AddChangesSet ==
    ASSUME InTurns, NEW w \in Workers,
           AddWrite(w) \/ \E v \in Ids : AddOpen(w, v)
    PROVE  Set!Next \/ UNCHANGED Entries
<1>0. Shape /\ OneRemoval /\ OneCall /\ Names /\ Opened /\ Held /\ Exact /\ manner = "turns"
  BY InTurnsGives
<1>1. ASSUME NEW v \in Ids, AddOpen(w, v) PROVE UNCHANGED Entries
  <2>1. \A u \in Workers : pc[u] = "idle"
    BY <1>0, <1>1 DEF AddOpen, MayAdd, Busy
  <2>2. path.staged = 0 /\ Entries = ToSet(Lines(path.archive))
    BY <1>0, <1>1, <2>1, EntriesAre DEF AddOpen, MayAdd, Leftover, Removing, RemovePcs
  <2>3. CASE path.archive # 0
    <3>1. path'.archive = path.archive /\ path'.staged = 0 /\ disk' = disk
      BY <1>0, <1>1, <2>2, <2>3 DEF AddOpen, Shape
    <3>2. QED
      BY <2>2, <3>1, EntriesBecome DEF Lines
  <2>4. CASE path.archive = 0
    <3>1. path'.archive = Free /\ path'.staged = 0 /\ disk' = [disk EXCEPT ![Free] = <<>>]
      BY <1>0, <1>1, <2>2, <2>4 DEF AddOpen, Shape
    <3>2. disk'[Free] = <<>> /\ Free # 0
      BY <1>0, <3>1, FreeIsUnused, ArchiveAssumption DEF Shape
    <3>3. Lines(path.archive)' = <<>> /\ Lines(path.archive) = <<>>
      BY <2>4, <3>1, <3>2 DEF Lines
    <3>4. QED
      BY <2>2, <3>1, <3>3, EntriesBecome
  <2>5. QED
    BY <2>3, <2>4
<1>2. ASSUME AddWrite(w) PROVE Set!Add(goal[w]) /\ goal[w] \in Ids
  <2>1. /\ pc[w] = "append" /\ path' = path /\ path.staged = 0
        /\ fd[w] = path.archive /\ fd[w] \in Inodes /\ fd[w] # 0
        /\ disk' = [disk EXCEPT ![fd[w]] = Append(@, goal[w])]
    BY <1>0, <1>2 DEF AddWrite, Opened, Shape
  <2>2. disk[fd[w]] \in Seq(Ids) /\ goal[w] \in Ids /\ disk'[fd[w]] = Append(disk[fd[w]], goal[w])
    BY <1>0, <2>1 DEF Shape
  <2>3. ToSet(Append(disk[fd[w]], goal[w])) = ToSet(disk[fd[w]]) \cup {goal[w]}
    BY <2>2, AppendAddsOne
  <2>4. Entries = ToSet(disk[fd[w]]) /\ Entries' = ToSet(disk'[fd[w]])
    BY <2>1, EntriesAre, EntriesBecome DEF Lines
  <2>5. QED
    BY <2>2, <2>3, <2>4 DEF Set!Add
<1>3. QED
  BY <1>1, <1>2 DEF Set!Next

LEMMA RemovalChangesSet ==
    ASSUME InTurns, NEW w \in Workers,
           \/ \E v \in Ids : RemoveRead(w, v)
           \/ StageOpen(w) \/ StageWrite(w) \/ RewriteOpen(w) \/ RewriteWrite(w) \/ Unlink(w)
    PROVE  Set!Next \/ UNCHANGED Entries
<1>0. Shape /\ OneRemoval /\ OneCall /\ Names /\ Opened /\ Held /\ Exact /\ manner = "turns"
  BY InTurnsGives
<1>1. ASSUME NEW v \in Ids, RemoveRead(w, v) PROVE UNCHANGED Entries
  <2>1. \A u \in Workers : pc[u] = "idle"
    BY <1>0, <1>1 DEF RemoveRead, MayRemove, MayAdd, Busy
  <2>2. path.staged = 0 /\ path' = path /\ disk' = disk
    BY <1>0, <1>1, <2>1 DEF RemoveRead, MayRemove, MayAdd, Leftover, Removing, RemovePcs
  <2>3. QED
    BY <2>2, EntriesAre, EntriesBecome DEF Lines
<1>2. ASSUME pc[w] \in RemovePcs
      PROVE  /\ path.archive # 0 /\ path.archive \in Inodes
             /\ \A u \in Workers : u # w => pc[u] = "idle"
  BY <1>0, <1>2, OthersAdd DEF Names, Shape
<1>3. ASSUME StageOpen(w) PROVE UNCHANGED Entries
  <2>1. pc[w] = "stage" /\ path.staged = 0
    BY <1>0, <1>3 DEF StageOpen, Names
  <2>2. /\ path' = [path EXCEPT !["staged"] = Free] /\ disk' = [disk EXCEPT ![Free] = <<>>]
        /\ pc' = [pc EXCEPT ![w] = "staging"]
    BY <1>3, <2>1 DEF StageOpen, OpenW, Goto
  <2>3. /\ path'.archive = path.archive /\ pc'[w] = "staging"
        /\ disk'[path.archive] = disk[path.archive]
    BY <1>0, <1>2, <2>1, <2>2, FreeIsUnused DEF Shape, RemovePcs
  <2>4. path.archive # 0
    BY <1>2, <2>1 DEF RemovePcs
  <2>5. QED
    BY <2>1, <2>3, <2>4, EntriesAre, EntriesBecome DEF Lines
<1>4. ASSUME StageWrite(w) PROVE Set!Remove(goal[w]) /\ goal[w] \in Ids
  <2>1. /\ pc[w] = "staging" /\ path' = path /\ pc' = [pc EXCEPT ![w] = "open"]
        /\ disk' = [disk EXCEPT ![fd[w]] = Overwrite(@, kept[w])]
        /\ fd[w] = path.staged /\ path.staged # 0 /\ path.staged \in Inodes
        /\ disk[path.staged] = <<>>
    BY <1>0, <1>4 DEF StageWrite, Goto, Opened, Names, Exact, Shape, RemovePcs
  <2>2. disk'[path.staged] = kept[w] /\ ToSet(kept[w]) = ToSet(disk[path.archive]) \ {goal[w]}
        /\ goal[w] \in Ids
    <3>1. fd[w] \in Inodes => (disk[fd[w]] = <<>> => disk'[fd[w]] = kept[w])
      BY <1>0, <2>1, WriteBrings
    <3>2. QED
      BY <1>0, <2>1, <3>1 DEF Exact, Shape
  <2>3. path.archive # 0 /\ \A u \in Workers : pc'[u] # "staging"
    BY <1>0, <1>2, <2>1 DEF Shape, RemovePcs
  <2>4. Entries = ToSet(disk[path.archive]) /\ Entries' = ToSet(disk'[path.staged])
    BY <2>1, <2>3, EntriesAre, EntriesBecome DEF Lines
  <2>5. QED
    BY <2>2, <2>4 DEF Set!Remove
<1>5. ASSUME RewriteOpen(w) \/ RewriteWrite(w) PROVE UNCHANGED Entries
  <2>1. pc[w] \in {"open", "rewriting"} /\ path.staged # 0 /\ path.staged \in Inodes
        /\ path.archive # path.staged /\ path.archive # 0
    BY <1>0, <1>5 DEF RewriteOpen, RewriteWrite, Names, Shape, RemovePcs
  <2>2. \A u \in Workers : pc[u] # "staging" /\ pc'[u] # "staging"
    <3>1. \A u \in Workers : pc[u] # "staging"
      BY <1>2, <2>1 DEF RemovePcs
    <3>2. \E l \in {"rewriting", "unlink"} : pc' = [pc EXCEPT ![w] = l]
      BY <1>5 DEF RewriteOpen, RewriteWrite, Goto
    <3>3. QED
      BY <1>0, <3>1, <3>2 DEF Shape
  <2>3. path'.staged = path.staged /\ disk'[path.staged] = disk[path.staged]
    <3>1. CASE RewriteOpen(w)
      <4>1. /\ path' = [path EXCEPT !["archive"] = path.archive]
            /\ disk' = [disk EXCEPT ![path.archive] = <<>>]
        BY <2>1, <3>1 DEF RewriteOpen, OpenW
      <4>2. QED
        BY <1>0, <2>1, <4>1 DEF Shape
    <3>2. CASE RewriteWrite(w)
      <4>1. /\ path' = path /\ fd[w] = path.archive
            /\ disk' = [disk EXCEPT ![fd[w]] = Overwrite(@, kept[w])]
        BY <1>0, <3>2 DEF RewriteWrite, Opened
      <4>2. QED
        BY <1>0, <2>1, <4>1 DEF Shape
    <3>3. QED
      BY <1>5, <3>1, <3>2
  <2>4. QED
    BY <2>1, <2>2, <2>3, EntriesAre, EntriesBecome
<1>6. ASSUME Unlink(w) PROVE UNCHANGED Entries
  <2>1. /\ pc[w] = "unlink" /\ disk' = disk /\ path' = [path EXCEPT !.staged = 0]
        /\ path.staged # 0 /\ path.archive # 0
        /\ ToSet(disk[path.staged]) = ToSet(disk[path.archive])
    BY <1>0, <1>6 DEF Unlink, Names, Exact, RemovePcs
  <2>2. path'.staged = 0 /\ path'.archive = path.archive
    BY <1>0, <2>1 DEF Shape
  <2>3. \A u \in Workers : pc[u] # "staging"
    BY <1>2, <2>1 DEF RemovePcs
  <2>4. QED
    BY <2>1, <2>2, <2>3, EntriesAre, EntriesBecome DEF Lines
<1>7. QED
  BY <1>1, <1>3, <1>4, <1>5, <1>6 DEF Set!Next

LEMMA ProcessesLeaveSet ==
    ASSUME ~TornStaging, InTurns, NEW p \in Processes, Construct(p) \/ Die(p)
    PROVE  UNCHANGED Entries
<1>0. Shape /\ OneRemoval /\ OneCall /\ Names /\ Opened /\ Held /\ Exact /\ manner = "turns"
  BY InTurnsGives
<1>1. CASE Construct(p)
  <2>1. /\ \A w \in Workers : pc[w] # "staging" /\ pc'[w] # "staging"
        /\ disk' = disk
        /\ path' = IF path.staged # 0 THEN [archive |-> path.staged, staged |-> 0] ELSE path
    BY <1>0, <1>1 DEF Construct, MayConstruct, Removing, RemovePcs, workerVars
  <2>2. path'.staged = 0 /\ path'.archive = IF path.staged # 0 THEN path.staged ELSE path.archive
    BY <1>0, <2>1 DEF Shape
  <2>3. QED
    BY <2>1, <2>2, EntriesAre, EntriesBecome DEF Lines
<1>2. CASE Die(p)
  <2>1. /\ path' = path /\ disk' = disk
        /\ \A w \in Workers : Process[w] = p => pc[w] # "staging"
        /\ pc' = [w \in Workers |-> IF Process[w] = p THEN "idle" ELSE pc[w]]
    BY <1>2 DEF Die
  <2>2. (\E w \in Workers : pc[w] = "staging") <=> (\E w \in Workers : pc'[w] = "staging")
    BY <2>1
  <2>3. QED
    BY <2>1, <2>2, EntriesAre, EntriesBecome DEF Lines
<1>3. QED
  BY <1>1, <1>2

\* In turns the archive is a set that each call changes at once, whatever
\* dies between two steps of a removal.
THEOREM ArchiveIsASet ==
    ASSUME ~TornStaging PROVE Spec => ImplementsSet
<1>1. Init => Set!Init
  <2>1. SUFFICES ASSUME Init PROVE Entries = {}
    BY DEF Set!Init
  <2>2. path.staged = 0 /\ path.archive = 0
    BY <2>1 DEF Init
  <2>3. QED
    BY <2>2, EntriesAre DEF Lines, ToSet
<1>2. ASSUME ArchiveInv, Next, manner = "turns" PROVE Set!Next \/ UNCHANGED Entries
  <2>1. InTurns
    BY <1>2 DEF InTurns
  <2>2. ASSUME NEW w \in Workers, AddWrite(w) \/ \E v \in Ids : AddOpen(w, v)
        PROVE  Set!Next \/ UNCHANGED Entries
    BY <2>1, <2>2, AddChangesSet
  <2>3. ASSUME NEW w \in Workers,
               \/ \E v \in Ids : RemoveRead(w, v)
               \/ StageOpen(w) \/ StageWrite(w) \/ RewriteOpen(w) \/ RewriteWrite(w) \/ Unlink(w)
        PROVE  Set!Next \/ UNCHANGED Entries
    BY <2>1, <2>3, RemovalChangesSet
  <2>4. ASSUME NEW p \in Processes, Construct(p) \/ Die(p)
        PROVE  Set!Next \/ UNCHANGED Entries
    BY <2>1, <2>4, ProcessesLeaveSet
  <2>5. QED
    BY <1>2, <2>2, <2>3, <2>4 DEF Next
<1>3. ArchiveInv /\ [Next]_vars => [manner = "turns" => Set!Next \/ UNCHANGED Entries]_vars
  BY <1>2
<1>4. QED
  BY <1>1, <1>3, ArchiveInvariant, PTL DEF Spec, ImplementsSet
=============================================================================
