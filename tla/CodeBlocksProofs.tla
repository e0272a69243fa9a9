--------------------------- MODULE CodeBlocksProofs ---------------------------
(***************************************************************************)
(* The safety of CodeBlocks for any number of blocks, chunks, pages and    *)
(* cells: what each nested call leaves of the lists, the chunks and the    *)
(* functions, and the inductive invariant of exec_recompiler.              *)
(***************************************************************************)
EXTENDS CodeBlocks, SequenceTheorems, FiniteSetTheorems, NaturalsInduction, WellFoundedInduction, TLAPS

(* What the nested calls keep: of a record s that k may be, with the pages h and *)
(* the masks m of the blocks                                                     *)

Records ==
    [free : SUBSET Blocks, aged : Seq(Blocks),
     list : [Pages -> Seq(Blocks)], list2 : [Pages -> Seq(Blocks)],
     head : [Blocks -> Chunks \cup {None}], owner : [Chunks -> Blocks \cup {None}],
     fn : SUBSET Blocks, map : [Mappings -> {"none", "direct", "tracked"}]]

\* No block is in l twice.
Once(l) == \A i, j \in DOMAIN l : l[i] = l[j] => i = j

Listed(s, h) == {b \in Blocks : b \in ToSet(s.list[h[b]])}
Listed2(s, h) == {b \in Blocks : h[b] + 1 \in Pages /\ b \in ToSet(s.list2[h[b] + 1])}

\* A page that has a block in its list has no direct entry for its own mapping.
Shape(s, h) ==
    /\ s \in Records
    /\ Once(s.aged)
    /\ \A p \in Pages : Once(s.list[p]) /\ \A b \in ToSet(s.list[p]) : h[b] = p
    /\ \A p \in Pages : Once(s.list2[p]) /\ \A b \in ToSet(s.list2[p]) : h[b] + 1 = p
    /\ \A p \in Pages : s.map[p] = "direct" => s.list[p] = <<>>

\* Each block is in one place; those of made are in none of the lists.
Parted(s, h, made) ==
    \A b \in Blocks :
        /\ b \in Listed(s, h) <=> b \notin s.free /\ b \notin ToSet(s.aged) /\ b \notin made
        /\ ~(b \in s.free /\ b \in ToSet(s.aged))
        /\ ~(b \in made /\ (b \in s.free \/ b \in ToSet(s.aged)))

\* A chunk in use is its block's, but for those of lost.
Owned(s, lost) ==
    /\ \A b \in Blocks : s.head[b] # None => s.owner[s.head[b]] = b
    /\ \A c \in Chunks : s.owner[c] # None => c \in lost \/ s.head[s.owner[c]] = c

\* The dirty list is short, and its blocks are of no use but for cur.
Useless(s, cur) ==
    /\ Len(s.aged) <= DirtyMax
    /\ \A b \in ToSet(s.aged) : b \notin s.fn /\ (s.head[b] # None => b = cur)

\* The lists are those of the masks, and a listed block that is compiled can be called.
Placed(s, h, m, compiled, cur) ==
    /\ Listed2(s, h) \subseteq Listed(s, h)
    /\ \A b \in Listed(s, h) \ {cur} :
        /\ m[b] \cap Of(h[b]) # {}
        /\ m[b] \cap Of(h[b] + 1) # {} => b \in Listed2(s, h)
        /\ b \in compiled => b \in s.fn

Good(s, h, m, made, cur, lost, compiled) ==
    /\ Shape(s, h) /\ Parted(s, h, made)
    /\ Owned(s, lost) /\ Useless(s, cur) /\ Placed(s, h, m, compiled, cur)

\* A block's masks are those of its page and the next.
Masks(h, m) ==
    /\ h \in [Blocks -> Pages] /\ m \in [Blocks -> SUBSET Cells]
    /\ \A b \in Blocks : m[b] \subseteq Of(h[b]) \cup Of(h[b] + 1)

(* The inductive invariant *)

Made == IF at = "mark" THEN {current} ELSE {}
Cur == IF at = "record" THEN current ELSE None

\* What exec_recompiler knows at each of its places.
Places ==
    /\ at = "looked" /\ found # None => found \notin k.free /\ home[found] = here
    /\ at = "looked" /\ found \in code =>
            found \in Listed(k, home) /\ (found \in stale => found \in missed)
    /\ at \in {"get", "allocate"} => k.map[here] # "direct"
    /\ at \in {"mark", "allocate", "record"} => current \in Blocks \ k.free /\ home[current] = here
    /\ at = "mark" => mask[current] = {} /\ current \notin code
    /\ at \in {"mark", "record"} => recomp = here
    /\ at = "record" => current \in code
    /\ at = "record" /\ mask[current] # {} => mask[current] \cap Of(here) # {}
    /\ \A p \in Pages : recomp = p => k.map[p] # "direct"

\* A block that is compiled and was written over since is dirty, or is to be translated
\* again before it is run, or the write went round the masks.
Fresh ==
    /\ code \cap k.free = {}
    /\ \A b \in code : b \in stale /\ (b \in ToSet(k.aged) => b = Cur) =>
            b \in missed \/ mask[b] \cap dirty # {}

IInv ==
    /\ TypeOK
    /\ Good(k, home, mask, Made, Cur, leaked, code) /\ Masks(home, mask)
    /\ Places /\ Fresh

----------------------------------------------------------------------------
(* Lists *)

\* What the constants are.
LEMMA Consts ==
    /\ None \notin Blocks /\ None \notin Chunks /\ None \notin Pages /\ None \notin Mappings
    /\ Pages \subseteq Nat \ {0} /\ Pages \subseteq Mappings
    /\ DirtyMax \in Nat \ {0}
    /\ \A p : Of(p) \subseteq Cells
    /\ \A p, q : p # q => Of(p) \cap Of(q) = {}
    /\ \A p : Of(p) # {} => p \in Pages
<1>1. Pages \subseteq Nat \ {0}
  <2>1. Cardinality(Pages) \in Nat
    BY CodeBlocksAssumption, FS_CardinalityType
  <2>2. Pages = 1 .. Cardinality(Pages)
    BY CodeBlocksAssumption
  <2> QED BY <2>1, <2>2
<1>2. \A p : Of(p) # {} => p \in Pages
  BY CodeBlocksAssumption DEF Of
<1>3. /\ None \notin Blocks /\ None \notin Chunks /\ None \notin Pages /\ None \notin Mappings
      /\ DirtyMax \in Nat \ {0} /\ Pages \subseteq Mappings
  BY CodeBlocksAssumption DEF Mappings
<1>4. \A p : Of(p) \subseteq Cells
  BY DEF Of
<1>5. \A p, q : p # q => Of(p) \cap Of(q) = {}
  BY DEF Of
<1> QED BY <1>1, <1>2, <1>3, <1>4, <1>5

\* The first occurrence of a block is taken out: of a list that has it once, the block.
LEMMA RemoveFirstIs ==
    ASSUME NEW S, NEW l \in Seq(S), Once(l), NEW b \in ToSet(l)
    PROVE  /\ RemoveFirst(l, b) \in Seq(S) /\ Once(RemoveFirst(l, b))
           /\ ToSet(RemoveFirst(l, b)) = ToSet(l) \ {b}
           /\ Len(RemoveFirst(l, b)) = Len(l) - 1
<1>1. PICK n \in Nat : n = Len(l) /\ DOMAIN l = 1 .. n
  BY LenProperties
<1>2. PICK i \in 1 .. n : l[i] = b
  BY <1>1 DEF ToSet
<1>3. \A j \in 1 .. n : l[j] = b => j = i
  BY <1>1, <1>2 DEF Once
<1>4. SelectInSeq(l, LAMBDA v : v = b) = i
  <2> DEFINE I == {j \in 1 .. Len(l) : l[j] = b}
  <2>1. I = {i}
    BY <1>1, <1>2, <1>3
  <2>2. Min(I) = i
    BY <2>1, <1>2 DEF Min
  <2>3. SelectInSeq(l, LAMBDA v : v = b) = IF I # {} THEN Min(I) ELSE 0
    BY DEF SelectInSeq
  <2> HIDE DEF I
  <2> QED BY <2>1, <2>2, <2>3
<1>5. RemoveFirst(l, b) = SubSeq(l, 1, i - 1) \o SubSeq(l, i + 1, n)
  BY <1>1, <1>2, <1>4 DEF RemoveFirst, RemoveAt
<1>6. PICK u : u = SubSeq(l, 1, i - 1)
  OBVIOUS
<1>7. PICK v : v = SubSeq(l, i + 1, n)
  OBVIOUS
<1>8. u \in Seq(S) /\ Len(u) = i - 1 /\ \A j \in 1 .. i - 1 : u[j] = l[j]
  BY <1>1, <1>2, <1>6, SubSeqProperties
<1>9. v \in Seq(S) /\ Len(v) = n - i /\ \A j \in 1 .. n - i : v[j] = l[j + i]
  BY <1>1, <1>2, <1>7, SubSeqProperties
<1>10. PICK w : w = RemoveFirst(l, b)
  OBVIOUS
<1>11. /\ w \in Seq(S) /\ Len(w) = n - 1
       /\ \A j \in 1 .. n - 1 : w[j] = IF j < i THEN l[j] ELSE l[j + 1]
  <2>1. w = u \o v
    BY <1>5, <1>6, <1>7, <1>10
  <2>2. /\ w \in Seq(S) /\ Len(w) = (i - 1) + (n - i)
        /\ \A j \in 1 .. (i - 1) + (n - i) : w[j] = IF j <= i - 1 THEN u[j] ELSE v[j - (i - 1)]
    <3>1. /\ w \in Seq(S) /\ Len(w) = Len(u) + Len(v)
          /\ \A j \in 1 .. Len(u) + Len(v) : w[j] = IF j <= Len(u) THEN u[j] ELSE v[j - Len(u)]
      BY <2>1, <1>8, <1>9, ConcatProperties
    <3>2. Len(u) = i - 1 /\ Len(v) = n - i
      BY <1>8, <1>9
    <3> QED BY ONLY <3>1, <3>2
  <2>3. ASSUME NEW j \in 1 .. n - 1 PROVE w[j] = IF j < i THEN l[j] ELSE l[j + 1]
    <3>1. CASE j < i
      BY <3>1, <2>2, <1>8, <1>1, <1>2
    <3>2. CASE ~(j < i)
      <4>1. j - (i - 1) \in 1 .. n - i /\ (j - (i - 1)) + i = j + 1
        BY <3>2, <1>1, <1>2
      <4>2. w[j] = v[j - (i - 1)]
        BY <3>2, <2>2, <1>1, <1>2
      <4> QED BY <4>1, <4>2, <3>2, <1>9
    <3> QED BY <3>1, <3>2
  <2> QED BY <2>2, <2>3, <1>1, <1>2
<1>12. DOMAIN w = 1 .. n - 1
  BY <1>11, LenProperties
<1>13. Once(w)
  <2> DEFINE At(j) == IF j < i THEN j ELSE j + 1
  <2>1. \A j \in 1 .. n - 1 : At(j) \in 1 .. n /\ w[j] = l[At(j)]
    BY <1>1, <1>2, <1>11
  <2>2. \A j, m \in 1 .. n - 1 : At(j) = At(m) => j = m
    BY <1>1, <1>2
  <2>3. \A j, m \in 1 .. n : l[j] = l[m] => j = m
    BY <1>1 DEF Once
  <2> HIDE DEF At
  <2> QED BY <2>1, <2>2, <2>3, <1>12 DEF Once
<1>14. ToSet(w) \subseteq ToSet(l) \ {b}
  BY <1>1, <1>2, <1>3, <1>11, <1>12 DEF ToSet
<1>15. ASSUME NEW x \in ToSet(l) \ {b} PROVE x \in ToSet(w)
  <2>1. PICK j \in 1 .. n : l[j] = x /\ j # i
    BY <1>1, <1>2, <1>15 DEF ToSet
  <2>2. CASE j < i
    <3>1. j \in 1 .. n - 1 /\ w[j] = x
      BY <2>1, <2>2, <1>1, <1>2, <1>11
    <3> QED BY <3>1, <1>12 DEF ToSet
  <2>3. CASE i < j
    <3>1. j - 1 \in 1 .. n - 1 /\ w[j - 1] = x
      BY <2>1, <2>3, <1>1, <1>2, <1>11
    <3> QED BY <3>1, <1>12 DEF ToSet
  <2> QED BY <2>1, <2>2, <2>3
<1> QED BY <1>1, <1>10, <1>11, <1>13, <1>14, <1>15

\* A new head.
LEMMA ConsIs ==
    ASSUME NEW S, NEW l \in Seq(S), NEW b \in S
    PROVE  /\ <<b>> \o l \in Seq(S) /\ ToSet(<<b>> \o l) = ToSet(l) \cup {b}
           /\ Len(<<b>> \o l) = Len(l) + 1 /\ Last(<<b>> \o l) = IF l = <<>> THEN b ELSE Last(l)
           /\ Once(l) /\ b \notin ToSet(l) => Once(<<b>> \o l)
<1>1. PICK n \in Nat : n = Len(l) /\ DOMAIN l = 1 .. n
  BY LenProperties
<1>2. PICK w : w = <<b>> \o l
  OBVIOUS
<1>3. /\ w \in Seq(S) /\ Len(w) = n + 1
      /\ \A j \in 1 .. n + 1 : w[j] = IF j = 1 THEN b ELSE l[j - 1]
  <2>1. <<b>> \in Seq(S) /\ Len(<<b>>) = 1 /\ <<b>>[1] = b
    OBVIOUS
  <2> QED BY <2>1, <1>1, <1>2, ConcatProperties
<1>4. DOMAIN w = 1 .. n + 1
  BY <1>3, LenProperties
<1>5. ToSet(w) \subseteq ToSet(l) \cup {b}
  BY <1>1, <1>3, <1>4 DEF ToSet
<1>6. b \in ToSet(w)
  BY <1>1, <1>3, <1>4 DEF ToSet
<1>7. ASSUME NEW x \in ToSet(l) PROVE x \in ToSet(w)
  <2>1. PICK j \in 1 .. n : l[j] = x
    BY <1>1 DEF ToSet
  <2>2. j + 1 \in 1 .. n + 1 /\ w[j + 1] = x
    BY <2>1, <1>1, <1>3
  <2> QED BY <2>2, <1>4 DEF ToSet
<1>8. ASSUME Once(l), b \notin ToSet(l) PROVE Once(w)
  <2>1. \A i \in 1 .. n : l[i] # b
    BY <1>1, <1>8 DEF ToSet
  <2>2. \A i, j \in 1 .. n : l[i] = l[j] => i = j
    BY <1>1, <1>8 DEF Once
  <2>3. ASSUME NEW i \in 1 .. n + 1, NEW j \in 1 .. n + 1, w[i] = w[j] PROVE i = j
    <3>1. CASE i = 1 \/ j = 1
      BY <3>1, <2>1, <2>3, <1>1, <1>3
    <3>2. CASE i # 1 /\ j # 1
      <4>1. i - 1 \in 1 .. n /\ j - 1 \in 1 .. n /\ l[i - 1] = l[j - 1]
        BY <3>2, <2>3, <1>1, <1>3
      <4>2. i - 1 = j - 1
        BY <4>1, <2>2
      <4> QED BY <4>2
    <3> QED BY <3>1, <3>2
  <2> QED BY <2>3, <1>4 DEF Once
<1>9. Last(w) = IF l = <<>> THEN b ELSE Last(l)
  <2>1. CASE l = <<>>
    BY <2>1, <1>1, <1>3 DEF Last
  <2>2. CASE l # <<>>
    <3>1. n # 0
      BY <1>1, <2>2, EmptySeq
    <3> QED BY <3>1, <2>2, <1>1, <1>3 DEF Last
  <2> QED BY <2>1, <2>2
<1> QED BY <1>1, <1>2, <1>3, <1>5, <1>6, <1>7, <1>8, <1>9

\* All but the last.
LEMMA FrontIs ==
    ASSUME NEW S, NEW l \in Seq(S), l # <<>>, Once(l)
    PROVE  /\ Front(l) \in Seq(S) /\ Once(Front(l)) /\ Last(l) \in ToSet(l)
           /\ ToSet(Front(l)) = ToSet(l) \ {Last(l)} /\ Len(Front(l)) = Len(l) - 1
<1>1. PICK n \in Nat : n = Len(l) /\ DOMAIN l = 1 .. n
  BY LenProperties
<1>2. n # 0
  BY <1>1, EmptySeq
<1>3. PICK w : w = Front(l)
  OBVIOUS
<1>4. w \in Seq(S) /\ Len(w) = n - 1 /\ \A j \in 1 .. n - 1 : w[j] = l[j]
  BY <1>1, <1>2, <1>3, SubSeqProperties DEF Front
<1>5. DOMAIN w = 1 .. n - 1
  BY <1>4, LenProperties
<1>6. Last(l) = l[n] /\ n \in DOMAIN l
  BY <1>1, <1>2 DEF Last
<1>7. Once(w)
  BY <1>1, <1>4, <1>5 DEF Once
<1>8. ToSet(w) = ToSet(l) \ {Last(l)}
  <2>1. ToSet(w) \subseteq ToSet(l) \ {Last(l)}
    BY <1>1, <1>2, <1>4, <1>5, <1>6 DEF ToSet, Once
  <2>2. ASSUME NEW x \in ToSet(l) \ {Last(l)} PROVE x \in ToSet(w)
    <3>1. PICK j \in 1 .. n : l[j] = x
      BY <1>1 DEF ToSet
    <3>2. j # n
      BY <3>1, <1>6
    <3> QED BY <3>1, <3>2, <1>1, <1>4, <1>5 DEF ToSet
  <2> QED BY <2>1, <2>2
<1>9. Last(l) \in ToSet(l)
  BY <1>6 DEF ToSet
<1> QED BY <1>1, <1>3, <1>4, <1>7, <1>8, <1>9

\* A list without blocks is the empty one.
LEMMA EmptyIs ==
    ASSUME NEW S, NEW l \in Seq(S)
    PROVE  /\ l = <<>> <=> ToSet(l) = {}
           /\ \A x : Contains(l, x) <=> x \in ToSet(l)
           /\ ToSet(l) \subseteq S
<1>1. PICK n \in Nat : n = Len(l) /\ DOMAIN l = 1 .. n
  BY LenProperties
<1>2. l = <<>> <=> n = 0
  BY <1>1, EmptySeq
<1>3. l = <<>> <=> ToSet(l) = {}
  <2>1. CASE n = 0
    BY <2>1, <1>1, <1>2 DEF ToSet
  <2>2. CASE n # 0
    <3>1. l[1] \in ToSet(l)
      BY <2>2, <1>1 DEF ToSet
    <3> QED BY <3>1, <2>2, <1>2
  <2> QED BY <2>1, <2>2
<1>4. \A x : Contains(l, x) <=> x \in ToSet(l)
  BY <1>1 DEF Contains, ToSet
<1>5. ToSet(l) \subseteq S
  BY <1>1, ElementOfSeq DEF ToSet
<1> QED BY <1>3, <1>4, <1>5

----------------------------------------------------------------------------
(* The nested calls *)

\* What a call that only changes the lists and the lookups keeps.
OnlyLists(u, s) ==
    /\ u.free = s.free /\ u.head = s.head /\ u.owner = s.owner /\ u.fn = s.fn
    /\ \A v \in Mappings : u.map[v] = "direct" => s.map[v] = "direct"

\* The fields of a record.
LEMMA Fields ==
    ASSUME NEW s \in Records
    PROVE  /\ s.free \subseteq Blocks /\ s.fn \subseteq Blocks
           /\ s.aged \in Seq(Blocks)
           /\ s.list \in [Pages -> Seq(Blocks)] /\ s.list2 \in [Pages -> Seq(Blocks)]
           /\ s.head \in [Blocks -> Chunks \cup {None}] /\ s.owner \in [Chunks -> Blocks \cup {None}]
           /\ s.map \in [Mappings -> {"none", "direct", "tracked"}]
BY DEF Records

\* A flush takes entries away, the one that is asked for among them.
LEMMA FlushWritesIs ==
    ASSUME NEW s \in Records, NEW p, NEW v
    PROVE  LET u == FlushWrites(s, p, v)
           IN  /\ u \in Records /\ OnlyLists(u, s)
               /\ u.aged = s.aged /\ u.list = s.list /\ u.list2 = s.list2
               /\ v \in Mappings => u.map[v] # "direct"
<1>1. PICK f : f = [w \in Mappings |->
          IF (s.map[w] = "direct" /\ w = v) \/ (s.map[w] = "tracked" /\ PageOf(w) = p)
          THEN "none" ELSE s.map[w]]
  OBVIOUS
<1>2. PICK u : u = [s EXCEPT !.map = f]
  OBVIOUS
<1>3. FlushWrites(s, p, v) = u
  BY <1>1, <1>2 DEF FlushWrites
<1>4. f \in [Mappings -> {"none", "direct", "tracked"}]
  BY <1>1, Fields
<1>5. /\ u \in Records /\ u.free = s.free /\ u.aged = s.aged /\ u.list = s.list
      /\ u.list2 = s.list2 /\ u.head = s.head /\ u.owner = s.owner /\ u.fn = s.fn /\ u.map = f
  BY <1>2, <1>4 DEF Records
<1>6. \A w \in Mappings : f[w] = "direct" => s.map[w] = "direct" /\ w # v
  BY <1>1
<1> QED BY <1>3, <1>5, <1>6 DEF OnlyLists

\* What Unlist's two halves make of the lists.
LEMMA UnlistFirstIs ==
    ASSUME NEW s, Shape(s, home), Masks(home, mask), NEW b \in Listed(s, home)
    PROVE  LET u == UnlistFirst(s, b)
           IN  /\ Shape(u, home) /\ OnlyLists(u, s) /\ u.aged = s.aged /\ u.list2 = s.list2
               /\ Listed(u, home) = Listed(s, home) \ {b}
<1>1. s \in Records /\ b \in Blocks
  BY DEF Shape, Listed
<1>2. PICK p \in Pages : p = home[b] /\ b \in ToSet(s.list[p])
  BY <1>1 DEF Masks, Listed
<1>3. PICK l : l = RemoveFirst(s.list[p], b)
  OBVIOUS
<1>4. s.list[p] \in Seq(Blocks) /\ Once(s.list[p])
  BY <1>1, Fields DEF Shape
<1>5. l \in Seq(Blocks) /\ Once(l) /\ ToSet(l) = ToSet(s.list[p]) \ {b}
  BY <1>2, <1>3, <1>4, RemoveFirstIs
<1>6. PICK f : f = [s.list EXCEPT ![p] = l]
  OBVIOUS
<1>7. /\ f \in [Pages -> Seq(Blocks)] /\ f[p] = l
      /\ \A q \in Pages \ {p} : f[q] = s.list[q]
  BY <1>1, <1>5, <1>6, Fields
<1>8. PICK t : t = [s EXCEPT !.list = f]
  OBVIOUS
<1>9. /\ t \in Records /\ t.free = s.free /\ t.aged = s.aged /\ t.list = f
      /\ t.list2 = s.list2 /\ t.head = s.head /\ t.owner = s.owner /\ t.fn = s.fn /\ t.map = s.map
  BY <1>1, <1>7, <1>8 DEF Records
<1>10. PICK u : u = UnlistFirst(s, b)
  OBVIOUS
<1>11. u = FlushIf(t.list[p] = <<>>, t, p, None)
  <2>1. t = [s EXCEPT !.list[p] = RemoveFirst(@, b)]
    BY <1>1, <1>3, <1>6, <1>8 DEF Records
  <2> QED BY <2>1, <1>2, <1>10 DEF UnlistFirst
<1>12. /\ u \in Records /\ OnlyLists(u, t)
       /\ u.aged = t.aged /\ u.list = t.list /\ u.list2 = t.list2
  BY <1>9, <1>11, FlushWritesIs DEF FlushIf, OnlyLists
<1>13. OnlyLists(u, s)
  BY <1>9, <1>12 DEF OnlyLists
<1>14. \A q \in Pages : Once(f[q]) /\ ToSet(f[q]) = ToSet(s.list[q]) \ {b}
  <2> SUFFICES ASSUME NEW q \in Pages PROVE Once(f[q]) /\ ToSet(f[q]) = ToSet(s.list[q]) \ {b}
    OBVIOUS
  <2>1. CASE q = p
    BY <2>1, <1>5, <1>7
  <2>2. CASE q # p
    <3>1. b \notin ToSet(s.list[q])
      BY <1>2, <2>2 DEF Shape
    <3> QED BY <2>2, <3>1, <1>7 DEF Shape
  <2> QED BY <2>1, <2>2
<1>15. Shape(u, home)
  <2>1. \A q \in Pages : u.map[q] = "direct" => u.list[q] = <<>>
    <3> SUFFICES ASSUME NEW q \in Pages, u.map[q] = "direct" PROVE u.list[q] = <<>>
      OBVIOUS
    <3>1. s.map[q] = "direct"
      BY <1>13, Consts DEF OnlyLists
    <3>2. s.list[q] = <<>>
      BY <3>1 DEF Shape
    <3>3. q # p
      <4>1. ToSet(s.list[q]) = {}
        BY <3>2, <1>1, Fields, EmptyIs
      <4> QED BY <4>1, <1>2
    <3> QED BY <3>2, <3>3, <1>7, <1>9, <1>12
  <2>2. \A q \in Pages : Once(u.list[q]) /\ \A x \in ToSet(u.list[q]) : home[x] = q
    BY <1>14, <1>9, <1>12 DEF Shape
  <2>3. \A q \in Pages : Once(u.list2[q]) /\ \A x \in ToSet(u.list2[q]) : home[x] + 1 = q
    BY <1>9, <1>12 DEF Shape
  <2>4. Once(u.aged)
    BY <1>9, <1>12 DEF Shape
  <2> QED BY <2>1, <2>2, <2>3, <2>4, <1>12 DEF Shape
<1>16. Listed(u, home) = Listed(s, home) \ {b}
  <2>1. \A x \in Blocks : home[x] \in Pages
    BY DEF Masks
  <2> QED BY <2>1, <1>14, <1>9, <1>12 DEF Listed
<1> QED BY <1>9, <1>10, <1>12, <1>13, <1>15, <1>16

\* The list of the next page has it if its second mask is not empty.
LEMMA UnlistSecondIs ==
    ASSUME NEW s, Shape(s, home), Masks(home, mask), NEW b \in Blocks
    PROVE  LET u == UnlistSecond(s, b)
           IN  /\ Shape(u, home) /\ OnlyLists(u, s) /\ u.aged = s.aged /\ u.list = s.list
               /\ Listed2(u, home) = Listed2(s, home) \ {b}
<1>1. s \in Records
  BY DEF Shape
<1>p. PICK p : p = home[b] + 1
  OBVIOUS
<1>c. p \in Pages => (Contains(s.list2[p], b) <=> b \in ToSet(s.list2[p]))
  BY <1>1, Fields, EmptyIs
<1>n. CASE b \notin Listed2(s, home)
  <2>1. UnlistSecond(s, b) = s
    BY <1>n, <1>p, <1>c DEF UnlistSecond, Listed2
  <2> QED BY <2>1, <1>n DEF OnlyLists
<1>y. CASE b \in Listed2(s, home)
  <2>2. p \in Pages /\ b \in ToSet(s.list2[p])
    BY <1>p, <1>y DEF Listed2
  <2>3. PICK l : l = RemoveFirst(s.list2[p], b)
    OBVIOUS
  <2>4. s.list2[p] \in Seq(Blocks) /\ Once(s.list2[p])
    BY <1>1, <2>2, Fields DEF Shape
  <2>5. l \in Seq(Blocks) /\ Once(l) /\ ToSet(l) = ToSet(s.list2[p]) \ {b}
    BY <2>2, <2>3, <2>4, RemoveFirstIs
  <2>6. PICK f : f = [s.list2 EXCEPT ![p] = l]
    OBVIOUS
  <2>7. /\ f \in [Pages -> Seq(Blocks)] /\ f[p] = l
        /\ \A q \in Pages \ {p} : f[q] = s.list2[q]
    BY <1>1, <2>2, <2>5, <2>6, Fields
  <2>8. PICK t : t = [s EXCEPT !.list2 = f]
    OBVIOUS
  <2>9. /\ t \in Records /\ t.free = s.free /\ t.aged = s.aged /\ t.list = s.list
        /\ t.list2 = f /\ t.head = s.head /\ t.owner = s.owner /\ t.fn = s.fn /\ t.map = s.map
    BY <1>1, <2>7, <2>8 DEF Records
  <2>10. PICK u : u = UnlistSecond(s, b)
    OBVIOUS
  <2>11. u = FlushIf(t.list2[p] = <<>>, t, p, None)
    <3>1. t = [s EXCEPT !.list2[p] = RemoveFirst(@, b)]
      BY <1>1, <2>2, <2>3, <2>6, <2>8 DEF Records
    <3> QED BY <3>1, <1>p, <1>c, <2>2, <2>10 DEF UnlistSecond
  <2>12. /\ u \in Records /\ OnlyLists(u, t)
         /\ u.aged = t.aged /\ u.list = t.list /\ u.list2 = t.list2
    BY <2>9, <2>11, FlushWritesIs DEF FlushIf, OnlyLists
  <2>13. OnlyLists(u, s)
    BY <2>9, <2>12 DEF OnlyLists
  <2>14. \A q \in Pages : Once(f[q]) /\ ToSet(f[q]) = ToSet(s.list2[q]) \ {b}
    <3> SUFFICES ASSUME NEW q \in Pages PROVE Once(f[q]) /\ ToSet(f[q]) = ToSet(s.list2[q]) \ {b}
      OBVIOUS
    <3>1. CASE q = p
      BY <3>1, <2>5, <2>7
    <3>2. CASE q # p
      <4>1. b \notin ToSet(s.list2[q])
        BY <1>p, <3>2 DEF Shape
      <4> QED BY <3>2, <4>1, <2>7 DEF Shape
    <3> QED BY <3>1, <3>2
  <2>15. Shape(u, home)
    <3>1. \A q \in Pages : u.map[q] = "direct" => u.list[q] = <<>>
      BY <2>9, <2>12, <2>13, Consts DEF Shape, OnlyLists
    <3>2. \A q \in Pages : Once(u.list[q]) /\ \A x \in ToSet(u.list[q]) : home[x] = q
      BY <2>9, <2>12 DEF Shape
    <3>3. \A q \in Pages : Once(u.list2[q]) /\ \A x \in ToSet(u.list2[q]) : home[x] + 1 = q
      BY <2>14, <2>9, <2>12 DEF Shape
    <3>4. Once(u.aged)
      BY <2>9, <2>12 DEF Shape
    <3> QED BY <3>1, <3>2, <3>3, <3>4, <2>12 DEF Shape
  <2>16. Listed2(u, home) = Listed2(s, home) \ {b}
    BY <2>14, <2>9, <2>12 DEF Listed2
  <2> QED BY <2>9, <2>10, <2>12, <2>13, <2>15, <2>16
<1> QED BY <1>n, <1>y

\* A block is taken out of the lists it is in.
LEMMA UnlistIs ==
    ASSUME NEW s, Shape(s, home), Masks(home, mask), NEW b \in Listed(s, home),
           mask[b] \cap Of(home[b]) # {}
    PROVE  LET u == Unlist(s, b)
           IN  /\ Shape(u, home) /\ OnlyLists(u, s) /\ u.aged = s.aged
               /\ Listed(u, home) = Listed(s, home) \ {b}
               /\ Listed2(u, home) = Listed2(s, home) \ {b}
<1>1. PICK t : t = UnlistFirst(s, b)
  OBVIOUS
<1>2. /\ Shape(t, home) /\ OnlyLists(t, s) /\ t.aged = s.aged /\ t.list2 = s.list2
      /\ Listed(t, home) = Listed(s, home) \ {b}
  BY <1>1, UnlistFirstIs
<1>3. PICK u : u = UnlistSecond(t, b)
  OBVIOUS
<1>b. b \in Blocks
  BY DEF Listed
<1>4. /\ Shape(u, home) /\ OnlyLists(u, t) /\ u.aged = t.aged /\ u.list = t.list
      /\ Listed2(u, home) = Listed2(t, home) \ {b}
  BY <1>2, <1>3, <1>b, UnlistSecondIs
<1>5. Unlist(s, b) = u
  BY <1>1, <1>3 DEF Unlist
<1>6. OnlyLists(u, s)
  BY <1>2, <1>4 DEF OnlyLists
<1>7. Listed2(t, home) = Listed2(s, home) /\ Listed(u, home) = Listed(t, home)
  BY <1>2, <1>4 DEF Listed, Listed2
<1> QED BY <1>2, <1>4, <1>5, <1>6, <1>7

\* A block that is not free is taken out of where it is, if that is a list.
LEMMA TakeOutIs ==
    ASSUME NEW s, Shape(s, home), Masks(home, mask), NEW b \in Blocks,
           Listed2(s, home) \subseteq Listed(s, home),
           b \in Listed(s, home) => mask[b] \cap Of(home[b]) # {} /\ b \notin ToSet(s.aged),
           b \notin Listed(s, home) /\ b \notin ToSet(s.aged) => mask[b] = {}
    PROVE  LET u == TakeOut(s, b)
           IN  /\ Shape(u, home) /\ OnlyLists(u, s)
               /\ ToSet(u.aged) = ToSet(s.aged) \ {b} /\ Len(u.aged) <= Len(s.aged)
               /\ Listed(u, home) = Listed(s, home) \ {b}
               /\ Listed2(u, home) = Listed2(s, home) \ {b}
<1>1. s \in Records /\ s.aged \in Seq(Blocks) /\ Once(s.aged) /\ Len(s.aged) \in Nat
  BY Fields DEF Shape
<1>2. Contains(s.aged, b) <=> b \in ToSet(s.aged)
  BY <1>1, EmptyIs
<1>3. CASE b \in ToSet(s.aged)
  <2>1. PICK l : l = RemoveFirst(s.aged, b)
    OBVIOUS
  <2>2. /\ l \in Seq(Blocks) /\ Once(l) /\ ToSet(l) = ToSet(s.aged) \ {b}
        /\ Len(l) = Len(s.aged) - 1
    BY <1>1, <1>3, <2>1, RemoveFirstIs
  <2>3. PICK u : u = [s EXCEPT !.aged = l]
    OBVIOUS
  <2>4. /\ u \in Records /\ u.free = s.free /\ u.aged = l /\ u.list = s.list
        /\ u.list2 = s.list2 /\ u.head = s.head /\ u.owner = s.owner /\ u.fn = s.fn /\ u.map = s.map
    BY <1>1, <2>2, <2>3 DEF Records
  <2>5. TakeOut(s, b) = u
    BY <1>1, <1>2, <1>3, <2>1, <2>3 DEF TakeOut
  <2>6. Shape(u, home)
    BY <2>2, <2>4 DEF Shape
  <2>7. Listed(u, home) = Listed(s, home) /\ Listed2(u, home) = Listed2(s, home)
    BY <2>4 DEF Listed, Listed2
  <2>8. OnlyLists(u, s)
    BY <2>4 DEF OnlyLists
  <2>9. b \notin Listed(s, home) /\ b \notin Listed2(s, home)
    BY <1>3
  <2> QED BY <1>1, <2>2, <2>4, <2>5, <2>6, <2>7, <2>8, <2>9
<1>4. CASE b \notin ToSet(s.aged) /\ b \in Listed(s, home)
  <2>1. TakeOut(s, b) = Unlist(s, b)
    BY <1>2, <1>4 DEF TakeOut
  <2> QED BY <2>1, <1>1, <1>4, UnlistIs
<1>5. CASE b \notin ToSet(s.aged) /\ b \notin Listed(s, home)
  <2>1. TakeOut(s, b) = s
    BY <1>2, <1>5 DEF TakeOut, Unlist
  <2>2. OnlyLists(s, s)
    BY DEF OnlyLists
  <2> QED BY <2>1, <2>2, <1>1, <1>5
<1> QED BY <1>3, <1>4, <1>5

\* A block gives up its chunk and its function.
LEMMA FreeCodeIs ==
    ASSUME NEW s \in Records, NEW b \in Blocks, NEW lost, Owned(s, lost)
    PROVE  LET u == FreeCode(s, b)
           IN  /\ u \in Records /\ Owned(u, lost)
               /\ u.free = s.free /\ u.aged = s.aged /\ u.list = s.list /\ u.list2 = s.list2
               /\ u.map = s.map /\ u.fn = s.fn \ {b} /\ u.head[b] = None
               /\ \A x \in Blocks \ {b} : u.head[x] = s.head[x]
<1>1. PICK o : o = [c \in Chunks |-> IF c = s.head[b] THEN None ELSE s.owner[c]]
  OBVIOUS
<1>2. PICK d : d = [s.head EXCEPT ![b] = None]
  OBVIOUS
<1>3. PICK u : u = [s EXCEPT !.owner = o, !.head = d, !.fn = s.fn \ {b}]
  OBVIOUS
<1>4. FreeCode(s, b) = u
  BY <1>1, <1>2, <1>3 DEF FreeCode, Records
<1>5. o \in [Chunks -> Blocks \cup {None}] /\ d \in [Blocks -> Chunks \cup {None}]
  BY <1>1, <1>2, Fields
<1>6. s.fn \ {b} \in SUBSET Blocks
  BY Fields
<1>7. /\ u \in Records /\ u.free = s.free /\ u.aged = s.aged /\ u.list = s.list
      /\ u.list2 = s.list2 /\ u.head = d /\ u.owner = o /\ u.fn = s.fn \ {b} /\ u.map = s.map
  BY <1>3, <1>5, <1>6 DEF Records
<1>8. d[b] = None /\ \A x \in Blocks \ {b} : d[x] = s.head[x]
  BY <1>2, Fields
<1>9. Owned(u, lost)
  <2>1. ASSUME NEW x \in Blocks, d[x] # None PROVE o[d[x]] = x
    <3>1. x # b /\ d[x] = s.head[x]
      BY <2>1, <1>8
    <3>2. d[x] \in Chunks /\ s.owner[d[x]] = x
      BY <2>1, <3>1, <1>5 DEF Owned
    <3>3. d[x] # s.head[b]
      BY <2>1, <3>1, <3>2 DEF Owned
    <3> QED BY <3>2, <3>3, <1>1
  <2>2. ASSUME NEW c \in Chunks, o[c] # None PROVE c \in lost \/ d[o[c]] = c
    <3>1. c # s.head[b] /\ o[c] = s.owner[c] /\ o[c] \in Blocks
      BY <2>2, <1>1, <1>5
    <3>2. c \in lost \/ s.head[o[c]] = c
      BY <3>1, <2>2 DEF Owned
    <3> QED BY <3>1, <3>2, <1>8
  <2> QED BY <2>1, <2>2, <1>7 DEF Owned
<1> QED BY <1>4, <1>7, <1>8, <1>9

\* A block goes onto the dirty list, from which at most one goes to the free list.
LEMMA AgeIs ==
    ASSUME NEW s \in Records, Once(s.aged), Len(s.aged) <= DirtyMax,
           NEW b \in Blocks, b \notin ToSet(s.aged), NEW w, w = Age(s, b)
    PROVE  /\ w \in Records /\ Once(w.aged) /\ Len(w.aged) <= DirtyMax
           /\ w.list = s.list /\ w.list2 = s.list2 /\ w.map = s.map
           /\ w.head = s.head /\ w.owner = s.owner
           /\ w.free = s.free \cup (ToSet(s.aged) \ ToSet(w.aged))
           /\ w.fn = s.fn \ (ToSet(s.aged) \ ToSet(w.aged))
           /\ b \in ToSet(w.aged) /\ ToSet(w.aged) \subseteq ToSet(s.aged) \cup {b}
<1>1. s.aged \in Seq(Blocks) /\ Len(s.aged) \in Nat /\ ToSet(s.aged) \subseteq Blocks
  BY Fields, EmptyIs
<1>2. PICK l : l = <<b>> \o s.aged
  OBVIOUS
<1>3. /\ l \in Seq(Blocks) /\ ToSet(l) = ToSet(s.aged) \cup {b} /\ Len(l) = Len(s.aged) + 1
      /\ Last(l) = (IF s.aged = <<>> THEN b ELSE Last(s.aged)) /\ Once(l)
  BY <1>1, <1>2, ConsIs
<1>4. PICK t : t = [s EXCEPT !.aged = l]
  OBVIOUS
<1>5. /\ t \in Records /\ t.free = s.free /\ t.aged = l /\ t.list = s.list
      /\ t.list2 = s.list2 /\ t.head = s.head /\ t.owner = s.owner /\ t.fn = s.fn /\ t.map = s.map
  BY <1>3, <1>4 DEF Records
<1>6. t = [s EXCEPT !.aged = <<b>> \o @]
  BY <1>2, <1>4 DEF Records
<1>7. CASE ~(Len(l) > DirtyMax)
  <2>1. Age(s, b) = t
    BY <1>5, <1>6, <1>7 DEF Age
  <2>2. Len(l) <= DirtyMax
    BY <1>1, <1>3, <1>7, Consts
  <2>3. ToSet(t.aged) = ToSet(s.aged) \cup {b}
    BY <1>3, <1>5
  <2> QED BY <1>3, <1>5, <2>1, <2>2, <2>3
<1>8. CASE Len(l) > DirtyMax
  <2>1. s.aged # <<>>
    <3>1. Len(s.aged) # 0
      BY <1>1, <1>3, <1>8, Consts
    <3> QED BY <3>1, EmptySeq
  <2>2. PICK x : x = Last(l)
    OBVIOUS
  <2>3. x \in ToSet(s.aged) /\ x \in Blocks
    BY <2>1, <2>2, <1>1, <1>3, FrontIs
  <2>4. PICK f : f = Front(l)
    OBVIOUS
  <2>5. l # <<>>
    BY <1>1, <1>3, EmptySeq
  <2>6. f \in Seq(Blocks) /\ Once(f) /\ ToSet(f) = ToSet(l) \ {x} /\ Len(f) = Len(l) - 1
    BY <2>2, <2>4, <2>5, <1>3, FrontIs
  <2>7. PICK v : v = [t EXCEPT !.aged = f]
    OBVIOUS
  <2>8. /\ v \in Records /\ v.free = s.free /\ v.aged = f /\ v.list = s.list
        /\ v.list2 = s.list2 /\ v.head = s.head /\ v.owner = s.owner /\ v.fn = s.fn /\ v.map = s.map
    BY <1>5, <2>6, <2>7 DEF Records
  <2>9. v = [t EXCEPT !.aged = Front(@)]
    BY <1>5, <2>4, <2>7 DEF Records
  <2>10. PICK u : u = [v EXCEPT !.fn = s.fn \ {x}, !.free = s.free \cup {x}]
    OBVIOUS
  <2>11. Age(s, b) = u
    <3>1. Age(s, b) = DeleteDirty(v, x)
      BY <1>5, <1>6, <1>8, <2>2, <2>9 DEF Age
    <3>2. DeleteDirty(v, x) = u
      BY <2>8, <2>10 DEF DeleteDirty, Records
    <3> QED BY <3>1, <3>2
  <2>12. s.fn \ {x} \in SUBSET Blocks /\ s.free \cup {x} \in SUBSET Blocks
    BY <2>3, Fields
  <2>13. /\ u \in Records /\ u.free = s.free \cup {x} /\ u.aged = f /\ u.list = s.list
         /\ u.list2 = s.list2 /\ u.head = s.head /\ u.owner = s.owner /\ u.fn = s.fn \ {x}
         /\ u.map = s.map
    BY <2>8, <2>10, <2>12 DEF Records
  <2>14. Len(f) <= DirtyMax
    BY <2>6, <1>1, <1>3, Consts
  <2>15. ToSet(u.aged) = (ToSet(s.aged) \cup {b}) \ {x}
    BY <2>6, <2>13, <1>3
  <2>16. ToSet(s.aged) \ ToSet(u.aged) = {x} /\ b \in ToSet(u.aged)
    BY <2>3, <2>15
  <2> QED BY <2>6, <2>11, <2>13, <2>14, <2>15, <2>16
<1> QED BY <1>7, <1>8

\* What a flush of a page makes of the lists: blocks leave them, none comes in.
Fewer(u, s, h) ==
    /\ s.free \subseteq u.free
    /\ s.free \cup ToSet(s.aged) \subseteq u.free \cup ToSet(u.aged)
    /\ Listed(u, h) \subseteq Listed(s, h)
    /\ \A v \in Mappings : u.map[v] = "direct" => s.map[v] = "direct"

\* A listed block is put on the dirty list.
LEMMA InvalidateIs ==
    ASSUME NEW s, NEW made, NEW lost, NEW compiled,
           Good(s, home, mask, made, None, lost, compiled), Masks(home, mask),
           NEW b \in Listed(s, home)
    PROVE  LET u == Invalidate(s, b)
           IN  /\ Good(u, home, mask, made, None, lost, compiled) /\ Fewer(u, s, home)
               /\ Listed(u, home) = Listed(s, home) \ {b}
               /\ Listed2(u, home) = Listed2(s, home) \ {b}
<1>1. /\ Shape(s, home) /\ s \in Records /\ b \in Blocks
      /\ Parted(s, home, made) /\ Owned(s, lost) /\ Useless(s, None)
      /\ Placed(s, home, mask, compiled, None)
  BY DEF Good, Shape, Listed
<1>2. b \notin ToSet(s.aged) /\ b \notin s.free /\ b \notin made /\ b # None
  BY <1>1, Consts DEF Parted
<1>3. mask[b] \cap Of(home[b]) # {}
  BY <1>1, <1>2 DEF Placed
<1>4. PICK s1 : s1 = Unlist(s, b)
  OBVIOUS
<1>5. /\ Shape(s1, home) /\ OnlyLists(s1, s) /\ s1.aged = s.aged /\ s1 \in Records
      /\ Listed(s1, home) = Listed(s, home) \ {b}
      /\ Listed2(s1, home) = Listed2(s, home) \ {b}
  BY <1>1, <1>3, <1>4, UnlistIs DEF Shape
<1>6. PICK s2 : s2 = Age(s1, b)
  OBVIOUS
<1>7. Once(s1.aged) /\ Len(s1.aged) <= DirtyMax /\ b \in Blocks /\ b \notin ToSet(s1.aged)
  BY <1>1, <1>2, <1>5 DEF Useless, Shape
<1>8. /\ s2 \in Records /\ Once(s2.aged) /\ Len(s2.aged) <= DirtyMax
      /\ s2.list = s1.list /\ s2.list2 = s1.list2 /\ s2.map = s1.map
      /\ s2.head = s1.head /\ s2.owner = s1.owner
      /\ s2.free = s1.free \cup (ToSet(s1.aged) \ ToSet(s2.aged))
      /\ s2.fn = s1.fn \ (ToSet(s1.aged) \ ToSet(s2.aged))
      /\ b \in ToSet(s2.aged) /\ ToSet(s2.aged) \subseteq ToSet(s1.aged) \cup {b}
  BY ONLY <1>5, <1>6, <1>7, AgeIs
<1>x. PICK X : X = ToSet(s1.aged) \ ToSet(s2.aged)
  OBVIOUS
<1>9. /\ s2.free = s1.free \cup X /\ s2.fn = s1.fn \ X
      /\ ToSet(s2.aged) = (ToSet(s1.aged) \cup {b}) \ X
  BY <1>8, <1>x, <1>7
<1>10. Owned(s2, lost)
  BY <1>1, <1>5, <1>8 DEF OnlyLists, Owned
<1>11. PICK u : u = FreeCode(s2, b)
  OBVIOUS
<1>12. /\ u \in Records /\ Owned(u, lost)
       /\ u.free = s2.free /\ u.aged = s2.aged /\ u.list = s2.list /\ u.list2 = s2.list2
       /\ u.map = s2.map /\ u.fn = s2.fn \ {b} /\ u.head[b] = None
       /\ \A x \in Blocks \ {b} : u.head[x] = s2.head[x]
  BY <1>1, <1>8, <1>10, <1>11, FreeCodeIs
<1>13. Invalidate(s, b) = u
  BY <1>4, <1>6, <1>11 DEF Invalidate
<1>14. X \subseteq ToSet(s.aged) /\ b \notin X
  BY <1>2, <1>5, <1>x
<1>15. /\ u.free = s.free \cup X /\ u.fn = s.fn \ (X \cup {b})
       /\ ToSet(u.aged) = (ToSet(s.aged) \cup {b}) \ X
       /\ \A x \in Blocks \ {b} : u.head[x] = s.head[x]
       /\ \A v \in Mappings : u.map[v] = "direct" => s.map[v] = "direct"
  BY <1>5, <1>8, <1>9, <1>12 DEF OnlyLists
<1>16. Shape(u, home)
  BY <1>5, <1>8, <1>12 DEF Shape
<1>17. /\ Listed(u, home) = Listed(s, home) \ {b}
       /\ Listed2(u, home) = Listed2(s, home) \ {b}
  <2>1. Listed(u, home) = Listed(s1, home) /\ Listed2(u, home) = Listed2(s1, home)
    BY <1>8, <1>12 DEF Listed, Listed2
  <2> QED BY <2>1, <1>5
<1>18. Parted(u, home, made)
  BY <1>1, <1>2, <1>14, <1>15, <1>17 DEF Parted
<1>19. Useless(u, None)
  BY <1>1, <1>8, <1>12, <1>15, EmptyIs, Fields DEF Useless
<1>20. Placed(u, home, mask, compiled, None)
  <2>1. \A x \in Listed(s, home) : x \in Blocks /\ x \notin X
    BY <1>1, <1>14 DEF Parted, Listed
  <2> QED BY <2>1, <1>1, <1>15, <1>17 DEF Placed
<1>21. Fewer(u, s, home)
  BY <1>14, <1>15, <1>17 DEF Fewer
<1> QED BY <1>12, <1>13, <1>16, <1>17, <1>18, <1>19, <1>20, <1>21 DEF Good

\* A block that is not free is deleted.
LEMMA DeleteIs ==
    ASSUME NEW s, NEW made, NEW cur, NEW lost, NEW compiled,
           Good(s, home, mask, made, cur, lost, compiled), Masks(home, mask),
           NEW b \in Blocks \ s.free, cur \in {None, b},
           b \in made => mask[b] = {},
           b = cur /\ b \in Listed(s, home) => mask[b] \cap Of(home[b]) # {}
    PROVE  LET u == Delete(s, b)
           IN  /\ Good(u, home, mask, made \ {b}, None, lost, compiled)
               /\ u.free = s.free \cup {b} /\ ToSet(u.aged) = ToSet(s.aged) \ {b}
               /\ Listed(u, home) = Listed(s, home) \ {b}
               /\ \A v \in Mappings : u.map[v] = "direct" => s.map[v] = "direct"
<1>1. /\ Shape(s, home) /\ s \in Records
      /\ Parted(s, home, made) /\ Owned(s, lost) /\ Useless(s, cur)
      /\ Placed(s, home, mask, compiled, cur)
  BY DEF Good, Shape
<1>2. b \in Listed(s, home) => mask[b] \cap Of(home[b]) # {} /\ b \notin ToSet(s.aged)
  BY <1>1 DEF Parted, Placed
<1>3. b \notin Listed(s, home) /\ b \notin ToSet(s.aged) => mask[b] = {}
  BY <1>1 DEF Parted
<1>4. Listed2(s, home) \subseteq Listed(s, home)
  BY <1>1 DEF Placed
<1>5. PICK t : t = TakeOut(s, b)
  OBVIOUS
<1>6. /\ Shape(t, home) /\ OnlyLists(t, s)
      /\ ToSet(t.aged) = ToSet(s.aged) \ {b} /\ Len(t.aged) <= Len(s.aged)
      /\ Listed(t, home) = Listed(s, home) \ {b}
      /\ Listed2(t, home) = Listed2(s, home) \ {b}
  BY ONLY <1>1, <1>2, <1>3, <1>4, <1>5, Masks(home, mask), b \in Blocks, TakeOutIs
<1>r. t \in Records
  BY <1>6 DEF Shape
<1>7. Owned(t, lost)
  BY <1>1, <1>6 DEF OnlyLists, Owned
<1>8. PICK w : w = FreeCode(t, b)
  OBVIOUS
<1>9. /\ w \in Records /\ Owned(w, lost)
      /\ w.free = t.free /\ w.aged = t.aged /\ w.list = t.list /\ w.list2 = t.list2
      /\ w.map = t.map /\ w.fn = t.fn \ {b} /\ w.head[b] = None
      /\ \A x \in Blocks \ {b} : w.head[x] = t.head[x]
  BY <1>r, <1>7, <1>8, FreeCodeIs
<1>10. PICK u : u = [w EXCEPT !.free = w.free \cup {b}]
  OBVIOUS
<1>11. w.free \cup {b} \in SUBSET Blocks
  BY <1>9, Fields
<1>12. /\ u \in Records /\ u.free = w.free \cup {b} /\ u.aged = w.aged /\ u.list = w.list
       /\ u.list2 = w.list2 /\ u.head = w.head /\ u.owner = w.owner /\ u.fn = w.fn
       /\ u.map = w.map
  BY <1>9, <1>10, <1>11 DEF Records
<1>13. Delete(s, b) = u
  BY <1>5, <1>8, <1>9, <1>10 DEF Delete, Records
<1>14. /\ u.free = s.free \cup {b} /\ u.fn = s.fn \ {b}
       /\ ToSet(u.aged) = ToSet(s.aged) \ {b} /\ u.aged = t.aged
       /\ \A x \in Blocks \ {b} : u.head[x] = s.head[x]
       /\ \A v \in Mappings : u.map[v] = "direct" => s.map[v] = "direct"
  BY <1>6, <1>9, <1>12 DEF OnlyLists
<1>15. Shape(u, home)
  BY <1>6, <1>9, <1>12 DEF Shape
<1>16. /\ Listed(u, home) = Listed(s, home) \ {b}
       /\ Listed2(u, home) = Listed2(s, home) \ {b}
  <2>1. Listed(u, home) = Listed(t, home) /\ Listed2(u, home) = Listed2(t, home)
    BY <1>9, <1>12 DEF Listed, Listed2
  <2> QED BY <2>1, <1>6
<1>17. Parted(u, home, made \ {b})
  BY <1>1, <1>14, <1>16 DEF Parted
<1>18. Useless(u, None)
  <2>1. Len(u.aged) <= DirtyMax
    <3>1. Len(t.aged) \in Nat /\ Len(s.aged) \in Nat
      BY <1>1, <1>r, Fields
    <3> QED BY <3>1, <1>1, <1>6, <1>14, Consts DEF Useless
  <2>2. ASSUME NEW x \in ToSet(u.aged) PROVE x \notin u.fn /\ u.head[x] = None
    <3>1. x \in ToSet(s.aged) /\ x \in Blocks /\ x # b
      BY <1>1, <1>14, EmptyIs, Fields
    <3>2. x # cur \/ x = None
      BY <3>1
    <3> QED BY <3>1, <3>2, <1>1, <1>14, Consts DEF Useless
  <2> QED BY <2>1, <2>2 DEF Useless
<1>19. Placed(u, home, mask, compiled, None)
  BY <1>1, <1>14, <1>16 DEF Placed
<1>20. Owned(u, lost)
  BY <1>9, <1>12 DEF Owned
<1> QED BY <1>13, <1>14, <1>15, <1>16, <1>17, <1>18, <1>19, <1>20 DEF Good

\* A set of natural numbers has a least one.
LEMMA Least ==
    ASSUME NEW T \in SUBSET Nat, T # {}
    PROVE  \E x \in T : \A y \in T : x <= y
<1> DEFINE R == OpToRel(<, Nat)
<1>1. IsWellFoundedOn(R, Nat)
  BY NatLessThanWellFounded
<1>2. \A x, y \in Nat : x < y => <<x, y>> \in R
  BY DEF OpToRel
<1> HIDE DEF R
<1>3. PICK x \in T : \A y \in T : ~(<<y, x>> \in R)
  BY <1>1, WFMin
<1>4. ASSUME NEW y \in T PROVE x <= y
  <2>1. x \in Nat /\ y \in Nat
    OBVIOUS
  <2>2. ~(y < x)
    BY <1>2, <1>3, <2>1
  <2> QED BY <2>1, <2>2
<1> QED BY <1>4

\* The function that CheckEach follows along a list exists, and its last value is the result.
LEMMA CheckEachFollows ==
    ASSUME NEW s, NEW p, NEW l \in Seq(Blocks), NEW n \in Nat, n = Len(l)
    PROVE  \E f : /\ f = [i \in 0 .. n |-> IF i = 0 THEN s ELSE InvalidateIf(f[i - 1], l[i], p)]
                  /\ CheckEach(s, l, p) = f[n]
<1> DEFINE Follows(f, m) ==
        f = [i \in 0 .. m |-> IF i = 0 THEN s ELSE InvalidateIf(f[i - 1], l[i], p)]
           T == {m \in 0 .. n : ~ \E f : Follows(f, m)}
<1>1. T = {}
  <2> SUFFICES ASSUME T # {} PROVE FALSE
    OBVIOUS
  <2>1. T \in SUBSET Nat
    OBVIOUS
  <2>2. PICK m \in T : \A y \in T : m <= y
    <3> HIDE DEF T
    <3> QED BY <2>1, Least
  <2>3. m \in 0 .. n /\ ~ \E f : Follows(f, m)
    OBVIOUS
  <2>4. CASE m = 0
    <3>1. PICK f : f = [i \in 0 .. m |-> s]
      OBVIOUS
    <3>2. Follows(f, m)
      BY <3>1, <2>4
    <3> QED BY <3>2, <2>3
  <2>5. CASE m # 0
    <3>1. m - 1 \in 0 .. n /\ m - 1 \notin T
      BY <2>2, <2>3, <2>5
    <3>2. PICK g : Follows(g, m - 1)
      BY <3>1
    <3>3. PICK f : f = [i \in 0 .. m |-> IF i = m THEN InvalidateIf(g[m - 1], l[m], p) ELSE g[i]]
      OBVIOUS
    <3>4. \A i \in 0 .. m - 1 : f[i] = g[i]
      BY <3>3, <2>3
    <3>5. f[m] = InvalidateIf(f[m - 1], l[m], p)
      BY <3>3, <3>4, <2>3, <2>5
    <3>6. ASSUME NEW i \in 0 .. m
          PROVE  f[i] = IF i = 0 THEN s ELSE InvalidateIf(f[i - 1], l[i], p)
      <4>1. CASE i = m
        BY <4>1, <3>5, <2>5
      <4>2. CASE i # m
        <5>1. i \in 0 .. m - 1
          BY <4>2, <2>3
        <5>2. g[i] = IF i = 0 THEN s ELSE InvalidateIf(g[i - 1], l[i], p)
          BY <5>1, <3>2
        <5>3. i # 0 => i - 1 \in 0 .. m - 1
          BY <5>1, <2>3
        <5> QED BY <5>1, <5>2, <5>3, <3>4
      <4> QED BY <4>1, <4>2
    <3>7. Follows(f, m)
      <4>1. f = [i \in 0 .. m |-> f[i]]
        BY <3>3
      <4> QED BY <4>1, <3>6
    <3> QED BY <3>7, <2>3
  <2> QED BY <2>4, <2>5
<1>2. \E f : Follows(f, n)
  BY <1>1
<1>3. PICK d : d = CHOOSE f : Follows(f, n)
  OBVIOUS
<1>4. CheckEach(s, l, p) = d[n]
  BY <1>3 DEF CheckEach
<1>5. Follows(d, n)
  <2> HIDE DEF Follows
  <2> QED BY <1>2, <1>3
<1> QED BY <1>4, <1>5

\* Of listed blocks, those that are dirty are invalidated, one after the other.
LEMMA CheckEachIs ==
    ASSUME NEW s, NEW made, NEW lost, NEW compiled,
           Good(s, home, mask, made, None, lost, compiled), Masks(home, mask),
           NEW l \in Seq(Blocks), Once(l), ToSet(l) \subseteq Listed(s, home), NEW p
    PROVE  LET u == CheckEach(s, l, p)
           IN  /\ Good(u, home, mask, made, None, lost, compiled) /\ Fewer(u, s, home)
               /\ \A x \in ToSet(l) \cap Listed(u, home) : ~Dirty(x, p)
<1>1. PICK n \in Nat : n = Len(l) /\ DOMAIN l = 1 .. n
  BY LenProperties
<1>2. PICK f : /\ f = [i \in 0 .. n |-> IF i = 0 THEN s ELSE InvalidateIf(f[i - 1], l[i], p)]
               /\ CheckEach(s, l, p) = f[n]
  BY <1>1, CheckEachFollows
<1>3. /\ f[0] = s
      /\ \A i \in 1 .. n : f[i] = InvalidateIf(f[i - 1], l[i], p)
  BY <1>2
<1> DEFINE P(i) ==
        /\ Good(f[i], home, mask, made, None, lost, compiled) /\ Fewer(f[i], s, home)
        /\ \A j \in 1 .. i : l[j] \in Listed(f[i], home) => ~Dirty(l[j], p)
        /\ \A j \in i + 1 .. n : l[j] \in Listed(f[i], home)
           T == {i \in 0 .. n : ~P(i)}
<1>4. P(0)
  <2>1. Fewer(s, s, home)
    BY DEF Fewer
  <2>2. \A j \in 1 .. n : l[j] \in Listed(s, home)
    BY <1>1 DEF ToSet
  <2> QED BY <2>1, <2>2, <1>1, <1>3
<1>5. ASSUME NEW i \in 1 .. n, P(i - 1) PROVE P(i)
  <2>1. PICK t : t = f[i - 1]
    OBVIOUS
  <2>2. PICK u : u = f[i]
    OBVIOUS
  <2>3. PICK b : b = l[i]
    OBVIOUS
  <2>4. u = InvalidateIf(t, b, p)
    BY <1>3, <2>1, <2>2, <2>3
  <2>5. /\ Good(t, home, mask, made, None, lost, compiled) /\ Fewer(t, s, home)
        /\ \A j \in 1 .. i - 1 : l[j] \in Listed(t, home) => ~Dirty(l[j], p)
        /\ \A j \in i .. n : l[j] \in Listed(t, home)
    BY <1>5, <2>1
  <2>6. /\ b \in Listed(t, home)
        /\ \A j \in 1 .. n : j # i => l[j] # b
    BY <2>3, <2>5, <1>1 DEF Once
  <2>7. CASE ~Dirty(b, p)
    <3>1. u = t
      BY <2>4, <2>7 DEF InvalidateIf
    <3>2. \A j \in 1 .. i : l[j] \in Listed(t, home) => ~Dirty(l[j], p)
      <4> SUFFICES ASSUME NEW j \in 1 .. i, l[j] \in Listed(t, home) PROVE ~Dirty(l[j], p)
        OBVIOUS
      <4>1. CASE j = i
        BY <4>1, <2>3, <2>7
      <4>2. CASE j # i
        <5>1. j \in 1 .. i - 1
          BY <4>2
        <5> QED BY <5>1, <2>5
      <4> QED BY <4>1, <4>2
    <3>3. \A j \in i + 1 .. n : l[j] \in Listed(t, home)
      BY <2>5, <1>1
    <3> QED BY <3>1, <3>2, <3>3, <2>2, <2>5
  <2>8. CASE Dirty(b, p)
    <3>1. u = Invalidate(t, b)
      BY <2>4, <2>8 DEF InvalidateIf
    <3>2. /\ Good(u, home, mask, made, None, lost, compiled) /\ Fewer(u, t, home)
          /\ Listed(u, home) = Listed(t, home) \ {b}
      BY <3>1, <2>5, <2>6, InvalidateIs
    <3>3. Fewer(u, s, home)
      BY <3>2, <2>5 DEF Fewer
    <3>4. \A j \in 1 .. i : l[j] \in Listed(u, home) => ~Dirty(l[j], p)
      <4> SUFFICES ASSUME NEW j \in 1 .. i, l[j] \in Listed(u, home) PROVE ~Dirty(l[j], p)
        OBVIOUS
      <4>1. j # i
        BY <3>2, <2>3
      <4>2. j \in 1 .. i - 1 /\ l[j] \in Listed(t, home)
        BY <4>1, <3>2
      <4> QED BY <4>2, <2>5
    <3>5. \A j \in i + 1 .. n : l[j] \in Listed(u, home)
      <4> SUFFICES ASSUME NEW j \in i + 1 .. n PROVE l[j] \in Listed(u, home)
        OBVIOUS
      <4>1. j \in i .. n /\ j \in 1 .. n /\ j # i
        BY <1>1
      <4> QED BY <4>1, <2>5, <2>6, <3>2
    <3> QED BY <3>2, <3>3, <3>4, <3>5, <2>2
  <2> QED BY <2>7, <2>8
<1>6. T = {}
  <2> SUFFICES ASSUME T # {} PROVE FALSE
    OBVIOUS
  <2>1. PICK m \in T : \A y \in T : m <= y
    <3>1. T \in SUBSET Nat
      OBVIOUS
    <3> HIDE DEF T
    <3> QED BY <3>1, Least
  <2>2. m \in 0 .. n /\ ~P(m)
    <3> HIDE DEF P
    <3> QED OBVIOUS
  <2> HIDE DEF P
  <2>3. m # 0
    BY <2>2, <1>4
  <2>4. m - 1 \in 0 .. n /\ m \in 1 .. n
    BY <2>2, <2>3
  <2>5. P(m - 1)
    BY <2>1, <2>2, <2>4
  <2> QED BY <2>2, <2>4, <2>5, <1>5
<1>7. P(n)
  <2> HIDE DEF P
  <2> QED BY <1>6
<1>8. \A x \in ToSet(l) \cap Listed(f[n], home) : ~Dirty(x, p)
  BY <1>7, <1>1 DEF ToSet
<1> QED BY <1>2, <1>7, <1>8

\* A page is checked: what is still listed is not dirty there.
LEMMA CheckFlushIs ==
    ASSUME NEW s, NEW made, NEW lost, NEW compiled, NEW p \in Pages,
           Good(s, home, mask, made, None, lost, compiled), Masks(home, mask)
    PROVE  LET u == CheckFlush(s, p)
           IN  /\ Good(u, home, mask, made, None, lost, compiled) /\ Fewer(u, s, home)
               /\ \A x \in Listed(u, home) : ~Dirty(x, p)
<1>1. /\ s \in Records /\ s.list[p] \in Seq(Blocks) /\ Once(s.list[p])
      /\ ToSet(s.list[p]) \subseteq Listed(s, home)
  <2>1. Shape(s, home) /\ s \in Records /\ s.list[p] \in Seq(Blocks)
    BY Fields DEF Good, Shape
  <2>2. ToSet(s.list[p]) \subseteq Blocks
    BY <2>1, EmptyIs
  <2> QED BY <2>1, <2>2 DEF Shape, Listed
<1>2. PICK t : t = CheckEach(s, s.list[p], p)
  OBVIOUS
<1>3. /\ Good(t, home, mask, made, None, lost, compiled) /\ Fewer(t, s, home)
      /\ \A x \in ToSet(s.list[p]) \cap Listed(t, home) : ~Dirty(x, p)
  BY <1>1, <1>2, CheckEachIs
<1>4. /\ t.list2[p] \in Seq(Blocks) /\ Once(t.list2[p])
      /\ ToSet(t.list2[p]) \subseteq Listed(t, home)
  <2>1. Shape(t, home) /\ t \in Records /\ t.list2[p] \in Seq(Blocks)
    BY <1>3, Fields DEF Good, Shape
  <2>2. ToSet(t.list2[p]) \subseteq Blocks
    BY <2>1, EmptyIs
  <2>3. ToSet(t.list2[p]) \subseteq Listed2(t, home)
    BY <2>1, <2>2 DEF Shape, Listed2
  <2> QED BY <2>1, <2>3, <1>3 DEF Shape, Good, Placed
<1>5. PICK u : u = CheckEach(t, t.list2[p], p)
  OBVIOUS
<1>6. /\ Good(u, home, mask, made, None, lost, compiled) /\ Fewer(u, t, home)
      /\ \A x \in ToSet(t.list2[p]) \cap Listed(u, home) : ~Dirty(x, p)
  BY <1>3, <1>4, <1>5, CheckEachIs
<1>7. CheckFlush(s, p) = u
  BY <1>2, <1>5 DEF CheckFlush
<1>8. Fewer(u, s, home)
  BY <1>3, <1>6 DEF Fewer
<1>9. ASSUME NEW x \in Listed(u, home), Dirty(x, p) PROVE FALSE
  <2>1. x \in Listed(t, home) /\ x \in Listed(s, home) /\ x \in Blocks /\ x # None
    BY <1>3, <1>6, Consts DEF Fewer, Listed
  <2>2. mask[x] \cap Of(p) # {} /\ mask[x] \subseteq Of(home[x]) \cup Of(home[x] + 1)
    BY <1>9, <2>1 DEF Dirty, Masks
  <2>3. p = home[x] \/ p = home[x] + 1
    BY <2>2, Consts
  <2>4. CASE p = home[x]
    BY <2>1, <2>4, <1>3, <1>9 DEF Listed
  <2>5. CASE p = home[x] + 1
    <3>1. x \in Listed2(t, home)
      BY <2>1, <2>2, <2>5, <1>3 DEF Good, Placed
    <3>2. x \in ToSet(t.list2[p])
      BY <3>1, <2>5 DEF Listed2
    <3> QED BY <3>2, <1>6, <1>9
  <2> QED BY <2>3, <2>4, <2>5
<1> QED BY <1>6, <1>7, <1>8, <1>9

\* Two records with the same lists, of which the other has direct entries only for pages
\* without a block.
LEMMA SameListsIs ==
    ASSUME NEW s, NEW u \in Records, NEW h, NEW m, NEW made, NEW cur, NEW lost, NEW compiled,
           Good(s, h, m, made, cur, lost, compiled),
           u.free = s.free, u.aged = s.aged, u.list = s.list, u.list2 = s.list2,
           u.head = s.head, u.owner = s.owner, u.fn = s.fn,
           \A p \in Pages : u.map[p] = "direct" => s.list[p] = <<>>
    PROVE  /\ Good(u, h, m, made, cur, lost, compiled)
           /\ Listed(u, h) = Listed(s, h) /\ Listed2(u, h) = Listed2(s, h)
<1>1. Listed(u, h) = Listed(s, h) /\ Listed2(u, h) = Listed2(s, h)
  BY DEF Listed, Listed2
<1>2. Shape(u, h)
  BY DEF Good, Shape
<1>3. Parted(u, h, made)
  BY <1>1 DEF Good, Parted
<1>4. Owned(u, lost) /\ Useless(u, cur)
  BY DEF Good, Owned, Useless
<1>5. Placed(u, h, m, compiled, cur)
  BY <1>1 DEF Good, Placed
<1> QED BY <1>1, <1>2, <1>3, <1>4, <1>5 DEF Good

\* The flush of a page whose list is empty leaves it without a direct entry.
LEMMA FlushedIs ==
    ASSUME NEW s, NEW h, NEW m, NEW made, NEW cur, NEW lost, NEW compiled,
           Good(s, h, m, made, cur, lost, compiled), NEW p \in Pages
    PROVE  LET u == FlushIf(s.list[p] = <<>>, s, p, p)
           IN  /\ Good(u, h, m, made, cur, lost, compiled) /\ u.map[p] # "direct"
               /\ u.free = s.free /\ u.aged = s.aged /\ Listed(u, h) = Listed(s, h)
               /\ \A v \in Mappings : u.map[v] = "direct" => s.map[v] = "direct"
<1>1. Shape(s, h) /\ s \in Records /\ p \in Mappings
  BY Consts DEF Good, Shape
<1>2. CASE s.list[p] # <<>>
  <2>1. FlushIf(s.list[p] = <<>>, s, p, p) = s
    BY <1>2 DEF FlushIf
  <2> QED BY <2>1, <1>1, <1>2 DEF Shape
<1>3. CASE s.list[p] = <<>>
  <2>1. PICK u : u = FlushWrites(s, p, p)
    OBVIOUS
  <2>2. FlushIf(s.list[p] = <<>>, s, p, p) = u
    BY <1>3, <2>1 DEF FlushIf
  <2>3. /\ u \in Records /\ OnlyLists(u, s)
        /\ u.aged = s.aged /\ u.list = s.list /\ u.list2 = s.list2
        /\ u.map[p] # "direct"
    BY <1>1, <2>1, FlushWritesIs
  <2>4. \A v \in Mappings : u.map[v] = "direct" => s.map[v] = "direct"
    BY <2>3 DEF OnlyLists
  <2>5. \A q \in Pages : u.map[q] = "direct" => s.list[q] = <<>>
    BY <2>4, <1>1, Consts DEF Shape
  <2>6. u.free = s.free /\ u.head = s.head /\ u.owner = s.owner /\ u.fn = s.fn
    BY <2>3 DEF OnlyLists
  <2>7. /\ Good(u, h, m, made, cur, lost, compiled)
        /\ Listed(u, h) = Listed(s, h)
    BY ONLY <2>3, <2>5, <2>6, Good(s, h, m, made, cur, lost, compiled), SameListsIs
  <2> QED BY <2>2, <2>3, <2>4, <2>6, <2>7
<1> QED BY <1>2, <1>3

\* The end of a block: its masks are known, and it is listed.
LEMMA EnlistIs ==
    ASSUME NEW s, Shape(s, home), home \in [Blocks -> Pages], NEW b \in Blocks,
           b \notin Listed(s, home), b \notin Listed2(s, home), s.map[home[b]] # "direct",
           NEW cells, cells \subseteq Of(home[b]) \cup Of(home[b] + 1)
    PROVE  LET u == Enlist(EndMask(s, b, cells), b, cells)
           IN  /\ Shape(u, home) /\ OnlyLists(u, s) /\ u.aged = s.aged
               /\ Listed(u, home) = Listed(s, home) \cup {b}
               /\ Listed2(u, home) = Listed2(s, home) \cup
                                        {x \in {b} : cells \cap Of(home[b] + 1) # {}}
<1>1. PICK p \in Pages : p = home[b]
  OBVIOUS
<1>2. s \in Records
  BY DEF Shape
<1>3. PICK t : t = EndMask(s, b, cells)
  OBVIOUS
<1>4. /\ t \in Records /\ OnlyLists(t, s)
      /\ t.aged = s.aged /\ t.list = s.list /\ t.list2 = s.list2
  <2>1. \/ t = s
        \/ t = FlushWrites(s, p + 1, p + 1)
    BY <1>1, <1>3 DEF EndMask, FlushIf
  <2> QED BY <2>1, <1>2, FlushWritesIs DEF OnlyLists
<1>5. /\ t.list[p] \in Seq(Blocks) /\ Once(t.list[p]) /\ b \notin ToSet(t.list[p])
  BY <1>1, <1>2, <1>4, Fields DEF Shape, Listed
<1>6. PICK l : l = <<b>> \o t.list[p]
  OBVIOUS
<1>7. l \in Seq(Blocks) /\ Once(l) /\ ToSet(l) = ToSet(s.list[p]) \cup {b}
  BY <1>4, <1>5, <1>6, ConsIs
<1>8. PICK f : f = [t.list EXCEPT ![p] = l]
  OBVIOUS
<1>9. /\ f \in [Pages -> Seq(Blocks)] /\ f[p] = l
      /\ \A q \in Pages \ {p} : f[q] = s.list[q]
  BY <1>4, <1>7, <1>8, Fields
<1>10. PICK v : v = [t EXCEPT !.list = f]
  OBVIOUS
<1>11. /\ v \in Records /\ v.free = t.free /\ v.aged = t.aged /\ v.list = f
       /\ v.list2 = t.list2 /\ v.head = t.head /\ v.owner = t.owner /\ v.fn = t.fn /\ v.map = t.map
  BY <1>4, <1>9, <1>10 DEF Records
<1>12. v = [t EXCEPT !.list[p] = <<b>> \o @]
  BY <1>4, <1>6, <1>8, <1>10 DEF Records
<1>13. PICK u : u = Enlist(t, b, cells)
  OBVIOUS
<1>14. \A q \in Pages : Once(f[q]) /\ \A x \in ToSet(f[q]) : home[x] = q
  <2> SUFFICES ASSUME NEW q \in Pages PROVE Once(f[q]) /\ \A x \in ToSet(f[q]) : home[x] = q
    OBVIOUS
  <2>1. CASE q = p
    BY <2>1, <1>1, <1>7, <1>9 DEF Shape
  <2>2. CASE q # p
    BY <2>2, <1>9 DEF Shape
  <2> QED BY <2>1, <2>2
<1>15. \A q \in Pages : t.map[q] = "direct" => f[q] = <<>>
  <2> SUFFICES ASSUME NEW q \in Pages, t.map[q] = "direct" PROVE f[q] = <<>>
    OBVIOUS
  <2>1. s.map[q] = "direct"
    BY <1>4, Consts DEF OnlyLists
  <2>2. q # p /\ s.list[q] = <<>>
    BY <2>1, <1>1 DEF Shape
  <2> QED BY <2>2, <1>9
<1>16. {x \in Blocks : x \in ToSet(f[home[x]])} = Listed(s, home) \cup {b}
  <2>1. ASSUME NEW x \in Blocks
        PROVE  x \in ToSet(f[home[x]]) <=> x \in ToSet(s.list[home[x]]) \/ x = b
    <3>1. CASE home[x] = p
      BY <3>1, <1>7, <1>9
    <3>2. CASE home[x] # p
      BY <3>2, <1>1, <1>9
    <3> QED BY <3>1, <3>2
  <2> QED BY <2>1 DEF Listed
<1>17. CASE cells \subseteq Of(p)
  <2>1. u = v
    BY <1>1, <1>12, <1>13, <1>17 DEF Enlist
  <2>2. Shape(u, home)
    <3>1. Once(u.aged)
      BY <2>1, <1>4, <1>11 DEF Shape
    <3>2. \A q \in Pages : Once(u.list2[q]) /\ \A x \in ToSet(u.list2[q]) : home[x] + 1 = q
      BY <2>1, <1>4, <1>11 DEF Shape
    <3> QED BY <3>1, <3>2, <2>1, <1>11, <1>14, <1>15 DEF Shape
  <2>3. Listed(u, home) = Listed(s, home) \cup {b}
    BY <2>1, <1>11, <1>16 DEF Listed
  <2>4. cells \cap Of(home[b] + 1) = {}
    <3>1. Of(p) \cap Of(p + 1) = {}
      BY Consts
    <3> QED BY <3>1, <1>1, <1>17
  <2>5. Listed2(u, home) = Listed2(s, home)
    BY <2>1, <1>4, <1>11 DEF Listed2
  <2>6. OnlyLists(u, s) /\ u.aged = s.aged
    BY <2>1, <1>4, <1>11 DEF OnlyLists
  <2> QED BY <1>3, <1>13, <2>2, <2>3, <2>4, <2>5, <2>6
<1>18. CASE ~(cells \subseteq Of(p))
  <2>1. cells \cap Of(p + 1) # {}
    BY <1>1, <1>18
  <2>2. p + 1 \in Pages
    BY <2>1, Consts
  <2>3. PICK q \in Pages : q = p + 1
    BY <2>2
  <2>4. /\ v.list2[q] \in Seq(Blocks) /\ Once(v.list2[q]) /\ b \notin ToSet(v.list2[q])
    BY <1>1, <1>2, <1>4, <1>11, <2>3, Fields DEF Shape, Listed2
  <2>5. PICK l2 : l2 = <<b>> \o v.list2[q]
    OBVIOUS
  <2>6. l2 \in Seq(Blocks) /\ Once(l2) /\ ToSet(l2) = ToSet(s.list2[q]) \cup {b}
    BY <1>4, <1>11, <2>4, <2>5, ConsIs
  <2>7. PICK g : g = [v.list2 EXCEPT ![q] = l2]
    OBVIOUS
  <2>8. /\ g \in [Pages -> Seq(Blocks)] /\ g[q] = l2
        /\ \A r \in Pages \ {q} : g[r] = s.list2[r]
    BY <1>4, <1>11, <2>6, <2>7, Fields
  <2>9. u = [v EXCEPT !.list2 = g]
    <3>1. u = [v EXCEPT !.list2[q] = <<b>> \o @]
      BY <1>1, <1>12, <1>13, <1>18, <2>3 DEF Enlist
    <3> QED BY <3>1, <2>5, <2>7, <1>11 DEF Records
  <2>10. /\ u \in Records /\ u.free = v.free /\ u.aged = v.aged /\ u.list = f
         /\ u.list2 = g /\ u.head = v.head /\ u.owner = v.owner /\ u.fn = v.fn /\ u.map = v.map
    BY <1>11, <2>8, <2>9 DEF Records
  <2>11. \A r \in Pages : Once(g[r]) /\ \A x \in ToSet(g[r]) : home[x] + 1 = r
    <3> SUFFICES ASSUME NEW r \in Pages PROVE Once(g[r]) /\ \A x \in ToSet(g[r]) : home[x] + 1 = r
      OBVIOUS
    <3>1. CASE r = q
      BY <3>1, <1>1, <2>3, <2>6, <2>8 DEF Shape
    <3>2. CASE r # q
      BY <3>2, <2>8 DEF Shape
    <3> QED BY <3>1, <3>2
  <2>12. Shape(u, home)
    <3>1. Once(u.aged)
      BY <2>10, <1>4, <1>11 DEF Shape
    <3> QED BY <3>1, <2>10, <2>11, <1>11, <1>14, <1>15 DEF Shape
  <2>13. Listed(u, home) = Listed(s, home) \cup {b}
    BY <2>10, <1>16 DEF Listed
  <2>14. Listed2(u, home) = Listed2(s, home) \cup {b}
    <3>1. ASSUME NEW x \in Blocks, home[x] + 1 \in Pages
          PROVE  x \in ToSet(g[home[x] + 1]) <=> x \in ToSet(s.list2[home[x] + 1]) \/ x = b
      <4>1. CASE home[x] + 1 = q
        BY <4>1, <2>6, <2>8
      <4>2. CASE home[x] + 1 # q
        BY <3>1, <4>2, <1>1, <2>3, <2>8
      <4> QED BY <4>1, <4>2
    <3>2. home[b] + 1 \in Pages
      BY <1>1, <2>2
    <3> QED BY <3>1, <3>2, <2>10 DEF Listed2
  <2>15. OnlyLists(u, s) /\ u.aged = s.aged
    BY <2>10, <1>4, <1>11 DEF OnlyLists
  <2> QED BY <1>1, <1>3, <1>13, <2>1, <2>12, <2>13, <2>14, <2>15
<1> QED BY <1>17, <1>18

----------------------------------------------------------------------------
(* The steps *)

\* Fewer blocks may be compiled.
LEMMA GoodLess ==
    ASSUME NEW s, NEW h, NEW m, NEW made, NEW cur, NEW lost, NEW compiled, NEW less,
           Good(s, h, m, made, cur, lost, compiled), less \subseteq compiled
    PROVE  Good(s, h, m, made, cur, lost, less)
BY DEF Good, Placed

\* What the invariant says of k, and of a block's place.
LEMMA Knows ==
    ASSUME IInv
    PROVE  /\ k \in Records /\ Shape(k, home) /\ Parted(k, home, Made)
           /\ Masks(home, mask) /\ TypeOK /\ Places /\ Fresh
           /\ Good(k, home, mask, Made, Cur, leaked, code)
           /\ Made \subseteq Blocks /\ Cur \in Blocks \cup {None}
           /\ at # "mark" => Made = {}
           /\ at # "record" => Cur = None
<1>1. TypeOK /\ Places /\ Fresh /\ Masks(home, mask) /\ Good(k, home, mask, Made, Cur, leaked, code)
  BY DEF IInv
<1>2. k \in Records /\ Shape(k, home) /\ Parted(k, home, Made)
  BY <1>1 DEF Good, Shape
<1>3. Made \subseteq Blocks /\ Cur \in Blocks \cup {None}
  BY <1>1 DEF Made, Cur, Places
<1> QED BY <1>1, <1>2, <1>3 DEF Made, Cur

\* The guest forgets a lookup.
LEMMA ForgetKeeps ==
    ASSUME IInv, NEW v \in Mappings, Forget(v)
    PROVE  IInv'
<1>1. PICK f : f = [k.map EXCEPT ![v] = "none"]
  OBVIOUS
<1>2. /\ k' = [k EXCEPT !.map = f] /\ Guest
      /\ UNCHANGED <<home, mask, code, dirty, at, found, here, current, recomp, stale, missed, leaked>>
  BY <1>1, Knows DEF Forget, Records, ghosts
<1>3. /\ f \in [Mappings -> {"none", "direct", "tracked"}]
      /\ \A w \in Mappings : f[w] = "direct" => k.map[w] = "direct"
  BY <1>1, Knows, Fields
<1>4. /\ k' \in Records /\ k'.free = k.free /\ k'.aged = k.aged /\ k'.list = k.list
      /\ k'.list2 = k.list2 /\ k'.head = k.head /\ k'.owner = k.owner /\ k'.fn = k.fn /\ k'.map = f
  BY <1>2, <1>3, Knows DEF Records
<1>5. \A p \in Pages : k'.map[p] = "direct" => k.list[p] = <<>>
  BY <1>3, <1>4, Knows, Consts DEF Shape
<1>6. Made' = Made /\ Cur' = Cur
  BY <1>2 DEF Made, Cur
<1>7. /\ Good(k', home, mask, Made, Cur, leaked, code)
      /\ Listed(k', home) = Listed(k, home)
  BY ONLY <1>4, <1>5, Knows, IInv, SameListsIs
<1>8. TypeOK'
  BY <1>2, <1>4, Knows, Fields DEF TypeOK
<1>9. Places'
  <2>1. at \in {"idle", "mark", "record"}
    BY <1>2 DEF Guest
  <2>2. \A p \in Pages : recomp = p => k'.map[p] # "direct"
    BY <1>3, <1>4, Knows, Consts DEF Places
  <2> QED BY <2>1, <2>2, <1>2, <1>4, Knows DEF Places
<1>10. Fresh'
  BY <1>2, <1>4, <1>6, Knows DEF Fresh
<1> QED BY <1>2, <1>6, <1>7, <1>8, <1>9, <1>10, Knows DEF IInv

\* The guest writes: into a page with code through a direct entry of the page's own
\* mapping it cannot.
LEMMA WriteKeeps ==
    ASSUME IInv, NEW v \in Mappings, NEW c \in Cells, Write(v, c)
    PROVE  IInv'
<1>a. /\ Guest /\ PageOf(v) = c[1] /\ c[1] \in Pages
      /\ UNCHANGED <<home, mask, code, at, found, here, current, recomp, leaked>>
  BY CodeBlocksAssumption DEF Write
<1>1. PICK f : f = IF k.map[v] # "none" THEN k.map
                   ELSE [k.map EXCEPT ![v] = IF Watched(c[1]) THEN "tracked" ELSE "direct"]
  OBVIOUS
<1>2. k' = [k EXCEPT !.map = f]
  BY <1>1, Knows DEF Write, Records
<1>3. f \in [Mappings -> {"none", "direct", "tracked"}]
  BY <1>1, Knows, Fields
<1>4. /\ k' \in Records /\ k'.free = k.free /\ k'.aged = k.aged /\ k'.list = k.list
      /\ k'.list2 = k.list2 /\ k'.head = k.head /\ k'.owner = k.owner /\ k'.fn = k.fn /\ k'.map = f
  BY <1>2, <1>3, Knows DEF Records
<1>5. \A p \in Pages : f[p] = "direct" => k.list[p] = <<>> /\ recomp # p
  <2> SUFFICES ASSUME NEW p \in Pages, f[p] = "direct" PROVE k.list[p] = <<>> /\ recomp # p
    OBVIOUS
  <2>1. CASE k.map[p] = "direct"
    BY <2>1, Knows DEF Shape, Places
  <2>2. CASE k.map[p] # "direct"
    <3>1. p = v /\ ~Watched(c[1])
      BY <2>2, <1>1, Knows, Fields, Consts
    <3>2. c[1] = p
      BY <3>1, <1>a, CodeBlocksAssumption DEF PageOf
    <3> QED BY <3>1, <3>2 DEF Watched
  <2> QED BY <2>1, <2>2
<1>6. Made' = Made /\ Cur' = Cur
  BY <1>a DEF Made, Cur
<1>7. /\ Good(k', home, mask, Made, Cur, leaked, code)
      /\ Listed(k', home) = Listed(k, home)
  BY ONLY <1>4, <1>5, Knows, IInv, SameListsIs
<1>h. PICK hit : hit = {b \in code : c \in mask[b]}
  OBVIOUS
<1>b. PICK bypass : bypass = {b \in hit : k.map[v] = "direct" /\ (v = Alias \/ c[1] # home[b])}
  OBVIOUS
<1>s. /\ stale' = stale \cup (hit \ bypass) /\ missed' = missed \cup bypass
      /\ dirty' = IF k.map[v] = "direct" THEN dirty ELSE dirty \cup {c}
  BY <1>h, <1>b DEF Write
<1>8. TypeOK'
  <2>1. dirty' \subseteq Cells
    BY <1>s, Knows DEF TypeOK
  <2>2. stale' \subseteq Blocks /\ missed' \subseteq Blocks
    BY <1>s, <1>h, <1>b, Knows DEF TypeOK
  <2> QED BY <2>1, <2>2, <1>a, <1>4, Knows, Fields DEF TypeOK
<1>9. Places'
  <2>1. at \in {"idle", "mark", "record"}
    BY <1>a DEF Guest
  <2> QED BY <2>1, <1>a, <1>4, <1>5, Knows DEF Places
<1>10. Fresh'
  <2>1. ASSUME NEW b \in code, b \in stale', b \in ToSet(k.aged) => b = Cur
        PROVE  b \in missed' \/ mask[b] \cap dirty' # {}
    <3>1. CASE b \in stale
      BY <3>1, <2>1, <1>s, Knows DEF Fresh
    <3>2. CASE b \in bypass
      BY <3>2, <1>s
    <3>3. CASE b \in hit \ bypass
      <4>1. c \in mask[b]
        BY <3>3, <1>h
      <4>2. CASE k.map[v] # "direct"
        BY <4>1, <4>2, <1>s
      <4>3. CASE k.map[v] = "direct"
        <5>1. v = home[b] /\ home[b] \in Pages /\ b \in Blocks
          BY <4>3, <3>3, <1>b, <1>a, Knows DEF PageOf, TypeOK
        <5>2. k.list[home[b]] = <<>> /\ recomp # home[b]
          BY <4>3, <5>1, Knows DEF Shape, Places
        <5>3. b \notin Listed(k, home)
          <6>1. ToSet(k.list[home[b]]) = {}
            BY <5>1, <5>2, Knows, Fields, EmptyIs
          <6> QED BY <6>1 DEF Listed
        <5>4. b \notin Made
          BY Knows DEF Made, Places
        <5>5. b \notin k.free
          BY Knows DEF Fresh
        <5>6. b \in ToSet(k.aged)
          BY <5>1, <5>3, <5>4, <5>5, Knows DEF Parted
        <5>7. at = "record" /\ b = current
          <6>1. b = Cur /\ b # None
            BY <5>1, <5>6, <2>1, Consts
          <6> QED BY <6>1 DEF Cur
        <5> QED BY <5>2, <5>7, Knows DEF Places
      <4> QED BY <4>2, <4>3
    <3> QED BY <3>1, <3>2, <3>3, <2>1, <1>s
  <2> QED BY <2>1, <1>a, <1>4, <1>6, Knows DEF Fresh
<1> QED BY <1>a, <1>6, <1>7, <1>8, <1>9, <1>10, Knows DEF IInv

\* What Fresh says of the records between the steps, of a dirty mask d.
Fits(s, d, compiled) ==
    \A x \in compiled : x \in stale /\ x \notin s.free /\ x \notin ToSet(s.aged) =>
        x \in missed \/ mask[x] \cap d # {}

\* What a flush leaves is fresh with the page clean.
LEMMA FlushKeepsFresh ==
    ASSUME NEW s, NEW u, NEW d, NEW compiled, NEW p, compiled \subseteq Blocks,
           Fewer(u, s, home), Parted(u, home, {}), d \subseteq dirty,
           \A x \in Listed(u, home) : ~Dirty(x, p), Fits(s, d, compiled)
    PROVE  Fits(u, d \ Of(p), compiled)
<1> SUFFICES ASSUME NEW x \in compiled, x \notin u.free, x \in stale, x \notin ToSet(u.aged)
             PROVE  x \in missed \/ mask[x] \cap (d \ Of(p)) # {}
  BY DEF Fits
<1>1. x \in Listed(u, home)
  BY DEF Parted
<1>2. x \notin ToSet(s.aged) /\ x \notin s.free
  BY DEF Fewer
<1>3. mask[x] \cap Of(p) \cap dirty = {}
  BY <1>1 DEF Dirty
<1> QED BY <1>2, <1>3 DEF Fits

\* A page is flushed if the block asked for is dirty there: it is clean then or not listed.
LEMMA FlushIfDirty ==
    ASSUME NEW s, NEW b \in Blocks, NEW p, NEW lost, NEW compiled, NEW d,
           Good(s, home, mask, {}, None, lost, compiled), Masks(home, mask),
           compiled \subseteq Blocks, d \subseteq dirty, Fits(s, d, compiled),
           NEW u, u = IF Dirty(b, p) THEN CheckFlush(s, p) ELSE s,
           NEW e, e = IF Dirty(b, p) THEN d \ Of(p) ELSE d
    PROVE  /\ Good(u, home, mask, {}, None, lost, compiled) /\ Fewer(u, s, home)
           /\ b \in Listed(u, home) => ~Dirty(b, p)
           /\ Fits(u, e, compiled) /\ e \subseteq dirty
<1>1. CASE ~Dirty(b, p)
  <2>1. Fewer(s, s, home)
    BY DEF Fewer
  <2> QED BY <2>1, <1>1
<1>2. CASE Dirty(b, p)
  <2>1. p \in Pages
    BY <1>2, Consts DEF Dirty
  <2>2. u = CheckFlush(s, p) /\ e = d \ Of(p)
    BY <1>2
  <2>3. /\ Good(u, home, mask, {}, None, lost, compiled) /\ Fewer(u, s, home)
        /\ \A x \in Listed(u, home) : ~Dirty(x, p)
    BY <2>1, <2>2, CheckFlushIs
  <2>4. Parted(u, home, {})
    BY <2>3 DEF Good
  <2>5. Fits(u, d \ Of(p), compiled)
    BY <2>3, <2>4, FlushKeepsFresh
  <2> QED BY <2>2, <2>3, <2>5
<1> QED BY <1>1, <1>2

\* A block is looked up, and its pages are checked.
LEMMA FindKeeps ==
    ASSUME IInv, NEW b \in Blocks, Find(b)
    PROVE  IInv'
<1>a. /\ at = "idle" /\ b \notin k.free /\ here' = home[b] /\ at' = "looked"
      /\ UNCHANGED <<home, mask, current, recomp, stale, missed, leaked>>
  BY DEF Find, ghosts
<1>p. PICK p \in Pages : p = home[b]
  BY Knows DEF TypeOK
<1>k1. PICK k1 : k1 = IF Dirty(b, p) THEN CheckFlush(k, p) ELSE k
  OBVIOUS
<1>d1. PICK d1 : d1 = IF Dirty(b, p) THEN dirty \ Of(p) ELSE dirty
  OBVIOUS
<1>k2. PICK k2 : k2 = IF Dirty(b, p + 1) THEN CheckFlush(k1, p + 1) ELSE k1
  OBVIOUS
<1>d2. PICK d2 : d2 = IF Dirty(b, p + 1) THEN d1 \ Of(p + 1) ELSE d1
  OBVIOUS
<1>1. Made = {} /\ Cur = None /\ Made' = {} /\ Cur' = None
  BY <1>a DEF Made, Cur
<1>2. /\ Good(k, home, mask, {}, None, leaked, code) /\ Masks(home, mask) /\ code \subseteq Blocks
      /\ code \cap k.free = {} /\ dirty \subseteq Cells
  BY <1>1, Knows DEF TypeOK, Fresh
<1>3. Fits(k, dirty, code) /\ dirty \subseteq dirty
  BY Knows DEF Fresh, Fits
<1>4. /\ Good(k1, home, mask, {}, None, leaked, code) /\ Fewer(k1, k, home)
      /\ b \in Listed(k1, home) => ~Dirty(b, p)
      /\ Fits(k1, d1, code) /\ d1 \subseteq dirty
  BY ONLY <1>2, <1>3, <1>k1, <1>d1, b \in Blocks, FlushIfDirty
<1>9. /\ Good(k2, home, mask, {}, None, leaked, code) /\ Fewer(k2, k1, home)
      /\ b \in Listed(k2, home) => ~Dirty(b, p + 1)
      /\ Fits(k2, d2, code) /\ d2 \subseteq dirty
  BY ONLY <1>2, <1>4, <1>k2, <1>d2, b \in Blocks, FlushIfDirty
<1>11. Fewer(k2, k, home)
  BY <1>4, <1>9 DEF Fewer
<1>12. \A q \in Pages : recomp = q => k.map[q] # "direct"
  BY Knows DEF Places
<1>13. CASE /\ k' = k1 /\ dirty' = d1 /\ found' = None
            /\ code' = (IF Dirty(b, p) THEN code \ {b} ELSE code) \ k1.free
  <2>1. code' \subseteq code /\ code' \cap k1.free = {} /\ code' \subseteq Blocks
    BY <1>13, <1>2
  <2>2. Good(k1, home, mask, {}, None, leaked, code')
    BY <2>1, <1>4, GoodLess
  <2>3. k1 \in Records
    BY <1>4 DEF Good, Shape
  <2>4. TypeOK'
    <3>1. dirty' \subseteq Cells /\ code' \subseteq Blocks
      BY <1>2, <1>4, <1>13, <2>1
    <3> QED BY <3>1, <2>3, <1>a, <1>p, <1>13, Knows, Fields DEF TypeOK
  <2>5. \A q \in Pages : recomp = q => k1.map[q] # "direct"
    BY <1>12, <1>4, Consts DEF Fewer
  <2>6. Places'
    <3>1. found' \notin code'
      BY <1>13, <2>1, Consts
    <3> QED BY <3>1, <2>5, <1>a, <1>13 DEF Places
  <2>7. Fresh'
    BY <2>1, <1>4, <1>a, <1>1, <1>13, Consts DEF Fresh, Fits
  <2> QED BY <2>2, <2>4, <2>6, <2>7, <1>1, <1>2, <1>a, <1>13 DEF IInv
<1>14. CASE /\ b \notin k1.free
            /\ k' = k2 /\ dirty' = d2
            /\ found' = IF b \in k2.free THEN None ELSE b
            /\ code' = (IF Aged(k2, b) THEN code \ {b} ELSE code) \ k2.free
  <2>1. code' \subseteq code /\ code' \cap k2.free = {} /\ code' \subseteq Blocks
    BY <1>14, <1>2
  <2>2. Good(k2, home, mask, {}, None, leaked, code')
    BY <2>1, <1>9, GoodLess
  <2>3. k2 \in Records
    BY <1>9 DEF Good, Shape
  <2>4. TypeOK'
    <3>1. dirty' \subseteq Cells /\ code' \subseteq Blocks
      BY <1>2, <1>9, <1>14, <2>1
    <3>2. found' \in Blocks \cup {None}
      BY <1>14
    <3> QED BY <3>1, <3>2, <2>3, <1>a, <1>p, <1>14, Knows, Fields DEF TypeOK
  <2>5. \A q \in Pages : recomp = q => k2.map[q] # "direct"
    BY <1>12, <1>11, Consts DEF Fewer
  <2>6. ASSUME found' \in code'
        PROVE  found' \in Listed(k2, home) /\ (found' \in stale => found' \in missed)
    <3>1. found' = b /\ b \notin k2.free /\ b \in code
      BY <2>6, <2>1, <1>14, Consts
    <3>2. b \notin ToSet(k2.aged)
      <4>1. ~Aged(k2, b)
        BY <3>1, <2>6, <1>14
      <4> QED BY <4>1, <2>3, Fields, EmptyIs DEF Aged
    <3>3. b \in Listed(k2, home) /\ b \in Listed(k1, home) /\ b \in Listed(k, home)
      BY <3>1, <3>2, <2>2, <1>9, <1>11 DEF Good, Parted, Fewer
    <3>4. ~Dirty(b, p) /\ ~Dirty(b, p + 1)
      BY <3>3, <1>4, <1>9
    <3>5. mask[b] \subseteq Of(p) \cup Of(p + 1)
      BY <1>2, <1>p DEF Masks
    <3>6. mask[b] \cap dirty = {}
      BY <3>4, <3>5 DEF Dirty
    <3>7. b \notin ToSet(k.aged)
      BY <3>3, <1>2 DEF Good, Parted
    <3>8. b \notin k.free
      BY <1>a
    <3> QED BY <3>1, <3>3, <3>6, <3>7, <3>8, <1>3 DEF Fits
  <2>7. Places'
    <3>1. found' # None => found' \notin k2.free /\ home[found'] = here'
      BY <1>14, <1>a
    <3> QED BY <3>1, <2>5, <2>6, <1>a, <1>14 DEF Places
  <2>8. Fresh'
    BY <2>1, <1>9, <1>a, <1>1, <1>14, Consts DEF Fresh, Fits
  <2> QED BY <2>2, <2>4, <2>7, <2>8, <1>1, <1>2, <1>a, <1>14 DEF IInv
<1>15. \/ /\ k' = k1 /\ dirty' = d1 /\ found' = None
          /\ code' = (IF Dirty(b, p) THEN code \ {b} ELSE code) \ k1.free
       \/ /\ b \notin k1.free
          /\ k' = k2 /\ dirty' = d2
          /\ found' = IF b \in k2.free THEN None ELSE b
          /\ code' = (IF Aged(k2, b) THEN code \ {b} ELSE code) \ k2.free
  <2> DEFINE K1 == IF Dirty(b, home[b]) THEN CheckFlush(k, home[b]) ELSE k
             D1 == IF Dirty(b, home[b]) THEN dirty \ Of(home[b]) ELSE dirty
             K2 == IF Dirty(b, home[b] + 1) THEN CheckFlush(K1, home[b] + 1) ELSE K1
             D2 == IF Dirty(b, home[b] + 1) THEN D1 \ Of(home[b] + 1) ELSE D1
  <2>1. k1 = K1 /\ d1 = D1
    BY ONLY <1>p, <1>k1, <1>d1
  <2>2. k2 = K2 /\ d2 = D2
    BY ONLY <1>p, <1>k2, <1>d2, <2>1
  <2>3. \/ /\ k' = K1 /\ dirty' = D1 /\ found' = None
           /\ code' = (IF Dirty(b, home[b]) THEN code \ {b} ELSE code) \ K1.free
        \/ /\ b \notin K1.free
           /\ k' = K2 /\ dirty' = D2
           /\ found' = IF b \in K2.free THEN None ELSE b
           /\ code' = (IF Aged(K2, b) THEN code \ {b} ELSE code) \ K2.free
    BY DEF Find
  <2> HIDE DEF K1, D1, K2, D2
  <2> QED BY ONLY <2>1, <2>2, <2>3, <1>p
<1> QED BY <1>13, <1>14, <1>15

\* A lookup without a block, the run of one, and a change of the top of stack leave k alone.
LEMMA LookKeeps ==
    ASSUME IInv, (\E p \in Pages : Miss(p)) \/ RunOrInterpret \/ TopDiffers
    PROVE  IInv'
<1>1. /\ at \in {"idle", "looked"} /\ at' \in {"idle", "looked"}
      /\ here' \in Pages /\ found' \in Blocks \cup {None} /\ code' \subseteq code
      /\ UNCHANGED <<k, home, mask, dirty, current, recomp, stale, missed, leaked>>
  BY Knows DEF Miss, RunOrInterpret, TopDiffers, ghosts, TypeOK
<1>2. at' = "looked" /\ found' # None =>
        at = "looked" /\ found' = found /\ here' = here
  BY DEF Miss, RunOrInterpret, TopDiffers
<1>3. Made = {} /\ Made' = {} /\ Cur = None /\ Cur' = None
  BY <1>1 DEF Made, Cur
<1>4. Good(k, home, mask, {}, None, leaked, code')
  BY <1>1, <1>3, Knows, GoodLess
<1>5. TypeOK'
  BY <1>1, Knows DEF TypeOK
<1>6. None \notin code
  BY Knows, Consts DEF TypeOK
<1>7. Places'
  BY <1>1, <1>2, <1>6, Knows DEF Places
<1>8. Fresh'
  BY <1>1, <1>3, Knows DEF Fresh
<1> QED BY <1>1, <1>3, <1>4, <1>5, <1>7, <1>8, Knows DEF IInv

\* The page where a block is about to be marked has no direct entry of its own mapping.
LEMMA BlockInitKeeps ==
    ASSUME IInv, BlockInit
    PROVE  IInv'
<1>1. /\ at = "looked" /\ at' = "get" /\ k' = FlushIf(k.list[here] = <<>>, k, here, here)
      /\ UNCHANGED <<home, mask, code, dirty, found, here, current, recomp, stale, missed, leaked>>
  BY DEF BlockInit, ghosts
<1>2. Made = {} /\ Made' = {} /\ Cur = None /\ Cur' = None /\ here \in Pages
  BY <1>1, Knows DEF Made, Cur, TypeOK
<1>3. /\ Good(k', home, mask, {}, None, leaked, code) /\ k'.map[here] # "direct"
      /\ k'.free = k.free /\ k'.aged = k.aged /\ Listed(k', home) = Listed(k, home)
      /\ \A v \in Mappings : k'.map[v] = "direct" => k.map[v] = "direct"
  BY <1>1, <1>2, Knows, FlushedIs
<1>4. k' \in Records
  BY <1>3 DEF Good, Shape
<1>5. TypeOK'
  BY <1>1, <1>4, Knows, Fields DEF TypeOK
<1>6. Places'
  <2>1. \A p \in Pages : recomp = p => k'.map[p] # "direct"
    BY <1>3, Knows, Consts DEF Places
  <2> QED BY <2>1, <1>1, <1>3 DEF Places
<1>7. Fresh'
  BY <1>1, <1>2, <1>3, Knows DEF Fresh
<1> QED BY <1>1, <1>2, <1>3, <1>5, <1>6, <1>7, Knows DEF IInv

\* The oldest of the dirty list goes to the free list.
LEMMA EvictIs ==
    ASSUME NEW s, NEW lost, NEW compiled, Good(s, home, mask, {}, None, lost, compiled),
           s.aged # <<>>
    PROVE  LET u == DeleteDirty([s EXCEPT !.aged = Front(@)], Last(s.aged))
           IN  Good(u, home, mask, {}, None, lost, compiled) /\ Fewer(u, s, home)
<1>1. /\ Shape(s, home) /\ s \in Records /\ Parted(s, home, {}) /\ Owned(s, lost)
      /\ Useless(s, None) /\ Placed(s, home, mask, compiled, None)
  BY DEF Good, Shape
<1>2. PICK x : x = Last(s.aged)
  OBVIOUS
<1>3. PICK f : f = Front(s.aged)
  OBVIOUS
<1>4. s.aged \in Seq(Blocks) /\ Once(s.aged) /\ ToSet(s.aged) \subseteq Blocks
  BY <1>1, Fields, EmptyIs DEF Shape
<1>5. /\ f \in Seq(Blocks) /\ Once(f) /\ x \in ToSet(s.aged) /\ x \in Blocks
      /\ ToSet(f) = ToSet(s.aged) \ {x} /\ Len(f) = Len(s.aged) - 1
  BY <1>2, <1>3, <1>4, FrontIs
<1>6. PICK t : t = [s EXCEPT !.aged = f]
  OBVIOUS
<1>7. /\ t \in Records /\ t.free = s.free /\ t.aged = f /\ t.list = s.list
      /\ t.list2 = s.list2 /\ t.head = s.head /\ t.owner = s.owner /\ t.fn = s.fn /\ t.map = s.map
  BY <1>1, <1>5, <1>6 DEF Records
<1>8. PICK u : u = [t EXCEPT !.fn = s.fn \ {x}, !.free = s.free \cup {x}]
  OBVIOUS
<1>9. s.fn \ {x} \in SUBSET Blocks /\ s.free \cup {x} \in SUBSET Blocks
  BY <1>1, <1>5, Fields
<1>10. /\ u \in Records /\ u.free = s.free \cup {x} /\ u.aged = f /\ u.list = s.list
       /\ u.list2 = s.list2 /\ u.head = s.head /\ u.owner = s.owner /\ u.fn = s.fn \ {x}
       /\ u.map = s.map
  BY <1>7, <1>8, <1>9 DEF Records
<1>11. DeleteDirty([s EXCEPT !.aged = Front(@)], Last(s.aged)) = u
  <2>1. t = [s EXCEPT !.aged = Front(@)]
    BY <1>1, <1>3, <1>6 DEF Records
  <2>2. DeleteDirty(t, x) = u
    BY <1>7, <1>8 DEF DeleteDirty, Records
  <2> QED BY <2>1, <2>2, <1>2
<1>12. Listed(u, home) = Listed(s, home) /\ Listed2(u, home) = Listed2(s, home)
  BY <1>10 DEF Listed, Listed2
<1>13. Shape(u, home)
  BY <1>1, <1>5, <1>10 DEF Shape
<1>14. Parted(u, home, {})
  BY <1>1, <1>5, <1>10, <1>12 DEF Parted
<1>15. Owned(u, lost)
  BY <1>1, <1>10 DEF Owned
<1>16. Useless(u, None)
  <2>1. Len(f) <= DirtyMax
    BY <1>1, <1>4, <1>5, LenProperties, Consts DEF Useless
  <2> QED BY <2>1, <1>1, <1>5, <1>10 DEF Useless
<1>17. Placed(u, home, mask, compiled, None)
  <2>1. x \notin Listed(s, home)
    BY <1>1, <1>5 DEF Parted
  <2> QED BY <2>1, <1>1, <1>10, <1>12 DEF Placed
<1>18. Fewer(u, s, home)
  BY <1>5, <1>10, <1>12 DEF Fewer
<1> QED BY <1>11, <1>13, <1>14, <1>15, <1>16, <1>17, <1>18 DEF Good

\* Blocks leave the lists, and what is left is as fresh as before.
LEMMA FewerFits ==
    ASSUME NEW s, NEW u, NEW d, NEW compiled, compiled \subseteq Blocks,
           Fewer(u, s, home), Parted(u, home, {}), Fits(s, d, compiled)
    PROVE  Fits(u, d, compiled)
BY DEF Fits, Fewer, Parted

\* A block is made free.
LEMMA MakeRoomKeeps ==
    ASSUME IInv, MakeRoom
    PROVE  IInv'
<1>1. /\ at = "get" /\ k.free = {} /\ code' = code \ k'.free
      /\ UNCHANGED <<home, mask, at, found, here, current, recomp, stale, missed, leaked>>
  BY DEF MakeRoom, ghosts
<1>2. Made = {} /\ Made' = {} /\ Cur = None /\ Cur' = None
  BY <1>1 DEF Made, Cur
<1>3. /\ Good(k, home, mask, {}, None, leaked, code) /\ Masks(home, mask) /\ code \subseteq Blocks
      /\ Fits(k, dirty, code) /\ dirty \subseteq Cells
  BY <1>2, Knows DEF TypeOK, Fresh, Fits
<1>4. /\ Good(k', home, mask, {}, None, leaked, code)
      /\ Fits(k', dirty', code) /\ dirty' \subseteq Cells
      /\ \A v \in Mappings : k'.map[v] = "direct" => k.map[v] = "direct"
  <2>1. CASE k.aged # <<>>
    <3>1. k' = DeleteDirty([k EXCEPT !.aged = Front(@)], Last(k.aged)) /\ dirty' = dirty
      BY <2>1 DEF MakeRoom
    <3>2. Good(k', home, mask, {}, None, leaked, code) /\ Fewer(k', k, home)
      BY <3>1, <2>1, <1>3, EvictIs
    <3>3. Fits(k', dirty, code)
      BY <3>2, <1>3, FewerFits DEF Good
    <3> QED BY <3>1, <3>2, <3>3, <1>3 DEF Fewer
  <2>2. CASE k.aged = <<>>
    <3>1. PICK p \in Pages \cup {None} :
            LET k1 == IF p = None THEN k ELSE CheckFlush(k, p)
            IN  /\ dirty' = IF p = None THEN dirty ELSE dirty \ Of(p)
                /\ IF k1.free # {} THEN k' = k1
                   ELSE \E b \in Blocks \ {current} : k' = Delete(k1, b)
      BY <2>2 DEF MakeRoom
    <3>2. PICK k1 : k1 = IF p = None THEN k ELSE CheckFlush(k, p)
      OBVIOUS
    <3>3. /\ Good(k1, home, mask, {}, None, leaked, code) /\ Fewer(k1, k, home)
          /\ Fits(k1, dirty', code) /\ dirty' \subseteq Cells
      <4>1. CASE p = None
        <5>1. k1 = k /\ dirty' = dirty
          BY <4>1, <3>1, <3>2
        <5>2. Fewer(k, k, home)
          BY DEF Fewer
        <5> QED BY <5>1, <5>2, <1>3
      <4>2. CASE p # None
        <5>1. k1 = CheckFlush(k, p) /\ dirty' = dirty \ Of(p) /\ p \in Pages
          BY <4>2, <3>1, <3>2
        <5>2. /\ Good(k1, home, mask, {}, None, leaked, code) /\ Fewer(k1, k, home)
              /\ \A x \in Listed(k1, home) : ~Dirty(x, p)
          BY <5>1, <1>3, CheckFlushIs
        <5>3. Parted(k1, home, {}) /\ dirty \subseteq dirty
          BY <5>2 DEF Good
        <5>4. Fits(k1, dirty \ Of(p), code)
          BY ONLY <5>2, <5>3, <1>3, FlushKeepsFresh
        <5> QED BY <5>1, <5>2, <5>4, <1>3
      <4> QED BY <4>1, <4>2
    <3>4. IF k1.free # {} THEN k' = k1
          ELSE \E b \in Blocks \ {current} : k' = Delete(k1, b)
      BY <3>1, <3>2
    <3>5. CASE k1.free # {}
      BY <3>3, <3>4, <3>5 DEF Fewer
    <3>6. CASE k1.free = {}
      <4>1. PICK b \in Blocks \ {current} : k' = Delete(k1, b)
        BY <3>4, <3>6
      <4>2. b \in Blocks \ k1.free /\ b # None
        BY <3>6, Consts
      <4>3. /\ Good(k', home, mask, {} \ {b}, None, leaked, code)
            /\ k'.free = k1.free \cup {b} /\ ToSet(k'.aged) = ToSet(k1.aged) \ {b}
            /\ Listed(k', home) = Listed(k1, home) \ {b}
            /\ \A v \in Mappings : k'.map[v] = "direct" => k1.map[v] = "direct"
        BY <4>1, <4>2, <3>3, <1>3, DeleteIs
      <4>4. {} \ {b} = {}
        OBVIOUS
      <4>5. Good(k', home, mask, {}, None, leaked, code)
        BY <4>3, <4>4
      <4>6. Fewer(k', k1, home)
        BY <4>3 DEF Fewer
      <4>7. Fits(k', dirty', code)
        BY <4>5, <4>6, <3>3, <1>3, FewerFits DEF Good
      <4> QED BY <4>3, <4>5, <4>7, <3>3 DEF Fewer
    <3> QED BY <3>5, <3>6
  <2> QED BY <2>1, <2>2
<1>5. k' \in Records
  BY <1>4 DEF Good, Shape
<1>6. code' \subseteq code
  BY <1>1
<1>7. TypeOK'
  BY <1>1, <1>4, <1>5, <1>6, Knows, Fields DEF TypeOK
<1>8. Good(k', home, mask, {}, None, leaked, code')
  BY <1>4, <1>6, GoodLess
<1>9. Places'
  <2>1. \A p \in Pages : recomp = p => k'.map[p] # "direct"
    BY <1>4, Knows, Consts DEF Places
  <2>2. k'.map[here] # "direct"
    BY <1>1, <1>4, Knows, Consts DEF Places, TypeOK
  <2> QED BY <2>1, <2>2, <1>1 DEF Places
<1>10. Fresh'
  BY <1>1, <1>2, <1>3, <1>4, Consts DEF Fresh, Fits
<1> QED BY <1>1, <1>2, <1>3, <1>7, <1>8, <1>9, <1>10 DEF IInv

\* A free block is taken for the page of the program counter.
LEMMA TakeKeeps ==
    ASSUME IInv, NEW b \in Blocks, Take(b)
    PROVE  IInv'
<1>1. /\ at = "get" /\ b \in k.free /\ at' = "mark" /\ current' = b /\ recomp' = here
      /\ home' = [home EXCEPT ![b] = here] /\ mask' = [mask EXCEPT ![b] = {}]
      /\ stale' = stale \ {b} /\ missed' = missed \ {b}
      /\ UNCHANGED <<code, dirty, found, here, leaked>>
  BY DEF Take
<1>2. PICK F : F = k.free \ {b}
  OBVIOUS
<1>3. k' = [k EXCEPT !.free = F]
  BY <1>2, Knows DEF Take, Records
<1>4. F \in SUBSET Blocks
  BY <1>2, Knows, Fields
<1>5. /\ k' \in Records /\ k'.free = F /\ k'.aged = k.aged /\ k'.list = k.list
      /\ k'.list2 = k.list2 /\ k'.head = k.head /\ k'.owner = k.owner /\ k'.fn = k.fn
      /\ k'.map = k.map
  BY <1>3, <1>4, Knows DEF Records
<1>6. /\ here \in Pages /\ home \in [Blocks -> Pages] /\ mask \in [Blocks -> SUBSET Cells]
      /\ b \notin code
  BY <1>1, Knows DEF TypeOK, Fresh
<1>7. Made = {} /\ Cur = None /\ Made' = {b} /\ Cur' = None
  BY <1>1 DEF Made, Cur
<1>8. /\ \A x \in Blocks : home'[x] = IF x = b THEN here ELSE home[x]
      /\ \A x \in Blocks : mask'[x] = IF x = b THEN {} ELSE mask[x]
      /\ home' \in [Blocks -> Pages] /\ mask' \in [Blocks -> SUBSET Cells]
  BY <1>1, <1>6
<1>9. b \notin Listed(k, home) /\ b \notin Listed2(k, home) /\ b \notin ToSet(k.aged)
  BY <1>1, <1>7, Knows DEF Parted, Good, Placed
<1>10. \A p \in Pages : b \notin ToSet(k.list[p]) /\ b \notin ToSet(k.list2[p])
  BY <1>9, Knows DEF Shape, Listed, Listed2
<1>11. \A p \in Pages : ToSet(k.list[p]) \subseteq Blocks /\ ToSet(k.list2[p]) \subseteq Blocks
  BY Knows, Fields, EmptyIs
<1>12. Shape(k', home')
  <2>1. \A p \in Pages : Once(k.list[p]) /\ \A x \in ToSet(k.list[p]) : home'[x] = p
    BY <1>8, <1>10, <1>11, Knows DEF Shape
  <2>2. \A p \in Pages : Once(k.list2[p]) /\ \A x \in ToSet(k.list2[p]) : home'[x] + 1 = p
    BY <1>8, <1>10, <1>11, Knows DEF Shape
  <2>3. Once(k.aged) /\ \A p \in Pages : k.map[p] = "direct" => k.list[p] = <<>>
    BY Knows DEF Shape
  <2> QED BY <2>1, <2>2, <2>3, <1>5 DEF Shape
<1>13. Listed(k', home') = Listed(k, home)
  BY <1>5, <1>6, <1>8, <1>10 DEF Listed
<1>14. Listed2(k', home') = Listed2(k, home)
  BY <1>5, <1>6, <1>8, <1>10 DEF Listed2
<1>15. Parted(k', home', {b})
  BY <1>1, <1>2, <1>5, <1>7, <1>9, <1>13, Knows DEF Parted
<1>16. Owned(k', leaked) /\ Useless(k', None)
  BY <1>5, <1>7, Knows DEF Good, Owned, Useless
<1>17. Placed(k', home', mask', code, None)
  <2>1. Placed(k, home, mask, code, None)
    BY <1>7, Knows DEF Good
  <2>2. \A x \in Listed(k, home) : home'[x] = home[x] /\ mask'[x] = mask[x]
    BY <1>8, <1>9 DEF Listed
  <2> QED BY <2>1, <2>2, <1>5, <1>13, <1>14 DEF Placed
<1>18. Good(k', home', mask', {b}, None, leaked, code)
  BY <1>12, <1>15, <1>16, <1>17 DEF Good
<1>19. Masks(home', mask')
  BY <1>8, Knows DEF Masks
<1>20. TypeOK'
  <2>1. stale' \subseteq Blocks /\ missed' \subseteq Blocks
    BY <1>1, Knows DEF TypeOK
  <2> QED BY <2>1, <1>1, <1>5, <1>6, <1>8, Knows, Fields DEF TypeOK
<1>21. Places'
  <2>1. k.map[here] # "direct"
    BY <1>1, Knows DEF Places
  <2>2. home'[b] = here /\ mask'[b] = {} /\ b \notin k'.free
    BY <1>2, <1>5, <1>8
  <2> QED BY <2>1, <2>2, <1>1, <1>5, <1>6 DEF Places
<1>22. Fresh'
  <2>1. \A x \in code : x # b /\ mask'[x] = mask[x]
    BY <1>6, <1>8, Knows DEF TypeOK
  <2>2. code \cap k'.free = {}
    BY <1>2, <1>5, Knows DEF Fresh
  <2> QED BY <2>1, <2>2, <1>1, <1>5, <1>7, Knows DEF Fresh
<1> QED BY <1>1, <1>7, <1>18, <1>19, <1>20, <1>21, <1>22 DEF IInv

\* The end of the marking of a block: it is listed.
LEMMA BlockEndKeeps ==
    ASSUME IInv, NEW cells \in SUBSET (Of(here) \cup Of(here + 1)), BlockEnd(cells)
    PROVE  IInv'
<1>1. /\ at = "mark" /\ at' = "idle" /\ cells \cap Of(here) # {} /\ recomp' = None
      /\ mask' = [mask EXCEPT ![current] = cells]
      /\ k' = Enlist(EndMask(k, current, cells), current, cells)
      /\ UNCHANGED <<home, code, dirty, found, here, current, stale, missed, leaked>>
  BY DEF BlockEnd, ghosts
<1>2. PICK b \in Blocks : b = current
  BY <1>1, Knows DEF Places
<1>3. /\ home[b] = here /\ here \in Pages /\ b \notin code /\ b \notin k.free
      /\ k.map[home[b]] # "direct" /\ home \in [Blocks -> Pages] /\ mask \in [Blocks -> SUBSET Cells]
  BY <1>1, <1>2, Knows DEF Places, TypeOK
<1>4. Made = {b} /\ Cur = None /\ Made' = {} /\ Cur' = None
  BY <1>1, <1>2 DEF Made, Cur
<1>5. b \notin Listed(k, home) /\ b \notin Listed2(k, home) /\ b \notin ToSet(k.aged)
  BY <1>4, Knows DEF Parted, Good, Placed
<1>6. cells \subseteq Of(home[b]) \cup Of(home[b] + 1)
  BY <1>3
<1>7. /\ Shape(k', home) /\ OnlyLists(k', k) /\ k'.aged = k.aged
      /\ Listed(k', home) = Listed(k, home) \cup {b}
      /\ Listed2(k', home) = Listed2(k, home) \cup {x \in {b} : cells \cap Of(home[b] + 1) # {}}
  <2>1. k' = Enlist(EndMask(k, b, cells), b, cells)
    BY <1>1, <1>2
  <2>2. Shape(k, home)
    BY Knows
  <2> QED BY ONLY <2>1, <2>2, <1>3, <1>5, <1>6, b \in Blocks, EnlistIs
<1>8. /\ \A x \in Blocks : mask'[x] = IF x = b THEN cells ELSE mask[x]
      /\ mask' \in [Blocks -> SUBSET Cells]
  <2>1. cells \subseteq Cells
    BY Consts
  <2> QED BY <2>1, <1>1, <1>2, <1>3
<1>9. Parted(k', home, {})
  BY <1>3, <1>4, <1>5, <1>7, Knows DEF Parted, OnlyLists
<1>10. Owned(k', leaked) /\ Useless(k', None)
  BY <1>4, <1>7, Knows DEF Good, Owned, Useless, OnlyLists
<1>11. Placed(k', home, mask', code, None)
  <2>1. Placed(k, home, mask, code, None)
    BY <1>4, Knows DEF Good
  <2>2. \A x \in Listed(k, home) : x # b /\ x \in Blocks /\ mask'[x] = mask[x]
    BY <1>5, <1>8 DEF Listed
  <2>3. Listed2(k', home) \subseteq Listed(k', home)
    BY <2>1, <1>7 DEF Placed
  <2>4. ASSUME NEW x \in Listed(k', home)
        PROVE  /\ mask'[x] \cap Of(home[x]) # {}
               /\ mask'[x] \cap Of(home[x] + 1) # {} => x \in Listed2(k', home)
               /\ x \in code => x \in k'.fn
    <3>1. CASE x = b
      BY <3>1, <1>1, <1>3, <1>7, <1>8
    <3>2. CASE x # b
      <4>1. x \in Listed(k, home) /\ x # None
        BY <3>2, <1>7, <2>2, Consts
      <4>2. k'.fn = k.fn
        BY <1>7 DEF OnlyLists
      <4> QED BY <4>1, <4>2, <2>1, <2>2, <1>7 DEF Placed
    <3> QED BY <3>1, <3>2
  <2> QED BY <2>3, <2>4 DEF Placed
<1>12. Good(k', home, mask', {}, None, leaked, code)
  BY <1>7, <1>9, <1>10, <1>11 DEF Good
<1>13. Masks(home, mask')
  BY <1>6, <1>8, Knows DEF Masks
<1>14. k' \in Records
  BY <1>7 DEF Shape
<1>15. TypeOK'
  BY <1>1, <1>8, <1>14, Knows, Fields DEF TypeOK
<1>16. Places'
  BY <1>1, Consts DEF Places
<1>17. Fresh'
  <2>1. \A x \in code : x # b /\ mask'[x] = mask[x]
    BY <1>3, <1>8, Knows DEF TypeOK
  <2>2. k'.free = k.free
    BY <1>7 DEF OnlyLists
  <2> QED BY <2>1, <2>2, <1>1, <1>4, <1>7, Knows DEF Fresh
<1> QED BY <1>1, <1>4, <1>12, <1>13, <1>15, <1>16, <1>17 DEF IInv

\* A hot block is to be translated.
LEMMA StartRecompileKeeps ==
    ASSUME IInv, StartRecompile
    PROVE  IInv'
<1>1. /\ at = "looked" /\ at' = "allocate" /\ found \notin code \cup {None}
      /\ k' = FlushIf(k.list[here] = <<>>, k, here, here)
      /\ current' = found /\ found' = None
      /\ UNCHANGED <<home, mask, code, dirty, here, recomp, stale, missed, leaked>>
  BY DEF StartRecompile, ghosts
<1>2. /\ Made = {} /\ Made' = {} /\ Cur = None /\ Cur' = None /\ here \in Pages
      /\ found \in Blocks /\ found \notin k.free /\ home[found] = here
  BY <1>1, Knows DEF Made, Cur, TypeOK, Places
<1>3. /\ Good(k', home, mask, {}, None, leaked, code) /\ k'.map[here] # "direct"
      /\ k'.free = k.free /\ k'.aged = k.aged /\ Listed(k', home) = Listed(k, home)
      /\ \A v \in Mappings : k'.map[v] = "direct" => k.map[v] = "direct"
  BY <1>1, <1>2, Knows, FlushedIs
<1>4. k' \in Records
  BY <1>3 DEF Good, Shape
<1>5. TypeOK'
  BY <1>1, <1>2, <1>4, Knows, Fields DEF TypeOK
<1>6. Places'
  <2>1. \A p \in Pages : recomp = p => k'.map[p] # "direct"
    BY <1>3, Knows, Consts DEF Places
  <2> QED BY <2>1, <1>1, <1>2, <1>3 DEF Places
<1>7. Fresh'
  BY <1>1, <1>2, <1>3, Knows DEF Fresh
<1> QED BY <1>1, <1>2, <1>3, <1>5, <1>6, <1>7, Knows DEF IInv

\* A block is deleted for its chunk.
LEMMA ReclaimKeeps ==
    ASSUME IInv, NEW c \in Chunks, Reclaim(c)
    PROVE  IInv'
<1>1. /\ at = "allocate" /\ FreeChunks = {} /\ k.owner[c] \notin k.free \cup {current}
      /\ k' = Delete(k, k.owner[c]) /\ code' = code \ k'.free
      /\ UNCHANGED <<home, mask, dirty, at, found, here, current, recomp, stale, missed, leaked>>
  BY DEF Reclaim, ghosts
<1>2. PICK b : b = k.owner[c]
  OBVIOUS
<1>3. b \in Blocks \ k.free /\ b # current
  BY <1>1, <1>2, Knows, Fields DEF FreeChunks
<1>4. Made = {} /\ Made' = {} /\ Cur = None /\ Cur' = None
  BY <1>1 DEF Made, Cur
<1>5. /\ Good(k', home, mask, {} \ {b}, None, leaked, code)
      /\ k'.free = k.free \cup {b} /\ ToSet(k'.aged) = ToSet(k.aged) \ {b}
      /\ Listed(k', home) = Listed(k, home) \ {b}
      /\ \A v \in Mappings : k'.map[v] = "direct" => k.map[v] = "direct"
  <2>1. k' = Delete(k, b) /\ b # None
    BY <1>1, <1>2, <1>3, Consts
  <2>2. Good(k, home, mask, {}, None, leaked, code) /\ Masks(home, mask)
    BY <1>4, Knows
  <2> QED BY <2>1, <2>2, <1>3, DeleteIs
<1>6. {} \ {b} = {}
  OBVIOUS
<1>7. Good(k', home, mask, {}, None, leaked, code') /\ code' \subseteq code
  <2>1. code' \subseteq code
    BY <1>1
  <2> QED BY <2>1, <1>5, <1>6, GoodLess
<1>8. k' \in Records
  BY <1>7 DEF Good, Shape
<1>9. TypeOK'
  BY <1>1, <1>7, <1>8, Knows, Fields DEF TypeOK
<1>10. Places'
  <2>1. \A p \in Pages : recomp = p => k'.map[p] # "direct"
    BY <1>5, Knows, Consts DEF Places
  <2>2. k'.map[here] # "direct" /\ current \in Blocks \ k'.free /\ home[current] = here
    BY <1>1, <1>3, <1>5, Knows, Consts DEF Places, TypeOK
  <2> QED BY <2>1, <2>2, <1>1 DEF Places
<1>11. Fresh'
  BY <1>1, <1>4, <1>5, Knows DEF Fresh
<1> QED BY <1>1, <1>4, <1>7, <1>9, <1>10, <1>11, Knows DEF IInv

\* The block that is to be translated is given a chunk.
LEMMA AllocateKeeps ==
    ASSUME IInv, NEW c \in Chunks, Allocate(c)
    PROVE  IInv'
<1>1. /\ at = "allocate" /\ at' = "record" /\ c \in FreeChunks /\ recomp' = here
      /\ leaked' = leaked \cup ({k.head[current]} \ {None})
      /\ mask' = [mask EXCEPT ![current] = {}]
      /\ code' = code \cup {current}
      /\ stale' = stale \ {current} /\ missed' = missed \ {current}
      /\ UNCHANGED <<home, dirty, found, here, current>>
  BY DEF Allocate
<1>2. PICK b \in Blocks : b = current /\ b \notin k.free /\ home[b] = here /\ b # None
  BY <1>1, Knows, Consts DEF Places
<1>3. PICK o : o = [k.owner EXCEPT ![c] = b]
  OBVIOUS
<1>4. PICK d : d = [k.head EXCEPT ![b] = c]
  OBVIOUS
<1>5. k' = [k EXCEPT !.owner = o, !.head = d]
  BY <1>2, <1>3, <1>4, Knows DEF Allocate, Records
<1>6. /\ o \in [Chunks -> Blocks \cup {None}] /\ o[c] = b
      /\ \A x \in Chunks \ {c} : o[x] = k.owner[x]
      /\ d \in [Blocks -> Chunks \cup {None}] /\ d[b] = c
      /\ \A x \in Blocks \ {b} : d[x] = k.head[x]
  BY <1>3, <1>4, Knows, Fields
<1>7. /\ k' \in Records /\ k'.free = k.free /\ k'.aged = k.aged /\ k'.list = k.list
      /\ k'.list2 = k.list2 /\ k'.head = d /\ k'.owner = o /\ k'.fn = k.fn /\ k'.map = k.map
  BY <1>5, <1>6, Knows DEF Records
<1>8. Made = {} /\ Made' = {} /\ Cur = None /\ Cur' = b
  BY <1>1, <1>2 DEF Made, Cur
<1>9. Listed(k', home) = Listed(k, home) /\ Listed2(k', home) = Listed2(k, home)
  BY <1>7 DEF Listed, Listed2
<1>10. Shape(k', home)
  BY <1>7, Knows DEF Shape
<1>11. Parted(k', home, {})
  BY <1>7, <1>8, <1>9, Knows DEF Parted
<1>12. Owned(k', leaked')
  <2>1. Owned(k, leaked) /\ k.owner[c] = None /\ leaked \subseteq leaked'
    BY <1>1, Knows DEF Good, FreeChunks
  <2>2. ASSUME NEW x \in Blocks, d[x] # None PROVE o[d[x]] = x
    <3>1. CASE x = b
      BY <3>1, <1>6
    <3>2. CASE x # b
      <4>1. d[x] = k.head[x] /\ k.head[x] \in Chunks /\ k.owner[k.head[x]] = x
        BY <3>2, <2>1, <2>2, <1>6 DEF Owned
      <4>2. k.head[x] # c
        BY <4>1, <2>1, Consts
      <4> QED BY <4>1, <4>2, <1>6
    <3> QED BY <3>1, <3>2
  <2>3. ASSUME NEW x \in Chunks, o[x] # None PROVE x \in leaked' \/ d[o[x]] = x
    <3>1. CASE x = c
      BY <3>1, <1>6
    <3>2. CASE x # c
      <4>1. o[x] = k.owner[x] /\ o[x] \in Blocks
        BY <3>2, <2>3, <1>6
      <4>2. x \in leaked \/ k.head[o[x]] = x
        BY <4>1, <2>1, <2>3 DEF Owned
      <4>3. CASE o[x] = b /\ k.head[b] = x
        BY <4>3, <1>1, <1>2, Consts
      <4>4. CASE ~(o[x] = b /\ k.head[b] = x)
        BY <4>1, <4>2, <4>4, <2>1, <1>6
      <4> QED BY <4>3, <4>4
    <3> QED BY <3>1, <3>2
  <2> QED BY <2>2, <2>3, <1>7 DEF Owned
<1>13. Useless(k', b)
  <2>1. Useless(k, None)
    BY <1>8, Knows DEF Good
  <2>2. ToSet(k.aged) \subseteq Blocks
    BY Knows, Fields, EmptyIs
  <2> QED BY <2>1, <2>2, <1>6, <1>7, Consts DEF Useless
<1>14. /\ \A x \in Blocks : mask'[x] = IF x = b THEN {} ELSE mask[x]
       /\ mask' \in [Blocks -> SUBSET Cells]
  BY <1>1, <1>2, Knows DEF TypeOK
<1>15. Placed(k', home, mask', code', b)
  <2>1. Placed(k, home, mask, code, None)
    BY <1>8, Knows DEF Good
  <2>2. \A x \in Listed(k, home) \ {b} : x # None /\ mask'[x] = mask[x] /\ (x \in code' => x \in code)
    BY <1>1, <1>2, <1>14, Consts DEF Listed
  <2> QED BY <2>1, <2>2, <1>7, <1>9 DEF Placed
<1>16. Good(k', home, mask', {}, b, leaked', code')
  BY <1>10, <1>11, <1>12, <1>13, <1>15 DEF Good
<1>17. Masks(home, mask')
  BY <1>14, Knows DEF Masks
<1>18. TypeOK'
  <2>1. /\ code' \subseteq Blocks /\ leaked' \subseteq Chunks
        /\ stale' \subseteq Blocks /\ missed' \subseteq Blocks
    BY <1>1, <1>2, Knows, Fields DEF TypeOK
  <2> QED BY <2>1, <1>1, <1>7, <1>14, Knows, Fields DEF TypeOK
<1>19. Places'
  BY <1>1, <1>2, <1>7, <1>14, Knows DEF Places
<1>20. Fresh'
  <2>1. \A x \in code' : x = b \/ (x \in code /\ mask'[x] = mask[x])
    BY <1>1, <1>2, <1>14, Knows DEF TypeOK
  <2>2. code' \cap k'.free = {}
    BY <1>1, <1>2, <1>7, Knows DEF Fresh
  <2> QED BY <2>1, <2>2, <1>1, <1>2, <1>7, <1>8, Knows DEF Fresh
<1> QED BY <1>1, <1>8, <1>16, <1>17, <1>18, <1>19, <1>20 DEF IInv

\* A cell is recorded: the mask of the block that is being translated grows.
LEMMA RecordKeeps ==
    ASSUME IInv, NEW c \in Cells, Record(c)
    PROVE  IInv'
<1>1. /\ at = "record" /\ c \in Of(here) \cup Of(here + 1)
      /\ c[1] # here => mask[current] # {}
      /\ mask' = [mask EXCEPT ![current] = @ \cup {c}]
      /\ UNCHANGED <<k, home, code, dirty, at, found, here, current, recomp, stale, missed, leaked>>
  BY DEF Record, ghosts
<1>2. PICK b \in Blocks : b = current /\ b \notin k.free /\ home[b] = here /\ b # None
  BY <1>1, Knows, Consts DEF Places
<1>3. Made = {} /\ Made' = {} /\ Cur = b /\ Cur' = b
  BY <1>1, <1>2 DEF Made, Cur
<1>4. /\ \A x \in Blocks : mask'[x] = IF x = b THEN mask[b] \cup {c} ELSE mask[x]
      /\ mask' \in [Blocks -> SUBSET Cells]
  BY <1>1, <1>2, Knows DEF TypeOK
<1>5. Good(k, home, mask', {}, b, leaked, code)
  <2>1. Good(k, home, mask, {}, b, leaked, code)
    BY <1>3, Knows
  <2>2. \A x \in Listed(k, home) \ {b} : mask'[x] = mask[x]
    BY <1>4 DEF Listed
  <2> QED BY <2>1, <2>2 DEF Good, Placed
<1>6. Masks(home, mask')
  BY <1>1, <1>2, <1>4, Knows DEF Masks
<1>7. TypeOK'
  BY <1>1, <1>4, Knows DEF TypeOK
<1>8. Places'
  <2>1. mask'[b] \cap Of(here) # {}
    <3>1. CASE c[1] = here
      BY <3>1, <1>2, <1>4 DEF Of
    <3>2. CASE c[1] # here
      BY <3>2, <1>1, <1>2, <1>4, Knows DEF Places
    <3> QED BY <3>1, <3>2
  <2> QED BY <2>1, <1>1, <1>2, Knows DEF Places
<1>9. Fresh'
  <2>1. \A x \in code : mask[x] \subseteq mask'[x]
    BY <1>4, Knows DEF TypeOK
  <2> QED BY <2>1, <1>1, <1>3, Knows DEF Fresh
<1> QED BY <1>1, <1>3, <1>5, <1>6, <1>7, <1>8, <1>9 DEF IInv

\* The end of a translation: the block is listed anew, and has a function or is not compiled.
LEMMA EndRecompileKeeps ==
    ASSUME IInv, NEW compiled \in BOOLEAN, EndRecompile(compiled)
    PROVE  IInv'
<1>1. /\ at = "record" /\ at' = "idle" /\ mask[current] # {} /\ recomp' = None
      /\ k' = Epilogue(Enlist(EndMask(TakeOut(k, current), current, mask[current]),
                              current, mask[current]), current, compiled)
      /\ code' = IF compiled THEN code ELSE code \ {current}
      /\ UNCHANGED <<home, mask, dirty, found, here, current, stale, missed, leaked>>
  BY DEF EndRecompile, ghosts
<1>2. PICK b \in Blocks : b = current
  BY <1>1, Knows DEF Places
<1>3. /\ home[b] = here /\ here \in Pages /\ b \notin k.free /\ b # None
      /\ mask[b] \cap Of(home[b]) # {} /\ k.map[home[b]] # "direct"
      /\ home \in [Blocks -> Pages] /\ mask[b] \subseteq Of(home[b]) \cup Of(home[b] + 1)
  BY <1>1, <1>2, Knows, Consts DEF Places, TypeOK, Masks
<1>4. Made = {} /\ Cur = b /\ Made' = {} /\ Cur' = None
  BY <1>1, <1>2 DEF Made, Cur
<1>5. /\ Shape(k, home) /\ Parted(k, home, {}) /\ Owned(k, leaked) /\ Useless(k, b)
      /\ Placed(k, home, mask, code, b) /\ Masks(home, mask)
  BY <1>4, Knows DEF Good
<1>6. PICK t : t = TakeOut(k, b)
  OBVIOUS
<1>7. /\ Shape(t, home) /\ OnlyLists(t, k)
      /\ ToSet(t.aged) = ToSet(k.aged) \ {b} /\ Len(t.aged) <= Len(k.aged)
      /\ Listed(t, home) = Listed(k, home) \ {b}
      /\ Listed2(t, home) = Listed2(k, home) \ {b}
  <2>1. Listed2(k, home) \subseteq Listed(k, home)
    BY <1>5 DEF Placed
  <2>2. b \in Listed(k, home) => mask[b] \cap Of(home[b]) # {} /\ b \notin ToSet(k.aged)
    BY <1>3, <1>5 DEF Parted
  <2>3. b \notin Listed(k, home) /\ b \notin ToSet(k.aged) => mask[b] = {}
    BY <1>3, <1>5 DEF Parted
  <2> QED BY ONLY <2>1, <2>2, <2>3, <1>5, <1>6, b \in Blocks, TakeOutIs
<1>8. PICK e : e = Enlist(EndMask(t, b, mask[b]), b, mask[b])
  OBVIOUS
<1>9. /\ Shape(e, home) /\ OnlyLists(e, t) /\ e.aged = t.aged
      /\ Listed(e, home) = Listed(t, home) \cup {b}
      /\ Listed2(e, home) = Listed2(t, home) \cup {x \in {b} : mask[b] \cap Of(home[b] + 1) # {}}
  <2>1. b \notin Listed(t, home) /\ b \notin Listed2(t, home) /\ t.map[home[b]] # "direct"
    BY <1>3, <1>7, Consts DEF OnlyLists
  <2>2. Shape(t, home)
    BY <1>7
  <2>3. PICK cells : cells = mask[b]
    OBVIOUS
  <2>4. cells \subseteq Of(home[b]) \cup Of(home[b] + 1)
    BY <1>3, <2>3
  <2>5. e = Enlist(EndMask(t, b, cells), b, cells)
    BY <1>8, <2>3
  <2>6. /\ Shape(e, home) /\ OnlyLists(e, t) /\ e.aged = t.aged
        /\ Listed(e, home) = Listed(t, home) \cup {b}
        /\ Listed2(e, home) = Listed2(t, home) \cup {x \in {b} : cells \cap Of(home[b] + 1) # {}}
    BY ONLY <2>1, <2>2, <2>4, <2>5, <1>3, b \in Blocks, EnlistIs
  <2> QED BY <2>3, <2>6
<1>10. e \in Records
  BY <1>9 DEF Shape
<1>11. PICK f : f = IF compiled THEN e.fn \cup {b} ELSE e.fn \ {b}
  OBVIOUS
<1>12. k' = [e EXCEPT !.fn = f]
  <2>1. k' = Epilogue(e, b, compiled)
    BY ONLY <1>1, <1>2, <1>6, <1>8
  <2> QED BY <2>1, <1>10, <1>11 DEF Epilogue, Records
<1>13. f \in SUBSET Blocks
  BY <1>10, <1>11, Fields
<1>14. /\ k' \in Records /\ k'.free = e.free /\ k'.aged = e.aged /\ k'.list = e.list
       /\ k'.list2 = e.list2 /\ k'.head = e.head /\ k'.owner = e.owner /\ k'.fn = f
       /\ k'.map = e.map
  BY <1>10, <1>12, <1>13 DEF Records
<1>15. /\ k'.free = k.free /\ k'.head = k.head /\ k'.owner = k.owner
       /\ f \ {b} = k.fn \ {b} /\ (compiled => b \in f)
       /\ ToSet(k'.aged) = ToSet(k.aged) \ {b} /\ Len(k'.aged) <= Len(k.aged)
  BY <1>7, <1>9, <1>11, <1>14 DEF OnlyLists
<1>16. /\ Listed(k', home) = Listed(k, home) \cup {b}
       /\ Listed2(k', home) = (Listed2(k, home) \ {b})
                                  \cup {x \in {b} : mask[b] \cap Of(home[b] + 1) # {}}
  <2>1. Listed(k', home) = Listed(e, home) /\ Listed2(k', home) = Listed2(e, home)
    BY <1>14 DEF Listed, Listed2
  <2> QED BY <2>1, <1>7, <1>9
<1>17. Shape(k', home)
  BY <1>9, <1>14 DEF Shape
<1>18. Parted(k', home, {})
  BY <1>3, <1>5, <1>15, <1>16 DEF Parted
<1>19. Owned(k', leaked)
  BY <1>5, <1>15 DEF Owned
<1>20. Useless(k', None)
  <2>1. Len(k'.aged) <= DirtyMax
    <3>1. Len(k'.aged) \in Nat /\ Len(k.aged) \in Nat
      BY <1>14, Knows, Fields, LenProperties
    <3> QED BY <3>1, <1>5, <1>15, Consts DEF Useless
  <2>2. ASSUME NEW x \in ToSet(k'.aged)
        PROVE  x \notin k'.fn /\ (k'.head[x] # None => x = None)
    <3>1. x \in ToSet(k.aged) /\ x # b
      BY <1>15
    <3> QED BY <3>1, <1>5, <1>14, <1>15 DEF Useless
  <2> QED BY <2>1, <2>2 DEF Useless
<1>21. code' \subseteq code /\ (b \in code' => compiled)
  BY <1>1, <1>2
<1>22. Placed(k', home, mask, code', None)
  <2>1. Listed2(k', home) \subseteq Listed(k', home)
    BY <1>5, <1>16 DEF Placed
  <2>2. ASSUME NEW x \in Listed(k', home)
        PROVE  /\ mask[x] \cap Of(home[x]) # {}
               /\ mask[x] \cap Of(home[x] + 1) # {} => x \in Listed2(k', home)
               /\ x \in code' => x \in k'.fn
    <3>1. CASE x = b
      BY <3>1, <1>3, <1>14, <1>15, <1>16, <1>21
    <3>2. CASE x # b
      <4>1. x \in Listed(k, home) \ {b}
        BY <3>2, <1>16
      <4> QED BY <4>1, <1>5, <1>14, <1>15, <1>16, <1>21 DEF Placed
    <3> QED BY <3>1, <3>2
  <2> QED BY <2>1, <2>2 DEF Placed
<1>23. Good(k', home, mask, {}, None, leaked, code')
  BY <1>17, <1>18, <1>19, <1>20, <1>22 DEF Good
<1>24. TypeOK'
  BY <1>1, <1>14, <1>21, Knows, Fields DEF TypeOK
<1>25. Places'
  BY <1>1, Consts DEF Places
<1>26. Fresh'
  <2>1. code' \cap k'.free = {}
    BY <1>15, <1>21, Knows DEF Fresh
  <2>2. ASSUME NEW x \in code', x \in stale, x \in ToSet(k'.aged) => x = None
        PROVE  x \in missed \/ mask[x] \cap dirty # {}
    <3>1. x \in code /\ x # None
      BY <1>21, Knows, Consts DEF TypeOK
    <3>2. x \in ToSet(k.aged) => x = b
      BY <3>1, <2>2, <1>15
    <3> QED BY <3>1, <3>2, <2>2, <1>4, Knows DEF Fresh
  <2> QED BY <2>1, <2>2, <1>1, <1>4 DEF Fresh
<1> QED BY <1>1, <1>4, <1>5, <1>23, <1>24, <1>25, <1>26 DEF IInv

\* An instruction faults: the block at hand is deleted.
LEMMA BlockRemoveKeeps ==
    ASSUME IInv, BlockRemove
    PROVE  IInv'
<1>1. /\ at = "mark" \/ (at = "record" /\ mask[current] # {})
      /\ k' = Delete(k, current) /\ code' = code \ {current} /\ recomp' = None /\ at' = "idle"
      /\ UNCHANGED <<home, mask, dirty, found, here, current, stale, missed, leaked>>
  BY DEF BlockRemove, ghosts
<1>2. PICK b \in Blocks : b = current /\ b \notin k.free /\ home[b] = here /\ b # None
  BY <1>1, Knows, Consts DEF Places
<1>3. /\ Made' = {} /\ Cur' = None /\ Cur \in {None, b} /\ Made \ {b} = {}
      /\ b \in Made => at = "mark"
      /\ b = Cur => at = "record"
  BY <1>1, <1>2 DEF Made, Cur
<1>4. /\ b \in Made => mask[b] = {}
      /\ b = Cur /\ b \in Listed(k, home) => mask[b] \cap Of(home[b]) # {}
  BY <1>1, <1>2, <1>3, Knows DEF Places
<1>5. /\ Good(k', home, mask, Made \ {b}, None, leaked, code)
      /\ k'.free = k.free \cup {b} /\ ToSet(k'.aged) = ToSet(k.aged) \ {b}
  <2>1. k' = Delete(k, b)
    BY <1>1, <1>2
  <2>2. Good(k, home, mask, Made, Cur, leaked, code) /\ Masks(home, mask)
    BY Knows
  <2>3. b \in Blocks \ k.free /\ Cur \in {None, b}
    BY <1>2, <1>3
  <2> QED BY ONLY <2>1, <2>2, <2>3, <1>4, DeleteIs
<1>6. Good(k', home, mask, {}, None, leaked, code') /\ code' \subseteq code
  <2>1. code' \subseteq code
    BY <1>1
  <2>2. Good(k', home, mask, {}, None, leaked, code)
    BY <1>3, <1>5
  <2> QED BY <2>1, <2>2, GoodLess
<1>7. k' \in Records
  BY <1>6 DEF Good, Shape
<1>8. TypeOK'
  BY <1>1, <1>6, <1>7, Knows, Fields DEF TypeOK
<1>9. Places'
  BY <1>1, Consts DEF Places
<1>10. Fresh'
  <2>1. code' \cap k'.free = {}
    BY <1>1, <1>2, <1>5, Knows DEF Fresh
  <2>2. ASSUME NEW x \in code', x \in stale, x \in ToSet(k'.aged) => x = None
        PROVE  x \in missed \/ mask[x] \cap dirty # {}
    <3>1. x \in code /\ x # None /\ x # b
      BY <1>1, <1>2, Knows, Consts DEF TypeOK
    <3>2. x \notin ToSet(k.aged)
      BY <3>1, <2>2, <1>5
    <3> QED BY <3>1, <3>2, <2>2, Knows DEF Fresh
  <2> QED BY <2>1, <2>2, <1>1, <1>3 DEF Fresh
<1> QED BY <1>1, <1>3, <1>6, <1>8, <1>9, <1>10, Knows DEF IInv

\* The state without a block: of a record whose chunks in use are all lost.
LEMMA BlankIs ==
    ASSUME NEW o \in [Chunks -> Blocks \cup {None}], NEW lost, {c \in Chunks : o[c] # None} \subseteq lost,
           NEW h, h = [b \in Blocks |-> 1], NEW m, m = [b \in Blocks |-> {}],
           NEW s, s = [free |-> Blocks, aged |-> <<>>,
                       list |-> [p \in Pages |-> <<>>], list2 |-> [p \in Pages |-> <<>>],
                       head |-> [b \in Blocks |-> None], owner |-> o,
                       fn |-> {}, map |-> [v \in Mappings |-> "none"]]
    PROVE  Good(s, h, m, {}, None, lost, {}) /\ Masks(h, m) /\ s \in Records
<1>1. 1 \in Pages
  <2>1. Cardinality(Pages) \in Nat
    BY CodeBlocksAssumption, FS_CardinalityType
  <2>2. Pages = 1 .. Cardinality(Pages) /\ Pages # {}
    BY CodeBlocksAssumption
  <2> QED BY <2>1, <2>2
<1>2. Masks(h, m)
  BY <1>1 DEF Masks
<1>3. PICK e \in Seq(Blocks) : e = <<>> /\ ToSet(e) = {} /\ Len(e) = 0 /\ Once(e)
  <2>1. PICK e \in Seq(Blocks) : e = <<>> /\ Len(e) = 0 /\ DOMAIN e = {}
    <3>1. <<>> \in Seq(Blocks) /\ Len(<<>>) = 0 /\ DOMAIN <<>> = {}
      BY EmptySeq
    <3> QED BY <3>1
  <2>2. ToSet(e) = {} /\ Once(e)
    BY <2>1 DEF ToSet, Once
  <2> QED BY <2>1, <2>2
<1>4. PICK l \in [Pages -> Seq(Blocks)] : l = [p \in Pages |-> e]
  OBVIOUS
<1>5. PICK d \in [Blocks -> Chunks \cup {None}] : d = [b \in Blocks |-> None]
  OBVIOUS
<1>6. PICK f \in [Mappings -> {"none", "direct", "tracked"}] : f = [v \in Mappings |-> "none"]
  OBVIOUS
<1>7. s = [free |-> Blocks, aged |-> e, list |-> l, list2 |-> l, head |-> d, owner |-> o,
           fn |-> {}, map |-> f]
  BY ONLY <1>3, <1>4, <1>5, <1>6, s = [free |-> Blocks, aged |-> <<>>,
                       list |-> [p \in Pages |-> <<>>], list2 |-> [p \in Pages |-> <<>>],
                       head |-> [b \in Blocks |-> None], owner |-> o,
                       fn |-> {}, map |-> [v \in Mappings |-> "none"]]
<1>8. /\ s \in Records /\ s.free = Blocks /\ s.aged = e /\ s.list = l /\ s.list2 = l
      /\ s.head = d /\ s.owner = o /\ s.fn = {} /\ s.map = f
  BY <1>7 DEF Records
<1>9. \A p \in Pages : l[p] = e
  BY <1>4
<1>10. Listed(s, h) = {} /\ Listed2(s, h) = {}
  BY <1>1, <1>3, <1>8, <1>9 DEF Listed, Listed2
<1>11. Shape(s, h)
  BY <1>3, <1>6, <1>8, <1>9, Consts DEF Shape
<1>12. Parted(s, h, {})
  BY <1>3, <1>8, <1>10 DEF Parted
<1>13. Owned(s, lost)
  BY <1>5, <1>8 DEF Owned
<1>14. Useless(s, None)
  BY <1>3, <1>8, Consts DEF Useless
<1>15. Placed(s, h, m, {}, None)
  BY <1>10 DEF Placed
<1> QED BY <1>2, <1>8, <1>11, <1>12, <1>13, <1>14, <1>15 DEF Good

\* The machine is reset: the chunks that stay taken have lost their blocks before.
LEMMA ResetKeeps ==
    ASSUME IInv, Reset
    PROVE  IInv'
<1>1. PICK kept : kept = {c \in Chunks : \A b \in Blocks : k.head[b] # c}
  OBVIOUS
<1>2. PICK o : o = [c \in Chunks |-> IF c \in kept THEN k.owner[c] ELSE None]
  OBVIOUS
<1>3. /\ k' = [free |-> Blocks, aged |-> <<>>,
               list |-> [p \in Pages |-> <<>>], list2 |-> [p \in Pages |-> <<>>],
               head |-> [b \in Blocks |-> None], owner |-> o,
               fn |-> {}, map |-> [v \in Mappings |-> "none"]]
      /\ code' = {} /\ mask' = [b \in Blocks |-> {}] /\ stale' = {} /\ missed' = {}
      /\ home' = [b \in Blocks |-> 1] /\ at' = "idle"
      /\ UNCHANGED <<dirty, found, here, current, recomp, leaked>>
  BY <1>1, <1>2 DEF Reset
<1>4. o \in [Chunks -> Blocks \cup {None}]
  BY <1>2, Knows, Fields
<1>5. {c \in Chunks : o[c] # None} \subseteq leaked
  <2> SUFFICES ASSUME NEW c \in Chunks, o[c] # None PROVE c \in leaked
    OBVIOUS
  <2>1. c \in kept /\ k.owner[c] # None /\ k.owner[c] \in Blocks
    BY <1>2, Knows, Fields
  <2>2. k.head[k.owner[c]] # c
    BY <2>1, <1>1
  <2> QED BY <2>1, <2>2, Knows DEF Good, Owned
<1>6. Good(k', home', mask', {}, None, leaked, {}) /\ Masks(home', mask') /\ k' \in Records
  BY ONLY <1>3, <1>4, <1>5, BlankIs
<1>7. Made' = {} /\ Cur' = None
  BY <1>3 DEF Made, Cur
<1>8. TypeOK'
  BY <1>3, <1>6, Knows, Fields DEF TypeOK, Masks
<1>9. Places'
  <2>1. k'.map = [v \in Mappings |-> "none"]
    BY <1>3
  <2>2. \A p \in Pages : k'.map[p] # "direct"
    BY <2>1, Consts
  <2> QED BY <2>2, <1>3 DEF Places
<1>10. Fresh'
  BY <1>3 DEF Fresh
<1> QED BY <1>3, <1>6, <1>7, <1>8, <1>9, <1>10 DEF IInv

\* The invariant holds when the machine is made.
LEMMA InitHolds ==
    ASSUME Init
    PROVE  IInv
<1>1. PICK o : o = [c \in Chunks |-> None]
  OBVIOUS
<1>2. /\ k = [free |-> Blocks, aged |-> <<>>,
              list |-> [p \in Pages |-> <<>>], list2 |-> [p \in Pages |-> <<>>],
              head |-> [b \in Blocks |-> None], owner |-> o,
              fn |-> {}, map |-> [v \in Mappings |-> "none"]]
      /\ home = [b \in Blocks |-> 1] /\ mask = [b \in Blocks |-> {}]
      /\ code = {} /\ dirty = {}
      /\ at = "idle" /\ found = None /\ here = 1 /\ current = None /\ recomp = None
      /\ stale = {} /\ missed = {} /\ leaked = {}
  BY <1>1 DEF Init
<1>3. o \in [Chunks -> Blocks \cup {None}] /\ {c \in Chunks : o[c] # None} \subseteq {}
  BY <1>1
<1>4. Good(k, home, mask, {}, None, {}, {}) /\ Masks(home, mask) /\ k \in Records
  BY ONLY <1>2, <1>3, BlankIs
<1>5. Made = {} /\ Cur = None
  BY <1>2 DEF Made, Cur
<1>6. 1 \in Pages
  <2>1. Cardinality(Pages) \in Nat
    BY CodeBlocksAssumption, FS_CardinalityType
  <2>2. Pages = 1 .. Cardinality(Pages) /\ Pages # {}
    BY CodeBlocksAssumption
  <2> QED BY <2>1, <2>2
<1>7. TypeOK
  BY <1>2, <1>4, <1>6, Fields DEF TypeOK, Masks
<1>8. Places
  BY <1>2, Consts DEF Places
<1>9. Fresh
  BY <1>2 DEF Fresh
<1> QED BY <1>2, <1>4, <1>5, <1>7, <1>8, <1>9 DEF IInv

\* Every step keeps it.
LEMMA NextKeeps ==
    ASSUME IInv, [Next]_vars
    PROVE  IInv'
<1>1. CASE UNCHANGED vars
  BY <1>1 DEF vars, ghosts, IInv, TypeOK, Good, Shape, Parted, Owned, Useless, Placed, Masks, Places,
         Fresh, Made, Cur, Listed, Listed2
<1>2. ASSUME NEW v \in Mappings, Forget(v) \/ \E c \in Cells : Write(v, c)
      PROVE  IInv'
  BY <1>2, ForgetKeeps, WriteKeeps
<1>3. ASSUME NEW b \in Blocks, Find(b) \/ Take(b)
      PROVE  IInv'
  BY <1>3, FindKeeps, TakeKeeps
<1>4. CASE (\E p \in Pages : Miss(p)) \/ RunOrInterpret \/ TopDiffers
  BY <1>4, LookKeeps
<1>5. CASE BlockInit \/ MakeRoom \/ StartRecompile \/ BlockRemove \/ Reset
  BY <1>5, BlockInitKeeps, MakeRoomKeeps, StartRecompileKeeps, BlockRemoveKeeps, ResetKeeps
<1>6. ASSUME NEW cells \in SUBSET (Of(here) \cup Of(here + 1)), BlockEnd(cells)
      PROVE  IInv'
  BY <1>6, BlockEndKeeps
<1>7. ASSUME NEW c \in Chunks, Reclaim(c) \/ Allocate(c)
      PROVE  IInv'
  BY <1>7, ReclaimKeeps, AllocateKeeps
<1>8. ASSUME NEW c \in Cells, Record(c)
      PROVE  IInv'
  BY <1>8, RecordKeeps
<1>9. ASSUME NEW compiled \in BOOLEAN, EndRecompile(compiled)
      PROVE  IInv'
  BY <1>9, EndRecompileKeeps
<1> QED BY <1>1, <1>2, <1>3, <1>4, <1>5, <1>6, <1>7, <1>8, <1>9 DEF Next

----------------------------------------------------------------------------
(* The theorems *)

\* In every reachable state the lists, chunks, functions, masks and lookups fit each other.
THEOREM Invariance == Spec => []IInv
<1>1. Init => IInv
  BY InitHolds
<1>2. IInv /\ [Next]_vars => IInv'
  BY NextKeeps
<1> QED BY <1>1, <1>2, PTL DEF Spec

\* The code that exec_recompiler enters is that of the bytes in memory, unless the write
\* went round the masks.
THEOREM CurrentCode == Spec => []RunsCurrentCodeUnlessMissed
<1>1. IInv => RunsCurrentCodeUnlessMissed
  BY DEF IInv, Places, RunsCurrentCodeUnlessMissed
<1> QED BY <1>1, Invariance, PTL

\* Of the places that a block may be in, it is in one.
LEMMA OnePlace ==
    ASSUME IInv, NEW b \in Blocks
    PROVE  LET made == IF at = "mark" THEN {current} ELSE {}
           IN  Cardinality({x \in {"free", "aged", "made"} :
                   b \in CASE x = "free" -> k.free [] x = "aged" -> ToSet(k.aged) [] x = "made" -> made})
               = IF b \in ToSet(k.list[home[b]]) THEN 0 ELSE 1
<1> DEFINE Place(x) == CASE x = "free" -> k.free [] x = "aged" -> ToSet(k.aged) [] x = "made" -> Made
           S == {x \in {"free", "aged", "made"} : b \in Place(x)}
<1>1. Place("free") = k.free /\ Place("aged") = ToSet(k.aged) /\ Place("made") = Made
  OBVIOUS
<1> HIDE DEF Place
<1>2. /\ b \in ToSet(k.list[home[b]]) <=> b \notin k.free /\ b \notin ToSet(k.aged) /\ b \notin Made
      /\ ~(b \in k.free /\ b \in ToSet(k.aged))
      /\ ~(b \in Made /\ (b \in k.free \/ b \in ToSet(k.aged)))
  BY Knows DEF Parted, Listed
<1>3. CASE b \in ToSet(k.list[home[b]])
  <2>1. S = {}
    BY <1>1, <1>2, <1>3
  <2> QED BY <2>1, <1>3, FS_EmptySet DEF Made, Place
<1>4. CASE b \notin ToSet(k.list[home[b]])
  <2>1. S = {"free"} \/ S = {"aged"} \/ S = {"made"}
    <3>1. b \in k.free => S = {"free"}
      BY <1>1, <1>2
    <3>2. b \in ToSet(k.aged) => S = {"aged"}
      BY <1>1, <1>2
    <3>3. b \in Made => S = {"made"}
      BY <1>1, <1>2
    <3> QED BY <3>1, <3>2, <3>3, <1>2, <1>4
  <2>2. Cardinality(S) = 1
    BY <2>1, FS_Singleton
  <2> QED BY <2>2, <1>4 DEF Made, Place
<1> QED BY <1>3, <1>4

\* Every block is in exactly one of the lists, as what it is, and can be called if compiled.
THEOREM Lists == Spec => []ListsMatchBlocks
<1>1. ASSUME IInv PROVE ListsMatchBlocks
  <2>1. /\ TypeOK /\ Shape(k, home) /\ Useless(k, Cur) /\ Placed(k, home, mask, code, Cur)
        /\ Places /\ k \in Records
    BY <1>1, Knows DEF Good
  <2>2. \A p \in Pages : \A b \in ToSet(k.list[p]) : home[b] = p
    BY <2>1 DEF Shape
  <2>3. ASSUME NEW p \in Pages, NEW b \in ToSet(k.list2[p])
        PROVE  b \in ToSet(k.list[home[b]]) /\ home[b] + 1 = p
    <3>1. b \in Blocks
      BY <2>1, Fields, EmptyIs
    <3>2. home[b] + 1 = p
      BY <2>1 DEF Shape
    <3>3. b \in Listed2(k, home)
      BY <3>1, <3>2 DEF Listed2
    <3> QED BY <3>2, <3>3, <2>1 DEF Placed, Listed
  <2>4. Len(k.aged) <= DirtyMax
    BY <2>1 DEF Useless
  <2>5. ASSUME NEW b \in ToSet(k.aged)
        PROVE  b \notin k.fn /\ (k.head[b] # None => at = "record" /\ b = current)
    <3>1. b # None
      BY <2>1, Fields, EmptyIs, Consts
    <3> QED BY <3>1, <2>1 DEF Useless, Cur
  <2>6. at = "looked" /\ found \in code => found \in k.fn
    <3> SUFFICES ASSUME at = "looked", found \in code PROVE found \in k.fn
      OBVIOUS
    <3>1. found \in Listed(k, home) /\ Cur = None /\ found # Cur
      BY <2>1, Consts DEF Places, Cur, Listed
    <3> QED BY <3>1, <2>1 DEF Placed
  <2>7. \A b \in Blocks :
          LET made == IF at = "mark" THEN {current} ELSE {}
          IN  Cardinality({x \in {"free", "aged", "made"} :
                  b \in CASE x = "free" -> k.free [] x = "aged" -> ToSet(k.aged) [] x = "made" -> made})
              = IF b \in ToSet(k.list[home[b]]) THEN 0 ELSE 1
    BY <1>1, OnePlace
  <2> QED BY <2>1, <2>2, <2>3, <2>4, <2>5, <2>6, <2>7 DEF ListsMatchBlocks
<1> QED BY <1>1, Invariance, PTL

\* Chunks that each belong to a block of their own leave one free for a block without one.
LEMMA ChunkFree ==
    ASSUME IInv, leaked = {}, NEW b \in Blocks, k.head[b] = None
    PROVE  FreeChunks # {}
<1> SUFFICES ASSUME FreeChunks = {} PROVE FALSE
  OBVIOUS
<1> DEFINE T == Blocks \ {b}
<1>1. k \in Records /\ Owned(k, {})
  BY Knows DEF Good
<1>2. \A c \in Chunks : k.owner[c] \in Blocks /\ k.owner[c] # None /\ k.head[k.owner[c]] = c
  BY <1>1, Fields, Consts DEF Owned, FreeChunks
<1>3. k.owner \in Injection(Chunks, T)
  <2>1. \A c \in Chunks : k.owner[c] \in T
    BY <1>2, Consts
  <2>2. k.owner \in [Chunks -> T]
    BY <2>1, <1>1, Fields
  <2>3. \A c, d \in Chunks : k.owner[c] = k.owner[d] => c = d
    BY <1>2
  <2> QED BY <2>2, <2>3 DEF Injection, IsInjective
<1>4. IsFiniteSet(T) /\ Cardinality(T) = Cardinality(Blocks) - 1
  BY CodeBlocksAssumption, FS_RemoveElement
<1> HIDE DEF T
<1>5. Cardinality(Chunks) <= Cardinality(T)
  BY <1>3, <1>4, FS_Injection
<1>6. Cardinality(Blocks) \in Nat /\ Cardinality(Chunks) \in Nat /\ Cardinality(Blocks) <= Cardinality(Chunks)
  BY CodeBlocksAssumption, FS_CardinalityType
<1> QED BY <1>4, <1>5, <1>6

\* A chunk is free or the one of the block that owns it, and the allocator finds one free,
\* unless a chunk was lost.
THEOREM ChunksSuffice == Spec => []ChunksSufficeUnlessLeaked
<1>1. ASSUME IInv PROVE ChunksSufficeUnlessLeaked
  <2>1. Owned(k, leaked)
    BY <1>1, Knows DEF Good
  <2>2. at = "allocate" /\ leaked = {} /\ k.head[current] = None => FreeChunks # {}
    <3>1. at = "allocate" => current \in Blocks
      BY <1>1, Knows DEF Places
    <3> QED BY <3>1, <1>1, ChunkFree
  <2> QED BY <2>1, <2>2 DEF ChunksSufficeUnlessLeaked, Owned
<1> QED BY <1>1, Invariance, PTL
=============================================================================
