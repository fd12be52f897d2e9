--------------------------- MODULE LRUCacheProofs ---------------------------
(***************************************************************************)
(* Proofs about the cache template, for any entries, sizes and bounds: the *)
(* list, the index and the running total agree after every operation, the  *)
(* eviction ends with a total that fits, and the list keeps the order of   *)
(* use.                                                                    *)
(*                                                                         *)
(* The eviction loop is a recursive function, and the total a sum over the *)
(* list.  The provers have no induction rule to apply; both are handled    *)
(* with the least element of a set of natural numbers (NatMin), and sums   *)
(* with a table of the partial sums (Sums), from which the table of the    *)
(* changed list can be written down.                                       *)
(***************************************************************************)
EXTENDS LRUCache, SequenceTheorems, WellFoundedInduction, TLAPS

\* The natural numbers are well ordered.
LEMMA NatMin ==
    ASSUME NEW T, T \subseteq Nat, T # {}
    PROVE  \E x \in T : \A y \in T : x <= y
<1> DEFINE R == {p \in Nat \X Nat : p[1] < p[2]}
<1>1. IsWellFoundedOn(R, Nat)
  BY Zenon, NatLessThanWellFounded DEF OpToRel
<1>2. \A x, y \in Nat : y < x => <<y, x>> \in R
  BY Zenon
<1> HIDE DEF R
<1>3. PICK x \in T : \A y \in T : ~ (<<y, x>> \in R)
  BY Zenon, <1>1, WFMin
<1>4. ASSUME NEW y \in T PROVE x <= y
  <2>1. x \in Nat /\ y \in Nat
    BY Zenon
  <2>2. ~(y < x)
    BY Zenon, <1>2, <1>3, <2>1
  <2>3. QED
    BY <2>1, <2>2
<1>5. QED
  BY Zenon, <1>4

\* A sequence without its i-th element.
LEMMA WithoutIs ==
    ASSUME NEW S, NEW s \in Seq(S), NEW i \in 1 .. Len(s)
    PROVE  /\ Without(s, i) \in Seq(S)
           /\ Len(Without(s, i)) = Len(s) - 1
           /\ \A j \in 1 .. Len(s) - 1 :
                 Without(s, i)[j] = IF j < i THEN s[j] ELSE s[j + 1]
<1> DEFINE p == SubSeq(s, 1, i - 1)
           q == SubSeq(s, i + 1, Len(s))
<1>1. Len(s) \in Nat /\ i \in Nat /\ \A j \in 1 .. Len(s) : s[j] \in S
  BY LenProperties, ElementOfSeq
<1>2. /\ p \in Seq(S) /\ Len(p) = i - 1
      /\ \A j \in 1 .. i - 1 : p[j] = s[j]
  BY <1>1, SubSeqProperties
<1>3. /\ q \in Seq(S) /\ Len(q) = Len(s) - i
      /\ \A j \in 1 .. Len(s) - i : q[j] = s[i + j]
  BY <1>1, SubSeqProperties
<1> HIDE DEF p, q
<1>4. p \o q \in Seq(S) /\ Len(p \o q) = Len(s) - 1
  <2>1. p \o q \in Seq(S) /\ Len(p \o q) = Len(p) + Len(q)
    BY Zenon, <1>2, <1>3, ConcatProperties
  <2>2. QED
    BY <1>1, <1>2, <1>3, <2>1
<1>5. ASSUME NEW j \in 1 .. Len(s) - 1
      PROVE  (p \o q)[j] = IF j < i THEN s[j] ELSE s[j + 1]
  <2>1. CASE j < i
    BY <1>1, <1>2, <1>3, <2>1
  <2>2. CASE j >= i
    <3>1. (p \o q)[j] = q[j - (i - 1)]
      BY SMTT(60), <1>1, <1>2, <1>3, <2>2
    <3>2. j - (i - 1) \in 1 .. Len(s) - i /\ i + (j - (i - 1)) = j + 1
      BY <1>1, <2>2
    <3>3. q[j - (i - 1)] = s[i + (j - (i - 1))]
      BY Zenon, <1>3, <3>2
    <3>4. QED
      BY <1>1, <2>2, <3>1, <3>2, <3>3
  <2>3. j < i \/ j >= i
    BY <1>1
  <2>4. QED
    BY Zenon, <2>1, <2>2, <2>3
<1>6. QED
  BY Zenon, <1>4, <1>5 DEF Without, p, q

\* A sequence with an element in front.
LEMMA PushIs ==
    ASSUME NEW S, NEW s \in Seq(S), NEW e \in S
    PROVE  /\ <<e>> \o s \in Seq(S)
           /\ Len(<<e>> \o s) = Len(s) + 1
           /\ (<<e>> \o s)[1] = e
           /\ \A j \in 2 .. Len(s) + 1 : (<<e>> \o s)[j] = s[j - 1]
  BY ConcatProperties, LenProperties

(***************************************************************************)
(* The invariant of a cache                                                *)
(***************************************************************************)
Entry(K, D) == [key : K, data : D]

\* t[n] is the total of the first n entries of s.
Sums(s, t) ==
    /\ t \in [0 .. Len(s) -> Int]
    /\ t[0] = 0
    /\ \A n \in 1 .. Len(s) : t[n] = t[n - 1] + SizeOf[s[n].data]

\* The keys of a list are different and are those of the index, and the total is
\* that of the list.
Consistent(s, x, n) ==
    /\ \A i, j \in 1 .. Len(s) : s[i].key = s[j].key => i = j
    /\ x = {s[i].key : i \in 1 .. Len(s)}
    /\ \E t : Sums(s, t) /\ n = t[Len(s)]

Sound(c, K, D) ==
    /\ c \in [list : Seq(Entry(K, D)), index : SUBSET K, counted : Int]
    /\ Consistent(c.list, c.index, c.counted)

Sized(D) == \A d \in D : SizeOf[d] \in Nat

\* The index leads to the entry of a key.
LEMMA AtIs ==
    ASSUME NEW K, NEW D, NEW c, Sound(c, K, D), NEW k \in c.index
    PROVE  At(c, k) \in 1 .. Len(c.list) /\ c.list[At(c, k)].key = k
<1>1. DOMAIN c.list = 1 .. Len(c.list)
  BY Zenon, LenProperties DEF Sound
<1>2. \E i \in DOMAIN c.list : c.list[i].key = k
  BY <1>1 DEF Sound, Consistent
<1>3. QED
  BY Zenon, <1>1, <1>2 DEF At

\* The entries of a list have a size.
LEMMA EntriesSized ==
    ASSUME NEW K, NEW D, Sized(D), NEW s \in Seq(Entry(K, D))
    PROVE  /\ Len(s) \in Nat
           /\ \A j \in 1 .. Len(s) : s[j] \in Entry(K, D) /\ SizeOf[s[j].data] \in Nat
<1>1. Len(s) \in Nat /\ \A j \in 1 .. Len(s) : s[j] \in Entry(K, D)
  BY Zenon, LenProperties, ElementOfSeq
<1>2. \A e \in Entry(K, D) : SizeOf[e.data] \in Nat
  BY Zenon DEF Entry, Sized
<1>3. QED
  BY Zenon, <1>1, <1>2

\* An entry moves to the front.
LEMMA MovedFront ==
    ASSUME NEW K, NEW D, Sized(D), NEW s \in Seq(Entry(K, D)), NEW x, NEW n,
           Consistent(s, x, n), NEW i \in 1 .. Len(s),
           NEW u \in Seq(Entry(K, D)), Len(u) = Len(s), u[1] = s[i],
           \A j \in 2 .. Len(s) : u[j] = IF j <= i THEN s[j - 1] ELSE s[j]
    PROVE  Consistent(u, x, n)
<1>1. /\ Len(s) \in Nat /\ i \in Nat
      /\ \A j \in 1 .. Len(s) : s[j] \in Entry(K, D) /\ SizeOf[s[j].data] \in Nat
  BY EntriesSized
<1>5. /\ Len(u) = Len(s) /\ u[1] = s[i]
      /\ \A j \in 2 .. Len(s) : u[j] = IF j <= i THEN s[j - 1] ELSE s[j]
  BY Zenon
<1>6. \A j, l \in 1 .. Len(u) : u[j].key = u[l].key => j = l
  <2> DEFINE from(j) == IF j = 1 THEN i ELSE IF j <= i THEN j - 1 ELSE j
  <2>1. \A j \in 1 .. Len(u) : from(j) \in 1 .. Len(s) /\ u[j] = s[from(j)]
    BY <1>1, <1>5
  <2>2. \A j, l \in 1 .. Len(u) : from(j) = from(l) => j = l
    BY <1>1, <1>5
  <2> HIDE DEF from
  <2>3. \A j, l \in 1 .. Len(s) : s[j].key = s[l].key => j = l
    BY Zenon DEF Consistent
  <2>4. ASSUME NEW j \in 1 .. Len(u), NEW l \in 1 .. Len(u), u[j].key = u[l].key
        PROVE  j = l
    <3>1. PICK a \in 1 .. Len(s) : a = from(j) /\ u[j] = s[a]
      BY Zenon, <2>1
    <3>2. PICK b \in 1 .. Len(s) : b = from(l) /\ u[l] = s[b]
      BY Zenon, <2>1
    <3>3. a = b
      BY Zenon, <2>3, <2>4, <3>1, <3>2
    <3>4. QED
      BY Zenon, <2>2, <3>1, <3>2, <3>3
  <2>5. QED
    BY Zenon, <2>4
<1>7. x = {u[j].key : j \in 1 .. Len(u)}
  <2> DEFINE from(j) == IF j = 1 THEN i ELSE IF j <= i THEN j - 1 ELSE j
             to(j) == IF j = i THEN 1 ELSE IF j < i THEN j + 1 ELSE j
  <2>1. \A j \in 1 .. Len(u) : from(j) \in 1 .. Len(s) /\ u[j] = s[from(j)]
    BY <1>1, <1>5
  <2>2. \A j \in 1 .. Len(s) : to(j) \in 1 .. Len(u) /\ u[to(j)] = s[j]
    BY <1>1, <1>5
  <2> HIDE DEF from, to
  <2>3. x = {s[j].key : j \in 1 .. Len(s)}
    BY Zenon DEF Consistent
  <2>4. ASSUME NEW k \in x PROVE k \in {u[j].key : j \in 1 .. Len(u)}
    BY SMTT(60), <2>2, <2>3
  <2>5. ASSUME NEW j \in 1 .. Len(u) PROVE u[j].key \in x
    BY Zenon, <2>1, <2>3
  <2>6. QED
    BY Zenon, <2>4, <2>5
<1>8. \E t : Sums(u, t) /\ n = t[Len(u)]
  <2>1. PICK t : Sums(s, t) /\ n = t[Len(s)]
    BY Zenon DEF Consistent
  <2> DEFINE z == SizeOf[s[i].data]
             v == [j \in 0 .. Len(s) |-> IF j = 0 THEN 0
                                         ELSE IF j <= i THEN t[j - 1] + z ELSE t[j]]
  <2>2. /\ z \in Nat /\ t \in [0 .. Len(s) -> Int] /\ t[0] = 0
        /\ \A j \in 1 .. Len(s) : t[j] = t[j - 1] + SizeOf[s[j].data]
    BY Zenon, <1>1, <2>1 DEF Sums
  <2>3. t[i] = t[i - 1] + z
    BY Zenon, <2>2
  <2>4. v \in [0 .. Len(s) -> Int] /\ v[0] = 0
    <3>1. ASSUME NEW j \in 0 .. Len(s)
          PROVE  (IF j = 0 THEN 0 ELSE IF j <= i THEN t[j - 1] + z ELSE t[j]) \in Int
      <4>1. j # 0 => j - 1 \in 0 .. Len(s)
        BY <1>1
      <4>2. t[j] \in Int /\ (j # 0 => t[j - 1] \in Int)
        BY Zenon, <2>2, <4>1
      <4>3. QED
        BY SMTT(60), <2>2, <4>2
    <3>2. QED
      BY <1>1, <3>1
  <2>8. \A j \in 0 .. Len(s) : v[j] = IF j = 0 THEN 0 ELSE IF j <= i THEN t[j - 1] + z
                                                          ELSE t[j]
    BY Zenon
  <2> HIDE DEF v
  <2>5. ASSUME NEW j \in 1 .. Len(s)
        PROVE  v[j] = v[j - 1] + SizeOf[u[j].data]
    <3>1. CASE j = 1
      BY <1>1, <1>5, <2>8, <2>2, <3>1
    <3>2. CASE j # 1 /\ j <= i
      <4>1. PICK l \in 1 .. Len(s) : l = j - 1 /\ l <= i /\ l \in 0 .. Len(s) /\ l # 0
        BY <1>1, <3>2
      <4>2. l - 1 \in 0 .. Len(s)
        BY <1>1
      <4>3. PICK a \in Int : a = t[l - 1]
        BY Zenon, <2>2, <4>2
      <4>4. PICK w \in Nat : w = SizeOf[s[l].data]
        BY Zenon, <1>1
      <4>5. t[l] = a + w
        BY Zenon, <2>2, <4>3, <4>4
      <4>6. v[j] = t[l] + z /\ u[j] = s[l]
        BY <1>1, <1>5, <2>8, <3>2, <4>1
      <4>7. v[l] = a + z
        BY Zenon, <2>8, <4>1, <4>3
      <4>8. v[j] = (a + w) + z /\ v[j - 1] = a + z /\ SizeOf[u[j].data] = w
        BY Zenon, <4>1, <4>4, <4>5, <4>6, <4>7
      <4>9. QED
        BY SMTT(60), <2>2, <4>8
    <3>3. CASE j # 1 /\ j = i + 1
      <4>1. v[j] = t[j] /\ v[j - 1] = t[j - 2] + z /\ u[j] = s[j]
        BY <1>1, <1>5, <2>8, <3>3
      <4>2. t[j] = t[j - 1] + SizeOf[s[j].data] /\ t[j - 1] = t[j - 2] + z
        BY <1>1, <2>2, <2>3, <3>3
      <4>3. QED
        BY Zenon, <4>1, <4>2
    <3>4. CASE j > i + 1
      <4>1. v[j] = t[j] /\ v[j - 1] = t[j - 1] /\ u[j] = s[j]
        BY SMTT(60), <1>1, <1>5, <2>8, <3>4
      <4>2. QED
        BY Zenon, <2>2, <4>1
    <3>5. QED
      BY <1>1, <3>1, <3>2, <3>3, <3>4
  <2>6. v[Len(s)] = t[Len(s)]
    BY SMTT(60), <1>1, <2>2, <2>3, <2>8
  <2> HIDE DEF z
  <2>7. QED
    BY Zenon, <1>5, <2>1, <2>4, <2>5, <2>6 DEF Sums
<1>9. QED
  BY Zenon, <1>5, <1>6, <1>7, <1>8 DEF Consistent

\* t is c with its i-th entry in front.
Touched(t, c, i) ==
    /\ t.index = c.index /\ t.counted = c.counted
    /\ Len(t.list) = Len(c.list) /\ t.list[1] = c.list[i]
    /\ \A j \in 2 .. Len(c.list) : t.list[j] = IF j <= i THEN c.list[j - 1] ELSE c.list[j]

\* touch: the entry of a key moves to the front.
LEMMA TouchSound ==
    ASSUME NEW K, NEW D, Sized(D), NEW c, Sound(c, K, D), NEW k \in c.index
    PROVE  Sound(touch(c, k), K, D) /\ Touched(touch(c, k), c, At(c, k))
<1>1. PICK i \in 1 .. Len(c.list) : i = At(c, k) /\ c.list[i].key = k
  BY AtIs
<1>2. PICK s \in Seq(Entry(K, D)) : s = c.list
  BY Zenon DEF Sound
<1>3. Consistent(s, c.index, c.counted) /\ i \in 1 .. Len(s) /\ Len(s) \in Nat
  BY Zenon, <1>1, <1>2, LenProperties DEF Sound
<1>4. PICK u \in Seq(Entry(K, D)) :
            /\ u = <<s[i]>> \o Without(s, i) /\ Len(u) = Len(s) /\ u[1] = s[i]
            /\ \A j \in 2 .. Len(s) : u[j] = IF j <= i THEN s[j - 1] ELSE s[j]
            /\ Consistent(u, c.index, c.counted)
  <2>1. PICK r \in Seq(Entry(K, D)) :
              /\ r = Without(s, i) /\ Len(r) = Len(s) - 1
              /\ \A j \in 1 .. Len(s) - 1 : r[j] = IF j < i THEN s[j] ELSE s[j + 1]
    BY Zenon, <1>3, WithoutIs
  <2>2. PICK e \in Entry(K, D) : e = s[i]
    BY Zenon, <1>3, ElementOfSeq
  <2>3. PICK u \in Seq(Entry(K, D)) :
              /\ u = <<e>> \o r /\ Len(u) = Len(r) + 1 /\ u[1] = e
              /\ \A j \in 2 .. Len(r) + 1 : u[j] = r[j - 1]
    <3>1. /\ <<e>> \o r \in Seq(Entry(K, D)) /\ Len(<<e>> \o r) = Len(r) + 1
          /\ (<<e>> \o r)[1] = e
          /\ \A j \in 2 .. Len(r) + 1 : (<<e>> \o r)[j] = r[j - 1]
      BY PushIs
    <3>2. QED
      BY Zenon, <3>1
  <2>4. /\ Len(u) = Len(s) /\ u[1] = s[i]
        /\ \A j \in 2 .. Len(s) : u[j] = IF j <= i THEN s[j - 1] ELSE s[j]
    BY <1>3, <2>1, <2>2, <2>3
  <2>5. Consistent(u, c.index, c.counted)
    BY Zenon, <1>3, <2>4, MovedFront
  <2>6. QED
    BY Zenon, <2>1, <2>2, <2>3, <2>4, <2>5
<1>5. touch(c, k) = [c EXCEPT !.list = u]
  BY Zenon, <1>1, <1>2, <1>4 DEF touch
<1>6. /\ touch(c, k) \in [list : Seq(Entry(K, D)), index : SUBSET K, counted : Int]
      /\ touch(c, k).list = u /\ touch(c, k).index = c.index
      /\ touch(c, k).counted = c.counted
  BY Zenon, <1>4, <1>5 DEF Sound
<1>7. QED
  BY Zenon, <1>1, <1>2, <1>4, <1>6 DEF Sound, Touched

\* An entry is taken out.
LEMMA TakenOut ==
    ASSUME NEW K, NEW D, Sized(D), NEW s \in Seq(Entry(K, D)), NEW x, NEW n \in Int,
           Consistent(s, x, n), NEW i \in 1 .. Len(s),
           NEW u \in Seq(Entry(K, D)), Len(u) = Len(s) - 1,
           \A j \in 1 .. Len(s) - 1 : u[j] = IF j < i THEN s[j] ELSE s[j + 1]
    PROVE  /\ n - SizeOf[s[i].data] \in Int
           /\ Consistent(u, x \ {s[i].key}, n - SizeOf[s[i].data])
<1>1. /\ Len(s) \in Nat /\ i \in Nat
      /\ \A j \in 1 .. Len(s) : s[j] \in Entry(K, D) /\ SizeOf[s[j].data] \in Nat
  BY EntriesSized
<1>2. /\ Len(u) = Len(s) - 1
      /\ \A j \in 1 .. Len(s) - 1 : u[j] = IF j < i THEN s[j] ELSE s[j + 1]
  BY Zenon
<1>3. /\ \A j, l \in 1 .. Len(s) : s[j].key = s[l].key => j = l
      /\ x = {s[j].key : j \in 1 .. Len(s)}
  BY Zenon DEF Consistent
<1> DEFINE from(j) == IF j < i THEN j ELSE j + 1
           to(j) == IF j < i THEN j ELSE j - 1
<1>4. \A j \in 1 .. Len(u) : /\ from(j) \in 1 .. Len(s) /\ from(j) # i
                              /\ u[j] = s[from(j)]
  BY <1>1, <1>2
<1>5. \A j, l \in 1 .. Len(u) : from(j) = from(l) => j = l
  BY <1>1, <1>2
<1>6. \A j \in 1 .. Len(s) : j # i => to(j) \in 1 .. Len(u) /\ u[to(j)] = s[j]
  BY <1>1, <1>2
<1> HIDE DEF from, to
<1>7. ASSUME NEW j \in 1 .. Len(u), NEW l \in 1 .. Len(u), u[j].key = u[l].key
      PROVE  j = l
  <2>1. PICK a \in 1 .. Len(s) : a = from(j) /\ u[j] = s[a]
    BY Zenon, <1>4
  <2>2. PICK b \in 1 .. Len(s) : b = from(l) /\ u[l] = s[b]
    BY Zenon, <1>4
  <2>3. a = b
    BY Zenon, <1>3, <1>7, <2>1, <2>2
  <2>4. QED
    BY Zenon, <1>5, <2>1, <2>2, <2>3
<1>8. x \ {s[i].key} = {u[j].key : j \in 1 .. Len(u)}
  <2>1. ASSUME NEW k \in x, k # s[i].key
        PROVE  k \in {u[j].key : j \in 1 .. Len(u)}
    <3>1. PICK j \in 1 .. Len(s) : k = s[j].key
      BY Zenon, <1>3
    <3>2. j # i
      BY Zenon, <2>1, <3>1
    <3>3. QED
      BY Zenon, <1>6, <3>1, <3>2
  <2>2. ASSUME NEW j \in 1 .. Len(u)
        PROVE  u[j].key \in x /\ u[j].key # s[i].key
    <3>1. PICK a \in 1 .. Len(s) : a # i /\ u[j] = s[a]
      BY Zenon, <1>4
    <3>2. QED
      BY Zenon, <1>3, <3>1
  <2>3. QED
    BY Zenon, <2>1, <2>2
<1>9. PICK z \in Nat : z = SizeOf[s[i].data]
  BY Zenon, <1>1
<1>10. \E v : Sums(u, v) /\ n - z = v[Len(u)]
  <2>1. PICK t : Sums(s, t) /\ n = t[Len(s)]
    BY Zenon DEF Consistent
  <2>2. /\ t \in [0 .. Len(s) -> Int] /\ t[0] = 0
        /\ \A j \in 1 .. Len(s) : t[j] = t[j - 1] + SizeOf[s[j].data]
    BY Zenon, <2>1 DEF Sums
  <2>3. t[i] = t[i - 1] + z
    BY Zenon, <1>9, <2>2
  <2> DEFINE v == [j \in 0 .. Len(u) |-> IF j < i THEN t[j] ELSE t[j + 1] - z]
  <2>4. v \in [0 .. Len(u) -> Int]
    <3>1. ASSUME NEW j \in 0 .. Len(u)
          PROVE  (IF j < i THEN t[j] ELSE t[j + 1] - z) \in Int
      <4>1. j \in 0 .. Len(s) /\ j + 1 \in 0 .. Len(s)
        BY <1>1, <1>2
      <4>2. t[j] \in Int /\ t[j + 1] \in Int
        BY Zenon, <2>2, <4>1
      <4>3. QED
        BY <4>2
    <3>2. QED
      BY Zenon, <3>1
  <2>5. v[0] = 0
    BY <1>1, <1>2, <2>2
  <2>9. \A j \in 0 .. Len(u) : v[j] = IF j < i THEN t[j] ELSE t[j + 1] - z
    BY Zenon
  <2> HIDE DEF v
  <2>6. ASSUME NEW j \in 1 .. Len(u)
        PROVE  v[j] = v[j - 1] + SizeOf[u[j].data]
    <3>1. CASE j < i
      <4>1. v[j] = t[j] /\ v[j - 1] = t[j - 1] /\ u[j] = s[j] /\ j \in 1 .. Len(s)
        BY <1>1, <1>2, <2>9, <3>1
      <4>2. QED
        BY Zenon, <2>2, <4>1
    <3>2. CASE j = i
      <4>1. PICK l \in 1 .. Len(s) : l = j + 1 /\ l - 1 = i
        BY <1>1, <1>2, <3>2
      <4>2. v[j] = t[l] - z /\ v[j - 1] = t[i - 1] /\ u[j] = s[l]
        BY <1>1, <1>2, <2>9, <3>2, <4>1
      <4>3. t[l] = t[i] + SizeOf[s[l].data]
        BY Zenon, <2>2, <4>1
      <4>4. i - 1 \in 0 .. Len(s)
        BY <1>1
      <4>5. PICK a \in Int : a = t[i - 1]
        BY Zenon, <2>2, <4>4
      <4>6. PICK w \in Nat : w = SizeOf[s[l].data]
        BY Zenon, <1>1
      <4>7. v[j] = ((a + z) + w) - z /\ v[j - 1] = a /\ SizeOf[u[j].data] = w
        BY Zenon, <2>3, <4>2, <4>3, <4>5, <4>6
      <4>8. QED
        BY <4>7
    <3>3. CASE j > i
      <4>1. PICK l \in 1 .. Len(s) : l = j + 1 /\ l - 1 = j /\ j \in 0 .. Len(s)
        BY <1>1, <1>2, <3>3
      <4>2. v[j] = t[l] - z /\ v[j - 1] = t[j] - z /\ u[j] = s[l]
        BY <1>1, <1>2, <2>9, <3>3, <4>1
      <4>3. t[l] = t[j] + SizeOf[s[l].data]
        BY Zenon, <2>2, <4>1
      <4>4. PICK a \in Int : a = t[j]
        BY Zenon, <2>2, <4>1
      <4>5. PICK w \in Nat : w = SizeOf[s[l].data]
        BY Zenon, <1>1
      <4>6. v[j] = (a + w) - z /\ v[j - 1] = a - z /\ SizeOf[u[j].data] = w
        BY Zenon, <4>2, <4>3, <4>4, <4>5
      <4>7. QED
        BY <4>6
    <3>4. j < i \/ j = i \/ j > i
      BY <1>1, <1>2
    <3>5. QED
      BY Zenon, <3>1, <3>2, <3>3, <3>4
  <2>7. v[Len(u)] = t[Len(s)] - z
    <3>1. CASE i = Len(s)
      <4>1. v[Len(u)] = t[i - 1]
        BY <1>1, <1>2, <2>9, <3>1
      <4>2. i - 1 \in 0 .. Len(s)
        BY <1>1
      <4>3. t[i - 1] \in Int
        BY Zenon, <2>2, <4>2
      <4>4. QED
        BY <2>3, <3>1, <4>1, <4>3
    <3>2. CASE i < Len(s)
      BY <1>1, <1>2, <2>9, <3>2
    <3>3. QED
      BY <1>1, <3>1, <3>2
  <2>8. QED
    BY Zenon, <2>1, <2>4, <2>5, <2>6, <2>7 DEF Sums
<1>11. /\ n - SizeOf[s[i].data] \in Int
       /\ \E v : Sums(u, v) /\ n - SizeOf[s[i].data] = v[Len(u)]
  BY SMTT(60), <1>9, <1>10
<1>12. QED
  BY Zenon, <1>7, <1>8, <1>11 DEF Consistent

\* An entry with a new key is put in front.
LEMMA PutFront ==
    ASSUME NEW K, NEW D, Sized(D), NEW s \in Seq(Entry(K, D)), NEW x, NEW n \in Int,
           Consistent(s, x, n), NEW e \in Entry(K, D), e.key \notin x,
           NEW u \in Seq(Entry(K, D)), Len(u) = Len(s) + 1, u[1] = e,
           \A j \in 2 .. Len(s) + 1 : u[j] = s[j - 1]
    PROVE  /\ n + SizeOf[e.data] \in Int
           /\ Consistent(u, x \cup {e.key}, n + SizeOf[e.data])
<1>1. /\ Len(s) \in Nat
      /\ \A j \in 1 .. Len(s) : s[j] \in Entry(K, D) /\ SizeOf[s[j].data] \in Nat
  BY Zenon, EntriesSized
<1>2. /\ Len(u) = Len(s) + 1 /\ u[1] = e
      /\ \A j \in 2 .. Len(s) + 1 : u[j] = s[j - 1]
  BY Zenon
<1>3. /\ \A j, l \in 1 .. Len(s) : s[j].key = s[l].key => j = l
      /\ x = {s[j].key : j \in 1 .. Len(s)}
  BY Zenon DEF Consistent
<1>4. \A j \in 1 .. Len(s) : j + 1 \in 1 .. Len(u) /\ u[j + 1] = s[j]
  BY <1>1, <1>2
<1>5. ASSUME NEW j \in 1 .. Len(u)
      PROVE  j = 1 \/ \E l \in 1 .. Len(s) : l = j - 1 /\ u[j] = s[l]
  BY <1>1, <1>2
<1>6. ASSUME NEW j \in 1 .. Len(u), NEW l \in 1 .. Len(u), u[j].key = u[l].key
      PROVE  j = l
  <2>1. \A a \in 1 .. Len(s) : s[a].key # e.key
    BY Zenon, <1>3
  <2>2. CASE j = 1 \/ l = 1
    BY Zenon, <1>2, <1>5, <1>6, <2>1, <2>2
  <2>3. CASE j # 1 /\ l # 1
    <3>1. PICK a \in 1 .. Len(s) : a = j - 1 /\ u[j] = s[a]
      BY Zenon, <1>5, <2>3
    <3>2. PICK b \in 1 .. Len(s) : b = l - 1 /\ u[l] = s[b]
      BY Zenon, <1>5, <2>3
    <3>3. a = b
      BY Zenon, <1>3, <1>6, <3>1, <3>2
    <3>4. QED
      BY <1>1, <1>2, <3>1, <3>2, <3>3
  <2>4. QED
    BY Zenon, <2>2, <2>3
<1>7. x \cup {e.key} = {u[j].key : j \in 1 .. Len(u)}
  <2>1. ASSUME NEW k \in x PROVE k \in {u[j].key : j \in 1 .. Len(u)}
    BY <1>3, <1>4
  <2>2. 1 \in 1 .. Len(u)
    BY <1>1, <1>2
  <2>3. ASSUME NEW j \in 1 .. Len(u) PROVE u[j].key \in x \cup {e.key}
    BY Zenon, <1>2, <1>3, <1>5
  <2>4. QED
    BY Zenon, <1>2, <2>1, <2>2, <2>3
<1>8. PICK z \in Nat : z = SizeOf[e.data]
  BY Zenon DEF Sized, Entry
<1>9. \E v : Sums(u, v) /\ n + z = v[Len(u)]
  <2>1. PICK t : Sums(s, t) /\ n = t[Len(s)]
    BY Zenon DEF Consistent
  <2>2. /\ t \in [0 .. Len(s) -> Int] /\ t[0] = 0
        /\ \A j \in 1 .. Len(s) : t[j] = t[j - 1] + SizeOf[s[j].data]
    BY Zenon, <2>1 DEF Sums
  <2> DEFINE v == [j \in 0 .. Len(u) |-> IF j = 0 THEN 0 ELSE t[j - 1] + z]
  <2>3. v \in [0 .. Len(u) -> Int]
    <3>1. ASSUME NEW j \in 0 .. Len(u)
          PROVE  (IF j = 0 THEN 0 ELSE t[j - 1] + z) \in Int
      <4>1. j # 0 => j - 1 \in 0 .. Len(s)
        BY <1>1, <1>2
      <4>2. j # 0 => t[j - 1] \in Int
        BY Zenon, <2>2, <4>1
      <4>3. QED
        BY <4>2
    <3>2. QED
      BY Zenon, <3>1
  <2>4. \A j \in 0 .. Len(u) : v[j] = IF j = 0 THEN 0 ELSE t[j - 1] + z
    BY Zenon
  <2> HIDE DEF v
  <2>5. v[0] = 0 /\ v[1] = z /\ v[Len(u)] = t[Len(s)] + z
    BY <1>1, <1>2, <2>2, <2>4
  <2>6. ASSUME NEW j \in 1 .. Len(u)
        PROVE  v[j] = v[j - 1] + SizeOf[u[j].data]
    <3>1. CASE j = 1
      BY <1>2, <1>8, <2>5, <3>1
    <3>2. CASE j # 1
      <4>1. PICK l \in 1 .. Len(s) : l = j - 1 /\ u[j] = s[l] /\ l \in 0 .. Len(u) /\ l # 0
        BY <1>1, <1>2, <1>5, <3>2
      <4>2. l - 1 \in 0 .. Len(s)
        BY <1>1
      <4>3. PICK a \in Int : a = t[l - 1]
        BY Zenon, <2>2, <4>2
      <4>4. PICK w \in Nat : w = SizeOf[s[l].data]
        BY Zenon, <1>1
      <4>5. t[l] = a + w
        BY Zenon, <2>2, <4>3, <4>4
      <4>6. v[j] = t[l] + z
        BY <1>1, <1>2, <2>4, <4>1
      <4>7. v[l] = a + z
        BY Zenon, <2>4, <4>1, <4>3
      <4>8. v[j] = (a + w) + z /\ v[j - 1] = a + z /\ SizeOf[u[j].data] = w
        BY Zenon, <4>1, <4>4, <4>5, <4>6, <4>7
      <4>9. QED
        BY <4>8
    <3>3. QED
      BY Zenon, <3>1, <3>2
  <2>7. QED
    BY Zenon, <2>1, <2>3, <2>5, <2>6 DEF Sums
<1>10. /\ n + SizeOf[e.data] \in Int
       /\ \E v : Sums(u, v) /\ n + SizeOf[e.data] = v[Len(u)]
  BY <1>8, <1>9
<1>11. QED
  BY Zenon, <1>6, <1>7, <1>10 DEF Consistent

\* r is c without the entry of k, p is c with an entry in front.
Removed(r, c, k) ==
    /\ r.index = c.index \ {k}
    /\ Len(r.list) = Len(c.list) - 1
    /\ \A j \in 1 .. Len(c.list) - 1 :
          r.list[j] = IF j < At(c, k) THEN c.list[j] ELSE c.list[j + 1]
InFront(p, c, k, d) ==
    /\ p.list[1] = [key |-> k, data |-> d]
    /\ Len(p.list) = Len(c.list) + 1
    /\ \A j \in 2 .. Len(c.list) + 1 : p.list[j] = c.list[j - 1]

\* remove: the entry of a key is taken out.
LEMMA RemoveSound ==
    ASSUME NEW K, NEW D, Sized(D), NEW c, Sound(c, K, D), NEW k \in c.index
    PROVE  Sound(remove(c, k), K, D) /\ Removed(remove(c, k), c, k)
<1>1. PICK i \in 1 .. Len(c.list) : i = At(c, k) /\ c.list[i].key = k
  BY AtIs
<1>2. /\ c.list \in Seq(Entry(K, D)) /\ c.index \in SUBSET K /\ c.counted \in Int
      /\ Consistent(c.list, c.index, c.counted)
  BY Zenon DEF Sound
<1>3. PICK s \in Seq(Entry(K, D)), x \in SUBSET K, n \in Int :
         s = c.list /\ x = c.index /\ n = c.counted
  BY Zenon, <1>2
<1>4. Consistent(s, x, n) /\ i \in 1 .. Len(s) /\ s[i].key = k
  BY Zenon, <1>1, <1>2, <1>3
<1>5. PICK u \in Seq(Entry(K, D)) :
            /\ u = Without(s, i) /\ Len(u) = Len(s) - 1
            /\ \A j \in 1 .. Len(s) - 1 : u[j] = IF j < i THEN s[j] ELSE s[j + 1]
  BY Zenon, <1>4, WithoutIs
<1>6. /\ n - SizeOf[s[i].data] \in Int
      /\ Consistent(u, x \ {s[i].key}, n - SizeOf[s[i].data])
  BY Zenon, <1>4, <1>5, TakenOut
<1>7. PICK m \in Int : m = n - SizeOf[s[i].data]
  BY Zenon, <1>6
<1>8. Consistent(u, x \ {k}, m)
  BY Zenon, <1>4, <1>6, <1>7
<1>9. remove(c, k) = [list |-> u, index |-> x \ {k}, counted |-> m]
  BY Zenon, <1>1, <1>3, <1>5, <1>7 DEF remove
<1>10. Sound(remove(c, k), K, D)
  BY <1>8, <1>9 DEF Sound
<1>11. QED
  BY <1>1, <1>3, <1>5, <1>9, <1>10 DEF Removed

\* An entry with a new key is put in front of the list.
LEMMA PushedSound ==
    ASSUME NEW K, NEW D, Sized(D), NEW c, Sound(c, K, D), NEW k \in K, NEW d \in D,
           k \notin c.index
    PROVE  Sound(Pushed(c, k, d), K, D) /\ InFront(Pushed(c, k, d), c, k, d)
<1>1. /\ c.list \in Seq(Entry(K, D)) /\ c.index \in SUBSET K /\ c.counted \in Int
      /\ Consistent(c.list, c.index, c.counted)
  BY Zenon DEF Sound
<1>2. PICK s \in Seq(Entry(K, D)), x \in SUBSET K, n \in Int :
         s = c.list /\ x = c.index /\ n = c.counted
  BY Zenon, <1>1
<1>3. PICK e \in Entry(K, D) : e = [key |-> k, data |-> d]
  BY Zenon DEF Entry
<1>4. e.key = k /\ e.data = d
  BY Zenon, <1>3
<1>5. PICK u \in Seq(Entry(K, D)) :
            /\ u = <<e>> \o s /\ Len(u) = Len(s) + 1 /\ u[1] = e
            /\ \A j \in 2 .. Len(s) + 1 : u[j] = s[j - 1]
  <2>1. /\ <<e>> \o s \in Seq(Entry(K, D))
        /\ Len(<<e>> \o s) = Len(s) + 1
        /\ (<<e>> \o s)[1] = e
        /\ \A j \in 2 .. Len(s) + 1 : (<<e>> \o s)[j] = s[j - 1]
    BY PushIs
  <2>2. QED
    BY Zenon, <2>1
<1>6. Consistent(s, x, n) /\ e.key \notin x
  BY Zenon, <1>1, <1>2, <1>4
<1>7. /\ n + SizeOf[e.data] \in Int
      /\ Consistent(u, x \cup {e.key}, n + SizeOf[e.data])
  BY ZenonT(60), <1>5, <1>6, PutFront
<1>8. PICK m \in Int, y \in SUBSET K : m = n + SizeOf[d] /\ y = x \cup {k}
  BY Zenon, <1>4, <1>7
<1>9. Consistent(u, y, m)
  BY Zenon, <1>4, <1>7, <1>8
<1>10. Pushed(c, k, d) = [list |-> u, index |-> y, counted |-> m]
  BY Zenon, <1>2, <1>3, <1>5, <1>8 DEF Pushed
<1>11. Sound(Pushed(c, k, d), K, D)
  BY <1>9, <1>10 DEF Sound
<1>12. QED
  BY <1>2, <1>3, <1>5, <1>10, <1>11 DEF InFront

\* a is c with an entry in front, in place of an old one for its key.
NewFront(a, c, k, d) ==
    /\ a.list[1] = [key |-> k, data |-> d]
    /\ Len(a.list) = Len(c.list) + IF k \in c.index THEN 0 ELSE 1
    /\ \A j \in 2 .. Len(a.list) :
          a.list[j] = IF k \in c.index /\ j > At(c, k) THEN c.list[j] ELSE c.list[j - 1]

\* What insert does before it evicts: the new entry comes first, the others follow
\* in their order, without an old one for the key.
LEMMA AddedSound ==
    ASSUME NEW K, NEW D, Sized(D), NEW c, Sound(c, K, D), NEW k \in K, NEW d \in D
    PROVE  /\ Sound(Added(c, k, d), K, D)
           /\ NewFront(Added(c, k, d), c, k, d)
<1>1. PICK a : a = Added(c, k, d)
  BY Zenon
<1>2. Len(c.list) \in Nat
  BY Zenon, LenProperties DEF Sound
<1>3. CASE k \notin c.index
  <2>1. a = Pushed(c, k, d)
    BY Zenon, <1>1, <1>3 DEF Added, exists
  <2>2. /\ Sound(a, K, D)
        /\ a.list[1] = [key |-> k, data |-> d]
        /\ Len(a.list) = Len(c.list) + 1
        /\ \A j \in 2 .. Len(c.list) + 1 : a.list[j] = c.list[j - 1]
    <3>1. Sound(Pushed(c, k, d), K, D) /\ InFront(Pushed(c, k, d), c, k, d)
      BY Zenon, <1>3, PushedSound
    <3>2. QED
      BY Zenon, <2>1, <3>1 DEF InFront
  <2>3. QED
    BY Zenon, <1>1, <1>2, <1>3, <2>2 DEF NewFront
<1>4. CASE k \in c.index
  <2>1. PICK i \in 1 .. Len(c.list) : i = At(c, k) /\ c.list[i].key = k
    BY <1>4, AtIs
  <2>2. PICK t : /\ t = touch(c, k) /\ Sound(t, K, D) /\ t.index = c.index
                 /\ Len(t.list) = Len(c.list) /\ t.list[1] = c.list[i]
                 /\ \A j \in 2 .. Len(c.list) :
                       t.list[j] = IF j <= i THEN c.list[j - 1] ELSE c.list[j]
    <3>1. Sound(touch(c, k), K, D) /\ Touched(touch(c, k), c, i)
      BY Zenon, <1>4, <2>1, TouchSound
    <3>2. QED
      BY Zenon, <3>1 DEF Touched
  <2>3. At(t, k) = 1
    <3>1. At(t, k) \in 1 .. Len(t.list) /\ t.list[At(t, k)].key = k
      BY <1>4, <2>2, AtIs
    <3>2. 1 \in 1 .. Len(t.list) /\ t.list[1].key = k
      BY <1>2, <2>1, <2>2
    <3>3. \A j, l \in 1 .. Len(t.list) : t.list[j].key = t.list[l].key => j = l
      BY Zenon, <2>2 DEF Sound, Consistent
    <3>4. QED
      BY Zenon, <3>1, <3>2, <3>3
  <2>4. PICK o : /\ o = remove(t, k) /\ Sound(o, K, D) /\ o.index = c.index \ {k}
                 /\ Len(o.list) = Len(c.list) - 1
                 /\ \A j \in 1 .. Len(c.list) - 1 : o.list[j] = t.list[j + 1]
    <3>1. k \in t.index /\ Sound(t, K, D)
      BY Zenon, <1>4, <2>2
    <3>2. Sound(remove(t, k), K, D) /\ Removed(remove(t, k), t, k)
      BY Zenon, <3>1, RemoveSound
    <3>3. \A j \in 1 .. Len(c.list) - 1 : remove(t, k).list[j] = t.list[j + 1]
      <4>1. \A j \in 1 .. Len(t.list) - 1 :
               remove(t, k).list[j] = IF j < At(t, k) THEN t.list[j] ELSE t.list[j + 1]
        BY Zenon, <3>2 DEF Removed
      <4>2. Len(t.list) \in Nat /\ \A j \in 1 .. Len(t.list) - 1 : ~(j < 1)
        BY <1>2, <2>2
      <4>3. QED
        BY Zenon, <2>2, <2>3, <4>1, <4>2
    <3>4. QED
      BY ZenonT(60), <2>2, <3>2, <3>3 DEF Removed
  <2>5. a = Pushed(o, k, d)
    BY Zenon, <1>1, <1>4, <2>2, <2>4 DEF Added, exists
  <2>6. /\ Sound(a, K, D)
        /\ a.list[1] = [key |-> k, data |-> d]
        /\ Len(a.list) = Len(o.list) + 1
        /\ \A j \in 2 .. Len(o.list) + 1 : a.list[j] = o.list[j - 1]
    <3>1. k \notin o.index
      BY Zenon, <2>4
    <3>2. Sound(o, K, D)
      BY Zenon, <2>4
    <3>3. Sound(Pushed(o, k, d), K, D) /\ InFront(Pushed(o, k, d), o, k, d)
      BY Zenon, <3>1, <3>2, PushedSound
    <3>4. QED
      BY Zenon, <2>5, <3>3 DEF InFront
  <2>7. Len(a.list) = Len(c.list)
    BY <1>2, <2>4, <2>6
  <2>8. ASSUME NEW j \in 2 .. Len(a.list)
        PROVE  a.list[j] = IF j > i THEN c.list[j] ELSE c.list[j - 1]
    <3>1. PICK l \in 1 .. Len(c.list) - 1 : l = j - 1 /\ l + 1 = j
      BY <1>2, <2>7
    <3>2. a.list[j] = o.list[l]
      BY Zenon, <1>2, <2>4, <2>6, <3>1
    <3>3. o.list[l] = t.list[j]
      BY Zenon, <2>4, <3>1
    <3>4. QED
      BY SMTT(60), <1>2, <2>2, <2>7, <3>2, <3>3
  <2>9. QED
    BY SMTT(60), <1>1, <1>2, <1>4, <2>1, <2>6, <2>7, <2>8 DEF NewFront
<1>5. QED
  BY Zenon, <1>3, <1>4

\* r has the first m entries of c.
FirstOf(r, c, m) == Len(r.list) = m /\ \A j \in 1 .. m : r.list[j] = c.list[j]

\* The last entry of a list that is not empty is removed.
LEMMA EvictedSound ==
    ASSUME NEW K, NEW D, Sized(D), NEW c, Sound(c, K, D), Len(c.list) # 0
    PROVE  Sound(Evicted(c), K, D) /\ FirstOf(Evicted(c), c, Len(c.list) - 1)
<1>1. Len(c.list) \in Nat
  BY Zenon, LenProperties DEF Sound
<1>2. PICK z \in 1 .. Len(c.list) : z = Len(c.list)
  BY <1>1
<1>3. PICK k : k = c.list[z].key
  BY Zenon
<1>4. k \in c.index
  BY Zenon, <1>3 DEF Sound, Consistent
<1>5. At(c, k) = z
  <2>1. At(c, k) \in 1 .. Len(c.list) /\ c.list[At(c, k)].key = k
    BY <1>4, AtIs
  <2>2. \A j, l \in 1 .. Len(c.list) : c.list[j].key = c.list[l].key => j = l
    BY Zenon DEF Sound, Consistent
  <2>3. QED
    BY Zenon, <1>3, <2>1, <2>2
<1>6. PICK r : /\ r = remove(c, k) /\ Sound(r, K, D) /\ Len(r.list) = Len(c.list) - 1
               /\ \A j \in 1 .. Len(c.list) - 1 :
                     r.list[j] = IF j < At(c, k) THEN c.list[j] ELSE c.list[j + 1]
  <2>1. Sound(remove(c, k), K, D) /\ Removed(remove(c, k), c, k)
    BY Zenon, <1>4, RemoveSound
  <2>2. QED
    BY Zenon, <2>1 DEF Removed
<1>7. \A j \in 1 .. Len(c.list) - 1 : r.list[j] = c.list[j]
  BY <1>1, <1>2, <1>5, <1>6
<1>8. Evicted(c) = r
  BY Zenon, <1>2, <1>3, <1>6 DEF Evicted
<1>9. QED
  BY Zenon, <1>6, <1>7, <1>8 DEF FirstOf

\* f is what the eviction loop goes through, from c and for m rounds.
Evictions(f, c, m) ==
    f = [n \in 0 .. m |-> IF n = 0 THEN c ELSE Evicted(f[n - 1])]

\* The recursive function of the loop exists.
LEMMA EvictionsExist ==
    ASSUME NEW c, NEW m \in Nat
    PROVE  \E f : Evictions(f, c, m)
<1> DEFINE T == {n \in Nat : ~\E f : Evictions(f, c, n)}
<1>1. SUFFICES ASSUME T # {} PROVE FALSE
  BY Zenon
<1>2. PICK n \in T : \A l \in T : n <= l
  BY Zenon, <1>1, NatMin
<1>3. n \in Nat /\ ~\E f : Evictions(f, c, n)
  BY Zenon
<1>4. CASE n = 0
  <2> DEFINE f == [l \in 0 .. 0 |-> c]
  <2>1. f = [l \in 0 .. 0 |-> IF l = 0 THEN c ELSE Evicted(f[l - 1])]
    OBVIOUS
  <2>2. Evictions(f, c, 0)
    BY Zenon, <2>1 DEF Evictions
  <2>3. QED
    BY Zenon, <1>3, <1>4, <2>2
<1>5. CASE n # 0
  <2>1. n - 1 \in Nat /\ ~(n <= n - 1)
    BY <1>3, <1>5
  <2>2. n - 1 \notin T
    BY Zenon, <1>2, <2>1
  <2>3. PICK g : Evictions(g, c, n - 1)
    BY Zenon, <2>1, <2>2
  <2>4. g = [l \in 0 .. n - 1 |-> IF l = 0 THEN c ELSE Evicted(g[l - 1])]
    BY Zenon, <2>3 DEF Evictions
  <2>5. \A l \in 0 .. n - 1 : g[l] = IF l = 0 THEN c ELSE Evicted(g[l - 1])
    BY Zenon, <2>4
  <2> DEFINE f == [l \in 0 .. n |-> IF l < n THEN g[l] ELSE Evicted(g[n - 1])]
             h == [l \in 0 .. n |-> IF l = 0 THEN c ELSE Evicted(f[l - 1])]
  <2>6. ASSUME NEW l \in 0 .. n PROVE f[l] = h[l]
    <3>1. CASE l = 0
      BY <1>3, <1>5, <2>1, <2>5, <3>1
    <3>2. CASE l # 0
      <4>1. PICK k \in 0 .. n - 1 : k = l - 1 /\ k \in 0 .. n /\ k < n
        BY <1>3, <3>2
      <4>2. f[k] = g[k] /\ h[l] = Evicted(f[k])
        BY Zenon, <3>2, <4>1
      <4>3. l < n => l \in 0 .. n - 1
        BY <1>3
      <4>4. l < n => f[l] = Evicted(g[k])
        BY Zenon, <2>5, <3>2, <4>1, <4>3
      <4>5. ~(l < n) => k = n - 1
        BY <1>3, <4>1
      <4>6. ~(l < n) => f[l] = Evicted(g[k])
        BY Zenon, <4>5
      <4>7. QED
        BY Zenon, <4>2, <4>4, <4>6
    <3>3. QED
      BY Zenon, <3>1, <3>2
  <2>7. f = h
    BY Zenon, <2>6
  <2>8. Evictions(f, c, n)
    BY Zenon, <2>7 DEF Evictions
  <2>9. QED
    BY Zenon, <1>3, <2>8
<1>6. QED
  BY Zenon, <1>4, <1>5

\* After n rounds of the eviction loop the cache has all but its last n entries.
LEMMA EvictionsSound ==
    ASSUME NEW K, NEW D, Sized(D), NEW c, Sound(c, K, D),
           NEW f, Evictions(f, c, Len(c.list)), NEW n \in 0 .. Len(c.list)
    PROVE  Sound(f[n], K, D) /\ FirstOf(f[n], c, Len(c.list) - n)
<1> DEFINE P(l) == Sound(f[l], K, D) /\ FirstOf(f[l], c, Len(c.list) - l)
           T == {l \in 0 .. Len(c.list) : ~P(l)}
<1>1. Len(c.list) \in Nat
  BY Zenon, LenProperties DEF Sound
<1>2. \A l \in 0 .. Len(c.list) : f[l] = IF l = 0 THEN c ELSE Evicted(f[l - 1])
  <2>1. f = [l \in 0 .. Len(c.list) |-> IF l = 0 THEN c ELSE Evicted(f[l - 1])]
    BY Zenon DEF Evictions
  <2>2. QED
    BY Zenon, <2>1
<1>3. SUFFICES ASSUME T # {} PROVE FALSE
  BY Zenon
<1>4. PICK l \in T : \A k \in T : l <= k
  <2>1. T \subseteq Nat
    BY <1>1
  <2>2. QED
    BY Zenon, <1>3, <2>1, NatMin
<1>5. CASE l = 0
  <2>1. f[0] = c
    BY <1>1, <1>2
  <2>2. FirstOf(c, c, Len(c.list) - 0)
    BY <1>1 DEF FirstOf
  <2>3. QED
    BY Zenon, <1>4, <1>5, <2>1, <2>2
<1>6. CASE l # 0
  <2>1. PICK k \in 0 .. Len(c.list) : k = l - 1 /\ ~(l <= k) /\ k + 1 = l
    BY <1>1, <1>6
  <2>2. k \notin T
    BY Zenon, <1>4, <2>1
  <2>3. Sound(f[k], K, D) /\ FirstOf(f[k], c, Len(c.list) - k)
    BY Zenon, <2>2
  <2>4. PICK g : g = f[k]
    BY Zenon
  <2>5. Sound(g, K, D) /\ Len(g.list) # 0
    BY <1>1, <2>1, <2>3, <2>4 DEF FirstOf
  <2>6. Sound(Evicted(g), K, D) /\ FirstOf(Evicted(g), g, Len(g.list) - 1)
    BY Zenon, <2>5, EvictedSound
  <2>7. f[l] = Evicted(g)
    BY Zenon, <1>2, <1>6, <2>1, <2>4
  <2>8. FirstOf(Evicted(g), c, Len(c.list) - l)
    <3>1. Len(g.list) = Len(c.list) - k /\ \A j \in 1 .. Len(c.list) - k : g.list[j] = c.list[j]
      BY Zenon, <2>3, <2>4 DEF FirstOf
    <3>2. PICK z \in Nat : z = Len(c.list) - l /\ z = Len(g.list) - 1 /\ z <= Len(c.list) - k
      <4>1. PICK a \in Nat : a = Len(c.list)
        BY Zenon, <1>1
      <4>2. l \in 0 .. a /\ k \in 0 .. a /\ l = k + 1 /\ Len(g.list) = a - k
        BY Zenon, <2>1, <3>1, <4>1
      <4>3. a - l \in Nat /\ a - l = Len(g.list) - 1 /\ a - l <= a - k
        BY <4>2
      <4>4. QED
        BY Zenon, <4>1, <4>3
    <3>3. Len(Evicted(g).list) = z /\ \A j \in 1 .. z : Evicted(g).list[j] = g.list[j]
      BY Zenon, <2>6, <3>2 DEF FirstOf
    <3>4. \A j \in 1 .. z : g.list[j] = c.list[j]
      BY <1>1, <2>1, <3>1, <3>2
    <3>5. QED
      BY Zenon, <3>2, <3>3, <3>4 DEF FirstOf
  <2>9. QED
    BY Zenon, <2>6, <2>7, <2>8
<1>7. QED
  BY Zenon, <1>5, <1>6

\* An empty list is counted as 0.
LEMMA EmptyCounted ==
    ASSUME NEW K, NEW D, NEW c, Sound(c, K, D), Len(c.list) = 0
    PROVE  c.counted = 0
  BY Zenon DEF Sound, Consistent, Sums

\* insert: the list, the index and the total agree and the total fits, and what is
\* left are the first entries of the list with the new one.
LEMMA InsertSound ==
    ASSUME NEW K, NEW D, Sized(D), MaxSize \in Nat,
           NEW c, Sound(c, K, D), NEW k \in K, NEW d \in D
    PROVE  /\ Sound(insert(c, k, d), K, D)
           /\ insert(c, k, d).counted <= MaxSize
           /\ \E m \in 0 .. Len(Added(c, k, d).list) :
                 FirstOf(insert(c, k, d), Added(c, k, d), m)
<1>1. PICK a : a = Added(c, k, d)
  BY Zenon
<1>2. Sound(a, K, D)
  BY Zenon, <1>1, AddedSound
<1>3. Len(a.list) \in Nat
  BY Zenon, <1>2, LenProperties DEF Sound
<1> DEFINE f == CHOOSE f : f = [n \in 0 .. Len(a.list) |->
                                 IF n = 0 THEN a ELSE Evicted(f[n - 1])]
           Fits == {n \in DOMAIN f : f[n].counted <= MaxSize}
<1>4. insert(c, k, d) = f[Least(Fits)]
  BY Zenon, <1>1 DEF insert
<1>5. Evictions(f, a, Len(a.list))
  BY SMTT(60), <1>3, EvictionsExist DEF Evictions
<1>6. DOMAIN f = 0 .. Len(a.list)
  BY Zenon, <1>5 DEF Evictions
<1> HIDE DEF f
<1>7. \A n \in 0 .. Len(a.list) : Sound(f[n], K, D) /\ FirstOf(f[n], a, Len(a.list) - n)
  BY Zenon, <1>2, <1>5, EvictionsSound
<1>8. Len(a.list) \in Fits
  <2>1. PICK z \in 0 .. Len(a.list) : z = Len(a.list)
    BY <1>3
  <2>2. PICK g : g = f[z]
    BY Zenon
  <2>3. Sound(g, K, D) /\ Len(g.list) = 0
    BY <1>3, <1>7, <2>1, <2>2 DEF FirstOf
  <2>4. g.counted = 0
    BY Zenon, <2>3, EmptyCounted
  <2>5. QED
    BY <1>6, <2>1, <2>2, <2>4
<1>9. Least(Fits) \in Fits
  <2>1. Fits \subseteq Nat
    BY <1>3, <1>6
  <2>2. \E x \in Fits : \A y \in Fits : x <= y
    BY Zenon, <1>8, <2>1, NatMin
  <2>3. QED
    BY Zenon, <2>2 DEF Least
<1>10. PICK n \in 0 .. Len(a.list) : n = Least(Fits) /\ f[n].counted <= MaxSize
  BY Zenon, <1>6, <1>9
<1>11. Len(a.list) - n \in 0 .. Len(a.list)
  BY <1>3
<1>12. QED
  BY Zenon, <1>1, <1>4, <1>7, <1>10, <1>11

\* The table of partial sums is the recursive function of Total.
LEMMA TotalIs ==
    ASSUME NEW K, NEW D, Sized(D), NEW c, Sound(c, K, D)
    PROVE  c.counted = Total(c)
<1>1. PICK s \in Seq(Entry(K, D)) : s = c.list
  BY Zenon DEF Sound
<1>2. Len(s) \in Nat /\ \A j \in 1 .. Len(s) : SizeOf[s[j].data] \in Nat
  BY Zenon, EntriesSized
<1>3. PICK t : Sums(s, t) /\ c.counted = t[Len(s)]
  BY Zenon, <1>1 DEF Sound, Consistent
<1>4. /\ t \in [0 .. Len(s) -> Int] /\ t[0] = 0
      /\ \A n \in 1 .. Len(s) : t[n] = t[n - 1] + SizeOf[s[n].data]
  BY Zenon, <1>3 DEF Sums
<1> DEFINE Summed(f) == f = [i \in 0 .. Len(s) |->
                              IF i = 0 THEN 0 ELSE f[i - 1] + SizeOf[s[i].data]]
           sum == CHOOSE sum : Summed(sum)
<1>5. Total(c) = sum[Len(s)]
  BY Zenon, <1>1 DEF Total
<1>6. Summed(t)
  <2> DEFINE g == [i \in 0 .. Len(s) |-> IF i = 0 THEN 0 ELSE t[i - 1] + SizeOf[s[i].data]]
  <2>1. ASSUME NEW i \in 0 .. Len(s) PROVE t[i] = g[i]
    <3>1. i # 0 => i \in 1 .. Len(s)
      BY <1>2
    <3>2. QED
      BY Zenon, <1>4, <3>1
  <2>2. t = g
    BY Zenon, <1>4, <2>1
  <2>3. QED
    BY Zenon, <2>2
<1>7. Summed(sum)
  BY Zenon, <1>6
<1> HIDE DEF sum
<1>8. \A i \in 0 .. Len(s) : sum[i] = IF i = 0 THEN 0 ELSE sum[i - 1] + SizeOf[s[i].data]
  BY Zenon, <1>7
<1> HIDE DEF Summed
<1> DEFINE T == {n \in 0 .. Len(s) : sum[n] # t[n]}
<1>9. SUFFICES ASSUME T # {} PROVE FALSE
  BY <1>2, <1>3, <1>5
<1>10. PICK n \in T : \A l \in T : n <= l
  <2>1. T \subseteq Nat
    BY <1>2
  <2>2. QED
    BY Zenon, <1>9, <2>1, NatMin
<1>11. n # 0
  BY Zenon, <1>2, <1>4, <1>8, <1>10
<1>12. PICK l \in 0 .. Len(s) : l = n - 1 /\ ~(n <= l) /\ n \in 1 .. Len(s)
  BY <1>2, <1>10, <1>11
<1>13. sum[l] = t[l]
  BY Zenon, <1>10, <1>12
<1>14. QED
  BY ZenonT(60), <1>4, <1>8, <1>10, <1>11, <1>12, <1>13

\* The lemmas' invariant implies what the runs check.
LEMMA SoundAgrees ==
    ASSUME NEW K, NEW D, Sized(D), NEW c, Sound(c, K, D), c.counted <= MaxSize
    PROVE  Agrees(c)
<1>1. DOMAIN c.list = 1 .. Len(c.list)
  BY Zenon, LenProperties DEF Sound
<1>2. IsInjective(Keys(c))
  BY Zenon, <1>1 DEF IsInjective, Keys, Sound, Consistent
<1>3. c.index = Range(Keys(c))
  BY ZenonT(60), <1>1 DEF Range, Keys, Sound, Consistent
<1>4. QED
  BY Zenon, <1>2, <1>3, TotalIs DEF Agrees

(***************************************************************************)
(* The order of use                                                        *)
(***************************************************************************)
\* w is u with k first, and without its i-th key.
Again(w, u, k, i) ==
    /\ Len(w) = Len(u) /\ w[1] = k
    /\ \A j \in 2 .. Len(u) : w[j] = IF j <= i THEN u[j - 1] ELSE u[j]
Anew(w, u, k) ==
    /\ Len(w) = Len(u) + 1 /\ w[1] = k
    /\ \A j \in 2 .. Len(u) + 1 : w[j] = u[j - 1]

\* The history after a use of k, whose first occurrence in it was at i.
LEMMA LatestIs ==
    ASSUME NEW K, NEW u \in Seq(K), NEW k \in K, NEW i \in 1 .. Len(u), u[i] = k,
           \A j \in 1 .. Len(u) : u[j] = k => i <= j
    PROVE  Latest(u, k) \in Seq(K) /\ Again(Latest(u, k), u, k, i)
<1>1. Len(u) \in Nat
  BY Zenon, LenProperties
<1> DEFINE uses == {j \in DOMAIN u : u[j] = k}
<1>2. i \in uses /\ \A x \in uses : x \in Nat /\ i <= x
  BY <1>1, LenProperties
<1> HIDE DEF uses
<1>3. uses # {} /\ Least(uses) = i
  <2>1. \A x \in uses : x <= i => x = i
    BY <1>2
  <2>2. QED
    BY Zenon, <1>2, <2>1 DEF Least
<1>4. PICK v \in Seq(K) :
         /\ v = Without(u, i) /\ Len(v) = Len(u) - 1
         /\ \A j \in 1 .. Len(u) - 1 : v[j] = IF j < i THEN u[j] ELSE u[j + 1]
  BY ZenonT(60), WithoutIs
<1>5. PICK w \in Seq(K) : /\ w = <<k>> \o v /\ Len(w) = Len(v) + 1 /\ w[1] = k
                          /\ \A j \in 2 .. Len(v) + 1 : w[j] = v[j - 1]
  <2>1. /\ <<k>> \o v \in Seq(K)
        /\ Len(<<k>> \o v) = Len(v) + 1
        /\ (<<k>> \o v)[1] = k
        /\ \A j \in 2 .. Len(v) + 1 : (<<k>> \o v)[j] = v[j - 1]
    BY ZenonT(60), PushIs
  <2>2. QED
    BY Zenon, <2>1
<1>6. w = Latest(u, k)
  BY Zenon, <1>3, <1>4, <1>5 DEF Latest, uses
<1>7. Len(w) = Len(u)
  BY <1>1, <1>4, <1>5
<1>8. ASSUME NEW j \in 2 .. Len(u)
      PROVE  w[j] = IF j <= i THEN u[j - 1] ELSE u[j]
  <2>1. PICK l \in 1 .. Len(u) - 1 : l = j - 1 /\ l + 1 = j
    BY <1>1
  <2>2. w[j] = v[l]
    BY <1>1, <1>4, <1>5, <2>1
  <2>3. QED
    BY <1>1, <1>4, <2>1, <2>2
<1>9. QED
  BY Zenon, <1>5, <1>6, <1>7, <1>8 DEF Again

\* The history after the first use of k.
LEMMA LatestNew ==
    ASSUME NEW K, NEW u \in Seq(K), NEW k \in K, \A j \in 1 .. Len(u) : u[j] # k
    PROVE  Latest(u, k) \in Seq(K) /\ Anew(Latest(u, k), u, k)
<1>1. {j \in DOMAIN u : u[j] = k} = {}
  BY Zenon, LenProperties
<1>2. Latest(u, k) = <<k>> \o u
  BY Zenon, <1>1 DEF Latest
<1>3. /\ <<k>> \o u \in Seq(K)
      /\ Len(<<k>> \o u) = Len(u) + 1
      /\ (<<k>> \o u)[1] = k
      /\ \A j \in 2 .. Len(u) + 1 : (<<k>> \o u)[j] = u[j - 1]
  BY ZenonT(60), PushIs
<1>4. QED
  BY Zenon, <1>2, <1>3 DEF Anew

\* w has k first and then the keys of the list s, or these without the i-th.
Follows(w, s, k) ==
    /\ Len(s) + 1 <= Len(w) /\ w[1] = k
    /\ \A j \in 2 .. Len(s) + 1 : w[j] = s[j - 1].key
Moves(w, s, k, i) ==
    /\ Len(s) <= Len(w) /\ w[1] = k
    /\ \A j \in 2 .. Len(s) : w[j] = IF j <= i THEN s[j - 1].key ELSE s[j].key

\* A key that is in the history has a first occurrence in it.
LEMMA FirstOccurrence ==
    ASSUME NEW K, NEW u \in Seq(K), NEW k, NEW l \in 1 .. Len(u), u[l] = k
    PROVE  \E i \in 1 .. Len(u) : u[i] = k /\ \A j \in 1 .. Len(u) : u[j] = k => i <= j
<1> DEFINE T == {j \in 1 .. Len(u) : u[j] = k}
<1>1. Len(u) \in Nat
  BY Zenon, LenProperties
<1>2. T \subseteq Nat /\ T # {}
  BY <1>1
<1>3. \E x \in T : \A y \in T : x <= y
  BY Zenon, <1>2, NatMin
<1>4. QED
  BY Zenon, <1>3

\* A use of a key that is in the cache.
LEMMA UsedAgain ==
    ASSUME NEW K, NEW D, NEW c, Sound(c, K, D), NEW k \in c.index,
           NEW u \in Seq(K), InOrder(c, u)
    PROVE  /\ Latest(u, k) \in Seq(K)
           /\ Moves(Latest(u, k), c.list, k, At(c, k))
<1>1. PICK i \in 1 .. Len(c.list) : i = At(c, k) /\ c.list[i].key = k
  BY AtIs
<1>2. /\ Len(c.list) \in Nat /\ Len(u) \in Nat /\ Len(c.list) <= Len(u) /\ k \in K
      /\ \A j \in 1 .. Len(c.list) : u[j] = c.list[j].key
      /\ \A j, l \in 1 .. Len(c.list) : c.list[j].key = c.list[l].key => j = l
  BY Zenon, LenProperties DEF Sound, Consistent, InOrder
<1>3. i \in 1 .. Len(u) /\ u[i] = k
  BY <1>1, <1>2
<1>4. \A j \in 1 .. Len(u) : u[j] = k => i <= j
  <2>1. ASSUME NEW j \in 1 .. Len(u), u[j] = k, ~(i <= j) PROVE FALSE
    <3>1. j \in 1 .. Len(c.list) /\ j # i
      BY <1>2, <2>1
    <3>2. QED
      BY Zenon, <1>1, <1>2, <2>1, <3>1
  <2>2. QED
    BY Zenon, <2>1
<1>5. PICK w \in Seq(K) : w = Latest(u, k) /\ Again(w, u, k, i)
  BY <1>2, <1>3, <1>4, LatestIs
<1>6. ASSUME NEW j \in 2 .. Len(c.list)
      PROVE  w[j] = IF j <= i THEN c.list[j - 1].key ELSE c.list[j].key
  <2>1. j \in 2 .. Len(u) /\ j - 1 \in 1 .. Len(c.list) /\ j \in 1 .. Len(c.list)
    BY <1>2
  <2>2. QED
    BY Zenon, <1>2, <1>5, <2>1 DEF Again
<1>7. Moves(w, c.list, k, i)
  BY Zenon, <1>2, <1>5, <1>6 DEF Moves, Again
<1>8. QED
  BY Zenon, <1>1, <1>5, <1>7

\* A use of a key that is not.
LEMMA UsedAnew ==
    ASSUME NEW K, NEW D, NEW c, Sound(c, K, D), NEW k \in K, k \notin c.index,
           NEW u \in Seq(K), InOrder(c, u)
    PROVE  Latest(u, k) \in Seq(K) /\ Follows(Latest(u, k), c.list, k)
<1>1. /\ Len(c.list) \in Nat /\ Len(u) \in Nat /\ Len(c.list) <= Len(u)
      /\ \A j \in 1 .. Len(c.list) : u[j] = c.list[j].key
      /\ \A j \in 1 .. Len(c.list) : c.list[j].key # k
  BY ZenonT(60), LenProperties DEF Sound, Consistent, InOrder
<1>2. CASE \A j \in 1 .. Len(u) : u[j] # k
  <2>1. PICK w \in Seq(K) : w = Latest(u, k) /\ Anew(w, u, k)
    BY Zenon, <1>2, LatestNew
  <2>2. ASSUME NEW j \in 2 .. Len(c.list) + 1 PROVE w[j] = c.list[j - 1].key
    <3>1. j \in 2 .. Len(u) + 1 /\ j - 1 \in 1 .. Len(c.list)
      BY <1>1
    <3>2. QED
      BY Zenon, <1>1, <2>1, <3>1 DEF Anew
  <2>3. Follows(w, c.list, k)
    BY <1>1, <2>1, <2>2 DEF Follows, Anew
  <2>4. QED
    BY Zenon, <2>1, <2>3
<1>3. CASE \E j \in 1 .. Len(u) : u[j] = k
  <2>1. PICK i \in 1 .. Len(u) : u[i] = k /\ \A j \in 1 .. Len(u) : u[j] = k => i <= j
    BY Zenon, <1>3, FirstOccurrence
  <2>2. i > Len(c.list)
    BY <1>1, <2>1
  <2>3. PICK w \in Seq(K) : w = Latest(u, k) /\ Again(w, u, k, i)
    BY Zenon, <2>1, LatestIs
  <2>4. ASSUME NEW j \in 2 .. Len(c.list) + 1 PROVE w[j] = c.list[j - 1].key
    <3>1. j \in 2 .. Len(u) /\ j <= i /\ j - 1 \in 1 .. Len(c.list)
      BY <1>1, <2>2
    <3>2. QED
      BY Zenon, <1>1, <2>3, <3>1 DEF Again
  <2>5. Follows(w, c.list, k)
    BY <1>1, <2>2, <2>3, <2>4 DEF Follows, Again
  <2>6. QED
    BY Zenon, <2>3, <2>5
<1>4. QED
  BY Zenon, <1>2, <1>3

\* fetch keeps the order of use.
LEMMA TouchInOrder ==
    ASSUME NEW K, NEW D, Sized(D), NEW c, Sound(c, K, D), NEW k \in c.index,
           NEW u \in Seq(K), InOrder(c, u)
    PROVE  Latest(u, k) \in Seq(K) /\ InOrder(touch(c, k), Latest(u, k))
<1>1. PICK i \in 1 .. Len(c.list) : i = At(c, k) /\ c.list[i].key = k
  BY AtIs
<1>2. PICK w \in Seq(K) : w = Latest(u, k) /\ Moves(w, c.list, k, i)
  BY Zenon, <1>1, UsedAgain
<1>3. PICK t : t = touch(c, k) /\ Touched(t, c, i)
  BY Zenon, <1>1, TouchSound
<1>4. Len(c.list) \in Nat
  BY Zenon, LenProperties DEF Sound
<1>5. ASSUME NEW j \in 1 .. Len(c.list) PROVE w[j] = t.list[j].key
  <2>1. CASE j = 1
    BY Zenon, <1>1, <1>2, <1>3, <2>1 DEF Moves, Touched
  <2>2. CASE j # 1
    <3>1. j \in 2 .. Len(c.list)
      BY <1>4, <2>2
    <3>2. /\ w[j] = IF j <= i THEN c.list[j - 1].key ELSE c.list[j].key
          /\ t.list[j] = IF j <= i THEN c.list[j - 1] ELSE c.list[j]
      BY Zenon, <1>2, <1>3, <3>1 DEF Moves, Touched
    <3>3. CASE j <= i
      BY Zenon, <3>2, <3>3
    <3>4. CASE ~(j <= i)
      BY Zenon, <3>2, <3>4
    <3>5. QED
      BY Zenon, <3>3, <3>4
  <2>3. QED
    BY Zenon, <2>1, <2>2
<1>6. InOrder(t, w)
  BY Zenon, <1>2, <1>3, <1>5 DEF InOrder, Moves, Touched
<1>7. QED
  BY Zenon, <1>2, <1>3, <1>6

\* insert keeps it too.
LEMMA InsertInOrder ==
    ASSUME NEW K, NEW D, Sized(D), MaxSize \in Nat,
           NEW c, Sound(c, K, D), NEW k \in K, NEW d \in D,
           NEW u \in Seq(K), InOrder(c, u)
    PROVE  Latest(u, k) \in Seq(K) /\ InOrder(insert(c, k, d), Latest(u, k))
<1>1. PICK a : a = Added(c, k, d) /\ a.list[1].key = k /\ NewFront(a, c, k, d)
  <2>1. PICK a : a = Added(c, k, d) /\ NewFront(a, c, k, d)
    BY Zenon, AddedSound
  <2>2. a.list[1].key = k
    BY <2>1 DEF NewFront
  <2>3. QED
    BY Zenon, <2>1, <2>2
<1>2. Len(c.list) \in Nat
  BY Zenon, LenProperties DEF Sound
<1>3. PICK w : w = Latest(u, k)
  BY Zenon
<1>4. w \in Seq(K) /\ InOrder(a, w)
  <2>1. CASE k \in c.index
    <3>1. PICK i \in 1 .. Len(c.list) : i = At(c, k)
      BY Zenon, <2>1, AtIs
    <3>2. w \in Seq(K) /\ Moves(w, c.list, k, i)
      BY Zenon, <1>3, <2>1, <3>1, UsedAgain
    <3>3. /\ Len(a.list) = Len(c.list)
          /\ \A j \in 2 .. Len(c.list) :
                a.list[j] = IF j > i THEN c.list[j] ELSE c.list[j - 1]
      BY <1>1, <1>2, <2>1, <3>1 DEF NewFront
    <3>4. ASSUME NEW j \in 1 .. Len(a.list) PROVE w[j] = a.list[j].key
      <4>1. CASE j = 1
        BY Zenon, <1>1, <3>2, <4>1 DEF Moves
      <4>2. CASE j # 1
        <5>1. j \in 2 .. Len(c.list) /\ (j <= i <=> ~(j > i))
          BY <1>2, <3>1, <3>3, <4>2
        <5>2. w[j] = IF j <= i THEN c.list[j - 1].key ELSE c.list[j].key
          BY Zenon, <3>2, <5>1 DEF Moves
        <5>3. QED
          BY Zenon, <3>3, <5>1, <5>2
      <4>3. QED
        BY Zenon, <4>1, <4>2
    <3>5. QED
      BY Zenon, <3>2, <3>3, <3>4 DEF InOrder, Moves
  <2>2. CASE k \notin c.index
    <3>1. w \in Seq(K) /\ Follows(w, c.list, k)
      BY Zenon, <1>3, <2>2, UsedAnew
    <3>2. /\ Len(a.list) = Len(c.list) + 1
          /\ \A j \in 2 .. Len(a.list) : a.list[j] = c.list[j - 1]
      BY Zenon, <1>1, <2>2 DEF NewFront
    <3>3. ASSUME NEW j \in 1 .. Len(a.list) PROVE w[j] = a.list[j].key
      <4>1. CASE j = 1
        BY Zenon, <1>1, <3>1, <4>1 DEF Follows
      <4>2. CASE j # 1
        <5>1. j \in 2 .. Len(a.list) /\ j \in 2 .. Len(c.list) + 1
          BY <1>2, <3>2, <4>2
        <5>2. w[j] = c.list[j - 1].key
          BY Zenon, <3>1, <5>1 DEF Follows
        <5>3. QED
          BY Zenon, <3>2, <5>1, <5>2
      <4>3. QED
        BY Zenon, <4>1, <4>2
    <3>4. QED
      BY Zenon, <3>1, <3>2, <3>3 DEF InOrder, Follows
  <2>3. QED
    BY Zenon, <2>1, <2>2
<1>5. PICK n : n = insert(c, k, d)
  BY Zenon
<1>6. PICK m \in 0 .. Len(a.list) : FirstOf(n, a, m)
  <2>1. \E m \in 0 .. Len(Added(c, k, d).list) :
           FirstOf(insert(c, k, d), Added(c, k, d), m)
    BY Zenon, InsertSound
  <2>2. QED
    BY Zenon, <1>1, <1>5, <2>1
<1>7. Len(a.list) \in Nat /\ Len(w) \in Nat
  <2>1. Len(a.list) = Len(c.list) \/ Len(a.list) = Len(c.list) + 1
    <3>1. Len(a.list) = Len(c.list) + IF k \in c.index THEN 0 ELSE 1
      BY Zenon, <1>1 DEF NewFront
    <3>2. CASE k \in c.index
      BY <1>2, <3>1, <3>2
    <3>3. CASE k \notin c.index
      BY Zenon, <3>1, <3>3
    <3>4. QED
      BY Zenon, <3>2, <3>3
  <2>2. Len(a.list) \in Nat
    BY <1>2, <2>1
  <2>3. QED
    BY Zenon, <1>4, <2>2, LenProperties
<1>8. InOrder(n, w)
  <2>1. /\ Len(n.list) = m /\ \A j \in 1 .. m : n.list[j] = a.list[j]
        /\ Len(a.list) <= Len(w) /\ \A j \in 1 .. Len(a.list) : w[j] = a.list[j].key
    BY Zenon, <1>4, <1>6 DEF FirstOf, InOrder
  <2>2. QED
    BY SMTT(60), <1>7, <2>1 DEF InOrder
<1>9. QED
  BY Zenon, <1>3, <1>4, <1>5, <1>8

(***************************************************************************)
(* What the list holds                                                     *)
(***************************************************************************)
\* Every entry of r is one of c's, or else the entry e.
FromList(r, c) ==
    \A j \in 1 .. Len(r.list) : \E i \in 1 .. Len(c.list) : r.list[j] = c.list[i]
FromListOr(r, c, e) ==
    \A j \in 1 .. Len(r.list) :
        r.list[j] = e \/ \E i \in 1 .. Len(c.list) : r.list[j] = c.list[i]

\* touch makes no entry up.
LEMMA TouchKeeps ==
    ASSUME NEW K, NEW D, Sized(D), NEW c, Sound(c, K, D), NEW k \in c.index
    PROVE  FromList(touch(c, k), c)
<1>1. PICK i \in 1 .. Len(c.list) : i = At(c, k)
  BY Zenon, AtIs
<1>2. PICK t : t = touch(c, k) /\ Touched(t, c, i)
  BY Zenon, <1>1, TouchSound
<1>3. Len(c.list) \in Nat
  BY Zenon, LenProperties DEF Sound
<1>4. ASSUME NEW j \in 1 .. Len(c.list)
      PROVE  \E l \in 1 .. Len(c.list) : t.list[j] = c.list[l]
  <2>1. CASE j = 1
    BY Zenon, <1>2, <2>1 DEF Touched
  <2>2. CASE j # 1
    <3>1. j \in 2 .. Len(c.list) /\ j - 1 \in 1 .. Len(c.list)
      BY <1>3, <2>2
    <3>2. t.list[j] = c.list[j - 1] \/ t.list[j] = c.list[j]
      BY Zenon, <1>2, <3>1 DEF Touched
    <3>3. QED
      BY Zenon, <3>1, <3>2
  <2>3. QED
    BY Zenon, <2>1, <2>2
<1>5. QED
  BY Zenon, <1>2, <1>4 DEF FromList, Touched

\* insert makes none up but the new one.
LEMMA InsertKeeps ==
    ASSUME NEW K, NEW D, Sized(D), MaxSize \in Nat,
           NEW c, Sound(c, K, D), NEW k \in K, NEW d \in D
    PROVE  FromListOr(insert(c, k, d), c, [key |-> k, data |-> d])
<1>1. PICK a : a = Added(c, k, d) /\ Sound(a, K, D) /\ NewFront(a, c, k, d)
  BY Zenon, AddedSound
<1>2. PICK n : n = insert(c, k, d)
  BY Zenon
<1>3. PICK m \in 0 .. Len(a.list) : FirstOf(n, a, m)
  <2>1. \E m \in 0 .. Len(Added(c, k, d).list) :
           FirstOf(insert(c, k, d), Added(c, k, d), m)
    BY Zenon, InsertSound
  <2>2. QED
    BY Zenon, <1>1, <1>2, <2>1
<1>4. Len(a.list) \in Nat /\ Len(c.list) \in Nat
  BY Zenon, <1>1, LenProperties DEF Sound
<1>5. PICK e : e = [key |-> k, data |-> d]
  BY Zenon
<1>6. a.list[1] = e
  BY Zenon, <1>1, <1>5 DEF NewFront
<1>7. ASSUME NEW j \in 1 .. Len(a.list), j # 1
      PROVE  \E i \in 1 .. Len(c.list) : a.list[j] = c.list[i]
  <2>1. j \in 2 .. Len(a.list)
    BY <1>4, <1>7
  <2>2. CASE k \in c.index
    <3>1. Len(a.list) = Len(c.list)
      BY <1>1, <1>4, <2>2 DEF NewFront
    <3>2. j \in 1 .. Len(c.list) /\ j - 1 \in 1 .. Len(c.list)
      BY <1>4, <2>1, <3>1
    <3>3. a.list[j] = c.list[j] \/ a.list[j] = c.list[j - 1]
      BY Zenon, <1>1, <2>1 DEF NewFront
    <3>4. QED
      BY Zenon, <3>2, <3>3
  <2>3. CASE k \notin c.index
    <3>1. Len(a.list) = Len(c.list) + 1
      BY Zenon, <1>1, <1>4, <2>3 DEF NewFront
    <3>2. j - 1 \in 1 .. Len(c.list)
      BY <1>4, <2>1, <3>1
    <3>3. a.list[j] = c.list[j - 1]
      BY Zenon, <1>1, <2>1, <2>3 DEF NewFront
    <3>4. QED
      BY Zenon, <3>2, <3>3
  <2>4. QED
    BY Zenon, <2>2, <2>3
<1>8. ASSUME NEW j \in 1 .. Len(n.list)
      PROVE  n.list[j] = e \/ \E i \in 1 .. Len(c.list) : n.list[j] = c.list[i]
  <2>1. j \in 1 .. Len(a.list) /\ n.list[j] = a.list[j]
    BY <1>3, <1>4 DEF FirstOf
  <2>2. QED
    BY Zenon, <1>6, <1>7, <2>1
<1>9. FromListOr(n, c, e)
  BY Zenon, <1>8 DEF FromListOr
<1>10. QED
  BY Zenon, <1>2, <1>5, <1>9
=============================================================================
