------------------------- MODULE RequestDataProofs -------------------------
(***************************************************************************)
(* Proofs about the texts and the amounts of RequestData, for every input: *)
(* texts of every length, amounts and significands of every size.  What    *)
(* the feed needs, and the induction they share, is in CatalogQueryProofs. *)
(***************************************************************************)
EXTENDS RequestData, CatalogQueryProofs

-----------------------------------------------------------------------------
(* Recursion.  A function whose value at k is F[k] of its values at lower  *)
(* ranks exists.                                                           *)
Local(F, D, V, rank) ==
  \A k \in D, g \in [D -> V] :
    /\ F[k][g] \in V
    /\ \A h \in [D -> V] :
         (\A j \in D : rank[j] < rank[k] => g[j] = h[j]) => F[k][g] = F[k][h]

(* The value at each place can be given in the order of the ranks.         *)
LEMMA Recursion ==
  ASSUME NEW D, NEW V, NEW v \in V, NEW N \in Nat, NEW rank \in [D -> 0..N],
         NEW F, Local(F, D, V, rank)
  PROVE  \E g \in [D -> V] : \A k \in D : g[k] = F[k][g]
<1> DEFINE H == {i \in 0..(N + 1) :
                   \E g \in [D -> V] : \A k \in D : rank[k] < i => g[k] = F[k][g]}
<1>1. 0 \in H
  <2>1. PICK g \in [D -> V] : g = [k \in D |-> v]
    OBVIOUS
  <2>2. \A k \in D : rank[k] < 0 => g[k] = F[k][g]
    OBVIOUS
  <2>3. 0 \in 0..(N + 1)
    OBVIOUS
  <2> QED
    BY <2>2, <2>3, Zenon
<1>2. ASSUME NEW i \in 0..(N + 1), i \in H, i < N + 1 PROVE i + 1 \in H
  <2>1. PICK g \in [D -> V] : \A k \in D : rank[k] < i => g[k] = F[k][g]
    BY <1>2
  <2>2. PICK h : h = [k \in D |-> IF rank[k] = i THEN F[k][g] ELSE g[k]]
    OBVIOUS
  <2>3. h \in [D -> V]
    BY <2>2 DEF Local
  <2>4. ASSUME NEW k \in D, rank[k] < i + 1 PROVE h[k] = F[k][h]
    <3>1. \A j \in D : rank[j] < rank[k] => g[j] = h[j]
      BY <2>2, <2>4
    <3>2. F[k][g] = F[k][h]
      BY <2>3, <3>1 DEF Local
    <3>3. h[k] = F[k][g]
      <4>1. CASE rank[k] = i
        BY <2>2, <4>1
      <4>2. CASE rank[k] # i
        <5>1. rank[k] < i
          <6>1. PICK m \in 0..N : m = rank[k]
            OBVIOUS
          <6> QED
            BY <2>4, <4>2, <6>1
        <5> QED
          BY <2>1, <2>2, <4>2, <5>1, Zenon
      <4> QED
        BY <4>1, <4>2
    <3> QED
      BY <3>2, <3>3
  <2> QED
    BY <1>2, <2>3, <2>4
<1> HIDE DEF H
<1>3. \A i \in 0..(N + 1) : i \in H /\ i < N + 1 => i + 1 \in H
  BY <1>2
<1>4. N + 1 \in Nat /\ N + 1 \in 0..(N + 1)
  OBVIOUS
<1>5. N + 1 \in H
  BY <1>1, <1>3, <1>4, Induction
<1>6. PICK g \in [D -> V] : \A k \in D : rank[k] < N + 1 => g[k] = F[k][g]
  BY <1>5 DEF H
<1>7. \A k \in D : rank[k] < N + 1
  OBVIOUS
<1> QED
  BY <1>6, <1>7

(* Recursion from the end of a text: the value at k depends on later ones. *)
FromTheEnd(F, N, V) ==
  \A k \in 1..N, g \in [1..N -> V] :
    /\ F[k][g] \in V
    /\ \A h \in [1..N -> V] :
         (\A j \in 1..N : j > k => g[j] = h[j]) => F[k][g] = F[k][h]

(* A function whose values depend on later ones exists.                    *)
LEMMA RecursionFromTheEnd ==
  ASSUME NEW V, NEW v \in V, NEW N \in Nat, NEW F, FromTheEnd(F, N, V)
  PROVE  \E g \in [1..N -> V] : \A k \in 1..N : g[k] = F[k][g]
<1> DEFINE D == 1..N
           rank == [k \in D |-> N - k]
<1>1. rank \in [D -> 0..N]
  OBVIOUS
<1>2. \A j, k \in D : rank[j] < rank[k] <=> j > k
  OBVIOUS
<1>3. Local(F, D, V, rank)
  <2> HIDE DEF rank
  <2> QED
    BY <1>2 DEF Local, FromTheEnd
<1> HIDE DEF D, rank
<1>4. \E g \in [D -> V] : \A k \in D : g[k] = F[k][g]
  BY <1>1, <1>3, Recursion
<1> QED
  BY <1>4 DEF D

(* Induction from the end of a text.                                       *)
LEMMA InductionFromTheEnd ==
  ASSUME NEW N \in Nat, NEW H,
         \A k \in 1..N : (\A j \in 1..N : j > k => j \in H) => k \in H
  PROVE  \A k \in 1..N : k \in H
<1> DEFINE T == {m \in 0..N : m # N /\ N - m \notin H}
<1>1. ASSUME T # {} PROVE FALSE
  <2>1. T \in SUBSET Nat
    OBVIOUS
  <2>2. PICK m \in T : \A l \in T : m <= l
    <3> HIDE DEF T
    <3> QED
      BY <1>1, <2>1, LeastNumber
  <2>3. m \in 0..N /\ m # N /\ N - m \notin H /\ N - m \in 1..N
    OBVIOUS
  <2>4. ASSUME NEW j \in 1..N, j > N - m PROVE j \in H
    <3>1. N - j \in 0..N /\ N - j # N /\ N - j < m /\ N - (N - j) = j
      BY <2>3, <2>4
    <3>2. N - j \notin T
      <4> HIDE DEF T
      <4> QED
        BY <2>2, <2>3, <3>1
    <3> QED
      BY <3>1, <3>2
  <2> QED
    BY <2>3, <2>4
<1>2. ASSUME NEW k \in 1..N PROVE k \in H
  <2>1. N - k \in 0..N /\ N - k # N /\ N - (N - k) = k
    OBVIOUS
  <2>2. N - k \notin T
    BY <1>1, Zenon
  <2> QED
    BY <2>1, <2>2
<1> QED
  BY <1>2

-----------------------------------------------------------------------------
(* string_view::find.                                                      *)
LEMMA FindFacts ==
  ASSUME NEW s \in Seq(Int), NEW c, NEW i \in Nat, i >= 1
  PROVE  \/ FindFrom(s, c, i) = 0 /\ \A j \in i..Len(s) : s[j] # c
         \/ /\ FindFrom(s, c, i) \in i..Len(s) /\ s[FindFrom(s, c, i)] = c
            /\ \A j \in i..(FindFrom(s, c, i) - 1) : s[j] # c
<1> DEFINE P == {j \in i..Len(s) : s[j] = c}
<1>1. FindFrom(s, c, i) = IF P = {} THEN 0 ELSE Min(P)
  BY DEF FindFrom
<1>2. CASE P = {}
  BY <1>1, <1>2
<1>3. CASE P # {}
  <2>1. P \in SUBSET Nat
    OBVIOUS
  <2>2. PICK m \in P : \A k \in P : m <= k
    <3> HIDE DEF P
    <3> QED
      BY <1>3, <2>1, LeastNumber
  <2>3. Min(P) \in P /\ \A k \in P : Min(P) <= k
    <3> HIDE DEF P
    <3> QED
      BY <2>2 DEF Min
  <2>4. PICK f : f = FindFrom(s, c, i)
    OBVIOUS
  <2>5. f \in P /\ \A k \in P : f <= k
    BY <1>1, <1>3, <2>3, <2>4
  <2>6. \A j \in i..(f - 1) : s[j] # c
    <3> SUFFICES ASSUME NEW j \in i..(f - 1), s[j] = c PROVE FALSE
      OBVIOUS
    <3>1. f \in i..Len(s) /\ Len(s) \in Nat
      BY <2>5
    <3>2. j \in P /\ ~(f <= j)
      BY <3>1
    <3> QED
      BY <2>5, <3>2
  <2> QED
    BY <2>4, <2>5, <2>6
<1> QED
  BY <1>2, <1>3

(* The first place is where find finds.                                    *)
LEMMA FindIs ==
  ASSUME NEW s \in Seq(Int), NEW c, NEW i \in Nat, i >= 1
  PROVE  /\ \A k \in i..Len(s) :
              s[k] = c /\ (\A j \in i..(k - 1) : s[j] # c) => FindFrom(s, c, i) = k
         /\ (\A j \in i..Len(s) : s[j] # c) => FindFrom(s, c, i) = 0
<1>1. PICK f : f = FindFrom(s, c, i)
  OBVIOUS
<1>2. \/ f = 0 /\ \A j \in i..Len(s) : s[j] # c
      \/ f \in i..Len(s) /\ s[f] = c /\ \A j \in i..(f - 1) : s[j] # c
  BY <1>1, FindFacts
<1>3. ASSUME NEW k \in i..Len(s), s[k] = c, \A j \in i..(k - 1) : s[j] # c PROVE f = k
  <2>1. f \in i..Len(s) /\ s[f] = c /\ \A j \in i..(f - 1) : s[j] # c
    BY <1>2, <1>3
  <2>2. ~(f < k) /\ ~(k < f)
    BY <1>3, <2>1
  <2> QED
    BY <2>1, <2>2
<1> QED
  BY <1>1, <1>2, <1>3

-----------------------------------------------------------------------------
(* url_decode: the rest of the output from a place on.                     *)
DecodeFrom(s, g, i) ==
  IF i > Len(s) THEN <<>>
  ELSE IF Escape(s, i) THEN <<HexValue(s[i + 1]) * 16 + HexValue(s[i + 2])>> \o g[i + 3]
  ELSE <<IF s[i] = Plus THEN Space ELSE s[i]>> \o g[i + 1]

(* A digit's value, -1 for what is none.                                   *)
LEMMA HexValueType == \A c \in Int : HexValue(c) \in -1..15
BY DEF HexValue

(* A step of url_decode uses later parts of the output only.               *)
LEMMA DecodeStep ==
  ASSUME NEW s \in Seq(Int), NEW i \in 1..(Len(s) + 1), NEW g,
         \A j \in 1..(Len(s) + 1) : j > i => g[j] \in Seq(Int)
  PROVE  /\ DecodeFrom(s, g, i) \in Seq(Int)
         /\ \A h : (\A j \in 1..(Len(s) + 1) : j > i => g[j] = h[j])
                     => DecodeFrom(s, g, i) = DecodeFrom(s, h, i)
<1>1. PICK n \in Nat : n = Len(s)
  OBVIOUS
<1>2. CASE i > n
  BY <1>1, <1>2 DEF DecodeFrom
<1>3. CASE i <= n /\ Escape(s, i)
  <2>1. i + 3 \in 1..(n + 1) /\ i + 3 > i /\ i + 1 \in 1..n /\ i + 2 \in 1..n
    BY <1>1, <1>3 DEF Escape
  <2>2. s[i + 1] \in Int /\ s[i + 2] \in Int
    BY <1>1, <2>1
  <2>3. HexValue(s[i + 1]) \in Int /\ HexValue(s[i + 2]) \in Int
    <3>1. \A c \in Int : HexValue(c) \in Int
      BY HexValueType, SMTT(60)
    <3> QED
      BY <2>2, <3>1, Zenon
  <2>4. PICK e \in Int : e = HexValue(s[i + 1]) * 16 + HexValue(s[i + 2])
    BY <2>3
  <2>5. \A h : DecodeFrom(s, h, i) = <<e>> \o h[i + 3]
    BY <1>1, <1>3, <2>4, SMTT(30) DEF DecodeFrom
  <2>6. g[i + 3] \in Seq(Int)
    BY <1>1, <2>1
  <2>7. <<e>> \o g[i + 3] \in Seq(Int)
    BY <2>6
  <2>8. ASSUME NEW h, \A j \in 1..(Len(s) + 1) : j > i => g[j] = h[j]
        PROVE  DecodeFrom(s, g, i) = DecodeFrom(s, h, i)
    <3>1. g[i + 3] = h[i + 3]
      BY <1>1, <2>1, <2>8
    <3> QED
      BY <2>5, <3>1, Zenon
  <2> QED
    BY <2>5, <2>7, <2>8, Zenon
<1>4. CASE i <= n /\ ~Escape(s, i)
  <2>1. i + 1 \in 1..(n + 1) /\ i + 1 > i /\ i \in 1..n
    BY <1>1, <1>4
  <2>2. s[i] \in Int /\ Space \in Int
    BY <1>1, <2>1 DEF Space
  <2>3. PICK e : e = IF s[i] = Plus THEN Space ELSE s[i]
    OBVIOUS
  <2>4. e \in Int
    BY <2>2, <2>3
  <2>5. \A h : DecodeFrom(s, h, i) = <<e>> \o h[i + 1]
    BY <1>1, <1>4, <2>3 DEF DecodeFrom
  <2>6. g[i + 1] \in Seq(Int)
    BY <1>1, <2>1
  <2>7. <<e>> \o g[i + 1] \in Seq(Int)
    BY <2>4, <2>6
  <2>8. ASSUME NEW h, \A j \in 1..(Len(s) + 1) : j > i => g[j] = h[j]
        PROVE  DecodeFrom(s, g, i) = DecodeFrom(s, h, i)
    <3>1. g[i + 1] = h[i + 1]
      BY <1>1, <2>1, <2>8
    <3> QED
      BY <2>5, <3>1, Zenon
  <2> QED
    BY <2>5, <2>7, <2>8, Zenon
<1> QED
  BY <1>1, <1>2, <1>3, <1>4

(* What url_decode returns is the output from the first place on.          *)
LEMMA DecodeFacts ==
  ASSUME NEW s \in Seq(Int)
  PROVE  \E g \in [1..(Len(s) + 1) -> Seq(Int)] :
           /\ UrlDecode(s) = g[1]
           /\ \A i \in 1..(Len(s) + 1) : g[i] = DecodeFrom(s, g, i)
<1>1. PICK N \in Nat : N = Len(s) + 1
  OBVIOUS
<1> DEFINE V == Seq(Int)
           F == [i \in 1..N |-> [g \in [1..N -> V] |-> DecodeFrom(s, g, i)]]
<1>2. UrlDecode(s) = (CHOOSE g : g = [i \in 1..N |-> DecodeFrom(s, g, i)])[1]
  BY <1>1, Zenon DEF UrlDecode, DecodeFrom
<1>3. ASSUME NEW i \in 1..N, NEW g \in [1..N -> V]
      PROVE  /\ F[i][g] = DecodeFrom(s, g, i) /\ DecodeFrom(s, g, i) \in V
             /\ \A h : (\A j \in 1..N : j > i => g[j] = h[j])
                         => DecodeFrom(s, g, i) = DecodeFrom(s, h, i)
  BY <1>1, DecodeStep
<1> HIDE DEF F
<1>4. FromTheEnd(F, N, V)
  <2> HIDE DEF V
  <2> QED
    BY <1>3 DEF FromTheEnd
<1>5. <<>> \in V
  OBVIOUS
<1>6. PICK g \in [1..N -> V] : \A i \in 1..N : g[i] = F[i][g]
  <2> HIDE DEF V
  <2> QED
    BY <1>4, <1>5, RecursionFromTheEnd
<1>7. g = [i \in 1..N |-> DecodeFrom(s, g, i)]
  BY <1>3, <1>6
<1>8. PICK f : f = CHOOSE h : h = [i \in 1..N |-> DecodeFrom(s, h, i)]
  OBVIOUS
<1>9. f = [i \in 1..N |-> DecodeFrom(s, f, i)]
  BY <1>7, <1>8, Zenon
<1> DEFINE H == {i \in 1..N : f[i] \in V}
<1>10. ASSUME NEW k \in 1..N, \A j \in 1..N : j > k => j \in H PROVE k \in H
  <2>1. \A j \in 1..N : j > k => f[j] \in Seq(Int)
    BY <1>10
  <2>2. DecodeFrom(s, f, k) \in Seq(Int)
    BY <1>1, <2>1, DecodeStep
  <2> QED
    BY <1>9, <2>2
<1>11. \A k \in 1..N : k \in H
  <2> HIDE DEF H
  <2> QED
    BY <1>10, InductionFromTheEnd
<1>12. f \in [1..N -> V]
  BY <1>9, <1>11
<1> QED
  BY <1>1, <1>2, <1>8, <1>9, <1>12, ZenonT(60)

-----------------------------------------------------------------------------
(* Two sequences joined.                                                   *)
LEMMA Concat ==
  ASSUME NEW V, NEW a \in Seq(V), NEW b \in Seq(V)
  PROVE  /\ a \o b \in Seq(V) /\ Len(a) \in Nat /\ Len(b) \in Nat
         /\ Len(a \o b) = Len(a) + Len(b)
         /\ \A i \in 1..Len(a) : i \in 1..(Len(a) + Len(b)) /\ (a \o b)[i] = a[i]
         /\ \A i \in 1..Len(b) : Len(a) + i \in 1..(Len(a) + Len(b)) /\ (a \o b)[Len(a) + i] = b[i]
OBVIOUS

(* The elements of two sequences, one after the other.                     *)
Joined(a, b, c) ==
  /\ Len(c) = Len(a) + Len(b)
  /\ \A i \in 1..Len(a) : c[i] = a[i]
  /\ \A i \in 1..Len(b) : c[Len(a) + i] = b[i]

(* The join of two sequences holds the elements of both.                   *)
LEMMA ConcatJoins ==
  ASSUME NEW V, NEW a \in Seq(V), NEW b \in Seq(V)
  PROVE  a \o b \in Seq(V) /\ Joined(a, b, a \o b)
BY Concat DEF Joined

(* A sequence that holds the elements of two is the two joined.            *)
LEMMA IsConcat ==
  ASSUME NEW V, NEW a \in Seq(V), NEW b \in Seq(V), NEW c \in Seq(V), Joined(a, b, c)
  PROVE  a \o b = c
<1>1. PICK d \in Seq(V) : d = a \o b
  BY Concat
<1>2. Joined(a, b, d)
  BY <1>1, Concat DEF Joined
<1>3. PICK m \in Nat, k \in Nat : m = Len(a) /\ k = Len(b)
  OBVIOUS
<1>4. Len(c) = m + k /\ Len(d) = m + k
  BY <1>2, <1>3 DEF Joined
<1>5. ASSUME NEW i \in 1..(m + k) PROVE d[i] = c[i]
  <2>1. CASE i <= m
    <3>1. i \in 1..m
      BY <2>1
    <3> QED
      BY <1>2, <1>3, <3>1 DEF Joined
  <2>2. CASE i > m
    <3>1. i - m \in 1..k /\ m + (i - m) = i
      BY <2>2
    <3> QED
      BY <1>2, <1>3, <3>1, ZenonT(60) DEF Joined
  <2> QED
    BY <2>1, <2>2
<1> QED
  BY <1>1, <1>4, <1>5, SeqEqual

(* Where the parts of a joined sequence are: part p starts after o[p - 1]  *)
(* elements.                                                               *)
Parts(ss, t, o, q) ==
  /\ \A p \in 1..q : \A i \in 1..Len(ss[p]) :
       o[p - 1] + i \in 1..o[q] /\ t[o[p - 1] + i] = ss[p][i]
  /\ \A k \in 1..o[q] : \E p \in 1..q : \E i \in 1..Len(ss[p]) : k = o[p - 1] + i

(* FlattenSeq joins its parts in order.                                    *)
LEMMA FlattenParts ==
  ASSUME NEW V, NEW ss \in Seq(Seq(V))
  PROVE  \E o \in [0..Len(ss) -> Nat] :
           /\ o[0] = 0 /\ \A p \in 1..Len(ss) : o[p] = o[p - 1] + Len(ss[p])
           /\ FlattenSeq(ss) \in Seq(V) /\ Len(FlattenSeq(ss)) = o[Len(ss)]
           /\ Parts(ss, FlattenSeq(ss), o, Len(ss))
<1>1. PICK n \in Nat : n = Len(ss)
  OBVIOUS
<1>2. PICK f \in [0..n -> Seq(V)] :
        /\ f[0] = <<>>
        /\ \A p \in 1..n : f[p] = f[p - 1] \o ss[p]
        /\ FlattenSeq(ss) = f[n]
  BY <1>1, FlattenFacts
<1>3. PICK o : o = [p \in 0..n |-> Len(f[p])]
  OBVIOUS
<1>4. o \in [0..n -> Nat] /\ o[0] = 0
  BY <1>2, <1>3
<1>5. \A p \in 1..n : o[p] = o[p - 1] + Len(ss[p]) /\ Len(ss[p]) \in Nat
  <2> SUFFICES ASSUME NEW p \in 1..n PROVE o[p] = o[p - 1] + Len(ss[p]) /\ Len(ss[p]) \in Nat
    OBVIOUS
  <2>1. p \in 0..n /\ p - 1 \in 0..n /\ ss[p] \in Seq(V) /\ f[p - 1] \in Seq(V)
    <3>1. p \in 0..n /\ p - 1 \in 0..n
      OBVIOUS
    <3>2. ss[p] \in Seq(V)
      BY <1>1
    <3> QED
      BY <3>1, <3>2
  <2>2. PICK a \in Seq(V), b \in Seq(V) : a = f[p - 1] /\ b = ss[p]
    BY <2>1
  <2>3. Len(a \o b) = Len(a) + Len(b) /\ Len(b) \in Nat
    BY Concat
  <2>4. f[p] = a \o b
    BY <1>2, <2>2
  <2> QED
    BY <1>3, <2>1, <2>2, <2>3, <2>4
<1> DEFINE H == {q \in 0..n : Parts(ss, f[q], o, q)}
<1>6. 0 \in H
  BY <1>4 DEF Parts
<1>7. ASSUME NEW q \in 0..n, q \in H, q < n PROVE q + 1 \in H
  <2>1. q + 1 \in 1..n /\ q + 1 \in 0..n /\ (q + 1) - 1 = q
    BY <1>7
  <2>2. PICK a \in Seq(V), b \in Seq(V) : a = f[q] /\ b = ss[q + 1]
    BY <1>1, <2>1, SMTT(60)
  <2>3. f[q + 1] = a \o b /\ o[q] = Len(a) /\ o[q + 1] = Len(a) + Len(b)
    BY <1>2, <1>3, <1>5, <2>1, <2>2
  <2>4. Parts(ss, a, o, q)
    BY <1>7, <2>2
  <2>5. ASSUME NEW p \in 1..(q + 1), NEW i \in 1..Len(ss[p])
        PROVE  o[p - 1] + i \in 1..o[q + 1] /\ (a \o b)[o[p - 1] + i] = ss[p][i]
    <3>1. CASE p = q + 1
      <4>1. o[p - 1] = Len(a) /\ i \in 1..Len(b) /\ ss[p] = b
        BY <2>1, <2>2, <2>3, <3>1
      <4>2. Len(a) + i \in 1..(Len(a) + Len(b)) /\ (a \o b)[Len(a) + i] = b[i]
        BY <4>1, Concat
      <4> QED
        BY <2>3, <4>1, <4>2
    <3>2. CASE p # q + 1
      <4>1. p \in 1..q
        BY <2>1, <3>2
      <4>2. o[p - 1] + i \in 1..Len(a) /\ a[o[p - 1] + i] = ss[p][i]
        BY <2>3, <2>4, <4>1 DEF Parts
      <4>3. PICK k : k = o[p - 1] + i
        OBVIOUS
      <4>4. k \in 1..(Len(a) + Len(b)) /\ (a \o b)[k] = a[k]
        BY <4>2, <4>3, Concat
      <4> QED
        BY <2>3, <4>2, <4>3, <4>4
    <3> QED
      BY <3>1, <3>2
  <2>6. ASSUME NEW k \in 1..o[q + 1]
        PROVE  \E p \in 1..(q + 1) : \E i \in 1..Len(ss[p]) : k = o[p - 1] + i
    <3>1. CASE k <= Len(a)
      <4>1. k \in 1..o[q]
        BY <2>2, <2>3, <3>1
      <4>2. PICK p \in 1..q : \E i \in 1..Len(ss[p]) : k = o[p - 1] + i
        BY <2>4, <4>1 DEF Parts
      <4>3. p \in 1..(q + 1)
        BY <2>1
      <4> QED
        BY <4>2, <4>3
    <3>2. CASE ~(k <= Len(a))
      <4>1. k - Len(a) \in 1..Len(b) /\ k = Len(a) + (k - Len(a)) /\ q + 1 \in 1..(q + 1)
        BY <2>1, <2>2, <2>3, <3>2
      <4>2. Len(ss[q + 1]) = Len(b) /\ o[(q + 1) - 1] = Len(a)
        BY <2>1, <2>2, <2>3
      <4> QED
        BY <4>1, <4>2
    <3> QED
      BY <2>2, <2>3, <3>1, <3>2
  <2>7. Parts(ss, a \o b, o, q + 1)
    BY <2>5, <2>6 DEF Parts
  <2> QED
    BY <2>1, <2>3, <2>7
<1> HIDE DEF H
<1>8. \A q \in 0..n : q \in H /\ q < n => q + 1 \in H
  BY <1>7
<1>9. \A q \in 0..n : q \in H
  BY <1>6, <1>8, Induction
<1>10. Parts(ss, f[n], o, n) /\ f[n] \in Seq(V) /\ Len(f[n]) = o[n]
  <2>1. n \in 0..n /\ n \in H
    BY <1>9
  <2> QED
    BY <1>3, <2>1 DEF H
<1> QED
  BY <1>1, <1>2, <1>4, <1>5, <1>10

-----------------------------------------------------------------------------
(* url_encode: what a byte becomes.                                        *)
Encoded(c) ==
  IF Unreserved(c) THEN <<c>> ELSE <<Pct, HexDigit(c \div 16), HexDigit(c % 16)>>

(* The digits of a byte are read back, and no digit is a delimiter.        *)
LEMMA HexDigits ==
  ASSUME NEW v \in 0..15
  PROVE  /\ HexDigit(v) \in (48..57) \cup (65..70) /\ HexValue(HexDigit(v)) = v
<1>1. CASE v < 10
  BY <1>1 DEF HexDigit, HexValue
<1>2. CASE ~(v < 10)
  <2>1. PICK d \in Int : d = HexDigit(v) /\ d = v + 55
    BY <1>2 DEF HexDigit
  <2>2. d \in 65..70 /\ d \notin 48..57 /\ d \notin 97..102
    BY <1>2, <2>1
  <2>3. HexValue(d) = d - 65 + 10
    BY <2>2 DEF HexValue
  <2> QED
    BY <2>1, <2>2, <2>3
<1> QED
  BY <1>1, <1>2

(* The bytes that mean something in a link.                                *)
Delimiters == {Amp, Eq, Quest, Plus, Open, Close, Mark}

(* An encoded byte: itself or an escape that reads back as it, in either   *)
(* case without a delimiter.                                               *)
LEMMA EncodedFacts ==
  ASSUME NEW c \in 0..255
  PROVE  /\ Encoded(c) \in Seq(Int) /\ Len(Encoded(c)) \in {1, 3}
         /\ \A i \in 1..Len(Encoded(c)) : Encoded(c)[i] \notin Delimiters
         /\ Len(Encoded(c)) = 1 => Encoded(c)[1] = c /\ c # Pct
         /\ Len(Encoded(c)) = 3 =>
              /\ Encoded(c)[1] = Pct
              /\ HexValue(Encoded(c)[2]) >= 0 /\ HexValue(Encoded(c)[3]) >= 0
              /\ HexValue(Encoded(c)[2]) * 16 + HexValue(Encoded(c)[3]) = c
<1>1. CASE Unreserved(c)
  <2>1. Encoded(c) = <<c>>
    BY <1>1 DEF Encoded
  <2>2. c \notin Delimiters /\ c # Pct
    BY <1>1 DEF Unreserved, Delimiters, Amp, Eq, Quest, Plus, Open, Close, Mark, Pct
  <2>3. /\ <<c>> \in Seq(Int) /\ Len(<<c>>) = 1 /\ <<c>>[1] = c
        /\ \A i \in 1..1 : <<c>>[i] = c
    OBVIOUS
  <2> QED
    BY <2>1, <2>2, <2>3
<1>2. CASE ~Unreserved(c)
  <2>1. PICK h \in 0..15, l \in 0..15 : h = c \div 16 /\ l = c % 16 /\ h * 16 + l = c
    <3>1. c \div 16 \in 0..15 /\ c % 16 \in 0..15 /\ (c \div 16) * 16 + (c % 16) = c
      OBVIOUS
    <3> QED
      BY <3>1
  <2>2. PICK a, b : a = HexDigit(h) /\ b = HexDigit(l)
    OBVIOUS
  <2>3. Encoded(c) = <<Pct, a, b>>
    BY <1>2, <2>1, <2>2 DEF Encoded
  <2>4. /\ a \in (48..57) \cup (65..70) /\ b \in (48..57) \cup (65..70)
        /\ HexValue(a) = h /\ HexValue(b) = l
    BY <2>2, HexDigits
  <2>5. Pct \notin Delimiters /\ a \notin Delimiters /\ b \notin Delimiters
        /\ a \in Int /\ b \in Int /\ Pct \in Int
    BY <2>4 DEF Delimiters, Amp, Eq, Quest, Plus, Open, Close, Mark, Pct
  <2>6. /\ <<Pct, a, b>> \in Seq(Int) /\ Len(<<Pct, a, b>>) = 3
        /\ <<Pct, a, b>>[1] = Pct /\ <<Pct, a, b>>[2] = a /\ <<Pct, a, b>>[3] = b
    BY <2>5
  <2>7. ASSUME NEW i \in 1..3 PROVE <<Pct, a, b>>[i] \notin Delimiters
    <3>1. i = 1 \/ i = 2 \/ i = 3
      OBVIOUS
    <3> QED
      BY <2>5, <2>6, <3>1
  <2>8. HexValue(a) >= 0 /\ HexValue(b) >= 0 /\ HexValue(a) * 16 + HexValue(b) = c
    BY <2>1, <2>4
  <2> QED
    BY <2>3, <2>6, <2>7, <2>8
<1> QED
  BY <1>1, <1>2

(* A text and its bytes.                                                   *)
LEMMA TextFacts ==
  ASSUME NEW s \in Seq(0..255)
  PROVE  /\ s \in Seq(Int) /\ Len(s) \in Nat /\ DOMAIN s = 1..Len(s)
         /\ \A p \in 1..Len(s) : s[p] \in 0..255
<1>1. \A p \in 1..Len(s) : s[p] \in 0..255
  <2> DEFINE B == 0..255
  <2>1. s \in Seq(B)
    OBVIOUS
  <2> HIDE DEF B
  <2>2. \A p \in 1..Len(s) : s[p] \in B
    BY <2>1
  <2> QED
    BY <2>2 DEF B
<1>2. Len(s) \in Nat /\ DOMAIN s = 1..Len(s)
  OBVIOUS
<1>3. s \in [1..Len(s) -> Int]
  <2>1. s = [p \in 1..Len(s) |-> s[p]]
    OBVIOUS
  <2>2. \A c \in 0..255 : c \in Int
    OBVIOUS
  <2>3. \A p \in 1..Len(s) : s[p] \in Int
    BY <1>1, <2>2, Zenon
  <2> QED
    BY <2>1, <2>3, Zenon
<1> QED
  BY <1>1, <1>2, <1>3, IsASeq

(* An encoded text is made of encoded bytes and has no delimiter.          *)
LEMMA EncodeFacts ==
  ASSUME NEW s \in Seq(0..255)
  PROVE  \E ss, o :
           /\ DOMAIN ss = 1..Len(s) /\ \A p \in 1..Len(s) : ss[p] = Encoded(s[p])
           /\ o \in [0..Len(s) -> Nat] /\ o[0] = 0
           /\ \A p \in 1..Len(s) : o[p] = o[p - 1] + Len(ss[p])
           /\ UrlEncode(s) \in Seq(Int) /\ Len(UrlEncode(s)) = o[Len(s)]
           /\ Parts(ss, UrlEncode(s), o, Len(s))
           /\ \A i \in 1..Len(UrlEncode(s)) : UrlEncode(s)[i] \notin Delimiters
<1>1. PICK n \in Nat : n = Len(s) /\ DOMAIN s = 1..n /\ \A p \in 1..n : s[p] \in 0..255
  BY TextFacts
<1>2. PICK ss : ss = [p \in 1..n |-> Encoded(s[p])]
  OBVIOUS
<1>3. ss \in Seq(Seq(Int)) /\ Len(ss) = n
  <2>1. ss \in [1..n -> Seq(Int)]
    BY <1>1, <1>2, EncodedFacts
  <2> QED
    BY <2>1, IsASeq
<1>4. PICK t : t = UrlEncode(s)
  OBVIOUS
<1>5. t = FlattenSeq(ss)
  BY <1>1, <1>2, <1>4 DEF UrlEncode, Encoded
<1>6. PICK o \in [0..n -> Nat] :
        /\ o[0] = 0 /\ \A p \in 1..n : o[p] = o[p - 1] + Len(ss[p])
        /\ t \in Seq(Int) /\ Len(t) = o[n] /\ Parts(ss, t, o, n)
  BY <1>3, <1>5, FlattenParts
<1>7. ASSUME NEW k \in 1..Len(t) PROVE t[k] \notin Delimiters
  <2>1. PICK p \in 1..n : \E i \in 1..Len(ss[p]) : k = o[p - 1] + i
    BY <1>6 DEF Parts
  <2>2. PICK i \in 1..Len(ss[p]) : k = o[p - 1] + i
    BY <2>1
  <2>3. t[k] = ss[p][i]
    BY <1>6, <2>2 DEF Parts
  <2>4. ss[p][i] \notin Delimiters
    BY <1>1, <1>2, EncodedFacts
  <2> QED
    BY <2>3, <2>4
<1> QED
  BY <1>1, <1>2, <1>4, <1>6, <1>7

(* url_decode undoes url_encode.                                           *)
LEMMA RoundTrip ==
  ASSUME NEW s \in Seq(0..255)
  PROVE  UrlDecode(UrlEncode(s)) = s
<1>1. PICK n \in Nat : n = Len(s) /\ DOMAIN s = 1..n /\ \A p \in 1..n : s[p] \in 0..255
  BY TextFacts
<1>2. PICK t : t = UrlEncode(s)
  OBVIOUS
<1>3. PICK ss, o :
        /\ DOMAIN ss = 1..n /\ \A p \in 1..n : ss[p] = Encoded(s[p])
        /\ o \in [0..n -> Nat] /\ o[0] = 0
        /\ \A p \in 1..n : o[p] = o[p - 1] + Len(ss[p])
        /\ t \in Seq(Int) /\ Len(t) = o[n] /\ Parts(ss, t, o, n)
        /\ \A i \in 1..Len(t) : t[i] \notin Delimiters
  BY <1>1, <1>2, EncodeFacts
<1>4. PICK g \in [1..(Len(t) + 1) -> Seq(Int)] :
        /\ UrlDecode(t) = g[1]
        /\ \A i \in 1..(Len(t) + 1) : g[i] = DecodeFrom(t, g, i)
  BY <1>3, DecodeFacts
<1>5. ASSUME NEW p \in 1..n PROVE g[o[p - 1] + 1] = <<s[p]>> \o g[o[p] + 1]
  <2>1. PICK e : e = Encoded(s[p]) /\ e = ss[p]
    BY <1>3
  <2>2. PICK q \in Nat : q = o[p - 1]
    BY <1>3
  <2>3. o[p] = q + Len(e)
    BY <1>3, <2>1, <2>2
  <2>4. \A i \in 1..Len(e) : q + i \in 1..Len(t) /\ t[q + i] = e[i]
    <3>1. Parts(ss, t, o, n) /\ Len(t) = o[n] /\ q = o[p - 1] /\ e = ss[p]
      BY <1>3, <2>1, <2>2, Zenon
    <3> QED
      BY <3>1, ZenonT(60) DEF Parts
  <2>5. CASE Len(e) = 1
    <3>1. e[1] = s[p] /\ s[p] # Pct /\ 1 \in 1..Len(e)
      <4>1. PICK c \in 0..255 : c = s[p]
        BY <1>1
      <4>2. Len(Encoded(c)) = 1 => Encoded(c)[1] = c /\ c # Pct
        BY EncodedFacts
      <4> QED
        <5>1. e[1] = c /\ c # Pct
          BY <2>1, <2>5, <4>1, <4>2, Zenon
        <5>2. 1 \in 1..Len(e)
          BY <2>5
        <5> QED
          BY <4>1, <5>1, <5>2
    <3>2. q + 1 \in 1..Len(t) /\ t[q + 1] = s[p]
      BY <2>4, <3>1
    <3>3. t[q + 1] # Plus
      BY <1>3, <3>2 DEF Delimiters
    <3>4. ~Escape(t, q + 1)
      BY <3>1, <3>2 DEF Escape
    <3>5. q + 1 \in 1..(Len(t) + 1) /\ ~(q + 1 > Len(t)) /\ (q + 1) + 1 = (q + Len(e)) + 1
      <4>1. PICK m \in Nat : m = Len(t)
        BY <1>3
      <4> QED
        BY <2>5, <3>2, <4>1
    <3>6. g[q + 1] = DecodeFrom(t, g, q + 1)
      BY <1>4, <3>5
    <3>7. DecodeFrom(t, g, q + 1) = <<s[p]>> \o g[(q + 1) + 1]
      BY <3>2, <3>3, <3>4, <3>5, Zenon DEF DecodeFrom
    <3> QED
      BY <2>2, <2>3, <3>5, <3>6, <3>7
  <2>6. CASE Len(e) = 3
    <3>1. /\ e[1] = Pct /\ HexValue(e[2]) >= 0 /\ HexValue(e[3]) >= 0
          /\ HexValue(e[2]) * 16 + HexValue(e[3]) = s[p]
      <4>1. PICK c \in 0..255 : c = s[p]
        BY <1>1
      <4>2. Len(Encoded(c)) = 3 =>
              /\ Encoded(c)[1] = Pct
              /\ HexValue(Encoded(c)[2]) >= 0 /\ HexValue(Encoded(c)[3]) >= 0
              /\ HexValue(Encoded(c)[2]) * 16 + HexValue(Encoded(c)[3]) = c
        BY EncodedFacts
      <4>3. e = Encoded(c)
        BY <2>1, <4>1, Zenon
      <4> QED
        BY <2>6, <4>1, <4>2, <4>3, Zenon
    <3>2. 1 \in 1..Len(e) /\ 2 \in 1..Len(e) /\ 3 \in 1..Len(e)
      BY <2>6
    <3>3. /\ q + 1 \in 1..Len(t) /\ t[q + 1] = e[1]
          /\ t[q + 2] = e[2] /\ q + 3 \in 1..Len(t) /\ t[q + 3] = e[3]
      BY <2>4, <3>2
    <3>4. /\ (q + 1) + 1 = q + 2 /\ (q + 1) + 2 = q + 3 /\ (q + 1) + 2 <= Len(t)
          /\ q + 1 \in 1..(Len(t) + 1) /\ ~(q + 1 > Len(t))
          /\ (q + 1) + 3 = (q + Len(e)) + 1
      <4>1. PICK m \in Nat : m = Len(t)
        BY <1>3
      <4> QED
        BY <2>6, <3>3, <4>1
    <3>5. Escape(t, q + 1)
      BY <3>1, <3>3, <3>4 DEF Escape
    <3>6. g[q + 1] = DecodeFrom(t, g, q + 1)
      BY <1>4, <3>4
    <3>7. DecodeFrom(t, g, q + 1) =
            <<HexValue(t[(q + 1) + 1]) * 16 + HexValue(t[(q + 1) + 2])>> \o g[(q + 1) + 3]
      BY <3>4, <3>5, Zenon DEF DecodeFrom
    <3>8. HexValue(t[(q + 1) + 1]) * 16 + HexValue(t[(q + 1) + 2]) = s[p]
      BY <3>1, <3>3, <3>4
    <3>9. o[p] + 1 = (q + 1) + 3
      BY <2>3, <3>4
    <3> QED
      BY <2>2, <3>6, <3>7, <3>8, <3>9, Zenon
  <2> QED
    BY <1>1, <2>1, <2>5, <2>6, EncodedFacts, ZenonT(60)
<1> DEFINE H == {i \in 0..n : g[o[n - i] + 1] = SubSeq(s, n - i + 1, n)}
<1>6. 0 \in H
  <2>1. n - 0 = n /\ o[n] + 1 = Len(t) + 1 /\ Len(t) + 1 \in 1..(Len(t) + 1) /\ Len(t) + 1 > Len(t)
    BY <1>3
  <2>2. g[o[n] + 1] = <<>>
    BY <1>4, <2>1 DEF DecodeFrom
  <2>3. SubSeq(s, n + 1, n) = <<>>
    BY <1>1
  <2> QED
    BY <2>1, <2>2, <2>3
<1>7. ASSUME NEW i \in 0..n, i \in H, i < n PROVE i + 1 \in H
  <2>1. PICK p \in 1..n : p = n - i
    BY <1>7
  <2>2. n - (i + 1) = p - 1 /\ (p - 1) + 1 = p /\ i + 1 \in 0..n
    BY <1>7, <2>1
  <2>3. g[o[p] + 1] = SubSeq(s, p + 1, n)
    BY <1>7, <2>1
  <2>4. g[o[p - 1] + 1] = <<s[p]>> \o SubSeq(s, p + 1, n)
    BY <1>5, <2>3
  <2>5. <<s[p]>> \o SubSeq(s, p + 1, n) = SubSeq(s, p, n)
    BY <1>1
  <2> QED
    BY <2>2, <2>4, <2>5
<1>8. \A i \in 0..n : i \in H
  <2>1. \A i \in 0..n : i \in H /\ i < n => i + 1 \in H
    BY <1>7
  <2> HIDE DEF H
  <2> QED
    BY <1>6, <2>1, Induction
<1>9. g[o[0] + 1] = SubSeq(s, 1, n)
  <2>1. n \in 0..n /\ n - n = 0 /\ n - n + 1 = 1
    OBVIOUS
  <2> QED
    BY <1>8, <2>1
<1>10. SubSeq(s, 1, n) = s
  BY <1>1
<1>11. o[0] + 1 = 1
  BY <1>3
<1> QED
  BY <1>2, <1>4, <1>9, <1>10, <1>11

-----------------------------------------------------------------------------
(* Parts of a text.                                                        *)
LEMMA SubTextFacts ==
  ASSUME NEW s \in Seq(Int), NEW i \in Nat, i >= 1, NEW m \in Nat, m <= Len(s)
  PROVE  /\ SubSeq(s, i, m) \in Seq(Int)
         /\ Len(SubSeq(s, i, m)) = IF i <= m THEN m - i + 1 ELSE 0
         /\ \A k \in 1..Len(SubSeq(s, i, m)) : SubSeq(s, i, m)[k] = s[i + k - 1]
<1>1. \A k \in i..m : s[k] \in Int
  OBVIOUS
<1> QED
  BY <1>1

(* render_link: the rest of the output from a place of the template on.    *)
RenderFrom(t, values, g, i) ==
  IF i > Len(t) THEN <<>>
  ELSE IF t[i] # Open THEN <<t[i]>> \o g[i + 1]
  ELSE IF FindFrom(t, Close, i) = 0 THEN From(t, i)
  ELSE Expand(SubSeq(t, i + 1, FindFrom(t, Close, i) - 1), values) \o g[FindFrom(t, Close, i) + 1]

(* What the placeholders stand for.                                        *)
Values(values) ==
  /\ values.url \in Seq(Int) /\ UrlEncode(values.url) \in Seq(Int)
  /\ values.subid \in Seq(Int) /\ values.campaign \in Seq(Int)

(* A placeholder's text is a text.                                         *)
LEMMA ExpandType ==
  ASSUME NEW values, Values(values), NEW name \in Seq(Int)
  PROVE  Expand(name, values) \in Seq(Int)
<1>1. <<Open>> \in Seq(Int) /\ <<Close>> \in Seq(Int)
  BY DEF Open, Close
<1>2. <<Open>> \o name \o <<Close>> \in Seq(Int)
  BY <1>1, Concat
<1>3. CASE name \in {<<U>>, <<E>>, <<S>>, <<C>>}
  <2>1. Expand(name, values) = ExpandKnown(name, values)
    BY <1>3 DEF Expand
  <2>2. ExpandKnown(name, values) \in
          {values.url, UrlEncode(values.url), values.subid, values.campaign}
    BY <1>3 DEF ExpandKnown
  <2> QED
    BY <2>1, <2>2 DEF Values
<1>4. CASE name \notin {<<U>>, <<E>>, <<S>>, <<C>>}
  BY <1>2, <1>4 DEF Expand
<1> QED
  BY <1>3, <1>4

(* A step of render_link uses later parts of the output only.              *)
LEMMA RenderStep ==
  ASSUME NEW t \in Seq(Int), NEW values, Values(values), NEW i \in 1..(Len(t) + 1), NEW g,
         \A j \in 1..(Len(t) + 1) : j > i => g[j] \in Seq(Int)
  PROVE  /\ RenderFrom(t, values, g, i) \in Seq(Int)
         /\ \A h : (\A j \in 1..(Len(t) + 1) : j > i => g[j] = h[j])
                     => RenderFrom(t, values, g, i) = RenderFrom(t, values, h, i)
<1>1. PICK n \in Nat : n = Len(t)
  OBVIOUS
<1>2. PICK f : f = FindFrom(t, Close, i)
  OBVIOUS
<1>3. f = 0 \/ f \in i..n
  BY <1>1, <1>2, FindFacts
<1>4. CASE i > n
  BY <1>1, <1>4 DEF RenderFrom
<1>5. CASE i <= n /\ t[i] # Open
  <2>1. i + 1 \in 1..(n + 1) /\ i + 1 > i /\ i \in 1..n
    BY <1>1, <1>5
  <2>2. \A h : RenderFrom(t, values, h, i) = <<t[i]>> \o h[i + 1]
    BY <1>1, <1>5, SMTT(60) DEF RenderFrom
  <2>3. t[i] \in Int /\ g[i + 1] \in Seq(Int)
    BY <1>1, <2>1
  <2>4. <<t[i]>> \o g[i + 1] \in Seq(Int)
    BY <2>3
  <2>5. ASSUME NEW h, \A j \in 1..(Len(t) + 1) : j > i => g[j] = h[j]
        PROVE  RenderFrom(t, values, g, i) = RenderFrom(t, values, h, i)
    <3>1. g[i + 1] = h[i + 1]
      BY <1>1, <2>1, <2>5
    <3> QED
      BY <2>2, <3>1, Zenon
  <2> QED
    BY <2>2, <2>4, <2>5, Zenon
<1>6. CASE i <= n /\ t[i] = Open /\ f = 0
  <2>1. \A h : RenderFrom(t, values, h, i) = From(t, i)
    BY <1>1, <1>2, <1>6 DEF RenderFrom
  <2>2. From(t, i) \in Seq(Int)
    BY <1>1, <1>6, SubTextFacts DEF From
  <2> QED
    BY <2>1, <2>2, Zenon
<1>7. CASE i <= n /\ t[i] = Open /\ f # 0
  <2>1. /\ f + 1 \in 1..(n + 1) /\ f + 1 > i /\ f - 1 \in Nat /\ f - 1 <= n
        /\ i + 1 \in Nat /\ i + 1 >= 1
    BY <1>1, <1>3, <1>7
  <2>2. PICK e : e = Expand(SubSeq(t, i + 1, f - 1), values)
    OBVIOUS
  <2>3. e \in Seq(Int)
    <3>1. SubSeq(t, i + 1, f - 1) \in Seq(Int)
      BY <1>1, <2>1, SubTextFacts
    <3> QED
      BY <2>2, <3>1, ExpandType
  <2>4. \A h : RenderFrom(t, values, h, i) = e \o h[f + 1]
    <3>1. ~(i > Len(t))
      BY <1>1, <1>7
    <3> QED
      BY <1>2, <1>7, <2>2, <3>1, Zenon DEF RenderFrom
  <2>5. g[f + 1] \in Seq(Int)
    BY <1>1, <2>1
  <2>6. e \o g[f + 1] \in Seq(Int)
    BY <2>3, <2>5
  <2>7. ASSUME NEW h, \A j \in 1..(Len(t) + 1) : j > i => g[j] = h[j]
        PROVE  RenderFrom(t, values, g, i) = RenderFrom(t, values, h, i)
    <3>1. g[f + 1] = h[f + 1]
      BY <1>1, <2>1, <2>7
    <3> QED
      BY <2>4, <3>1, Zenon
  <2> QED
    BY <2>4, <2>6, <2>7, Zenon
<1> QED
  BY <1>1, <1>4, <1>5, <1>6, <1>7

(* What render_link returns is the output from the first place on.         *)
LEMMA RenderFacts ==
  ASSUME NEW t \in Seq(Int), NEW values, Values(values)
  PROVE  \E g \in [1..(Len(t) + 1) -> Seq(Int)] :
           /\ RenderLink(t, values) = g[1]
           /\ \A i \in 1..(Len(t) + 1) : g[i] = RenderFrom(t, values, g, i)
<1>1. PICK N \in Nat : N = Len(t) + 1
  OBVIOUS
<1> DEFINE V == Seq(Int)
           F == [i \in 1..N |-> [g \in [1..N -> V] |-> RenderFrom(t, values, g, i)]]
<1>2. RenderLink(t, values) = (CHOOSE g : g = [i \in 1..N |-> RenderFrom(t, values, g, i)])[1]
  BY <1>1, Zenon DEF RenderLink, RenderFrom
<1>3. ASSUME NEW i \in 1..N, NEW g \in [1..N -> V]
      PROVE  /\ F[i][g] = RenderFrom(t, values, g, i)
             /\ RenderFrom(t, values, g, i) \in V
             /\ \A h : (\A j \in 1..N : j > i => g[j] = h[j])
                         => RenderFrom(t, values, g, i) = RenderFrom(t, values, h, i)
  <2>1. F[i][g] = RenderFrom(t, values, g, i)
    OBVIOUS
  <2>2. \A j \in 1..N : j > i => g[j] \in Seq(Int)
    OBVIOUS
  <2> HIDE DEF F
  <2>3. /\ RenderFrom(t, values, g, i) \in Seq(Int)
        /\ \A h : (\A j \in 1..N : j > i => g[j] = h[j])
                     => RenderFrom(t, values, g, i) = RenderFrom(t, values, h, i)
    BY <1>1, <2>2, RenderStep, Zenon
  <2> QED
    BY <2>1, <2>3, Zenon
<1> HIDE DEF F
<1>4. FromTheEnd(F, N, V)
  <2> HIDE DEF V
  <2>1. ASSUME NEW i \in 1..N, NEW g \in [1..N -> V],
               NEW h \in [1..N -> V], \A j \in 1..N : j > i => g[j] = h[j]
        PROVE  F[i][g] \in V /\ F[i][g] = F[i][h]
    <3>1. /\ F[i][g] = RenderFrom(t, values, g, i)
          /\ F[i][h] = RenderFrom(t, values, h, i)
          /\ RenderFrom(t, values, g, i) \in V
      BY <1>3, Zenon
    <3>2. RenderFrom(t, values, g, i) = RenderFrom(t, values, h, i)
      BY <1>3, <2>1, Zenon
    <3> QED
      BY <3>1, <3>2, Zenon
  <2> QED
    BY <2>1, Zenon DEF FromTheEnd
<1>5. <<>> \in V
  OBVIOUS
<1>6. PICK g \in [1..N -> V] : \A i \in 1..N : g[i] = F[i][g]
  <2> HIDE DEF V
  <2> QED
    BY <1>4, <1>5, RecursionFromTheEnd
<1>7. g = [i \in 1..N |-> RenderFrom(t, values, g, i)]
  BY <1>3, <1>6
<1>8. PICK f : f = CHOOSE h : h = [i \in 1..N |-> RenderFrom(t, values, h, i)]
  OBVIOUS
<1>9. f = [i \in 1..N |-> RenderFrom(t, values, f, i)]
  BY <1>7, <1>8, Zenon
<1> DEFINE H == {i \in 1..N : f[i] \in V}
<1>10. ASSUME NEW k \in 1..N, \A j \in 1..N : j > k => j \in H PROVE k \in H
  <2>1. \A j \in 1..N : j > k => f[j] \in Seq(Int)
    BY <1>10
  <2>2. RenderFrom(t, values, f, k) \in Seq(Int)
    BY <1>1, <2>1, RenderStep
  <2> QED
    BY <1>9, <2>2
<1>11. \A k \in 1..N : k \in H
  <2> HIDE DEF H
  <2> QED
    BY <1>10, InductionFromTheEnd
<1>12. f \in [1..N -> V]
  BY <1>9, <1>11
<1> QED
  BY <1>1, <1>2, <1>8, <1>9, <1>12, ZenonT(60)

-----------------------------------------------------------------------------
(* parse_query's loop over the pairs.                                      *)
PairsFrom(s, g, i) ==
  <<UpTo(s, Amp, i)>> \o
    IF FindFrom(s, Amp, i) = 0 THEN <<>> ELSE g[FindFrom(s, Amp, i) + 1]

(* The part up to a byte is a text.                                        *)
LEMMA UpToFacts ==
  ASSUME NEW s \in Seq(Int), NEW c, NEW i \in Nat, i >= 1
  PROVE  UpTo(s, c, i) \in Seq(Int)
<1>1. PICK f : f = FindFrom(s, c, i)
  OBVIOUS
<1>2. PICK n \in Nat : n = Len(s)
  OBVIOUS
<1>3. f = 0 \/ f \in i..n
  BY <1>1, <1>2, FindFacts
<1>4. PICK m : m = IF f = 0 THEN n ELSE f - 1
  OBVIOUS
<1>5. m \in Nat /\ m <= n
  BY <1>3, <1>4
<1>6. UpTo(s, c, i) = SubSeq(s, i, m)
  BY <1>1, <1>2, <1>4 DEF UpTo
<1> QED
  BY <1>2, <1>5, <1>6, SubTextFacts

(* A step of parse_query's split uses later pairs only.                    *)
LEMMA PairsStep ==
  ASSUME NEW s \in Seq(Int), NEW i \in 1..(Len(s) + 1), NEW g,
         \A j \in 1..(Len(s) + 1) : j > i => g[j] \in Seq(Seq(Int))
  PROVE  /\ PairsFrom(s, g, i) \in Seq(Seq(Int))
         /\ \A h : (\A j \in 1..(Len(s) + 1) : j > i => g[j] = h[j])
                     => PairsFrom(s, g, i) = PairsFrom(s, h, i)
<1>1. PICK n \in Nat : n = Len(s)
  OBVIOUS
<1>2. PICK f : f = FindFrom(s, Amp, i)
  OBVIOUS
<1>3. f = 0 \/ f \in i..n
  BY <1>1, <1>2, FindFacts
<1>4. PICK e \in Seq(Int) : e = UpTo(s, Amp, i)
  BY UpToFacts
<1>5. <<e>> \in Seq(Seq(Int)) /\ <<>> \in Seq(Seq(Int))
  OBVIOUS
<1>6. CASE f = 0
  <2>1. \A h : PairsFrom(s, h, i) = <<e>> \o <<>>
    BY <1>2, <1>4, <1>6 DEF PairsFrom
  <2>2. <<e>> \o <<>> \in Seq(Seq(Int))
    BY <1>5, Concat, Zenon
  <2> QED
    BY <2>1, <2>2, Zenon
<1>7. CASE f # 0
  <2>1. f + 1 \in 1..(n + 1) /\ f + 1 > i
    BY <1>1, <1>3, <1>7
  <2>2. \A h : PairsFrom(s, h, i) = <<e>> \o h[f + 1]
    BY <1>2, <1>4, <1>7, Zenon DEF PairsFrom
  <2>3. g[f + 1] \in Seq(Seq(Int))
    BY <1>1, <2>1
  <2>4. <<e>> \o g[f + 1] \in Seq(Seq(Int))
    BY <1>5, <2>3, Concat, Zenon
  <2>5. ASSUME NEW h, \A j \in 1..(Len(s) + 1) : j > i => g[j] = h[j]
        PROVE  PairsFrom(s, g, i) = PairsFrom(s, h, i)
    <3>1. g[f + 1] = h[f + 1]
      BY <1>1, <2>1, <2>5
    <3> QED
      BY <2>2, <3>1, Zenon
  <2> QED
    BY <2>2, <2>4, <2>5, Zenon
<1> QED
  BY <1>6, <1>7

(* The pairs are the ones from the first place on.                         *)
LEMMA PairsFacts ==
  ASSUME NEW s \in Seq(Int)
  PROVE  \E g \in [1..(Len(s) + 1) -> Seq(Seq(Int))] :
           /\ Pairs(s) = g[1]
           /\ \A i \in 1..(Len(s) + 1) : g[i] = PairsFrom(s, g, i)
<1>1. PICK N \in Nat : N = Len(s) + 1
  OBVIOUS
<1> DEFINE V == Seq(Seq(Int))
           F == [i \in 1..N |-> [g \in [1..N -> V] |-> PairsFrom(s, g, i)]]
<1>2. Pairs(s) = (CHOOSE g : g = [i \in 1..N |-> PairsFrom(s, g, i)])[1]
  BY <1>1, Zenon DEF Pairs, PairsFrom
<1>3. ASSUME NEW i \in 1..N, NEW g \in [1..N -> V]
      PROVE  /\ F[i][g] = PairsFrom(s, g, i) /\ PairsFrom(s, g, i) \in V
             /\ \A h : (\A j \in 1..N : j > i => g[j] = h[j])
                         => PairsFrom(s, g, i) = PairsFrom(s, h, i)
  BY <1>1, PairsStep
<1> HIDE DEF F
<1>4. FromTheEnd(F, N, V)
  <2> HIDE DEF V
  <2> QED
    BY <1>3 DEF FromTheEnd
<1>5. <<>> \in V
  OBVIOUS
<1>6. PICK g \in [1..N -> V] : \A i \in 1..N : g[i] = F[i][g]
  <2> HIDE DEF V
  <2> QED
    BY <1>4, <1>5, RecursionFromTheEnd
<1>7. g = [i \in 1..N |-> PairsFrom(s, g, i)]
  BY <1>3, <1>6
<1>8. PICK f : f = CHOOSE h : h = [i \in 1..N |-> PairsFrom(s, h, i)]
  OBVIOUS
<1>9. f = [i \in 1..N |-> PairsFrom(s, f, i)]
  BY <1>7, <1>8, Zenon
<1> DEFINE H == {i \in 1..N : f[i] \in V}
<1>10. ASSUME NEW k \in 1..N, \A j \in 1..N : j > k => j \in H PROVE k \in H
  <2>1. \A j \in 1..N : j > k => f[j] \in Seq(Seq(Int))
    BY <1>10
  <2>2. PairsFrom(s, f, k) \in Seq(Seq(Int))
    BY <1>1, <2>1, PairsStep
  <2> QED
    BY <1>9, <2>2
<1>11. \A k \in 1..N : k \in H
  <2> HIDE DEF H
  <2> QED
    BY <1>10, InductionFromTheEnd
<1>12. f \in [1..N -> V]
  BY <1>9, <1>11
<1> QED
  BY <1>1, <1>2, <1>8, <1>9, <1>12, ZenonT(60)

(* What parse_query has read after a number of pairs.                      *)
ReadPair(q, pair) == IF pair = <<>> THEN q ELSE AddPair(q, pair)

(* The maps parse_query has after each pair.                               *)
ReadPairs(g, ps, n) == [k \in 0..n |-> IF k = 0 THEN <<>> ELSE ReadPair(g[k - 1], ps[k])]

(* Those maps exist.                                                       *)
LEMMA ReadPairsExist ==
  ASSUME NEW n \in Nat, NEW ps
  PROVE  \E g : g = ReadPairs(g, ps, n)
<1> DEFINE H == {i \in 0..n : \E g : g = ReadPairs(g, ps, i)}
<1>1. 0 \in H
  <2>1. PICK g : g = [k \in 0..0 |-> <<>>]
    OBVIOUS
  <2>2. g = ReadPairs(g, ps, 0)
    BY <2>1 DEF ReadPairs
  <2> QED
    BY <2>2
<1>2. ASSUME NEW i \in 0..n, i \in H, i < n PROVE i + 1 \in H
  <2>1. PICK g : g = ReadPairs(g, ps, i)
    BY <1>2
  <2>2. PICK h : h = [k \in 0..(i + 1) |-> IF k = i + 1 THEN ReadPair(g[i], ps[i + 1]) ELSE g[k]]
    OBVIOUS
  <2>3. ASSUME NEW k \in 0..(i + 1)
        PROVE  h[k] = IF k = 0 THEN <<>> ELSE ReadPair(h[k - 1], ps[k])
    <3>1. CASE k = i + 1
      <4>1. k # 0 /\ k - 1 = i /\ k - 1 \in 0..(i + 1) /\ k - 1 # i + 1
        BY <3>1
      <4>2. h[k - 1] = g[i]
        BY <2>2, <4>1
      <4> QED
        BY <2>2, <3>1, <4>1, <4>2
    <3>2. CASE k # i + 1
      <4>1. k \in 0..i
        BY <3>2
      <4>2. h[k] = g[k] /\ g[k] = IF k = 0 THEN <<>> ELSE ReadPair(g[k - 1], ps[k])
        BY <2>1, <2>2, <3>2, <4>1 DEF ReadPairs
      <4>3. k # 0 => h[k - 1] = g[k - 1]
        <5>1. k # 0 => k - 1 \in 0..(i + 1) /\ k - 1 # i + 1
          BY <4>1
        <5> QED
          BY <2>2, <5>1
      <4> QED
        BY <4>2, <4>3
    <3> QED
      BY <3>1, <3>2
  <2>4. h = ReadPairs(h, ps, i + 1)
    BY <2>2, <2>3 DEF ReadPairs
  <2> QED
    BY <1>2, <2>4
<1>3. \A i \in 0..n : i \in H
  <2>1. \A i \in 0..n : i \in H /\ i < n => i + 1 \in H
    BY <1>2
  <2> HIDE DEF H
  <2> QED
    BY <1>1, <2>1, Induction
<1> QED
  BY <1>3

(* parse_query reads the pairs one after the other.                        *)
LEMMA ParseFacts ==
  ASSUME NEW s \in Seq(Int)
  PROVE  \E out : /\ out[0] = <<>>
                  /\ \A k \in 1..Len(Pairs(s)) : out[k] = ReadPair(out[k - 1], Pairs(s)[k])
                  /\ ParseQuery(s) = out[Len(Pairs(s))]
<1>1. PICK ps \in Seq(Seq(Int)) : ps = Pairs(s)
  <2>1. Pairs(s) \in Seq(Seq(Int))
    <3>1. PICK g \in [1..(Len(s) + 1) -> Seq(Seq(Int))] : Pairs(s) = g[1]
      BY PairsFacts
    <3>2. 1 \in 1..(Len(s) + 1)
      OBVIOUS
    <3> QED
      BY <3>1, <3>2
  <2> QED
    BY <2>1
<1>2. PICK n \in Nat : n = Len(ps)
  OBVIOUS
<1>3. ParseQuery(s) = (CHOOSE g : g = ReadPairs(g, ps, n))[n]
  BY <1>1, <1>2, Zenon DEF ParseQuery, ReadPairs, ReadPair
<1>4. PICK out : out = CHOOSE g : g = ReadPairs(g, ps, n)
  OBVIOUS
<1>5. out = ReadPairs(out, ps, n)
  BY <1>4, ReadPairsExist, Zenon
<1>6. out[0] = <<>> /\ \A k \in 1..n : out[k] = ReadPair(out[k - 1], ps[k])
  BY <1>5 DEF ReadPairs
<1> QED
  BY <1>1, <1>2, <1>3, <1>4, <1>6

-----------------------------------------------------------------------------
(* A text with nothing to decode is left alone.                            *)
LEMMA DecodePlain ==
  ASSUME NEW s \in Seq(Int), \A i \in 1..Len(s) : s[i] # Pct /\ s[i] # Plus
  PROVE  UrlDecode(s) = s
<1>1. PICK n \in Nat : n = Len(s)
  OBVIOUS
<1>2. PICK g \in [1..(n + 1) -> Seq(Int)] :
        UrlDecode(s) = g[1] /\ \A i \in 1..(n + 1) : g[i] = DecodeFrom(s, g, i)
  BY <1>1, DecodeFacts
<1> DEFINE H == {i \in 1..(n + 1) : g[i] = SubSeq(s, i, n)}
<1>3. ASSUME NEW k \in 1..(n + 1), \A j \in 1..(n + 1) : j > k => j \in H PROVE k \in H
  <2>1. CASE k > n
    <3>1. g[k] = <<>>
      BY <1>1, <1>2, <2>1 DEF DecodeFrom
    <3>2. SubSeq(s, k, n) = <<>>
      BY <1>1, <2>1
    <3> QED
      BY <3>1, <3>2
  <2>2. CASE k <= n
    <3>1. k + 1 \in 1..(n + 1) /\ k + 1 > k /\ k \in 1..n /\ ~(k > Len(s))
      BY <1>1, <2>2
    <3>2. g[k + 1] = SubSeq(s, k + 1, n)
      BY <1>3, <3>1
    <3>3. s[k] # Pct /\ s[k] # Plus
      BY <1>1, <3>1
    <3>4. DecodeFrom(s, g, k) = <<s[k]>> \o g[k + 1]
      BY <3>1, <3>3, Zenon DEF DecodeFrom, Escape
    <3>5. <<s[k]>> \o SubSeq(s, k + 1, n) = SubSeq(s, k, n)
      BY <1>1, <3>1
    <3> QED
      BY <1>2, <3>2, <3>4, <3>5
  <2> QED
    BY <2>1, <2>2
<1>4. \A k \in 1..(n + 1) : k \in H
  <2> HIDE DEF H
  <2>1. PICK N \in Nat : N = n + 1
    OBVIOUS
  <2>2. \A k \in 1..N : (\A j \in 1..N : j > k => j \in H) => k \in H
    BY <1>3, <2>1
  <2>3. \A k \in 1..N : k \in H
    BY <2>2, InductionFromTheEnd
  <2> QED
    BY <2>1, <2>3
<1>5. g[1] = SubSeq(s, 1, n) /\ SubSeq(s, 1, n) = s
  BY <1>1, <1>4
<1> QED
  BY <1>2, <1>5

(* A text that is one byte and then another text.                          *)
Byte(c, z, y) == c \in Int /\ z \in Seq(Int) /\ y = <<c>> \o z

(* The last part of a text, from the byte after k on.                      *)
Ends(l, k, y) ==
  /\ l \in Seq(Int) /\ y \in Seq(Int) /\ k \in Nat /\ Len(l) = k + Len(y)
  /\ \A i \in 1..Len(y) : l[k + i] = y[i]

(* When the last part starts with a byte, that is where it stands.         *)
LEMMA OneMore ==
  ASSUME NEW l, NEW k \in Nat, NEW j \in Nat, j = k + 1, NEW y, NEW z, NEW c,
         Byte(c, z, y), Ends(l, k, y)
  PROVE  l[j] = c /\ Ends(l, j, z)
<1>1. PICK m \in Nat : m = Len(z)
  BY DEF Byte
<1>2. Len(y) = m + 1 /\ y[1] = c /\ \A i \in 1..m : y[i + 1] = z[i]
  BY <1>1 DEF Byte
<1>3. Len(l) = j + m /\ l[j] = c /\ k \in Nat /\ j \in Nat
  BY <1>2, SMTT(30) DEF Ends
<1>4. ASSUME NEW i \in 1..m PROVE l[j + i] = z[i]
  <2>1. i + 1 \in 1..Len(y) /\ k + (i + 1) = j + i
    BY <1>2, <1>3
  <2> QED
    BY <1>2, <2>1 DEF Ends
<1> QED
  BY <1>1, <1>3, <1>4 DEF Ends, Byte

(* A part of one byte.                                                     *)
LEMMA SubSeqOne ==
  ASSUME NEW s \in Seq(Int), NEW i \in 1..Len(s)
  PROVE  SubSeq(s, i, i) = <<s[i]>>
<1>1. i \in Nat /\ i >= 1 /\ i <= Len(s) /\ i - i + 1 = 1 /\ i + 1 - 1 = i
  OBVIOUS
<1>2. /\ SubSeq(s, i, i) \in Seq(Int) /\ Len(SubSeq(s, i, i)) = 1
      /\ SubSeq(s, i, i)[1] = s[i]
  BY <1>1, SubTextFacts
<1>3. <<s[i]>> \in Seq(Int) /\ Len(<<s[i]>>) = 1 /\ <<s[i]>>[1] = s[i]
  OBVIOUS
<1>4. \A k \in 1..1 : k = 1
  OBVIOUS
<1> QED
  BY <1>2, <1>3, <1>4, SeqEqual

(* The link made of the affiliate template.                                *)
Link(l, x) ==
  /\ l \in Seq(Int) /\ Len(l) = 9 + Len(x)
  /\ l[1] = 104 /\ l[2] = Quest /\ l[3] = S /\ l[4] = Eq /\ l[5] = 55 /\ l[6] = 75
  /\ l[7] = Amp /\ l[8] = U /\ l[9] = Eq
  /\ \A i \in 1..Len(x) : l[9 + i] = x[i]

(* The bytes of the link, read off the parts it is made of.                *)
LEMMA LinkIs ==
  ASSUME NEW x \in Seq(Int), NEW l, NEW y2, NEW y3, NEW y4, NEW y5, NEW y6, NEW y8, NEW y9, NEW y10,
         Byte(104, y2, l), Byte(Quest, y3, y2), Byte(S, y4, y3), Byte(Eq, y5, y4),
         Byte(55, y6, y5), Byte(75, y8, y6), Byte(Amp, y9, y8), Byte(U, y10, y9), Byte(Eq, x, y10)
  PROVE  Link(l, x)
<1>1. Ends(l, 0, l)
  <2>1. l \in Seq(Int)
    BY DEF Byte
  <2> QED
    BY <2>1 DEF Ends
<1>2. l[1] = 104 /\ Ends(l, 1, y2)
  BY <1>1, OneMore
<1>3. l[2] = Quest /\ Ends(l, 2, y3)
  BY <1>2, OneMore
<1>4. l[3] = S /\ Ends(l, 3, y4)
  BY <1>3, OneMore
<1>5. l[4] = Eq /\ Ends(l, 4, y5)
  BY <1>4, OneMore
<1>6. l[5] = 55 /\ Ends(l, 5, y6)
  BY <1>5, OneMore
<1>7. l[6] = 75 /\ Ends(l, 6, y8)
  BY <1>6, OneMore
<1>8. l[7] = Amp /\ Ends(l, 7, y9)
  BY <1>7, OneMore
<1>9. l[8] = U /\ Ends(l, 8, y10)
  BY <1>8, OneMore
<1>10. l[9] = Eq /\ Ends(l, 9, x)
  BY <1>9, OneMore
<1>11. l \in Seq(Int) /\ Len(l) = 9 + Len(x) /\ \A i \in 1..Len(x) : l[9 + i] = x[i]
  BY <1>10, Zenon DEF Ends
<1> QED
  BY <1>2, <1>3, <1>4, <1>5, <1>6, <1>7, <1>8, <1>9, <1>10, <1>11, Zenon DEF Link

(* What the placeholders of the code expand to.                            *)
LEMMA ExpandNames ==
  ASSUME NEW values
  PROVE  /\ Expand(<<U>>, values) = values.url /\ Expand(<<E>>, values) = UrlEncode(values.url)
         /\ Expand(<<S>>, values) = values.subid /\ Expand(<<C>>, values) = values.campaign
<1>1. /\ <<U>> # <<E>> /\ <<U>> # <<S>> /\ <<U>> # <<C>> /\ <<E>> # <<S>> /\ <<E>> # <<C>>
      /\ <<S>> # <<C>>
  BY DEF U, E, S, C
<1>2. \A name \in {<<U>>, <<E>>, <<S>>, <<C>>} : Expand(name, values) = ExpandKnown(name, values)
  BY Zenon DEF Expand
<1>3. /\ ExpandKnown(<<U>>, values) = values.url
      /\ ExpandKnown(<<E>>, values) = UrlEncode(values.url)
      /\ ExpandKnown(<<S>>, values) = values.subid /\ ExpandKnown(<<C>>, values) = values.campaign
  <2> USE <1>1 DEF ExpandKnown
  <2>1. ExpandKnown(<<U>>, values) = values.url
    BY Zenon
  <2>2. ExpandKnown(<<E>>, values) = UrlEncode(values.url)
    BY Zenon
  <2>3. ExpandKnown(<<S>>, values) = values.subid
    BY Zenon
  <2>4. ExpandKnown(<<C>>, values) = values.campaign
    BY Zenon
  <2> QED
    BY <2>1, <2>2, <2>3, <2>4
<1> QED
  BY <1>2, <1>3, Zenon

(* The outputs of render_link from each place of the template on.          *)
Rendering(t, values, g) ==
  /\ t \in Seq(Int) /\ Values(values) /\ g \in [1..(Len(t) + 1) -> Seq(Int)]
  /\ \A i \in 1..(Len(t) + 1) : g[i] = RenderFrom(t, values, g, i)

(* A byte of the template that is no brace is copied.                      *)
LEMMA RenderByte ==
  ASSUME NEW t, NEW values, NEW g, Rendering(t, values, g),
         NEW i \in Nat, 1 <= i, i <= Len(t), NEW j, j = i + 1, t[i] # Open
  PROVE  Byte(t[i], g[j], g[i])
<1>1. PICK n \in Nat : n = Len(t)
  BY DEF Rendering
<1>2. i \in 1..(n + 1) /\ j \in 1..(n + 1) /\ ~(i > Len(t)) /\ i \in 1..n
  BY <1>1
<1>3. g[i] = RenderFrom(t, values, g, i) /\ g[j] \in Seq(Int) /\ t[i] \in Int
  BY <1>1, <1>2 DEF Rendering
<1>4. g[i] = <<t[i]>> \o g[j]
  BY <1>2, <1>3, Zenon DEF RenderFrom
<1> QED
  BY <1>3, <1>4 DEF Byte

(* A placeholder with a name of one letter is expanded.                    *)
LEMMA RenderPlaceholder ==
  ASSUME NEW t, NEW values, NEW g, Rendering(t, values, g),
         NEW i \in Nat, 1 <= i, NEW j \in Nat, j = i + 1, NEW k \in Nat, k = i + 2,
         NEW l \in Nat, l = i + 3, k <= Len(t),
         t[i] = Open, t[j] # Close, t[k] = Close
  PROVE  g[i] = Expand(<<t[j]>>, values) \o g[l]
<1>1. PICK n \in Nat : n = Len(t)
  BY DEF Rendering
<1>2. /\ i \in 1..(n + 1) /\ ~(i > Len(t)) /\ k \in i..n /\ k # 0
      /\ k + 1 = l /\ k - 1 = j /\ j \in 1..n
  BY <1>1
<1>3. FindFrom(t, Close, i) = k
  <2>1. \A m \in i..(k - 1) : m = i \/ m = j
    BY <1>1, <1>2
  <2>2. \A m \in i..(k - 1) : t[m] # Close
    BY <2>1 DEF Open, Close
  <2>3. t \in Seq(Int)
    BY DEF Rendering
  <2> QED
    BY <1>1, <1>2, <2>2, <2>3, FindIs
<1>4. g[i] = RenderFrom(t, values, g, i)
  BY <1>1, <1>2 DEF Rendering
<1>5. RenderFrom(t, values, g, i) = Expand(SubSeq(t, j, j), values) \o g[l]
  BY <1>2, <1>3, Zenon DEF RenderFrom
<1>6. SubSeq(t, j, j) = <<t[j]>>
  <2>1. t \in Seq(Int)
    BY DEF Rendering
  <2> QED
    BY <1>1, <1>2, <2>1, SubSeqOne
<1> QED
  BY <1>4, <1>5, <1>6

(* Nothing follows the last byte.                                          *)
LEMMA RenderEnd ==
  ASSUME NEW t, NEW values, NEW g, Rendering(t, values, g), NEW i \in Nat, i = Len(t) + 1
  PROVE  g[i] = <<>>
<1>1. Len(t) \in Nat
  BY DEF Rendering
<1>2. g[i] = RenderFrom(t, values, g, i) /\ i > Len(t)
  BY <1>1 DEF Rendering
<1> QED
  BY <1>2 DEF RenderFrom

(* The bytes of the affiliate template.                                    *)
LEMMA AffiliateText ==
  /\ Affiliate \in Seq(Int) /\ Len(Affiliate) = 13
  /\ Affiliate[1] = 104 /\ Affiliate[2] = Quest /\ Affiliate[3] = S /\ Affiliate[4] = Eq
  /\ Affiliate[5] = Open /\ Affiliate[6] = S /\ Affiliate[7] = Close /\ Affiliate[8] = Amp
  /\ Affiliate[9] = U /\ Affiliate[10] = Eq /\ Affiliate[11] = Open /\ Affiliate[12] = E
  /\ Affiliate[13] = Close
BY DEF Affiliate, Quest, S, Eq, Open, Close, Amp, U, E

(* Two bytes before a text are one and one.                                *)
LEMMA TwoBytes ==
  ASSUME NEW y \in Seq(Int)
  PROVE  <<75>> \o y \in Seq(Int) /\ <<55, 75>> \o y = <<55>> \o (<<75>> \o y)
OBVIOUS

(* The affiliate template becomes h?s=7K&u= and the encoded url.           *)
LEMMA AffiliateLink ==
  ASSUME NEW values, Values(values), values.subid = <<55, 75>>
  PROVE  Link(RenderLink(Affiliate, values), UrlEncode(values.url))
<1>1. PICK g : Rendering(Affiliate, values, g) /\ RenderLink(Affiliate, values) = g[1]
  <2>1. Affiliate \in Seq(Int)
    BY AffiliateText
  <2> QED
    BY <2>1, RenderFacts DEF Rendering
<1>2. PICK t : t = Affiliate
  OBVIOUS
<1>3. /\ Rendering(t, values, g) /\ t \in Seq(Int) /\ Len(t) = 13
      /\ t[1] = 104 /\ t[2] = Quest /\ t[3] = S /\ t[4] = Eq /\ t[5] = Open /\ t[6] = S
      /\ t[7] = Close /\ t[8] = Amp /\ t[9] = U /\ t[10] = Eq /\ t[11] = Open /\ t[12] = E
      /\ t[13] = Close
  BY <1>1, <1>2, AffiliateText, Zenon
<1>4. /\ t[1] # Open /\ t[2] # Open /\ t[3] # Open /\ t[4] # Open /\ t[8] # Open /\ t[9] # Open
      /\ t[10] # Open /\ t[6] # Close /\ t[12] # Close
  BY <1>3 DEF Quest, S, Eq, Open, Close, Amp, U, E
<1>6. g[11] = UrlEncode(values.url)
  <2>1. g[14] = <<>>
    <3>1. 14 \in Nat /\ 14 = Len(t) + 1 /\ Rendering(t, values, g)
      BY <1>3
    <3> QED
      BY <3>1, RenderEnd
  <2>2. g[11] = Expand(<<E>>, values) \o g[14]
    <3>1. g[11] = Expand(<<t[12]>>, values) \o g[14]
      <4>1. /\ 12 = 11 + 1 /\ 13 = 11 + 2 /\ 14 = 11 + 3 /\ 13 <= Len(t) /\ Rendering(t, values, g)
            /\ t[11] = Open /\ t[12] # Close /\ t[13] = Close
        BY <1>3, <1>4
      <4> QED
        <5>1. PICK i \in Nat, j \in Nat, k \in Nat, l \in Nat : i = 11 /\ j = 12 /\ k = 13 /\ l = 14
          OBVIOUS
        <5>2. /\ j = i + 1 /\ k = i + 2 /\ l = i + 3 /\ k <= Len(t) /\ Rendering(t, values, g)
              /\ t[i] = Open /\ t[j] # Close /\ t[k] = Close /\ 1 <= i
          BY <4>1, <5>1
        <5>3. g[i] = Expand(<<t[j]>>, values) \o g[l]
          BY <5>2, RenderPlaceholder, SMTT(60)
        <5> QED
          BY <5>1, <5>3
    <3> QED
      BY <1>3, <3>1, Zenon
  <2>3. \A y \in Seq(Int) : y \o <<>> = y
    OBVIOUS
  <2> QED
    BY <2>1, <2>2, <2>3, ExpandNames, Zenon DEF Values
<1>7. g[5] = <<55, 75>> \o g[8]
  <2>1. g[5] = Expand(<<t[6]>>, values) \o g[8]
    <3>1. /\ 6 = 5 + 1 /\ 7 = 5 + 2 /\ 8 = 5 + 3 /\ 7 <= Len(t) /\ Rendering(t, values, g)
          /\ t[5] = Open /\ t[6] # Close /\ t[7] = Close
      BY <1>3, <1>4
    <3> QED
      BY <3>1, RenderPlaceholder, SMTT(60)
  <2> QED
    <3>1. Expand(<<S>>, values) = values.subid
      BY ExpandNames
    <3>2. t[6] = S
      BY <1>3
    <3> QED
      BY <2>1, <3>1, <3>2
<1>8. /\ 1 \in Nat /\ 2 = 1 + 1 /\ 2 \in Nat /\ 3 = 2 + 1 /\ 3 \in Nat /\ 4 = 3 + 1 /\ 4 \in Nat
      /\ 5 = 4 + 1 /\ 8 \in Nat /\ 9 = 8 + 1 /\ 9 \in Nat /\ 10 = 9 + 1 /\ 10 \in Nat /\ 11 = 10 + 1
      /\ 1 <= 1 /\ 1 <= 2 /\ 1 <= 3 /\ 1 <= 4 /\ 1 <= 8 /\ 1 <= 9 /\ 1 <= 10
      /\ 1 <= 13 /\ 2 <= 13 /\ 3 <= 13 /\ 4 <= 13 /\ 8 <= 13 /\ 9 <= 13 /\ 10 <= 13
  OBVIOUS
<1>9. Byte(104, g[2], g[1]) /\ Byte(Quest, g[3], g[2])
  <2>1. Byte(t[1], g[2], g[1]) /\ Byte(t[2], g[3], g[2])
    BY <1>3, <1>4, <1>8, RenderByte, ZenonT(60)
  <2> QED
    BY <1>3, <2>1, Zenon
<1>10. Byte(S, g[4], g[3]) /\ Byte(Eq, g[5], g[4])
  <2>1. Byte(t[3], g[4], g[3]) /\ Byte(t[4], g[5], g[4])
    BY <1>3, <1>4, <1>8, RenderByte, ZenonT(60)
  <2> QED
    BY <1>3, <2>1, Zenon
<1>11. Byte(Amp, g[9], g[8])
  <2>1. Byte(t[8], g[9], g[8])
    BY <1>3, <1>4, <1>8, RenderByte, ZenonT(60)
  <2> QED
    BY <1>3, <2>1, Zenon
<1>12. Byte(U, g[10], g[9]) /\ Byte(Eq, g[11], g[10])
  <2>1. Byte(t[9], g[10], g[9]) /\ Byte(t[10], g[11], g[10])
    BY <1>3, <1>4, <1>8, RenderByte, ZenonT(60)
  <2> QED
    BY <1>3, <2>1, Zenon
<1>13. PICK y : y = <<75>> \o g[8]
  OBVIOUS
<1>14. Byte(55, y, g[5]) /\ Byte(75, g[8], y)
  <2>1. \A c \in {55, 75} : c \in Int
    OBVIOUS
  <2>2. g[8] \in Seq(Int)
    <3>1. 8 \in 1..14 /\ 13 + 1 = 14
      OBVIOUS
    <3>2. g \in [1..14 -> Seq(Int)]
      BY <1>3 DEF Rendering
    <3> QED
      BY <3>1, <3>2
  <2> QED
    BY <1>7, <1>13, <2>1, <2>2, TwoBytes, Zenon DEF Byte
<1>15. PICK x \in Seq(Int) : x = g[11]
  BY <1>6, Zenon DEF Values
<1>16. Link(g[1], x)
  BY <1>9, <1>10, <1>11, <1>12, <1>14, <1>15, LinkIs, Zenon
<1> QED
  BY <1>1, <1>6, <1>15, <1>16, Zenon

-----------------------------------------------------------------------------
(* A pair that gives a one letter name a value.                            *)
NameValue(pair, c, v) ==
  /\ pair \in Seq(Int) /\ v \in Seq(Int) /\ Len(pair) = 2 + Len(v)
  /\ c \in Int /\ c # Pct /\ c # Plus /\ c # Eq
  /\ pair[1] = c /\ pair[2] = Eq /\ \A i \in 1..Len(v) : pair[2 + i] = v[i]

(* Such a pair sets its name to the decoded value.                         *)
LEMMA AddNamed ==
  ASSUME NEW q, NEW pair, NEW c, NEW v, NameValue(pair, c, v)
  PROVE  AddPair(q, pair) = InsertOrAssign(q, <<c>>, UrlDecode(v)) /\ pair # <<>>
<1>1. PICK m \in Nat : m = Len(v)
  BY DEF NameValue
<1>2. pair \in Seq(Int) /\ Len(pair) = 2 + m
  BY <1>1 DEF NameValue
<1>3. Find(pair, Eq) = 2
  <2>1. 2 \in 1..Len(pair) /\ pair[2] = Eq
    BY <1>1, <1>2 DEF NameValue
  <2>2. \A j \in 1..(2 - 1) : pair[j] # Eq
    <3>1. \A j \in 1..(2 - 1) : j = 1
      OBVIOUS
    <3> QED
      BY <3>1 DEF NameValue
  <2> QED
    BY <1>2, <2>1, <2>2, FindIs DEF Find
<1>4. Before(pair, 2) = <<c>>
  <2>1. 1 \in 1..Len(pair) /\ pair[1] = c
    BY <1>1, <1>2 DEF NameValue
  <2>2. SubSeq(pair, 1, 1) = <<c>>
    BY <1>2, <2>1, SubSeqOne
  <2>3. 2 - 1 = 1 /\ 2 # 0
    OBVIOUS
  <2> QED
    BY <2>2, <2>3 DEF Before
<1>5. From(pair, 3) = v
  <2>1. /\ SubSeq(pair, 3, 2 + m) \in Seq(Int) /\ Len(SubSeq(pair, 3, 2 + m)) = m
        /\ \A k \in 1..m : SubSeq(pair, 3, 2 + m)[k] = pair[3 + k - 1]
    <3>1. PICK b \in Nat : b = 2 + m
      OBVIOUS
    <3>2. /\ SubSeq(pair, 3, b) \in Seq(Int)
          /\ Len(SubSeq(pair, 3, b)) = IF 3 <= b THEN b - 3 + 1 ELSE 0
          /\ \A k \in 1..Len(SubSeq(pair, 3, b)) : SubSeq(pair, 3, b)[k] = pair[3 + k - 1]
      BY <1>2, <3>1, SubTextFacts
    <3>3. (IF 3 <= b THEN b - 3 + 1 ELSE 0) = m
      BY <3>1
    <3> QED
      BY <3>1, <3>2, <3>3
  <2>2. \A k \in 1..m : pair[3 + k - 1] = v[k]
    <3> SUFFICES ASSUME NEW k \in 1..m PROVE pair[3 + k - 1] = v[k]
      OBVIOUS
    <3>1. 3 + k - 1 = 2 + k
      OBVIOUS
    <3> QED
      BY <1>1, <3>1 DEF NameValue
  <2>3. v \in Seq(Int)
    BY DEF NameValue
  <2>4. SubSeq(pair, 3, 2 + m) = v
    BY <1>1, <2>1, <2>2, <2>3, SeqEqual
  <2> QED
    BY <1>2, <2>4 DEF From
<1>6. UrlDecode(<<c>>) = <<c>>
  <2>1. <<c>> \in Seq(Int) /\ \A i \in 1..Len(<<c>>) : <<c>>[i] # Pct /\ <<c>>[i] # Plus
    BY DEF NameValue
  <2> QED
    BY <2>1, DecodePlain
<1>7. AddPair(q, pair) = InsertOrAssign(q, UrlDecode(<<c>>), UrlDecode(v))
  <2>1. 2 # 0 /\ 2 + 1 = 3
    OBVIOUS
  <2> QED
    BY <1>3, <1>4, <1>5, <2>1, Zenon DEF AddPair
<1>8. pair # <<>>
  BY <1>1, <1>2
<1> QED
  BY <1>6, <1>7, <1>8

(* A tuple of two is one and one joined.                                   *)
LEMMA TupleOfTwo ==
  ASSUME NEW x, NEW y
  PROVE  <<x>> \o <<y>> = <<x, y>>
<1>1. /\ <<x>> \in Seq({x, y}) /\ <<y>> \in Seq({x, y}) /\ <<x, y>> \in Seq({x, y})
      /\ Len(<<x>>) = 1 /\ Len(<<y>>) = 1 /\ Len(<<x, y>>) = 2
  OBVIOUS
<1>2. PICK z : z = <<x>> \o <<y>>
  OBVIOUS
<1>3. z \in Seq({x, y}) /\ Len(z) = 2 /\ z[1] = x /\ z[2] = y
  <2>1. /\ z \in Seq({x, y}) /\ Len(z) = 1 + 1
        /\ \A i \in 1..1 : z[i] = <<x>>[i] /\ z[1 + i] = <<y>>[i]
    BY <1>1, <1>2, Concat
  <2>2. 1 \in 1..1 /\ 1 + 1 = 2
    OBVIOUS
  <2> QED
    BY <2>1, <2>2
<1>4. \A i \in 1..2 : i = 1 \/ i = 2
  OBVIOUS
<1>5. \A i \in 1..2 : z[i] = <<x, y>>[i]
  BY <1>3, <1>4
<1> QED
  BY <1>1, <1>2, <1>3, <1>5, SeqEqual

(* A query with one & holds two pairs.                                     *)
LEMMA TwoPairs ==
  ASSUME NEW w \in Seq(Int), NEW k \in 1..Len(w), w[k] = Amp,
         \A j \in 1..Len(w) : j # k => w[j] # Amp
  PROVE  Pairs(w) = <<SubSeq(w, 1, k - 1), SubSeq(w, k + 1, Len(w))>>
<1>1. PICK n \in Nat : n = Len(w)
  OBVIOUS
<1>2. PICK g \in [1..(n + 1) -> Seq(Seq(Int))] :
        Pairs(w) = g[1] /\ \A i \in 1..(n + 1) : g[i] = PairsFrom(w, g, i)
  BY <1>1, PairsFacts
<1>3. FindFrom(w, Amp, 1) = k
  <2>1. \A j \in 1..(k - 1) : w[j] # Amp
    BY <1>1
  <2> QED
    BY <2>1, FindIs
<1>4. PICK b \in Nat : b = k + 1
  OBVIOUS
<1>5. FindFrom(w, Amp, b) = 0
  <2>1. \A j \in b..Len(w) : w[j] # Amp
    BY <1>1, <1>4
  <2>2. b >= 1
    BY <1>4
  <2> QED
    BY <2>1, <2>2, FindIs
<1>6. UpTo(w, Amp, 1) = SubSeq(w, 1, k - 1)
  <2>1. k # 0
    OBVIOUS
  <2> QED
    BY <1>3, <2>1, Zenon DEF UpTo
<1>7. UpTo(w, Amp, b) = SubSeq(w, b, Len(w))
  BY <1>5, Zenon DEF UpTo
<1>8. g[b] = <<SubSeq(w, b, Len(w))>>
  <2>1. g[b] = PairsFrom(w, g, b)
    BY <1>1, <1>2, <1>4
  <2>2. PairsFrom(w, g, b) = <<SubSeq(w, b, Len(w))>> \o <<>>
    BY <1>5, <1>7, Zenon DEF PairsFrom
  <2>3. \A x : <<x>> \o <<>> = <<x>>
    OBVIOUS
  <2> QED
    BY <2>1, <2>2, <2>3
<1>9. g[1] = <<SubSeq(w, 1, k - 1)>> \o g[b]
  <2>1. g[1] = PairsFrom(w, g, 1)
    BY <1>2
  <2>2. k # 0 /\ k + 1 = b
    BY <1>4
  <2> QED
    BY <1>3, <1>6, <2>1, <2>2, Zenon DEF PairsFrom
<1> QED
  BY <1>2, <1>4, <1>8, <1>9, TupleOfTwo

(* A query of two pairs is read pair by pair.                              *)
LEMMA ParseTwo ==
  ASSUME NEW w \in Seq(Int), NEW p1, NEW p2, Pairs(w) = <<p1, p2>>, p1 # <<>>, p2 # <<>>
  PROVE  ParseQuery(w) = AddPair(AddPair(<<>>, p1), p2)
<1>1. PICK out : /\ out[0] = <<>>
                 /\ \A k \in 1..Len(Pairs(w)) : out[k] = ReadPair(out[k - 1], Pairs(w)[k])
                 /\ ParseQuery(w) = out[Len(Pairs(w))]
  BY ParseFacts
<1>2. Len(<<p1, p2>>) = 2 /\ <<p1, p2>>[1] = p1 /\ <<p1, p2>>[2] = p2
  OBVIOUS
<1>3. 1 \in 1..2 /\ 2 \in 1..2 /\ 1 - 1 = 0 /\ 2 - 1 = 1
  OBVIOUS
<1>4. out[1] = ReadPair(out[0], p1) /\ out[2] = ReadPair(out[1], p2) /\ ParseQuery(w) = out[2]
  <2>1. \A k \in 1..2 : out[k] = ReadPair(out[k - 1], <<p1, p2>>[k])
    BY <1>1, <1>2, Zenon
  <2>2. out[1] = ReadPair(out[1 - 1], <<p1, p2>>[1]) /\ out[2] = ReadPair(out[2 - 1], <<p1, p2>>[2])
    BY <1>3, <2>1, Zenon
  <2> QED
    BY <1>1, <1>2, <1>3, <2>2, Zenon
<1> QED
  BY <1>1, <1>4, Zenon DEF ReadPair

(* The link's query: s=7K&u= and the encoded url.                          *)
LEMMA LinkQuery ==
  ASSUME NEW l, NEW x \in Seq(Int), Link(l, x), \A i \in 1..Len(x) : x[i] # Amp
  PROVE  \E p1, p2 : /\ NameValue(p1, S, <<55, 75>>) /\ NameValue(p2, U, x)
                     /\ SplitTarget(l).query \in Seq(Int)
                     /\ Pairs(SplitTarget(l).query) = <<p1, p2>>
<1>1. PICK m \in Nat : m = Len(x)
  OBVIOUS
<1>2. l \in Seq(Int) /\ Len(l) = 9 + m
  BY <1>1 DEF Link
<1>3. Find(l, Quest) = 2
  <2>1. 2 \in 1..Len(l) /\ l[2] = Quest
    BY <1>1, <1>2 DEF Link
  <2>2. \A j \in 1..(2 - 1) : l[j] # Quest
    <3>1. \A j \in 1..(2 - 1) : j = 1
      OBVIOUS
    <3> QED
      BY <3>1 DEF Link, Quest
  <2> QED
    <3>1. PICK f \in 1..Len(l) : f = 2
      BY <2>1
    <3>2. l[f] = Quest /\ \A j \in 1..(f - 1) : l[j] # Quest
      BY <2>1, <2>2, <3>1
    <3>3. PICK o \in Nat : o = 1
      OBVIOUS
    <3>4. f \in o..Len(l) /\ o >= 1 /\ l \in Seq(Int) /\ \A j \in o..(f - 1) : l[j] # Quest
      BY <1>2, <3>2, <3>3
    <3>5. FindFrom(l, Quest, o) = f
      BY <3>2, <3>4, FindIs
    <3> QED
      BY <3>1, <3>3, <3>5 DEF Find
<1>4. SplitTarget(l).query = From(l, 3)
  <2>1. 2 # 0 /\ 2 + 1 = 3
    OBVIOUS
  <2> QED
    BY <1>3, <2>1 DEF SplitTarget
<1>5. PICK b \in Nat : b = 9 + m
  OBVIOUS
<1>6. PICK w : w = SubSeq(l, 3, b)
  OBVIOUS
<1>7. SplitTarget(l).query = w
  BY <1>2, <1>4, <1>5, <1>6 DEF From
<1>8. PICK a \in Nat : a = 7 + m
  OBVIOUS
<1>9. w \in Seq(Int) /\ Len(w) = a /\ \A k \in 1..a : w[k] = l[k + 2]
  <2>1. /\ w \in Seq(Int) /\ Len(w) = (IF 3 <= b THEN b - 3 + 1 ELSE 0)
        /\ \A k \in 1..Len(w) : w[k] = l[3 + k - 1]
    <3>1. PICK o \in Nat : o = 3
      OBVIOUS
    <3>2. l \in Seq(Int) /\ o >= 1 /\ b <= Len(l)
      BY <1>2, <1>5, <3>1
    <3>3. /\ SubSeq(l, o, b) \in Seq(Int)
          /\ Len(SubSeq(l, o, b)) = (IF o <= b THEN b - o + 1 ELSE 0)
          /\ \A k \in 1..Len(SubSeq(l, o, b)) : SubSeq(l, o, b)[k] = l[o + k - 1]
      BY <3>2, SubTextFacts, ZenonT(60)
    <3> QED
      BY <1>6, <3>1, <3>3, Zenon
  <2>2. (IF 3 <= b THEN b - 3 + 1 ELSE 0) = a /\ \A k \in 1..a : 3 + k - 1 = k + 2
    BY <1>5, <1>8
  <2> QED
    BY <2>1, <2>2
<1>10. w[1] = S /\ w[2] = Eq /\ w[3] = 55 /\ w[4] = 75 /\ w[5] = Amp /\ w[6] = U /\ w[7] = Eq
  <2>1. /\ w[1] = l[1 + 2] /\ w[2] = l[2 + 2] /\ w[3] = l[3 + 2] /\ w[4] = l[4 + 2]
        /\ w[5] = l[5 + 2] /\ w[6] = l[6 + 2] /\ w[7] = l[7 + 2]
    <3>1. \A k \in {1, 2, 3, 4, 5, 6, 7} : k \in 1..a
      BY <1>8
    <3>2. \A k \in {1, 2, 3, 4, 5, 6, 7} : w[k] = l[k + 2]
      BY <1>9, <3>1
    <3> QED
      BY <3>2
  <2> QED
    BY <2>1 DEF Link
<1>11. \A i \in 1..m : w[7 + i] = x[i]
  <2> SUFFICES ASSUME NEW i \in 1..m PROVE w[7 + i] = x[i]
    OBVIOUS
  <2>1. 7 + i \in 1..a /\ (7 + i) + 2 = 9 + i
    BY <1>8
  <2>2. l[9 + i] = x[i]
    BY <1>1 DEF Link
  <2> QED
    BY <1>9, <2>1, <2>2
<1>12. Pairs(w) = <<SubSeq(w, 1, 4), SubSeq(w, 6, a)>>
  <2>1. ASSUME NEW j \in 1..a, j # 5 PROVE w[j] # Amp
    <3>1. CASE j <= 7
      <4>1. j \in {1, 2, 3, 4, 6, 7}
        BY <2>1, <3>1
      <4> QED
        BY <1>10, <4>1 DEF S, Eq, Amp, U
    <3>2. CASE j > 7
      <4>1. PICK i \in 1..m : j = 7 + i
        <5>1. j - 7 \in 1..m /\ j = 7 + (j - 7)
          BY <1>8, <3>2
        <5> QED
          BY <5>1
      <4> QED
        BY <1>1, <1>11, <4>1
    <3> QED
      BY <3>1, <3>2
  <2>2. PICK k \in 1..Len(w) : k = 5
    BY <1>8, <1>9
  <2>3. Pairs(w) = <<SubSeq(w, 1, k - 1), SubSeq(w, k + 1, Len(w))>>
    <3>1. w \in Seq(Int) /\ w[k] = Amp /\ \A j \in 1..Len(w) : j # k => w[j] # Amp
      BY <1>9, <1>10, <2>1, <2>2
    <3> QED
      BY <3>1, TwoPairs, Zenon
  <2>4. k - 1 = 4 /\ k + 1 = 6
    BY <2>2
  <2> QED
    BY <1>9, <2>3, <2>4
<1>13. PICK p1, p2 : p1 = SubSeq(w, 1, 4) /\ p2 = SubSeq(w, 6, a)
  OBVIOUS
<1>14. NameValue(p1, S, <<55, 75>>)
  <2>1. p1 \in Seq(Int) /\ Len(p1) = 4 /\ \A k \in 1..4 : p1[k] = w[k]
    <3>1. /\ p1 \in Seq(Int) /\ Len(p1) = (IF 1 <= 4 THEN 4 - 1 + 1 ELSE 0)
          /\ \A k \in 1..Len(p1) : p1[k] = w[1 + k - 1]
      <4>1. 4 <= Len(w) /\ 1 >= 1
        BY <1>8, <1>9
      <4>2. PICK o \in Nat, c \in Nat : o = 1 /\ c = 4
        OBVIOUS
      <4>3. /\ SubSeq(w, o, c) \in Seq(Int)
            /\ Len(SubSeq(w, o, c)) = (IF o <= c THEN c - o + 1 ELSE 0)
            /\ \A k \in 1..Len(SubSeq(w, o, c)) : SubSeq(w, o, c)[k] = w[o + k - 1]
        BY <1>9, <4>1, <4>2, SubTextFacts
      <4> QED
        BY <1>13, <4>2, <4>3
    <3>2. (IF 1 <= 4 THEN 4 - 1 + 1 ELSE 0) = 4 /\ \A k \in 1..4 : 1 + k - 1 = k
      OBVIOUS
    <3> QED
      BY <3>1, <3>2
  <2>2. p1[1] = S /\ p1[2] = Eq /\ p1[3] = 55 /\ p1[4] = 75
    BY <1>10, <2>1, SMTT(60)
  <2>3. <<55, 75>> \in Seq(Int) /\ Len(<<55, 75>>) = 2 /\ <<55, 75>>[1] = 55 /\ <<55, 75>>[2] = 75
    OBVIOUS
  <2>4. \A i \in 1..2 : p1[2 + i] = <<55, 75>>[i]
    <3>1. \A i \in 1..2 : i = 1 \/ i = 2
      OBVIOUS
    <3>2. p1[2 + 1] = 55 /\ p1[2 + 2] = 75
      BY <2>2
    <3> QED
      BY <2>3, <3>1, <3>2
  <2>5. S \in Int /\ S # Pct /\ S # Plus /\ S # Eq
    BY DEF S, Pct, Plus, Eq
  <2> QED
    BY <2>1, <2>2, <2>3, <2>4, <2>5 DEF NameValue
<1>15. NameValue(p2, U, x)
  <2>1. p2 \in Seq(Int) /\ Len(p2) = 2 + m /\ \A k \in 1..(2 + m) : p2[k] = w[k + 5]
    <3>1. /\ p2 \in Seq(Int) /\ Len(p2) = (IF 6 <= a THEN a - 6 + 1 ELSE 0)
          /\ \A k \in 1..Len(p2) : p2[k] = w[6 + k - 1]
      BY <1>9, <1>13, SubTextFacts, SMTT(60)
    <3>2. (IF 6 <= a THEN a - 6 + 1 ELSE 0) = 2 + m /\ \A k \in 1..(2 + m) : 6 + k - 1 = k + 5
      BY <1>8
    <3> QED
      BY <3>1, <3>2
  <2>2. p2[1] = U /\ p2[2] = Eq
    <3>1. p2[1] = w[1 + 5] /\ p2[2] = w[2 + 5]
      BY <2>1
    <3> QED
      BY <1>10, <3>1
  <2>3. ASSUME NEW i \in 1..m PROVE p2[2 + i] = x[i]
    <3>1. 2 + i \in 1..(2 + m) /\ (2 + i) + 5 = 7 + i
      OBVIOUS
    <3> QED
      BY <1>11, <2>1, <3>1
  <2>4. U \in Int /\ U # Pct /\ U # Plus /\ U # Eq
    BY DEF U, Pct, Plus, Eq
  <2> QED
    BY <1>1, <2>1, <2>2, <2>3, <2>4 DEF NameValue
<1> QED
  BY <1>7, <1>9, <1>12, <1>13, <1>14, <1>15

(* The map after two names are set.                                        *)
LEMMA InsertedTwo ==
  ASSUME NEW v, NEW v2
  PROVE  InsertOrAssign(InsertOrAssign(<<>>, <<S>>, v), <<U>>, v2) =
           [n \in {<<U>>, <<S>>} |-> IF n = <<U>> THEN v2 ELSE v]
<1>1. PICK q : q = InsertOrAssign(<<>>, <<S>>, v)
  OBVIOUS
<1>2. DOMAIN <<>> = {}
  OBVIOUS
<1>3. q = [n \in {<<S>>} |-> v]
  <2>1. DOMAIN <<>> \cup {<<S>>} = {<<S>>}
    BY <1>2
  <2>2. q = [n \in {<<S>>} |-> IF n = <<S>> THEN v ELSE <<>>[n]]
    BY <1>1, <2>1, Zenon DEF InsertOrAssign
  <2> QED
    BY <2>2, Zenon
<1>4. DOMAIN q = {<<S>>} /\ q[<<S>>] = v /\ {<<S>>} \cup {<<U>>} = {<<U>>, <<S>>}
  BY <1>3, Zenon
<1>5. InsertOrAssign(q, <<U>>, v2) = [n \in {<<U>>, <<S>>} |-> IF n = <<U>> THEN v2 ELSE q[n]]
  BY <1>4, Zenon DEF InsertOrAssign
<1>6. [n \in {<<U>>, <<S>>} |-> IF n = <<U>> THEN v2 ELSE q[n]] =
        [n \in {<<U>>, <<S>>} |-> IF n = <<U>> THEN v2 ELSE v]
  <2>1. \A n \in {<<U>>, <<S>>} : (IF n = <<U>> THEN v2 ELSE q[n]) = IF n = <<U>> THEN v2 ELSE v
    BY <1>4, Zenon
  <2> QED
    BY <2>1, Zenon
<1> QED
  BY <1>1, <1>5, <1>6, Zenon

(* UrlEncSurvives for one text, of any length over all bytes.              *)
LEMMA UrlEncSurvivesEveryText ==
  ASSUME NEW s \in Seq(0..255), NEW values,
         values = [url |-> s, subid |-> <<55, 75>>, campaign |-> <<>>]
  PROVE  ParseQuery(SplitTarget(RenderLink(Affiliate, values)).query) =
           [n \in {<<U>>, <<S>>} |-> IF n = <<U>> THEN s ELSE <<55, 75>>]
<1>1. values.url = s /\ values.subid = <<55, 75>> /\ values.campaign = <<>>
  BY Zenon
<1>2. PICK x \in Seq(Int) : x = UrlEncode(s) /\ \A i \in 1..Len(x) : x[i] # Amp
  <2>1. /\ UrlEncode(s) \in Seq(Int)
        /\ \A i \in 1..Len(UrlEncode(s)) : UrlEncode(s)[i] \notin Delimiters
    BY EncodeFacts, Zenon
  <2>2. Amp \in Delimiters
    BY DEF Delimiters
  <2> QED
    BY <2>1, <2>2, Zenon
<1>3. Values(values)
  <2>1. <<55, 75>> \in Seq(Int) /\ <<>> \in Seq(Int)
    OBVIOUS
  <2>2. s \in Seq(Int)
    BY TextFacts, Zenon
  <2> QED
    BY <1>1, <1>2, <2>1, <2>2, Zenon DEF Values
<1>4. Link(RenderLink(Affiliate, values), x)
  BY <1>1, <1>2, <1>3, AffiliateLink, Zenon
<1>5. PICK w, p1, p2 :
        /\ w = SplitTarget(RenderLink(Affiliate, values)).query /\ w \in Seq(Int)
        /\ Pairs(w) = <<p1, p2>> /\ NameValue(p1, S, <<55, 75>>) /\ NameValue(p2, U, x)
  BY <1>2, <1>4, LinkQuery, Zenon
<1>6. PICK q : q = InsertOrAssign(<<>>, <<S>>, UrlDecode(<<55, 75>>))
  OBVIOUS
<1>7. ParseQuery(w) = InsertOrAssign(q, <<U>>, UrlDecode(x))
  <2>1. AddPair(<<>>, p1) = q /\ p1 # <<>>
    BY <1>5, <1>6, AddNamed, ZenonT(60)
  <2>2. AddPair(q, p2) = InsertOrAssign(q, <<U>>, UrlDecode(x)) /\ p2 # <<>>
    BY <1>5, AddNamed, Zenon
  <2> QED
    BY <1>5, <2>1, <2>2, ParseTwo, ZenonT(60)
<1>8. UrlDecode(x) = s
  BY <1>2, RoundTrip, Zenon
<1>9. UrlDecode(<<55, 75>>) = <<55, 75>>
  <2>1. /\ <<55, 75>> \in Seq(Int)
        /\ \A i \in 1..Len(<<55, 75>>) : <<55, 75>>[i] # Pct /\ <<55, 75>>[i] # Plus
    BY DEF Pct, Plus
  <2> QED
    BY <2>1, DecodePlain
<1>10. PICK v : v = <<55, 75>>
  OBVIOUS
<1>11. InsertOrAssign(InsertOrAssign(<<>>, <<S>>, v), <<U>>, s) =
         [n \in {<<U>>, <<S>>} |-> IF n = <<U>> THEN s ELSE v]
  BY InsertedTwo
<1> QED
  BY <1>5, <1>6, <1>7, <1>8, <1>9, <1>10, <1>11, ZenonT(60)

-----------------------------------------------------------------------------
(* Neighbouring parts of a text join.                                      *)
LEMMA SubSeqJoin ==
  ASSUME NEW s \in Seq(Int), NEW a \in Nat, NEW b \in Nat, NEW c \in Nat, NEW d \in Nat,
         1 <= a, a <= b + 1, b <= c, c <= Len(s), d = b + 1
  PROVE  SubSeq(s, a, b) \o SubSeq(s, d, c) = SubSeq(s, a, c)
<1>1. PICK x \in Seq(Int), y \in Seq(Int), z \in Seq(Int) :
        x = SubSeq(s, a, b) /\ y = SubSeq(s, d, c) /\ z = SubSeq(s, a, c)
  <2>1. b <= Len(s) /\ d >= 1 /\ a >= 1
    OBVIOUS
  <2> QED
    BY <2>1, SubTextFacts
<1>2. PICK m \in Nat, k \in Nat : m = b + 1 - a /\ k = c - b
  <2>1. b + 1 - a \in Nat /\ c - b \in Nat
    OBVIOUS
  <2> QED
    BY <2>1
<1>3. Len(x) = m /\ \A i \in 1..m : x[i] = s[a + i - 1]
  <2>1. Len(x) = (IF a <= b THEN b - a + 1 ELSE 0) /\ \A i \in 1..Len(x) : x[i] = s[a + i - 1]
    BY <1>1, SubTextFacts
  <2>2. (IF a <= b THEN b - a + 1 ELSE 0) = m
    BY <1>2
  <2> QED
    BY <2>1, <2>2
<1>4. Len(y) = k /\ \A i \in 1..k : y[i] = s[d + i - 1]
  <2>1. Len(y) = (IF d <= c THEN c - d + 1 ELSE 0) /\ \A i \in 1..Len(y) : y[i] = s[d + i - 1]
    BY <1>1, SubTextFacts
  <2>2. (IF d <= c THEN c - d + 1 ELSE 0) = k
    BY <1>2
  <2> QED
    BY <2>1, <2>2
<1>5. Len(z) = m + k /\ \A i \in 1..(m + k) : z[i] = s[a + i - 1]
  <2>1. Len(z) = (IF a <= c THEN c - a + 1 ELSE 0) /\ \A i \in 1..Len(z) : z[i] = s[a + i - 1]
    BY <1>1, SubTextFacts
  <2>2. (IF a <= c THEN c - a + 1 ELSE 0) = m + k
    BY <1>2
  <2> QED
    BY <2>1, <2>2
<1>6. \A i \in 1..m : z[i] = x[i]
  <2> SUFFICES ASSUME NEW i \in 1..m PROVE z[i] = x[i]
    OBVIOUS
  <2>1. i \in 1..(m + k)
    OBVIOUS
  <2> QED
    BY <1>3, <1>5, <2>1
<1>7. \A j \in 1..k : z[m + j] = y[j]
  <2> SUFFICES ASSUME NEW j \in 1..k PROVE z[m + j] = y[j]
    OBVIOUS
  <2>1. PICK i \in 1..(m + k) : i = m + j
    OBVIOUS
  <2>2. a + i - 1 = d + j - 1
    BY <1>2, <2>1
  <2> QED
    BY <1>4, <1>5, <2>1, <2>2
<1>8. x \o y = z
  <2>1. Len(x) = m /\ Len(y) = k /\ Len(z) = m + k
    BY <1>3, <1>4, <1>5
  <2> QED
    <3>1. Joined(x, y, z)
      BY <1>6, <1>7, <2>1 DEF Joined
    <3> QED
      BY <3>1, IsConcat
<1> QED
  BY <1>1, <1>8

(* A placeholder is a brace, a letter and a brace.                         *)
LEMMA PlaceholderIs ==
  ASSUME NEW c \in Int
  PROVE  <<Open>> \o <<c>> \o <<Close>> = Placeholder(c) /\ Placeholder(c) \in Seq(Int)
<1>1. <<Open>> \o <<c>> = <<Open, c>>
  BY TupleOfTwo
<1>2. PICK x \in Seq(Int), y \in Seq(Int), z \in Seq(Int) :
        x = <<Open, c>> /\ y = <<Close>> /\ z = <<Open, c, Close>>
  <2>1. <<Open, c>> \in Seq(Int) /\ <<Close>> \in Seq(Int) /\ <<Open, c, Close>> \in Seq(Int)
    BY DEF Open, Close
  <2> QED
    BY <2>1, Zenon
<1>3. /\ Len(x) = 2 /\ x[1] = Open /\ x[2] = c /\ Len(y) = 1 /\ y[1] = Close
      /\ Len(z) = 3 /\ z[1] = Open /\ z[2] = c /\ z[3] = Close
  BY <1>2
<1>4. \A i \in 1..2 : z[i] = x[i]
  <2>1. \A i \in 1..2 : i = 1 \/ i = 2
    OBVIOUS
  <2> QED
    BY <1>3, <2>1
<1>5. \A i \in 1..1 : z[2 + i] = y[i]
  <2>1. \A i \in 1..1 : i = 1 /\ 2 + i = 3
    OBVIOUS
  <2> QED
    BY <1>3, <2>1
<1>6. Joined(x, y, z)
  BY <1>3, <1>4, <1>5 DEF Joined
<1>7. x \o y = z
  BY <1>6, IsConcat
<1> QED
  BY <1>1, <1>2, <1>7 DEF Placeholder

(* A placeholder is the braces and the name between them.                  *)
LEMMA PlaceholderAt ==
  ASSUME NEW t \in Seq(Int), NEW i \in Nat, NEW j \in Nat, NEW e \in Nat, NEW f \in Nat,
         1 <= i, j = i + 1, f = e + 1, i < f, f <= Len(t), t[i] = Open, t[f] = Close
  PROVE  <<Open>> \o SubSeq(t, j, e) \o <<Close>> = SubSeq(t, i, f)
<1>1. SubSeq(t, i, i) = <<Open>> /\ SubSeq(t, f, f) = <<Close>>
  <2>1. i \in 1..Len(t) /\ f \in 1..Len(t)
    OBVIOUS
  <2> QED
    BY <2>1, SubSeqOne
<1>2. SubSeq(t, i, i) \o SubSeq(t, j, e) = SubSeq(t, i, e)
  <2>1. i <= i + 1 /\ i <= e /\ e <= Len(t)
    OBVIOUS
  <2> QED
    BY <2>1, SubSeqJoin
<1>3. SubSeq(t, i, e) \o SubSeq(t, f, f) = SubSeq(t, i, f)
  <2>1. i <= e + 1 /\ e <= f
    OBVIOUS
  <2> QED
    BY <2>1, SubSeqJoin
<1> QED
  BY <1>1, <1>2, <1>3

(* Values of which each is its own placeholder.                            *)
OwnValues(values) ==
  /\ values.url = Placeholder(U) /\ values.subid = Placeholder(S)
  /\ values.campaign = Placeholder(C)

(* With such values every placeholder but {url_enc} expands to itself.     *)
LEMMA ExpandOwn ==
  ASSUME NEW values, OwnValues(values), NEW name, name # <<E>>
  PROVE  Expand(name, values) = <<Open>> \o name \o <<Close>>
<1>1. U \in Int /\ S \in Int /\ C \in Int
  BY DEF U, S, C
<1>2. /\ <<Open>> \o <<U>> \o <<Close>> = Placeholder(U)
      /\ <<Open>> \o <<S>> \o <<Close>> = Placeholder(S)
      /\ <<Open>> \o <<C>> \o <<Close>> = Placeholder(C)
  BY <1>1, PlaceholderIs, Zenon
<1>3. CASE name \in {<<U>>, <<E>>, <<S>>, <<C>>}
  BY <1>2, <1>3, ExpandNames, Zenon DEF OwnValues
<1>4. CASE name \notin {<<U>>, <<E>>, <<S>>, <<C>>}
  BY <1>4, Zenon DEF Expand
<1> QED
  BY <1>3, <1>4

(* What render_link does at a place of the template.                       *)
RenderCase(t, values, g, i, f) ==
  /\ t[i] # Open => g[i] = <<t[i]>> \o g[i + 1]
  /\ t[i] = Open /\ f = 0 => g[i] = SubSeq(t, i, Len(t))
  /\ t[i] = Open /\ f # 0 =>
       /\ f \in Nat /\ i < f /\ f <= Len(t) /\ t[f] = Close
       /\ g[i] = Expand(SubSeq(t, i + 1, f - 1), values) \o g[f + 1]

(* One of these holds at every place.                                      *)
LEMMA RenderCases ==
  ASSUME NEW t, NEW values, NEW g, Rendering(t, values, g), NEW i \in 1..Len(t)
  PROVE  RenderCase(t, values, g, i, FindFrom(t, Close, i))
<1>0. PICK f : f = FindFrom(t, Close, i)
  OBVIOUS
<1>1. PICK n \in Nat : n = Len(t)
  BY DEF Rendering
<1>2. t \in Seq(Int) /\ i \in 1..(n + 1) /\ ~(i > Len(t)) /\ i \in Nat /\ i >= 1
  BY <1>1 DEF Rendering
<1>3. g[i] = RenderFrom(t, values, g, i)
  BY <1>1, <1>2 DEF Rendering
<1>4. t[i] # Open => g[i] = <<t[i]>> \o g[i + 1]
  BY <1>0, <1>2, <1>3, Zenon DEF RenderFrom
<1>5. t[i] = Open /\ f = 0 => g[i] = SubSeq(t, i, Len(t))
  BY <1>0, <1>2, <1>3, Zenon DEF RenderFrom, From
<1>6. t[i] = Open /\ f # 0 => g[i] = Expand(SubSeq(t, i + 1, f - 1), values) \o g[f + 1]
  BY <1>0, <1>2, <1>3, Zenon DEF RenderFrom
<1>7. f # 0 => f \in i..Len(t) /\ t[f] = Close
  BY <1>0, <1>2, FindFacts
<1>8. Open # Close
  BY DEF Open, Close
<1>9. t[i] = Open /\ f # 0 => f \in Nat /\ i < f /\ f <= Len(t) /\ t[f] = Close
  BY <1>1, <1>2, <1>7, <1>8
<1> QED
  BY <1>0, <1>4, <1>5, <1>6, <1>9, Zenon DEF RenderCase

(* A template without {url_enc}.                                           *)
NoUrlEnc(t) == \A i \in 1..(Len(t) - 2) : SubSeq(t, i, i + 2) # Placeholder(E)

(* Such a template comes out as it was.                                    *)
LEMMA RenderOwn ==
  ASSUME NEW t \in Seq(Int), NEW values, Values(values), OwnValues(values), NoUrlEnc(t)
  PROVE  RenderLink(t, values) = t
<1>1. PICK g : Rendering(t, values, g) /\ RenderLink(t, values) = g[1]
  BY RenderFacts DEF Rendering
<1>2. PICK n \in Nat : n = Len(t)
  OBVIOUS
<1>3. PICK N \in Nat : N = n + 1
  OBVIOUS
<1> DEFINE H == {i \in 1..N : g[i] = SubSeq(t, i, n)}
<1>4. ASSUME NEW k \in 1..N, \A j \in 1..N : j > k => j \in H PROVE k \in H
  <2>1. CASE k > n
    <3>1. k = N /\ k \in Nat
      BY <1>3, <2>1
    <3>2. g[k] = <<>>
      BY <1>1, <1>2, <1>3, <3>1, RenderEnd
    <3>3. SubSeq(t, k, n) = <<>>
      BY <1>2, <2>1
    <3> QED
      BY <3>2, <3>3
  <2>2. CASE k <= n
    <3>1. k \in 1..Len(t) /\ k \in Nat /\ 1 <= k
      BY <1>2, <2>2
    <3>2. PICK f : f = FindFrom(t, Close, k)
      OBVIOUS
    <3>0. RenderCase(t, values, g, k, f)
      BY <1>1, <3>1, <3>2, RenderCases, Zenon
    <3>3. CASE t[k] # Open
      <4>1. PICK j \in Nat : j = k + 1
        BY <3>1
      <4>2. j \in 1..N /\ j > k
        BY <1>3, <2>2, <4>1
      <4>3. g[j] = SubSeq(t, j, n)
        BY <1>4, <4>2
      <4>4. g[k] = <<t[k]>> \o g[j]
        BY <3>0, <3>3, <4>1 DEF RenderCase
      <4>5. <<t[k]>> = SubSeq(t, k, k)
        BY <3>1, SubSeqOne
      <4>6. SubSeq(t, k, k) \o SubSeq(t, j, n) = SubSeq(t, k, n)
        <5>1. k <= k + 1 /\ n <= Len(t)
          BY <1>2, <3>1
        <5> QED
          BY <2>2, <3>1, <4>1, <5>1, SubSeqJoin
      <4> QED
        BY <4>3, <4>4, <4>5, <4>6
    <3>4. CASE t[k] = Open /\ f = 0
      <4>1. g[k] = SubSeq(t, k, Len(t))
        BY <3>0, <3>4 DEF RenderCase
      <4> QED
        BY <1>2, <4>1
    <3>5. CASE t[k] = Open /\ f # 0
      <4>1. /\ f \in Nat /\ k < f /\ f <= Len(t) /\ t[f] = Close
            /\ g[k] = Expand(SubSeq(t, k + 1, f - 1), values) \o g[f + 1]
        BY <3>0, <3>5, Zenon DEF RenderCase
      <4>2. PICK j \in Nat, e \in Nat, d \in Nat : j = k + 1 /\ e = f - 1 /\ d = f + 1
        <5>1. k + 1 \in Nat /\ f - 1 \in Nat /\ f + 1 \in Nat
          BY <3>1, <4>1
        <5> QED
          BY <5>1
      <4>3. d \in 1..N /\ d > k
        BY <1>2, <1>3, <3>1, <4>1, <4>2
      <4>4. g[d] = SubSeq(t, d, n)
        BY <1>4, <4>3
      <4>5. PICK name : name = SubSeq(t, j, e)
        OBVIOUS
      <4>6. <<Open>> \o name \o <<Close>> = SubSeq(t, k, f)
        <5>1. f = e + 1
          BY <4>1, <4>2
        <5> QED
          BY <3>1, <3>5, <4>1, <4>2, <4>5, <5>1, PlaceholderAt
      <4>7. name # <<E>>
        <5>0. Len(name) = IF j <= e THEN e - j + 1 ELSE 0
          <6>1. j >= 1 /\ e <= Len(t)
            BY <1>2, <3>1, <4>1, <4>2
          <6> QED
            BY <4>5, <6>1, SubTextFacts
        <5> SUFFICES ASSUME name = <<E>> PROVE FALSE
          OBVIOUS
        <5>1. Len(name) = 1
          OBVIOUS
        <5>3. f = k + 2
          BY <3>1, <4>1, <4>2, <5>0, <5>1
        <5>4. SubSeq(t, k, k + 2) = Placeholder(E)
          <6>1. E \in Int
            BY DEF E
          <6> QED
            BY <4>6, <5>3, <6>1, PlaceholderIs
        <5>5. k \in 1..(Len(t) - 2)
          BY <1>2, <3>1, <4>1, <5>3
        <5> QED
          BY <5>4, <5>5 DEF NoUrlEnc
      <4>8. Expand(name, values) = SubSeq(t, k, f)
        BY <4>6, <4>7, ExpandOwn
      <4>9. SubSeq(t, k, f) \o SubSeq(t, d, n) = SubSeq(t, k, n)
        <5>1. k <= f + 1 /\ n <= Len(t) /\ f <= n
          BY <1>2, <3>1, <4>1
        <5> QED
          BY <3>1, <4>1, <4>2, <5>1, SubSeqJoin, SMTT(60)
      <4> QED
        BY <4>1, <4>2, <4>4, <4>5, <4>8, <4>9
    <3> QED
      BY <3>3, <3>4, <3>5
  <2> QED
    BY <1>2, <2>1, <2>2
<1>5. \A k \in 1..N : k \in H
  <2>1. \A k \in 1..N : (\A j \in 1..N : j > k => j \in H) => k \in H
    BY <1>4
  <2> HIDE DEF H
  <2> QED
    BY <2>1, InductionFromTheEnd
<1>6. g[1] = SubSeq(t, 1, n) /\ SubSeq(t, 1, n) = t
  BY <1>2, <1>3, <1>5
<1> QED
  BY <1>1, <1>6

-----------------------------------------------------------------------------
(* Joining is associative.                                                 *)
LEMMA ConcatAssoc ==
  ASSUME NEW V, NEW a \in Seq(V), NEW b \in Seq(V), NEW c \in Seq(V)
  PROVE  (a \o b) \o c = a \o (b \o c) /\ a \o <<>> = a
OBVIOUS

(* Joining the parts of two sequences of sequences.                        *)
LEMMA FlattenSplits ==
  ASSUME NEW V, NEW aa \in Seq(Seq(V)), NEW bb \in Seq(Seq(V))
  PROVE  FlattenSeq(aa \o bb) = FlattenSeq(aa) \o FlattenSeq(bb)
<1>0. \A x, y, z \in Seq(V) : (x \o y) \o z = x \o (y \o z)
  BY ConcatAssoc, SMTT(60)
<1>1. PICK m \in Nat, k \in Nat : m = Len(aa) /\ k = Len(bb)
  OBVIOUS
<1>2. PICK cc \in Seq(Seq(V)) :
        /\ cc = aa \o bb /\ Len(cc) = m + k
        /\ \A i \in 1..m : cc[i] = aa[i]
        /\ \A i \in 1..k : cc[m + i] = bb[i]
  <2>1. /\ aa \o bb \in Seq(Seq(V)) /\ Len(aa \o bb) = Len(aa) + Len(bb)
        /\ \A i \in 1..Len(aa) : (aa \o bb)[i] = aa[i]
        /\ \A i \in 1..Len(bb) : (aa \o bb)[Len(aa) + i] = bb[i]
    <3>1. aa \o bb \in Seq(Seq(V)) /\ Joined(aa, bb, aa \o bb)
      BY ConcatJoins, Zenon
    <3> QED
      BY <3>1, Zenon DEF Joined
  <2> QED
    BY <1>1, <2>1, Zenon
<1>3. PICK f \in [0..(m + k) -> Seq(V)] :
        /\ f[0] = <<>>
        /\ \A p \in 1..(m + k) : f[p] = f[p - 1] \o cc[p]
        /\ FlattenSeq(cc) = f[m + k]
  <2>1. PICK f \in [0..Len(cc) -> Seq(V)] :
          /\ f[0] = <<>>
          /\ \A p \in 1..Len(cc) : f[p] = f[p - 1] \o cc[p]
          /\ FlattenSeq(cc) = f[Len(cc)]
    BY FlattenFacts
  <2> QED
    BY <1>2, <2>1, Zenon
<1>4. PICK fa \in [0..m -> Seq(V)] :
        /\ fa[0] = <<>>
        /\ \A p \in 1..m : fa[p] = fa[p - 1] \o aa[p]
        /\ FlattenSeq(aa) = fa[m]
  BY <1>1, FlattenFacts
<1>5. PICK fb \in [0..k -> Seq(V)] :
        /\ fb[0] = <<>>
        /\ \A p \in 1..k : fb[p] = fb[p - 1] \o bb[p]
        /\ FlattenSeq(bb) = fb[k]
  BY <1>1, FlattenFacts
<1> DEFINE Ha == {p \in 0..m : f[p] = fa[p]}
<1>6. 0 \in Ha
  BY <1>3, <1>4
<1>7. \A p \in 0..m : p \in Ha /\ p < m => p + 1 \in Ha
  <2> SUFFICES ASSUME NEW p \in 0..m, p \in Ha, p < m PROVE p + 1 \in Ha
    OBVIOUS
  <2>1. PICK q \in 1..m : q = p + 1 /\ q - 1 = p /\ q \in 1..(m + k) /\ q \in 0..m
    OBVIOUS
  <2>2. f[q] = f[p] \o aa[q] /\ fa[q] = fa[p] \o aa[q]
    BY <1>2, <1>3, <1>4, <2>1
  <2> QED
    BY <2>1, <2>2
<1>8. f[m] = fa[m]
  <2>1. \A p \in 0..m : p \in Ha
    <3> HIDE DEF Ha
    <3> QED
      BY <1>6, <1>7, Induction
  <2> QED
    BY <2>1
<1> DEFINE Hb == {p \in 0..k : f[m + p] = fa[m] \o fb[p]}
<1>9. 0 \in Hb
  <2>1. fa[m] \in Seq(V)
    OBVIOUS
  <2>2. \A x \in Seq(V) : x \o <<>> = x
    BY ConcatAssoc
  <2>3. m + 0 = m /\ 0 \in 0..k
    OBVIOUS
  <2>4. f[m + 0] = fa[m] \o fb[0]
    BY <1>5, <1>8, <2>1, <2>2, <2>3, Zenon
  <2> QED
    BY <2>3, <2>4
<1>10. \A p \in 0..k : p \in Hb /\ p < k => p + 1 \in Hb
  <2> SUFFICES ASSUME NEW p \in 0..k, p \in Hb, p < k PROVE p + 1 \in Hb
    OBVIOUS
  <2>1. PICK q \in 1..k : q = p + 1 /\ q - 1 = p /\ q \in 0..k
    OBVIOUS
  <2>2. PICK r \in 1..(m + k) : r = m + q /\ r - 1 = m + p
    BY <2>1
  <2>3. f[r] = f[m + p] \o bb[q] /\ fb[q] = fb[p] \o bb[q]
    BY <1>2, <1>3, <1>5, <2>1, <2>2
  <2>4. f[m + p] = fa[m] \o fb[p]
    OBVIOUS
  <2>5. fa[m] \in Seq(V) /\ fb[p] \in Seq(V) /\ bb[q] \in Seq(V)
    <3>1. m \in 0..m
      OBVIOUS
    <3>2. bb[q] \in Seq(V)
      BY <1>1
    <3> QED
      BY <3>1, <3>2
  <2>6. (fa[m] \o fb[p]) \o bb[q] = fa[m] \o (fb[p] \o bb[q])
    BY <1>0, <2>5, Zenon
  <2>7. f[r] = fa[m] \o fb[q]
    BY <2>3, <2>4, <2>6, Zenon
  <2>8. q \in Hb
    BY <2>1, <2>2, <2>7, Zenon
  <2> HIDE DEF Hb
  <2> QED
    BY <2>1, <2>8, Zenon
<1>11. f[m + k] = fa[m] \o fb[k]
  <2>1. \A p \in 0..k : p \in Hb
    <3> HIDE DEF Hb
    <3> QED
      BY <1>9, <1>10, Induction
  <2>2. k \in 0..k
    OBVIOUS
  <2> QED
    BY <2>1, <2>2, Zenon
<1> QED
  BY <1>2, <1>3, <1>4, <1>5, <1>11

(* What stands for a byte of a marked text.                                *)
Put(c, value) == IF c = Mark THEN value ELSE <<c>>

(* What stands for each byte.                                              *)
Puts(s, value) == [i \in 1..Len(s) |-> Put(s[i], value)]

(* PutForMark joins what stands for each byte.                             *)
LEMMA PutsFacts ==
  ASSUME NEW s \in Seq(Int), NEW value \in Seq(Int)
  PROVE  /\ Puts(s, value) \in Seq(Seq(Int)) /\ Len(Puts(s, value)) = Len(s)
         /\ \A i \in 1..Len(s) : Puts(s, value)[i] = Put(s[i], value)
         /\ PutForMark(s, value) = FlattenSeq(Puts(s, value))
<1>1. \A c \in Int : <<c>> \in Seq(Int)
  OBVIOUS
<1>2. \A c \in Int : Put(c, value) \in Seq(Int)
  BY <1>1, Zenon DEF Put
<1>3. \A i \in 1..Len(s) : s[i] \in Int
  OBVIOUS
<1>4. Puts(s, value) \in [1..Len(s) -> Seq(Int)]
  BY <1>2, <1>3, Zenon DEF Puts
<1>5. Puts(s, value) \in Seq(Seq(Int)) /\ Len(Puts(s, value)) = Len(s)
  <2>1. PICK n \in Nat : n = Len(s)
    OBVIOUS
  <2>2. PICK ss : ss = Puts(s, value)
    OBVIOUS
  <2>3. ss \in [1..n -> Seq(Int)]
    BY <1>4, <2>1, <2>2
  <2>4. ss \in Seq(Seq(Int)) /\ Len(ss) = n
    BY <2>3
  <2> QED
    BY <2>1, <2>2, <2>4
<1>6. \A i \in 1..Len(s) : Puts(s, value)[i] = Put(s[i], value)
  BY Zenon DEF Puts
<1>7. DOMAIN s = 1..Len(s)
  OBVIOUS
<1>8. PutForMark(s, value) = FlattenSeq(Puts(s, value))
  BY <1>7, Zenon DEF PutForMark, Puts, Put
<1> QED
  BY <1>5, <1>6, <1>8

(* Marks are replaced part by part.                                        *)
LEMMA PutSplits ==
  ASSUME NEW a \in Seq(Int), NEW b \in Seq(Int), NEW value \in Seq(Int)
  PROVE  PutForMark(a \o b, value) = PutForMark(a, value) \o PutForMark(b, value)
<1>1. PICK c \in Seq(Int), m \in Nat, k \in Nat :
        /\ c = a \o b /\ m = Len(a) /\ k = Len(b) /\ Len(c) = m + k
        /\ \A i \in 1..m : c[i] = a[i]
        /\ \A i \in 1..k : c[m + i] = b[i]
  <2>1. a \o b \in Seq(Int) /\ Joined(a, b, a \o b)
    BY ConcatJoins, Zenon
  <2>2. Len(a) \in Nat /\ Len(b) \in Nat
    OBVIOUS
  <2>3. /\ a \o b \in Seq(Int) /\ Len(a) \in Nat /\ Len(b) \in Nat
        /\ Len(a \o b) = Len(a) + Len(b)
        /\ \A i \in 1..Len(a) : (a \o b)[i] = a[i]
        /\ \A i \in 1..Len(b) : (a \o b)[Len(a) + i] = b[i]
    BY <2>1, <2>2, Zenon DEF Joined
  <2> QED
    BY <2>3, Zenon
<1>2. PICK aa \in Seq(Seq(Int)), bb \in Seq(Seq(Int)), cc \in Seq(Seq(Int)) :
        aa = Puts(a, value) /\ bb = Puts(b, value) /\ cc = Puts(c, value)
  BY PutsFacts
<1>3. /\ Len(aa) = m /\ Len(bb) = k /\ Len(cc) = m + k
      /\ \A i \in 1..m : aa[i] = Put(a[i], value)
      /\ \A i \in 1..k : bb[i] = Put(b[i], value)
      /\ \A i \in 1..(m + k) : cc[i] = Put(c[i], value)
  BY <1>1, <1>2, PutsFacts, ZenonT(60)
<1>4. \A i \in 1..m : cc[i] = aa[i]
  BY <1>1, <1>3
<1>5. \A i \in 1..k : cc[m + i] = bb[i]
  <2> SUFFICES ASSUME NEW i \in 1..k PROVE cc[m + i] = bb[i]
    OBVIOUS
  <2>1. m + i \in 1..(m + k)
    OBVIOUS
  <2> QED
    BY <1>1, <1>3, <2>1, Zenon
<1>6. Joined(aa, bb, cc)
  BY <1>3, <1>4, <1>5 DEF Joined
<1>7. aa \o bb = cc
  BY <1>6, IsConcat
<1>8. FlattenSeq(aa \o bb) = FlattenSeq(aa) \o FlattenSeq(bb)
  BY FlattenSplits
<1> QED
  BY <1>1, <1>2, <1>7, <1>8, PutsFacts, ZenonT(60)

(* A text without marks stays as it is.                                    *)
LEMMA PutUnmarked ==
  ASSUME NEW s \in Seq(Int), NEW value \in Seq(Int), \A i \in 1..Len(s) : s[i] # Mark
  PROVE  PutForMark(s, value) = s
<1>1. PICK n \in Nat : n = Len(s)
  OBVIOUS
<1>2. PICK ss \in Seq(Seq(Int)) : ss = Puts(s, value)
  BY PutsFacts
<1>3. /\ Len(ss) = n /\ PutForMark(s, value) = FlattenSeq(ss)
      /\ \A i \in 1..n : ss[i] = <<s[i]>>
  <2>1. \A i \in 1..n : ss[i] = Put(s[i], value)
    BY <1>1, <1>2, PutsFacts, Zenon
  <2>2. \A i \in 1..n : ss[i] = <<s[i]>>
    BY <1>1, <2>1, Zenon DEF Put
  <2> QED
    BY <1>1, <1>2, <2>2, PutsFacts, Zenon
<1>4. PICK f \in [0..n -> Seq(Int)] :
        /\ f[0] = <<>>
        /\ \A p \in 1..n : f[p] = f[p - 1] \o ss[p]
        /\ FlattenSeq(ss) = f[n]
  BY <1>3, FlattenFacts
<1> DEFINE H == {p \in 0..n : f[p] = SubSeq(s, 1, p)}
<1>5. 0 \in H
  <2>1. SubSeq(s, 1, 0) = <<>> /\ 0 \in 0..n
    OBVIOUS
  <2> QED
    BY <1>4, <2>1, Zenon
<1>6. \A p \in 0..n : p \in H /\ p < n => p + 1 \in H
  <2> SUFFICES ASSUME NEW p \in 0..n, p \in H, p < n PROVE p + 1 \in H
    OBVIOUS
  <2>1. PICK q \in Nat : q = p + 1 /\ q - 1 = p /\ q \in 0..n /\ q \in 1..n
    OBVIOUS
  <2>2. f[q] = f[p] \o <<s[q]>> /\ f[p] = SubSeq(s, 1, p)
    BY <1>3, <1>4, <2>1
  <2>3. <<s[q]>> = SubSeq(s, q, q)
    BY <1>1, <2>1, SubSeqOne
  <2>4. SubSeq(s, 1, p) \o SubSeq(s, q, q) = SubSeq(s, 1, q)
    <3>1. p \in Nat /\ 1 <= p + 1 /\ p <= q /\ q <= Len(s)
      BY <1>1, <2>1
    <3>2. PICK o \in Nat : o = 1 /\ 1 <= o /\ o <= p + 1
      BY <3>1
    <3>3. SubSeq(s, o, p) \o SubSeq(s, q, q) = SubSeq(s, o, q)
      <4> HIDE DEF H
      <4> QED
        BY <2>1, <3>1, <3>2, SubSeqJoin, SMTT(60)
    <3> QED
      BY <3>2, <3>3
  <2> QED
    BY <2>1, <2>2, <2>3, <2>4
<1>7. f[n] = SubSeq(s, 1, n)
  <2>1. \A p \in 0..n : p \in H
    <3> HIDE DEF H
    <3> QED
      BY <1>5, <1>6, Induction
  <2> QED
    BY <2>1
<1>8. SubSeq(s, 1, n) = s
  BY <1>1
<1> QED
  BY <1>3, <1>4, <1>7, <1>8

(* A mark becomes the value.                                               *)
LEMMA PutMark ==
  ASSUME NEW value \in Seq(Int)
  PROVE  PutForMark(<<Mark>>, value) = value
<1>1. PICK s \in Seq(Int) : s = <<Mark>> /\ Len(s) = 1 /\ s[1] = Mark
  <2>1. <<Mark>> \in Seq(Int) /\ Len(<<Mark>>) = 1 /\ <<Mark>>[1] = Mark
    BY DEF Mark
  <2> QED
    BY <2>1, Zenon
<1>2. PICK ss \in Seq(Seq(Int)) : ss = Puts(s, value)
  BY PutsFacts
<1>3. Len(ss) = 1 /\ ss[1] = value /\ PutForMark(s, value) = FlattenSeq(ss)
  <2>1. 1 \in 1..1
    OBVIOUS
  <2> QED
    BY <1>1, <1>2, <2>1, PutsFacts, Zenon DEF Put
<1>4. PICK f : /\ f[0] = <<>>
              /\ \A p \in 1..1 : f[p] = f[p - 1] \o ss[p]
              /\ FlattenSeq(ss) = f[1]
  <2>1. PICK f : /\ f[0] = <<>>
                 /\ \A p \in 1..Len(ss) : f[p] = f[p - 1] \o ss[p]
                 /\ FlattenSeq(ss) = f[Len(ss)]
    BY FlattenFacts
  <2> QED
    BY <1>3, <2>1, Zenon
<1>5. f[1] = <<>> \o value
  <2>1. 1 \in 1..1 /\ 1 - 1 = 0
    OBVIOUS
  <2> QED
    BY <1>3, <1>4, <2>1, Zenon
<1>6. <<>> \o value = value
  OBVIOUS
<1> QED
  BY <1>1, <1>3, <1>4, <1>5, <1>6

(* A text without marks.                                                   *)
Unmarked(s) == s \in Seq(Int) /\ \A i \in 1..Len(s) : s[i] # Mark

(* Texts without marks join to one.                                        *)
LEMMA UnmarkedJoin ==
  ASSUME NEW a, NEW b, Unmarked(a), Unmarked(b)
  PROVE  Unmarked(a \o b)
<1>0. a \in Seq(Int) /\ b \in Seq(Int)
  BY DEF Unmarked
<1>a. a \o b \in Seq(Int) /\ Joined(a, b, a \o b)
  BY <1>0, ConcatJoins, Zenon
<1>1. PICK c \in Seq(Int) : c = a \o b
  BY <1>a, Zenon
<1>2. PICK m \in Nat, k \in Nat : m = Len(a) /\ k = Len(b)
  BY <1>0
<1>3. /\ Len(c) = m + k
      /\ \A i \in 1..m : c[i] = a[i]
      /\ \A i \in 1..k : c[m + i] = b[i]
  <2>1. /\ Len(a \o b) = Len(a) + Len(b)
        /\ \A i \in 1..Len(a) : (a \o b)[i] = a[i]
        /\ \A i \in 1..Len(b) : (a \o b)[Len(a) + i] = b[i]
    BY <1>a, Zenon DEF Joined
  <2> QED
    BY <1>1, <1>2, <2>1, Zenon
<1>4. ASSUME NEW i \in 1..(m + k) PROVE c[i] # Mark
  <2>1. CASE i <= m
    <3>1. i \in 1..m
      BY <2>1
    <3> QED
      BY <1>2, <1>3, <3>1, Zenon DEF Unmarked
  <2>2. CASE i > m
    <3>1. i - m \in 1..k /\ m + (i - m) = i
      BY <2>2
    <3>2. c[m + (i - m)] # Mark
      BY <1>2, <1>3, <3>1, Zenon DEF Unmarked
    <3> QED
      BY <3>1, <3>2
  <2> QED
    BY <2>1, <2>2
<1> QED
  BY <1>1, <1>3, <1>4, Zenon DEF Unmarked

(* Variables that differ in {subid} only: a value here, a mark there.      *)
MarkedValues(v1, v2, value) ==
  /\ value \in Seq(Int) /\ Values(v1) /\ Values(v2)
  /\ v1.url = v2.url /\ v1.campaign = v2.campaign
  /\ v1.subid = value /\ v2.subid = <<Mark>>
  /\ Unmarked(v2.url) /\ Unmarked(UrlEncode(v2.url)) /\ Unmarked(v2.campaign)

(* Expanding with the value is expanding with a mark and putting it in.    *)
LEMMA ExpandMarked ==
  ASSUME NEW v1, NEW v2, NEW value, MarkedValues(v1, v2, value), NEW name, Unmarked(name)
  PROVE  Expand(name, v1) = PutForMark(Expand(name, v2), value)
<1>1. \A x : Unmarked(x) => PutForMark(x, value) = x
  BY PutUnmarked, Zenon DEF Unmarked, MarkedValues
<1>2. CASE name = <<U>>
  BY <1>1, <1>2, ExpandNames, Zenon DEF MarkedValues
<1>3. CASE name = <<E>>
  BY <1>1, <1>3, ExpandNames, ZenonT(60) DEF MarkedValues
<1>4. CASE name = <<S>>
  BY <1>4, PutMark, ExpandNames, Zenon DEF MarkedValues
<1>5. CASE name = <<C>>
  BY <1>1, <1>5, ExpandNames, Zenon DEF MarkedValues
<1>6. CASE name \notin {<<U>>, <<E>>, <<S>>, <<C>>}
  <2>1. PICK x : x = <<Open>> \o name \o <<Close>>
    OBVIOUS
  <2>2. Unmarked(x)
    <3>1. \A c \in Int : c # Mark => Unmarked(<<c>>)
      BY DEF Unmarked
    <3>2. Open \in Int /\ Close \in Int /\ Open # Mark /\ Close # Mark
      BY DEF Open, Close, Mark
    <3> QED
      BY <2>1, <3>1, <3>2, UnmarkedJoin, Zenon
  <2>3. Expand(name, v1) = x /\ Expand(name, v2) = x
    BY <1>6, <2>1, Zenon DEF Expand
  <2> QED
    BY <1>1, <2>2, <2>3, Zenon
<1> QED
  BY <1>2, <1>3, <1>4, <1>5, <1>6, Zenon

(* A part of a text without marks has none.                                *)
LEMMA UnmarkedPart ==
  ASSUME NEW s, Unmarked(s), NEW i \in Nat, i >= 1, NEW m \in Nat, m <= Len(s)
  PROVE  Unmarked(SubSeq(s, i, m))
<1>1. s \in Seq(Int) /\ Len(s) \in Nat
  BY DEF Unmarked
<1>2. PICK x : x = SubSeq(s, i, m)
  OBVIOUS
<1>3. /\ x \in Seq(Int) /\ Len(x) = (IF i <= m THEN m - i + 1 ELSE 0)
      /\ \A k \in 1..Len(x) : x[k] = s[i + k - 1]
  BY <1>1, <1>2, SubTextFacts
<1>4. ASSUME NEW k \in 1..Len(x) PROVE x[k] # Mark
  <2>1. i + k - 1 \in 1..Len(s)
    <3>1. PICK l \in Nat : l = Len(s)
      BY <1>1
    <3>2. i <= m /\ k \in 1..(m - i + 1)
      BY <1>3
    <3>3. i + k - 1 \in 1..l
      BY <3>1, <3>2
    <3> QED
      BY <3>1, <3>3
  <2>2. s[i + k - 1] # Mark
    BY <2>1 DEF Unmarked
  <2> QED
    BY <1>3, <2>2, Zenon
<1> QED
  BY <1>2, <1>3, <1>4, Zenon DEF Unmarked

(* The same for the whole template: no value is expanded again.            *)
LEMMA RenderMarked ==
  ASSUME NEW t, Unmarked(t), NEW v1, NEW v2, NEW value, MarkedValues(v1, v2, value)
  PROVE  RenderLink(t, v1) = PutForMark(RenderLink(t, v2), value)
<1>0. t \in Seq(Int) /\ value \in Seq(Int)
  BY DEF Unmarked, MarkedValues
<1>1. PICK g1, g2 :
        /\ Rendering(t, v1, g1) /\ RenderLink(t, v1) = g1[1]
        /\ Rendering(t, v2, g2) /\ RenderLink(t, v2) = g2[1]
  <2>1. \A v : Values(v) => \E g : Rendering(t, v, g) /\ RenderLink(t, v) = g[1]
    BY <1>0, RenderFacts, SMTT(60) DEF Rendering
  <2> QED
    BY <2>1, Zenon DEF MarkedValues
<1>2. PICK n \in Nat : n = Len(t)
  BY <1>0
<1>3. PICK N \in Nat : N = n + 1
  OBVIOUS
<1>4. \A i \in 1..N : g1[i] \in Seq(Int) /\ g2[i] \in Seq(Int)
  BY <1>1, <1>2, <1>3, Zenon DEF Rendering
<1>5. \A x : Unmarked(x) => PutForMark(x, value) = x
  BY <1>0, PutUnmarked, Zenon DEF Unmarked
<1>6. \A a \in Seq(Int) : \A b \in Seq(Int) :
        PutForMark(a \o b, value) = PutForMark(a, value) \o PutForMark(b, value)
  BY <1>0, PutSplits, ZenonT(60)
<1> DEFINE H == {i \in 1..N : g1[i] = PutForMark(g2[i], value)}
<1>7. ASSUME NEW k \in 1..N, \A j \in 1..N : j > k => j \in H PROVE k \in H
  <2>1. CASE k > n
    <3>1. k = N /\ k \in Nat /\ k = Len(t) + 1
      BY <1>2, <1>3, <2>1
    <3>2. g1[k] = <<>> /\ g2[k] = <<>>
      BY <1>1, <3>1, RenderEnd
    <3>3. Unmarked(<<>>)
      BY DEF Unmarked
    <3> QED
      BY <1>5, <3>2, <3>3
  <2>2. CASE k <= n
    <3>1. k \in 1..Len(t) /\ k \in 1..n /\ k \in Nat /\ k >= 1
      BY <1>2, <2>2
    <3>2. PICK f : f = FindFrom(t, Close, k)
      OBVIOUS
    <3>3. RenderCase(t, v1, g1, k, f) /\ RenderCase(t, v2, g2, k, f)
      BY <1>1, <3>1, <3>2, RenderCases, Zenon
    <3>4. CASE t[k] # Open
      <4>1. k + 1 \in 1..N /\ k + 1 > k
        BY <1>3, <3>1
      <4>2. g1[k + 1] = PutForMark(g2[k + 1], value)
        BY <1>7, <4>1
      <4>3. g1[k] = <<t[k]>> \o g1[k + 1] /\ g2[k] = <<t[k]>> \o g2[k + 1]
        BY <3>3, <3>4, Zenon DEF RenderCase
      <4>4. Unmarked(<<t[k]>>) /\ <<t[k]>> \in Seq(Int)
        <5>1. t[k] \in Int /\ t[k] # Mark
          BY <1>0, <3>1 DEF Unmarked
        <5> QED
          BY <5>1 DEF Unmarked
      <4> QED
        BY <1>4, <1>5, <1>6, <4>1, <4>2, <4>3, <4>4, Zenon
    <3>5. CASE t[k] = Open /\ f = 0
      <4>1. g1[k] = SubSeq(t, k, Len(t)) /\ g2[k] = SubSeq(t, k, Len(t))
        BY <3>3, <3>5, Zenon DEF RenderCase
      <4>2. Unmarked(SubSeq(t, k, Len(t)))
        <5>1. Len(t) \in Nat /\ Len(t) <= Len(t)
          BY <1>2
        <5> QED
          BY <3>1, <5>1, UnmarkedPart
      <4> QED
        BY <1>5, <4>1, <4>2, Zenon
    <3>6. CASE t[k] = Open /\ f # 0
      <4>1. /\ f \in Nat /\ k < f /\ f <= Len(t)
            /\ g1[k] = Expand(SubSeq(t, k + 1, f - 1), v1) \o g1[f + 1]
            /\ g2[k] = Expand(SubSeq(t, k + 1, f - 1), v2) \o g2[f + 1]
        BY <3>3, <3>6, Zenon DEF RenderCase
      <4>2. /\ f + 1 \in 1..N /\ f + 1 > k /\ k + 1 \in Nat /\ k + 1 >= 1
            /\ f - 1 \in Nat /\ f - 1 <= Len(t)
        BY <1>2, <1>3, <3>1, <4>1
      <4>3. g1[f + 1] = PutForMark(g2[f + 1], value)
        BY <1>7, <4>2
      <4>4. PICK name : name = SubSeq(t, k + 1, f - 1)
        OBVIOUS
      <4>5. Unmarked(name)
        BY <4>2, <4>4, UnmarkedPart
      <4>6. Expand(name, v1) = PutForMark(Expand(name, v2), value)
        BY <4>5, ExpandMarked
      <4>7. Expand(name, v2) \in Seq(Int)
        BY <4>5, ExpandType, Zenon DEF MarkedValues, Unmarked
      <4> QED
        BY <1>4, <1>6, <4>1, <4>2, <4>3, <4>4, <4>6, <4>7, Zenon
    <3> QED
      BY <3>4, <3>5, <3>6
  <2> QED
    BY <2>1, <2>2
<1>8. \A k \in 1..N : k \in H
  <2>1. \A k \in 1..N : (\A j \in 1..N : j > k => j \in H) => k \in H
    BY <1>7
  <2> HIDE DEF H
  <2> QED
    BY <2>1, InductionFromTheEnd
<1>9. 1 \in 1..N
  BY <1>3
<1> QED
  BY <1>1, <1>8, <1>9

(* RenderIsOnePass for one text, of any length over all bytes.             *)
LEMMA OnePass ==
  ASSUME NEW s \in Seq(0..255)
  PROVE  /\ NoUrlEnc(s) =>
              RenderLink(s, [url |-> Placeholder(U), subid |-> Placeholder(S),
                             campaign |-> Placeholder(C)]) = s
         /\ RenderLink(s, [url |-> <<55>>, subid |-> Placeholder(U), campaign |-> <<56>>]) =
              PutForMark(RenderLink(s, [url |-> <<55>>, subid |-> <<Mark>>, campaign |-> <<56>>]),
                         Placeholder(U))
<1>1. s \in Seq(Int) /\ Unmarked(s)
  <2>1. s \in Seq(Int) /\ \A p \in 1..Len(s) : s[p] \in 0..255
    BY TextFacts, Zenon
  <2>2. \A b \in 0..255 : b # Mark
    BY DEF Mark
  <2> QED
    BY <2>1, <2>2, Zenon DEF Unmarked
<1>2. \A x \in Seq(0..255) : x \in Seq(Int) /\ UrlEncode(x) \in Seq(Int) /\ Unmarked(UrlEncode(x))
  <2> SUFFICES ASSUME NEW x \in Seq(0..255)
               PROVE  x \in Seq(Int) /\ UrlEncode(x) \in Seq(Int) /\ Unmarked(UrlEncode(x))
    OBVIOUS
  <2>1. /\ UrlEncode(x) \in Seq(Int)
        /\ \A i \in 1..Len(UrlEncode(x)) : UrlEncode(x)[i] \notin Delimiters
    BY EncodeFacts, Zenon
  <2>2. Mark \in Delimiters
    BY DEF Delimiters
  <2>3. x \in Seq(Int)
    BY TextFacts, Zenon
  <2> QED
    BY <2>1, <2>2, <2>3, Zenon DEF Unmarked
<1>3. /\ Placeholder(U) \in Seq(0..255) /\ Placeholder(S) \in Seq(0..255)
      /\ Placeholder(C) \in Seq(0..255) /\ <<55>> \in Seq(0..255)
  <2>1. PICK B : B = 0..255
    OBVIOUS
  <2>2. /\ Open \in B /\ Close \in B /\ U \in B /\ S \in B /\ C \in B
        /\ 55 \in B
    BY <2>1 DEF Open, Close, U, S, C
  <2>3. \A a, b, c \in B : <<a, b, c>> \in Seq(B) /\ <<a>> \in Seq(B)
    OBVIOUS
  <2>4. Placeholder(U) \in Seq(B)
    BY <2>2, <2>3, Zenon DEF Placeholder
  <2>5. Placeholder(S) \in Seq(B)
    BY <2>2, <2>3, Zenon DEF Placeholder
  <2>6. Placeholder(C) \in Seq(B)
    BY <2>2, <2>3, Zenon DEF Placeholder
  <2>7. <<55>> \in Seq(B)
    BY <2>2, <2>3
  <2> QED
    BY <2>1, <2>4, <2>5, <2>6, <2>7
<1>4. /\ <<56>> \in Seq(Int) /\ <<Mark>> \in Seq(Int) /\ <<55>> \in Seq(Int)
      /\ Unmarked(<<55>>) /\ Unmarked(<<56>>)
  BY DEF Mark, Unmarked
<1>5. ASSUME NoUrlEnc(s), NEW values,
             values = [url |-> Placeholder(U), subid |-> Placeholder(S),
                       campaign |-> Placeholder(C)]
      PROVE  RenderLink(s, values) = s
  <2>1. OwnValues(values)
    BY <1>5, Zenon DEF OwnValues
  <2>2. Values(values)
    BY <1>2, <1>3, <2>1, Zenon DEF OwnValues, Values
  <2> QED
    BY <1>1, <1>5, <2>1, <2>2, RenderOwn, Zenon
<1> DEFINE With(sub) == [url |-> <<55>>, subid |-> sub, campaign |-> <<56>>]
<1>6. ASSUME NEW v1, v1 = With(Placeholder(U)), NEW v2, v2 = With(<<Mark>>)
      PROVE  RenderLink(s, v1) = PutForMark(RenderLink(s, v2), Placeholder(U))
  <2>1. v1.url = <<55>> /\ v1.subid = Placeholder(U) /\ v1.campaign = <<56>>
    BY <1>6, Zenon
  <2>2. v2.url = <<55>> /\ v2.subid = <<Mark>> /\ v2.campaign = <<56>>
    BY <1>6, Zenon
  <2>3. Values(v1) /\ Values(v2)
    <3>1. Placeholder(U) \in Seq(Int) /\ UrlEncode(<<55>>) \in Seq(Int)
      BY <1>2, <1>3
    <3>2. Values(v1)
      BY <1>4, <2>1, <3>1 DEF Values
    <3>3. Values(v2)
      BY <1>4, <2>2, <3>1 DEF Values
    <3> QED
      BY <3>2, <3>3
  <2>4. MarkedValues(v1, v2, Placeholder(U))
    BY <1>2, <1>3, <1>4, <2>1, <2>2, <2>3, Zenon DEF MarkedValues
  <2> QED
    BY <1>1, <2>4, RenderMarked
<1> QED
  BY <1>5, <1>6, Zenon

-----------------------------------------------------------------------------
(* The pieces of a text between the bytes c.                               *)
Run(s, c, x, y) ==
  /\ x \in 1..Len(s) /\ y \in 1..Len(s) /\ x <= y
  /\ \A k \in x..y : s[k] # c
  /\ x = 1 \/ s[x - 1] = c
  /\ y = Len(s) \/ s[y + 1] = c

(* The runs of a text, by their ends.                                      *)
LEMMA RunsAre ==
  ASSUME NEW s \in Seq(Int), NEW c
  PROVE  /\ \A r \in Runs(s, c) : r = <<r[1], r[2]>> /\ Run(s, c, r[1], r[2])
         /\ \A x, y : Run(s, c, x, y) => <<x, y>> \in Runs(s, c)
<1>1. DOMAIN s = 1..Len(s)
  OBVIOUS
<1>2. ASSUME NEW r \in Runs(s, c) PROVE r = <<r[1], r[2]>> /\ Run(s, c, r[1], r[2])
  BY <1>1, <1>2 DEF Runs, Run
<1>3. ASSUME NEW x, NEW y, Run(s, c, x, y) PROVE <<x, y>> \in Runs(s, c)
  BY <1>1, <1>3 DEF Runs, Run
<1> QED
  BY <1>2, <1>3

(* The part of a text from b to e, between two bytes c and possibly empty. *)
Segment(s, c, b, e) ==
  /\ b \in 1..(Len(s) + 1) /\ e \in 0..Len(s) /\ e >= b - 1
  /\ b = 1 \/ s[b - 1] = c
  /\ \A k \in b..e : s[k] # c
  /\ e = Len(s) \/ s[e + 1] = c

(* A run that reaches into a segment or past it begins there or later; one *)
(* that begins in it is all of it.                                         *)
Aligned(b, e, x, y) ==
  /\ y >= b => x >= b
  /\ x >= b /\ x <= e + 1 => x = b /\ y = e

(* So it is for every segment and every run.                               *)
LEMMA RunAtSegment ==
  ASSUME NEW s \in Seq(Int), NEW c, NEW b, NEW e, Segment(s, c, b, e),
         NEW x, NEW y, Run(s, c, x, y)
  PROVE  Aligned(b, e, x, y)
<1>1. PICK n \in Nat : n = Len(s)
  OBVIOUS
<1>2. b \in 1..(n + 1) /\ e \in 0..n /\ x \in 1..n /\ y \in 1..n /\ x <= y
  BY <1>1 DEF Segment, Run
<1>3. ASSUME y >= b, x < b PROVE FALSE
  <2>1. b # 1 /\ b - 1 \in x..y
    BY <1>2, <1>3
  <2>2. s[b - 1] = c
    BY <2>1 DEF Segment
  <2> QED
    BY <2>1, <2>2 DEF Run
<1>4. ASSUME x >= b, x <= e + 1 PROVE x = b /\ y = e
  <2>1. x <= e
    <3>1. ASSUME x = e + 1 PROVE FALSE
      <4>1. e # n /\ s[x] # c
        BY <1>2, <3>1 DEF Run
      <4> QED
        BY <1>1, <3>1, <4>1 DEF Segment
    <3> QED
      BY <1>2, <1>4, <3>1
  <2>2. x = b
    <3>1. ASSUME x # b PROVE FALSE
      <4>1. x # 1 /\ x - 1 \in b..e
        BY <1>2, <1>4, <2>1, <3>1
      <4> QED
        BY <4>1 DEF Segment, Run
    <3> QED
      BY <3>1
  <2>3. ~(y < e)
    <3>1. ASSUME y < e PROVE FALSE
      <4>1. y # n /\ y + 1 \in b..e
        BY <1>2, <1>4, <3>1
      <4> QED
        BY <1>1, <4>1 DEF Segment, Run
    <3> QED
      BY <3>1
  <2>4. ~(y > e)
    <3>1. ASSUME y > e PROVE FALSE
      <4>1. e # n /\ e + 1 \in x..y
        BY <1>2, <2>1, <3>1
      <4> QED
        BY <1>1, <4>1 DEF Segment, Run
    <3> QED
      BY <3>1
  <2> QED
    BY <1>2, <2>2, <2>3, <2>4
<1> QED
  BY <1>2, <1>3, <1>4 DEF Aligned

(* Where UpTo(s, c, i) ends.                                               *)
Ending(s, c, i, e) ==
  /\ e \in 0..Len(s) /\ e >= i - 1 /\ UpTo(s, c, i) = SubSeq(s, i, e)
  /\ FindFrom(s, c, i) = 0 => e = Len(s)
  /\ FindFrom(s, c, i) # 0 => FindFrom(s, c, i) = e + 1 /\ e + 1 <= Len(s) /\ s[e + 1] = c

(* There the segment ends.                                                 *)
LEMMA UpToSegment ==
  ASSUME NEW s \in Seq(Int), NEW c, NEW b \in 1..(Len(s) + 1), NEW i \in b..(Len(s) + 1),
         b = 1 \/ s[b - 1] = c, \A k \in b..(i - 1) : s[k] # c
  PROVE  \E e : Segment(s, c, b, e) /\ Ending(s, c, i, e)
<1>1. PICK n \in Nat : n = Len(s)
  OBVIOUS
<1>2. PICK f : f = FindFrom(s, c, i)
  OBVIOUS
<1>3. i \in Nat /\ i >= 1 /\ i >= b /\ i <= n + 1 /\ b \in Nat /\ b >= 1
  BY <1>1
<1>4. \/ f = 0 /\ \A j \in i..n : s[j] # c
      \/ f \in i..n /\ s[f] = c /\ \A j \in i..(f - 1) : s[j] # c
  BY <1>1, <1>2, <1>3, FindFacts
<1>5. PICK e : e = IF f = 0 THEN n ELSE f - 1
  OBVIOUS
<1>6. /\ e \in 0..n /\ e >= i - 1
      /\ f = 0 => e = n
      /\ f # 0 => f = e + 1 /\ e + 1 <= n /\ s[e + 1] = c
  BY <1>3, <1>4, <1>5
<1>7. \A k \in b..e : s[k] # c
  <2> SUFFICES ASSUME NEW k \in b..e PROVE s[k] # c
    OBVIOUS
  <2>1. CASE k <= i - 1
    BY <1>3, <2>1
  <2>2. CASE k >= i
    BY <1>3, <1>4, <1>5, <1>6, <2>2
  <2> QED
    BY <1>3, <1>6, <2>1, <2>2
<1>8. Segment(s, c, b, e)
  <2>1. e >= b - 1
    BY <1>3, <1>6
  <2> QED
    BY <1>1, <1>3, <1>6, <1>7, <2>1 DEF Segment
<1>9. UpTo(s, c, i) = SubSeq(s, i, e)
  BY <1>1, <1>2, <1>5, Zenon DEF UpTo
<1> QED
  BY <1>1, <1>2, <1>6, <1>8, <1>9, Zenon DEF Ending

-----------------------------------------------------------------------------
(* What a pair of a query says: the name, and its value if it has one.     *)
RunName(s, r) == UrlDecode(Before(Piece(s, r), Find(Piece(s, r), Eq)))
RunValue(s, r) == UrlDecode(From(Piece(s, r), Find(Piece(s, r), Eq) + 1))

(* The pairs of R with a value for n, and the last of some pairs.          *)
Valued(s, R, n) == {r \in R : RunName(s, r) = n /\ Eq \in ToSet(Piece(s, r))}
Latest(V) == CHOOSE r \in V : \A o \in V : o[1] <= r[1]

(* The parameters that the pairs of R give together.                       *)
Meaning(s, R) ==
  [n \in {RunName(s, r) : r \in R} |->
     IF Valued(s, R, n) = {} THEN <<>> ELSE RunValue(s, Latest(Valued(s, R, n)))]

(* QueryMeaning is that of all its pairs.                                  *)
LEMMA QueryMeaningIs ==
  ASSUME NEW s PROVE QueryMeaning(s) = Meaning(s, Runs(s, Amp))
BY Zenon DEF QueryMeaning, Meaning, Latest, Valued, RunName, RunValue

(* No pair gives no parameter.                                             *)
LEMMA NoMeaning ==
  ASSUME NEW s PROVE Meaning(s, {}) = <<>>
<1>1. \A f : [n \in {} |-> f[n]] = <<>>
  OBVIOUS
<1> QED
  BY DEF Meaning

(* One more pair, behind the others, is read as parse_query's loop does.   *)
LEMMA PairAdds ==
  ASSUME NEW s, NEW R, NEW r, Piece(s, r) \in Seq(Int), Piece(s, r) # <<>>,
         r[1] \in Nat, \A o \in R : o[1] \in Nat /\ o[1] < r[1]
  PROVE  Meaning(s, R \cup {r}) = ReadPair(Meaning(s, R), Piece(s, r))
<1>1. PICK p \in Seq(Int) : p = Piece(s, r)
  OBVIOUS
<1>2. PICK f : f = Find(p, Eq)
  OBVIOUS
<1>3. f # 0 <=> Eq \in ToSet(p)
  <2>1. PICK o \in Nat : o = 1
    OBVIOUS
  <2>2. o >= 1 /\ f = FindFrom(p, Eq, o)
    BY <1>2, <2>1 DEF Find
  <2>3. \/ f = 0 /\ \A j \in o..Len(p) : p[j] # Eq
        \/ f \in o..Len(p) /\ p[f] = Eq
    BY <2>2, FindFacts, ZenonT(60)
  <2>4. DOMAIN p = o..Len(p) /\ 0 \notin o..Len(p)
    BY <2>1
  <2> QED
    BY <2>3, <2>4, Zenon DEF ToSet
<1>4. PICK A : A = R \cup {r}
  OBVIOUS
<1>5. PICK name : name = RunName(s, r)
  OBVIOUS
<1>6. PICK q : q = Meaning(s, R)
  OBVIOUS
<1>7. {RunName(s, o) : o \in A} = {RunName(s, o) : o \in R} \cup {name}
  BY <1>4, <1>5, Zenon
<1>8. DOMAIN q = {RunName(s, o) : o \in R}
  BY <1>6, Zenon DEF Meaning
<1>9. \A n \in DOMAIN q :
        q[n] = IF Valued(s, R, n) = {} THEN <<>> ELSE RunValue(s, Latest(Valued(s, R, n)))
  BY <1>6, <1>8, Zenon DEF Meaning
<1>10. CASE f # 0
  <2>1. Eq \in ToSet(Piece(s, r))
    BY <1>1, <1>3, <1>10, Zenon
  <2>2. ReadPair(q, p) = InsertOrAssign(q, name, RunValue(s, r))
    <3>1. p # <<>> /\ name = UrlDecode(Before(p, f)) /\ RunValue(s, r) = UrlDecode(From(p, f + 1))
      BY <1>1, <1>2, <1>5, Zenon DEF RunName, RunValue
    <3> QED
      BY <1>2, <1>10, <3>1, Zenon DEF ReadPair, AddPair
  <2>3. ASSUME NEW n, n # name PROVE Valued(s, A, n) = Valued(s, R, n)
    BY <1>4, <1>5, <2>3, Zenon DEF Valued
  <2>4. r \in Valued(s, A, name)
    BY <1>4, <1>5, <2>1, Zenon DEF Valued
  <2>5. Latest(Valued(s, A, name)) = r
    <3>1. PICK V : V = Valued(s, A, name)
      OBVIOUS
    <3>2. r \in V /\ \A o \in V : o \in R \cup {r}
      BY <1>4, <2>4, <3>1, Zenon DEF Valued
    <3>3. \A o \in V : o[1] \in Nat /\ o[1] <= r[1] /\ (r[1] <= o[1] => o = r)
      BY <3>2
    <3>4. PICK l : l = Latest(V)
      OBVIOUS
    <3>5. l \in V /\ \A o \in V : o[1] <= l[1]
      BY <3>2, <3>3, <3>4, Zenon DEF Latest
    <3> QED
      BY <3>1, <3>2, <3>3, <3>4, <3>5, Zenon
  <2>6. ASSUME NEW n \in {RunName(s, o) : o \in R} \cup {name}
        PROVE  (IF Valued(s, A, n) = {} THEN <<>> ELSE RunValue(s, Latest(Valued(s, A, n))))
                 = (IF n = name THEN RunValue(s, r) ELSE q[n])
    <3>1. CASE n = name
      <4>1. Valued(s, A, n) # {}
        BY <2>4, <3>1, Zenon
      <4> QED
        BY <2>5, <3>1, <4>1, Zenon
    <3>2. CASE n # name
      <4>1. n \in DOMAIN q
        BY <1>8, <3>2, Zenon
      <4> QED
        BY <1>9, <2>3, <3>2, <4>1, Zenon
    <3> QED
      BY <3>1, <3>2, Zenon
  <2>7. Meaning(s, A) = InsertOrAssign(q, name, RunValue(s, r))
    BY <1>7, <1>8, <2>6, Zenon DEF Meaning, InsertOrAssign
  <2> QED
    BY <1>1, <1>4, <1>6, <2>2, <2>7, Zenon
<1>11. CASE f = 0
  <2>1. Eq \notin ToSet(Piece(s, r))
    BY <1>1, <1>3, <1>11, Zenon
  <2>2. ReadPair(q, p) = Emplace(q, name, <<>>)
    <3>1. p # <<>> /\ name = UrlDecode(Before(p, f)) /\ Before(p, f) = p
      BY <1>1, <1>2, <1>5, <1>11, Zenon DEF RunName, Before
    <3> QED
      BY <1>2, <1>11, <3>1, Zenon DEF ReadPair, AddPair
  <2>3. ASSUME NEW n PROVE Valued(s, A, n) = Valued(s, R, n)
    BY <1>4, <2>1, Zenon DEF Valued
  <2>4. CASE name \in DOMAIN q
    <3>1. {RunName(s, o) : o \in R} \cup {name} = {RunName(s, o) : o \in R}
      BY <1>8, <2>4, Zenon
    <3>2. Meaning(s, A) = q
      <4>1. PICK D : D = {RunName(s, o) : o \in A} /\ D = {RunName(s, o) : o \in R}
        BY <1>7, <3>1, Zenon
      <4>2. Meaning(s, A) = [n \in D |-> IF Valued(s, A, n) = {} THEN <<>>
                                         ELSE RunValue(s, Latest(Valued(s, A, n)))]
        BY <4>1, Zenon DEF Meaning
      <4>3. q = [n \in D |-> IF Valued(s, R, n) = {} THEN <<>>
                             ELSE RunValue(s, Latest(Valued(s, R, n)))]
        BY <1>6, <4>1, Zenon DEF Meaning
      <4>4. ASSUME NEW n \in D
            PROVE  (IF Valued(s, A, n) = {} THEN <<>> ELSE RunValue(s, Latest(Valued(s, A, n))))
                     = (IF Valued(s, R, n) = {} THEN <<>> ELSE RunValue(s, Latest(Valued(s, R, n))))
        <5>1. Valued(s, A, n) = Valued(s, R, n)
          BY <2>3
        <5> QED
          BY <5>1
      <4> QED
        BY <4>2, <4>3, <4>4, Zenon
    <3> QED
      BY <1>1, <1>4, <1>6, <2>2, <2>4, <3>2, Zenon DEF Emplace
  <2>5. CASE name \notin DOMAIN q
    <3>1. Valued(s, R, name) = {}
      BY <1>8, <2>5, Zenon DEF Valued
    <3>2. ASSUME NEW n \in {RunName(s, o) : o \in R} \cup {name}
          PROVE  (IF Valued(s, A, n) = {} THEN <<>> ELSE RunValue(s, Latest(Valued(s, A, n))))
                   = (IF n = name THEN <<>> ELSE q[n])
      <4>1. CASE n = name
        BY <2>3, <3>1, <4>1, Zenon
      <4>2. CASE n # name
        <5>1. n \in DOMAIN q
          BY <1>8, <4>2, Zenon
        <5> QED
          BY <1>9, <2>3, <4>2, <5>1, Zenon
      <4> QED
        BY <4>1, <4>2, Zenon
    <3>3. Meaning(s, A) = InsertOrAssign(q, name, <<>>)
      BY <1>7, <1>8, <3>2, Zenon DEF Meaning, InsertOrAssign
    <3> QED
      BY <1>1, <1>4, <1>6, <2>2, <2>5, <3>3, Zenon DEF Emplace
  <2> QED
    BY <2>4, <2>5, Zenon
<1> QED
  BY <1>10, <1>11

-----------------------------------------------------------------------------
(* parse_query before its pair k + 1, at place i of the query.             *)
Reached(s, ps, g, out, k, i) ==
  /\ i \in 1..(Len(s) + 1) /\ (i = 1 \/ s[i - 1] = Amp)
  /\ Len(g[i]) = Len(ps) - k /\ \A j \in 1..Len(g[i]) : g[i][j] = ps[k + j]
  /\ out[k] = Meaning(s, {r \in Runs(s, Amp) : r[1] < i})

(* Reading the piece up to e adds its run, if it is not empty.             *)
LEMMA PieceRead ==
  ASSUME NEW s \in Seq(Int), NEW b, NEW e, Segment(s, Amp, b, e), NEW R, NEW A,
         R = {r \in Runs(s, Amp) : r[1] < b}, A = {r \in Runs(s, Amp) : r[1] < e + 2}
  PROVE  Meaning(s, A) = ReadPair(Meaning(s, R), SubSeq(s, b, e))
<1>1. PICK n \in Nat : n = Len(s)
  OBVIOUS
<1>2. b \in 1..(n + 1) /\ e \in 0..n /\ e >= b - 1
  BY <1>1 DEF Segment
<1>3. ASSUME NEW r \in Runs(s, Amp)
      PROVE  /\ r[1] \in Nat /\ r[1] <= n
             /\ r[1] >= b /\ r[1] < e + 2 => r = <<b, e>> /\ b <= e
  <2>1. r = <<r[1], r[2]>> /\ Run(s, Amp, r[1], r[2])
    BY RunsAre
  <2>2. PICK x, y : x = r[1] /\ y = r[2]
    OBVIOUS
  <2>3. Run(s, Amp, x, y) /\ r = <<x, y>>
    BY <2>1, <2>2, Zenon
  <2>4. x \in 1..n /\ y \in 1..n /\ x <= y
    BY <1>1, <2>3 DEF Run
  <2>5. x >= b /\ x <= e + 1 => x = b /\ y = e
    <3>1. Aligned(b, e, x, y)
      BY <2>3, RunAtSegment, Zenon
    <3> QED
      BY <3>1, Zenon DEF Aligned
  <2> QED
    BY <1>2, <2>2, <2>3, <2>4, <2>5
<1>4. CASE b <= e
  <2>1. Run(s, Amp, b, e)
    BY <1>1, <1>2, <1>4 DEF Segment, Run
  <2>2. PICK r : r = <<b, e>>
    OBVIOUS
  <2>3. r \in Runs(s, Amp) /\ r[1] = b /\ r[2] = e
    BY <2>1, <2>2, RunsAre
  <2>4. A = R \cup {r}
    <3>1. ASSUME NEW o \in Runs(s, Amp) PROVE o[1] < e + 2 <=> o[1] < b \/ o = r
      BY <1>2, <1>3, <1>4, <2>2, <2>3
    <3> QED
      BY <2>3, <3>1, Zenon
  <2>5. r[1] \in Nat /\ \A o \in R : o[1] \in Nat /\ o[1] < r[1]
    BY <1>2, <1>3, <2>3
  <2>6. Piece(s, r) = SubSeq(s, b, e)
    BY <2>3, Zenon DEF Piece
  <2>7. SubSeq(s, b, e) \in Seq(Int) /\ SubSeq(s, b, e) # <<>>
    <3>1. /\ SubSeq(s, b, e) \in Seq(Int)
          /\ Len(SubSeq(s, b, e)) = (IF b <= e THEN e - b + 1 ELSE 0)
      BY <1>1, <1>2, SubTextFacts
    <3>2. Len(SubSeq(s, b, e)) # 0
      BY <1>2, <1>4, <3>1
    <3> QED
      BY <3>1, <3>2
  <2> QED
    <3>1. Piece(s, r) \in Seq(Int) /\ Piece(s, r) # <<>>
      BY <2>6, <2>7, Zenon
    <3>2. Meaning(s, R \cup {r}) = ReadPair(Meaning(s, R), Piece(s, r))
      BY <2>5, <3>1, PairAdds, Zenon
    <3> QED
      BY <2>4, <2>6, <3>2, Zenon
<1>5. CASE ~(b <= e)
  <2>1. A = R
    <3>1. ASSUME NEW o \in Runs(s, Amp) PROVE o[1] < e + 2 <=> o[1] < b
      BY <1>2, <1>3, <1>5
    <3> QED
      BY <3>1, Zenon
  <2>2. SubSeq(s, b, e) = <<>>
    <3>1. /\ SubSeq(s, b, e) \in Seq(Int)
          /\ Len(SubSeq(s, b, e)) = (IF b <= e THEN e - b + 1 ELSE 0)
      BY <1>1, <1>2, SubTextFacts
    <3>2. Len(SubSeq(s, b, e)) = 0
      BY <1>5, <3>1
    <3> QED
      BY <3>1, <3>2
  <2> QED
    BY <2>1, <2>2, Zenon DEF ReadPair
<1> QED
  BY <1>4, <1>5

(* One turn of parse_query's loop.                                         *)
LEMMA TurnRead ==
  ASSUME NEW s \in Seq(Int), NEW ps \in Seq(Seq(Int)), NEW g \in [1..(Len(s) + 1) -> Seq(Seq(Int))],
         \A i \in 1..(Len(s) + 1) : g[i] = PairsFrom(s, g, i),
         NEW out, \A k \in 1..Len(ps) : out[k] = ReadPair(out[k - 1], ps[k]),
         NEW k \in 0..Len(ps), NEW i, Reached(s, ps, g, out, k, i)
  PROVE  /\ k + 1 <= Len(ps)
         /\ \/ k + 1 = Len(ps) /\ out[k + 1] = Meaning(s, Runs(s, Amp))
            \/ \E l : Reached(s, ps, g, out, k + 1, l)
<1>1. PICK n \in Nat, m \in Nat : n = Len(s) /\ m = Len(ps)
  OBVIOUS
<1>2. i \in 1..(n + 1) /\ (i = 1 \/ s[i - 1] = Amp)
  BY <1>1 DEF Reached
<1>a. PICK e : Segment(s, Amp, i, e) /\ Ending(s, Amp, i, e)
  <2>1. i \in 1..(Len(s) + 1) /\ i \in i..(Len(s) + 1) /\ \A j \in i..(i - 1) : s[j] # Amp
    BY <1>1, <1>2
  <2> QED
    BY <1>2, <2>1, UpToSegment, Zenon
<1>3. /\ e \in 0..n /\ e >= i - 1 /\ UpTo(s, Amp, i) = SubSeq(s, i, e)
      /\ FindFrom(s, Amp, i) = 0 => e = n
      /\ FindFrom(s, Amp, i) # 0 => FindFrom(s, Amp, i) = e + 1 /\ e + 1 <= n /\ s[e + 1] = Amp
  BY <1>1, <1>a, Zenon DEF Ending
<1>4. PICK p : p = SubSeq(s, i, e)
  OBVIOUS
<1>5. PICK rest \in Seq(Seq(Int)) :
        /\ g[i] = <<p>> \o rest
        /\ rest = IF FindFrom(s, Amp, i) = 0 THEN <<>> ELSE g[FindFrom(s, Amp, i) + 1]
  <2>1. g[i] = <<p>> \o IF FindFrom(s, Amp, i) = 0 THEN <<>> ELSE g[FindFrom(s, Amp, i) + 1]
    BY <1>1, <1>2, <1>3, <1>4, Zenon DEF PairsFrom
  <2>2. CASE FindFrom(s, Amp, i) = 0
    <3>1. <<>> \in Seq(Seq(Int))
      OBVIOUS
    <3> QED
      BY <2>1, <2>2, <3>1, Zenon
  <2>3. CASE FindFrom(s, Amp, i) # 0
    <3>1. FindFrom(s, Amp, i) + 1 \in 1..(n + 1)
      BY <1>3, <2>3
    <3>2. g[FindFrom(s, Amp, i) + 1] \in Seq(Seq(Int))
      BY <1>1, <3>1, Zenon
    <3> QED
      BY <2>1, <2>3, <3>2, Zenon
  <2> QED
    BY <2>2, <2>3, Zenon
<1>6. p \in Seq(Int)
  BY <1>1, <1>2, <1>3, <1>4, SubTextFacts
<1>7. /\ Len(g[i]) = 1 + Len(rest) /\ g[i][1] = p
      /\ \A j \in 1..Len(rest) : g[i][1 + j] = rest[j]
  <2>1. PICK a \in Seq(Seq(Int)) : a = <<p>> /\ Len(a) = 1 /\ a[1] = p
    <3>1. \A V : \A x \in V : <<x>> \in Seq(V) /\ Len(<<x>>) = 1 /\ <<x>>[1] = x
      OBVIOUS
    <3>2. <<p>> \in Seq(Seq(Int)) /\ Len(<<p>>) = 1 /\ <<p>>[1] = p
      BY <1>6, <3>1, Zenon
    <3> QED
      BY <3>2, Zenon
  <2>2. Joined(a, rest, a \o rest)
    BY ConcatJoins, Zenon
  <2>3. PICK d : d = g[i] /\ d = a \o rest
    BY <1>5, <2>1, Zenon
  <2>4. Joined(a, rest, d)
    BY <2>2, <2>3, Zenon
  <2>5. 1 \in 1..1
    OBVIOUS
  <2> QED
    BY <2>1, <2>3, <2>4, <2>5, Zenon DEF Joined
<1>8. /\ Len(g[i]) = m - k /\ \A j \in 1..Len(g[i]) : g[i][j] = ps[k + j]
      /\ out[k] = Meaning(s, {r \in Runs(s, Amp) : r[1] < i})
  BY <1>1, Zenon DEF Reached
<1>9. PICK c \in Nat : c = Len(rest)
  OBVIOUS
<1>10. k + 1 <= m /\ c = m - (k + 1) /\ k \in Nat
  <2>1. 1 + c = m - k
    BY <1>7, <1>8, <1>9, Zenon
  <2>2. k \in 0..m
    BY <1>1
  <2> QED
    BY <2>1, <2>2
<1>11. p = ps[k + 1] /\ \A j \in 1..c : rest[j] = ps[(k + 1) + j]
  <2>1. 1 \in 1..(1 + c) /\ \A j \in 1..c : 1 + j \in 1..(1 + c) /\ k + (1 + j) = (k + 1) + j
    BY <1>10
  <2>2. Len(g[i]) = 1 + c
    BY <1>7, <1>9
  <2>3. p = ps[k + 1]
    BY <1>7, <1>8, <2>1, <2>2
  <2>4. ASSUME NEW j \in 1..c PROVE rest[j] = ps[(k + 1) + j]
    <3>1. g[i][1 + j] = rest[j] /\ g[i][1 + j] = ps[k + (1 + j)] /\ k + (1 + j) = (k + 1) + j
      BY <1>7, <1>8, <1>9, <2>1, <2>2, Zenon
    <3> QED
      BY <3>1, Zenon
  <2> QED
    BY <2>3, <2>4
<1>12. out[k + 1] = ReadPair(out[k], ps[k + 1])
  <2>1. k + 1 \in 1..m /\ (k + 1) - 1 = k
    BY <1>10
  <2> QED
    BY <1>1, <2>1
<1>13. out[k + 1] = Meaning(s, {r \in Runs(s, Amp) : r[1] < e + 2})
  <2>1. PICK R, A : R = {r \in Runs(s, Amp) : r[1] < i} /\ A = {r \in Runs(s, Amp) : r[1] < e + 2}
    OBVIOUS
  <2>2. Meaning(s, A) = ReadPair(Meaning(s, R), p)
    BY <1>a, <1>4, <2>1, PieceRead, Zenon
  <2>3. out[k] = Meaning(s, R) /\ out[k + 1] = ReadPair(out[k], p)
    BY <1>8, <1>11, <1>12, <2>1, Zenon
  <2> QED
    BY <2>1, <2>2, <2>3, Zenon
<1>14. CASE FindFrom(s, Amp, i) = 0
  <2>1. rest = <<>>
    BY <1>5, <1>14, Zenon
  <2>2. k + 1 = m
    <3>1. Len(<<>>) = 0
      OBVIOUS
    <3>2. c = 0
      BY <1>9, <2>1, <3>1, Zenon
    <3> QED
      BY <1>10, <3>2
  <2>3. \A r \in Runs(s, Amp) : r[1] < e + 2
    <3> SUFFICES ASSUME NEW r \in Runs(s, Amp) PROVE r[1] < e + 2
      OBVIOUS
    <3>1. Run(s, Amp, r[1], r[2])
      BY RunsAre
    <3>2. r[1] \in 1..n
      BY <1>1, <3>1 DEF Run
    <3> QED
      BY <1>3, <1>14, <3>2
  <2>4. {r \in Runs(s, Amp) : r[1] < e + 2} = Runs(s, Amp)
    BY <2>3, Zenon
  <2> QED
    BY <1>1, <1>10, <1>13, <2>2, <2>4
<1>15. CASE FindFrom(s, Amp, i) # 0
  <2>1. PICK l : l = e + 2
    OBVIOUS
  <2>2. FindFrom(s, Amp, i) + 1 = l /\ l \in 1..(n + 1) /\ l - 1 = e + 1 /\ s[l - 1] = Amp
    BY <1>3, <1>15, <2>1
  <2>3. g[l] = rest
    BY <1>5, <1>15, <2>2, Zenon
  <2>4. Len(g[l]) = m - (k + 1) /\ \A j \in 1..Len(g[l]) : g[l][j] = ps[(k + 1) + j]
    BY <1>9, <1>10, <1>11, <2>3, Zenon
  <2>5. out[k + 1] = Meaning(s, {r \in Runs(s, Amp) : r[1] < l})
    BY <1>13, <2>1, Zenon
  <2>6. Reached(s, ps, g, out, k + 1, l)
    BY <1>1, <2>2, <2>4, <2>5, Zenon DEF Reached
  <2> QED
    BY <1>1, <1>10, <2>6, Zenon
<1> QED
  BY <1>14, <1>15

(* parse_query reads every query as it is meant.                           *)
LEMMA ParsesAsMeant ==
  ASSUME NEW s \in Seq(Int)
  PROVE  ParseQuery(s) = QueryMeaning(s)
<1>1. PICK n \in Nat : n = Len(s)
  OBVIOUS
<1>2. PICK g \in [1..(Len(s) + 1) -> Seq(Seq(Int))] :
        Pairs(s) = g[1] /\ \A i \in 1..(Len(s) + 1) : g[i] = PairsFrom(s, g, i)
  BY PairsFacts
<1>3. PICK ps \in Seq(Seq(Int)) : ps = Pairs(s) /\ ps = g[1]
  <2>1. 1 \in 1..(Len(s) + 1)
    BY <1>1
  <2> QED
    BY <1>2, <2>1, Zenon
<1>4. PICK out : /\ out[0] = <<>>
                 /\ \A k \in 1..Len(ps) : out[k] = ReadPair(out[k - 1], ps[k])
                 /\ ParseQuery(s) = out[Len(ps)]
  BY <1>3, ParseFacts, Zenon
<1>5. PICK m \in Nat : m = Len(ps)
  OBVIOUS
<1> DEFINE H == {k \in 0..m : \/ k = m /\ out[k] = Meaning(s, Runs(s, Amp))
                              \/ \E i : Reached(s, ps, g, out, k, i)}
<1>6. 0 \in H
  <2>1. 1 \in 1..(n + 1) /\ Len(g[1]) = m - 0 /\ \A j \in 1..Len(g[1]) : g[1][j] = ps[0 + j]
    BY <1>3, <1>5
  <2>2. {r \in Runs(s, Amp) : r[1] < 1} = {}
    <3>1. ASSUME NEW r \in Runs(s, Amp) PROVE ~(r[1] < 1)
      <4>1. Run(s, Amp, r[1], r[2])
        BY RunsAre
      <4>2. r[1] \in 1..n
        BY <1>1, <4>1 DEF Run
      <4> QED
        BY <4>2
    <3> QED
      BY <3>1, Zenon
  <2>3. out[0] = Meaning(s, {r \in Runs(s, Amp) : r[1] < 1})
    BY <1>4, <2>2, NoMeaning, Zenon
  <2>4. Reached(s, ps, g, out, 0, 1)
    BY <1>1, <1>5, <2>1, <2>3, Zenon DEF Reached
  <2> QED
    BY <2>4
<1>7. ASSUME NEW k \in 0..m, k \in H, k < m PROVE k + 1 \in H
  <2>1. PICK i : Reached(s, ps, g, out, k, i)
    BY <1>7
  <2>2. \/ k + 1 = m /\ out[k + 1] = Meaning(s, Runs(s, Amp))
        \/ \E l : Reached(s, ps, g, out, k + 1, l)
    BY <1>2, <1>4, <1>5, <2>1, TurnRead, Zenon
  <2> QED
    BY <1>7, <2>2
<1>8. m \in H
  <2> HIDE DEF H
  <2>1. \A k \in 0..m : k \in H
    BY <1>6, <1>7, Induction
  <2> QED
    BY <2>1
<1>9. out[m] = Meaning(s, Runs(s, Amp))
  <2>1. ASSUME NEW i, Reached(s, ps, g, out, m, i) PROVE FALSE
    <3>1. m \in 0..Len(ps)
      BY <1>5
    <3>2. m + 1 <= m
      BY <1>2, <1>4, <1>5, <2>1, <3>1, TurnRead, Zenon
    <3> QED
      BY <3>2
  <2> QED
    BY <1>8, <2>1
<1> QED
  BY <1>4, <1>5, <1>9, QueryMeaningIs, Zenon

-----------------------------------------------------------------------------
(* cookie_value's answer from place i on, when g gives the later ones.     *)
CookieFrom(s, name, g, i) ==
  IF i > Len(s) THEN <<>>
  ELSE IF s[i] \in {Space, Semi} THEN g[i + 1]
  ELSE IF Named(UpTo(s, Semi, i), name)
  THEN From(UpTo(s, Semi, i), Find(UpTo(s, Semi, i), Eq) + 1)
  ELSE IF FindFrom(s, Semi, i) = 0 THEN <<>> ELSE g[FindFrom(s, Semi, i) + 1]

(* It is a text and depends on later places only.                          *)
LEMMA CookieStep ==
  ASSUME NEW s \in Seq(Int), NEW name, NEW i \in 1..(Len(s) + 1), NEW g,
         \A j \in 1..(Len(s) + 1) : j > i => g[j] \in Seq(Int)
  PROVE  /\ CookieFrom(s, name, g, i) \in Seq(Int)
         /\ \A h : (\A j \in 1..(Len(s) + 1) : j > i => g[j] = h[j])
                     => CookieFrom(s, name, g, i) = CookieFrom(s, name, h, i)
<1>1. PICK n \in Nat : n = Len(s)
  OBVIOUS
<1>2. PICK f : f = FindFrom(s, Semi, i)
  OBVIOUS
<1>3. i \in Nat /\ i >= 1
  BY <1>1
<1>4. f = 0 \/ f \in i..n
  BY <1>1, <1>2, <1>3, FindFacts, Zenon
<1>5. <<>> \in Seq(Int)
  OBVIOUS
<1>6. CASE i > n
  BY <1>1, <1>5, <1>6, Zenon DEF CookieFrom
<1>7. CASE ~(i > n) /\ s[i] \in {Space, Semi}
  <2>1. i + 1 \in 1..(n + 1) /\ i + 1 > i
    BY <1>1, <1>7
  <2>2. \A h : CookieFrom(s, name, h, i) = h[i + 1]
    BY <1>1, <1>7, Zenon DEF CookieFrom
  <2> QED
    BY <1>1, <2>1, <2>2, Zenon
<1>8. CASE ~(i > n) /\ s[i] \notin {Space, Semi} /\ Named(UpTo(s, Semi, i), name)
  <2>1. PICK p \in Seq(Int) : p = UpTo(s, Semi, i)
    BY <1>3, UpToFacts, Zenon
  <2>2. \A h : CookieFrom(s, name, h, i) = From(p, Find(p, Eq) + 1)
    BY <1>1, <1>8, <2>1, Zenon DEF CookieFrom
  <2>3. From(p, Find(p, Eq) + 1) \in Seq(Int)
    <3>1. PICK o \in Nat, l \in Nat : o = 1 /\ l = Len(p)
      OBVIOUS
    <3>2. o >= 1 /\ Find(p, Eq) = FindFrom(p, Eq, o) /\ l <= Len(p)
      BY <3>1 DEF Find
    <3>3. FindFrom(p, Eq, o) = 0 \/ FindFrom(p, Eq, o) \in o..Len(p)
      BY <3>2, FindFacts, Zenon
    <3>4. PICK a \in Nat : a >= 1 /\ a = Find(p, Eq) + 1
      BY <3>1, <3>2, <3>3
    <3>5. SubSeq(p, a, l) \in Seq(Int)
      BY <3>2, <3>4, SubTextFacts, Zenon
    <3> QED
      BY <3>1, <3>4, <3>5, Zenon DEF From
  <2> QED
    BY <2>2, <2>3, Zenon
<1>9. CASE ~(i > n) /\ s[i] \notin {Space, Semi} /\ ~Named(UpTo(s, Semi, i), name)
  <2>1. \A h : CookieFrom(s, name, h, i) = IF f = 0 THEN <<>> ELSE h[f + 1]
    BY <1>1, <1>2, <1>9, Zenon DEF CookieFrom
  <2>2. CASE f = 0
    BY <1>5, <2>1, <2>2, Zenon
  <2>3. CASE f # 0
    <3>1. f + 1 \in 1..(n + 1) /\ f + 1 > i
      BY <1>1, <1>4, <2>3
    <3> QED
      BY <1>1, <2>1, <2>3, <3>1, Zenon
  <2> QED
    BY <2>2, <2>3
<1> QED
  BY <1>6, <1>7, <1>8, <1>9

(* What cookie_value returns is the answer from the first place on.        *)
LEMMA CookieFacts ==
  ASSUME NEW s \in Seq(Int), NEW name
  PROVE  \E g \in [1..(Len(s) + 1) -> Seq(Int)] :
           /\ CookieValue(s, name) = g[1]
           /\ \A i \in 1..(Len(s) + 1) : g[i] = CookieFrom(s, name, g, i)
<1>1. PICK N \in Nat : N = Len(s) + 1
  OBVIOUS
<1> DEFINE V == Seq(Int)
           F == [i \in 1..N |-> [g \in [1..N -> V] |-> CookieFrom(s, name, g, i)]]
<1>2. CookieValue(s, name) = (CHOOSE g : g = [i \in 1..N |-> CookieFrom(s, name, g, i)])[1]
  BY <1>1, Zenon DEF CookieValue, CookieFrom
<1>3. ASSUME NEW i \in 1..N, NEW g \in [1..N -> V]
      PROVE  /\ F[i][g] = CookieFrom(s, name, g, i)
             /\ CookieFrom(s, name, g, i) \in V
             /\ \A h : (\A j \in 1..N : j > i => g[j] = h[j])
                         => CookieFrom(s, name, g, i) = CookieFrom(s, name, h, i)
  <2>1. F[i][g] = CookieFrom(s, name, g, i)
    OBVIOUS
  <2>2. \A j \in 1..N : j > i => g[j] \in Seq(Int)
    OBVIOUS
  <2> HIDE DEF F
  <2>3. /\ CookieFrom(s, name, g, i) \in Seq(Int)
        /\ \A h : (\A j \in 1..N : j > i => g[j] = h[j])
                     => CookieFrom(s, name, g, i) = CookieFrom(s, name, h, i)
    BY <1>1, <2>2, CookieStep, Zenon
  <2> QED
    BY <2>1, <2>3, Zenon
<1> HIDE DEF F
<1>4. FromTheEnd(F, N, V)
  <2> HIDE DEF V
  <2>1. ASSUME NEW i \in 1..N, NEW g \in [1..N -> V],
               NEW h \in [1..N -> V], \A j \in 1..N : j > i => g[j] = h[j]
        PROVE  F[i][g] \in V /\ F[i][g] = F[i][h]
    <3>1. /\ F[i][g] = CookieFrom(s, name, g, i)
          /\ F[i][h] = CookieFrom(s, name, h, i)
          /\ CookieFrom(s, name, g, i) \in V
      BY <1>3, Zenon
    <3>2. CookieFrom(s, name, g, i) = CookieFrom(s, name, h, i)
      BY <1>3, <2>1, Zenon
    <3> QED
      BY <3>1, <3>2, Zenon
  <2> QED
    BY <2>1, Zenon DEF FromTheEnd
<1>5. <<>> \in V
  OBVIOUS
<1>6. PICK g \in [1..N -> V] : \A i \in 1..N : g[i] = F[i][g]
  <2> HIDE DEF V
  <2> QED
    BY <1>4, <1>5, RecursionFromTheEnd
<1>7. g = [i \in 1..N |-> CookieFrom(s, name, g, i)]
  BY <1>3, <1>6
<1>8. PICK f : f = CHOOSE h : h = [i \in 1..N |-> CookieFrom(s, name, h, i)]
  OBVIOUS
<1>9. f = [i \in 1..N |-> CookieFrom(s, name, f, i)]
  BY <1>7, <1>8, Zenon
<1> DEFINE H == {i \in 1..N : f[i] \in V}
<1>10. ASSUME NEW k \in 1..N, \A j \in 1..N : j > k => j \in H PROVE k \in H
  <2>1. \A j \in 1..N : j > k => f[j] \in Seq(Int)
    BY <1>10
  <2>2. CookieFrom(s, name, f, k) \in Seq(Int)
    BY <1>1, <2>1, CookieStep
  <2> QED
    BY <1>9, <2>2
<1>11. \A k \in 1..N : k \in H
  <2> HIDE DEF H
  <2> QED
    BY <1>10, InductionFromTheEnd
<1>12. f \in [1..N -> V]
  BY <1>9, <1>11
<1> QED
  BY <1>1, <1>2, <1>8, <1>9, <1>12, ZenonT(60)

-----------------------------------------------------------------------------
(* Where a cookie starts, and whether it has the name.                     *)
CookieStart(s, r) == CHOOSE i \in r[1]..r[2] : s[i] # Space /\ \A j \in r[1]..(i - 1) : s[j] = Space
Match(s, name, r) ==
  r[2] > CookieStart(s, r) /\ s[CookieStart(s, r)] = name /\ s[CookieStart(s, r) + 1] = Eq

(* The cookies of that name, and what the first of some says.              *)
Cookies(s, name) ==
  {r \in {r \in Runs(s, Semi) : \E i \in r[1]..r[2] : s[i] # Space} : Match(s, name, r)}
First(F) == CHOOSE r \in F : \A o \in F : r[1] <= o[1]
Said(s, F) == IF F = {} THEN <<>> ELSE SubSeq(s, CookieStart(s, First(F)) + 2, First(F)[2])

(* CookieMeaning is what all of them say.                                  *)
LEMMA CookieMeaningIs ==
  ASSUME NEW s, NEW name PROVE CookieMeaning(s, name) = Said(s, Cookies(s, name))
BY Zenon DEF CookieMeaning, Said, First, Cookies, Match, CookieStart

(* A cookie starts at its first byte that is not blank.                    *)
LEMMA StartIs ==
  ASSUME NEW s, NEW b \in Nat, NEW i \in Nat, NEW e \in Nat, b <= i, i <= e,
         s[i] # Space, \A j \in b..(i - 1) : s[j] = Space
  PROVE  CookieStart(s, <<b, e>>) = i
<1>1. PICK r : r = <<b, e>>
  OBVIOUS
<1>2. r[1] = b /\ r[2] = e
  BY <1>1
<1>3. i \in b..e
  OBVIOUS
<1>4. ASSUME NEW k \in b..e, s[k] # Space, \A j \in b..(k - 1) : s[j] = Space PROVE k = i
  <2>1. ~(k < i)
    BY <1>4
  <2>2. ~(i < k)
    BY <1>4
  <2> QED
    BY <2>1, <2>2
<1> QED
  BY <1>1, <1>2, <1>3, <1>4, Zenon DEF CookieStart

(* A pair has a name of one byte if an = follows it.                       *)
LEMMA NamedIs ==
  ASSUME NEW p \in Seq(Int), NEW name \in Int, name # Eq
  PROVE  /\ Named(p, name) <=> Len(p) >= 2 /\ p[1] = name /\ p[2] = Eq
         /\ Named(p, name) => Find(p, Eq) = 2
<1>1. PICK o \in Nat, n \in Nat : o = 1 /\ n = Len(p)
  OBVIOUS
<1>2. PICK f : f = Find(p, Eq) /\ f = FindFrom(p, Eq, o)
  BY <1>1 DEF Find
<1>3. \/ f = 0 /\ \A j \in o..n : p[j] # Eq
      \/ f \in o..n /\ p[f] = Eq /\ \A j \in o..(f - 1) : p[j] # Eq
  <2>1. o >= 1
    BY <1>1
  <2>2. \/ FindFrom(p, Eq, o) = 0 /\ \A j \in o..Len(p) : p[j] # Eq
        \/ /\ FindFrom(p, Eq, o) \in o..Len(p) /\ p[FindFrom(p, Eq, o)] = Eq
           /\ \A j \in o..(FindFrom(p, Eq, o) - 1) : p[j] # Eq
    BY <2>1, FindFacts, Zenon
  <2> QED
    BY <1>1, <1>2, <2>2
<1>4. ASSUME Named(p, name) PROVE f = 2 /\ n >= 2 /\ p[1] = name /\ p[2] = Eq
  <2>1. f # 0 /\ Before(p, f) = <<name>>
    BY <1>2, <1>4, Zenon DEF Named
  <2>2. PICK m \in Nat : m = f - 1 /\ m <= n
    BY <1>1, <1>3, <2>1
  <2>3. SubSeq(p, 1, m) = <<name>>
    BY <2>1, <2>2, Zenon DEF Before
  <2>4. /\ Len(SubSeq(p, 1, m)) = (IF 1 <= m THEN m - 1 + 1 ELSE 0)
        /\ \A k \in 1..Len(SubSeq(p, 1, m)) : SubSeq(p, 1, m)[k] = p[1 + k - 1]
    BY <1>1, <2>2, SubTextFacts
  <2>5. Len(<<name>>) = 1 /\ <<name>>[1] = name
    OBVIOUS
  <2>6. (IF 1 <= m THEN m - 1 + 1 ELSE 0) = 1
    BY <2>3, <2>4, <2>5, Zenon
  <2>7. p[1] = name
    <3>1. 1 \in 1..1 /\ 1 + 1 - 1 = 1
      OBVIOUS
    <3>2. <<name>>[1] = p[1 + 1 - 1]
      BY <2>3, <2>4, <2>5, <3>1, Zenon
    <3> QED
      BY <2>5, <3>1, <3>2, Zenon
  <2>8. m = 1
    BY <2>6
  <2> QED
    BY <1>1, <1>3, <2>1, <2>2, <2>7, <2>8
<1>5. ASSUME n >= 2, p[1] = name, p[2] = Eq PROVE Named(p, name)
  <2>1. f = 2
    BY <1>1, <1>3, <1>5
  <2>2. f # 0 /\ f - 1 = 1
    BY <2>1
  <2>3. SubSeq(p, 1, 1) = <<p[1]>>
    <3>1. 1 \in 1..Len(p)
      BY <1>1, <1>5
    <3> QED
      BY <3>1, SubSeqOne, Zenon
  <2>4. Before(p, f) = <<name>>
    BY <1>5, <2>2, <2>3, Zenon DEF Before
  <2> QED
    BY <1>2, <2>2, <2>4, Zenon DEF Named
<1> QED
  BY <1>1, <1>2, <1>4, <1>5

-----------------------------------------------------------------------------
(* cookie_value is at i, with only blanks since the start b of the piece.  *)
Fresh(s, b, i) ==
  /\ b \in 1..(Len(s) + 1) /\ i \in b..(Len(s) + 1)
  /\ b = 1 \/ s[b - 1] = Semi
  /\ \A j \in b..(i - 1) : s[j] = Space

(* The cookies of the name that end at i or later.                         *)
Later(s, name, i) == {r \in Cookies(s, name) : r[2] >= i}

(* Skipping a blank or a separator skips no cookie.                        *)
LEMMA SkipKeeps ==
  ASSUME NEW s \in Seq(Int), NEW name, NEW b, NEW i, Fresh(s, b, i), i <= Len(s),
         s[i] \in {Space, Semi}
  PROVE  /\ Later(s, name, i) = Later(s, name, i + 1)
         /\ \E l : Fresh(s, l, i + 1)
<1>1. PICK n \in Nat : n = Len(s)
  OBVIOUS
<1>2. b \in 1..(n + 1) /\ i \in b..n
  BY <1>1 DEF Fresh
<1>3. ASSUME NEW r \in Cookies(s, name) PROVE r[2] >= i <=> r[2] >= i + 1
  <2>1. r \in Runs(s, Semi) /\ \E x \in r[1]..r[2] : s[x] # Space
    BY Zenon DEF Cookies
  <2>2. Run(s, Semi, r[1], r[2])
    BY <2>1, RunsAre, Zenon
  <2>3. PICK u, v : u = r[1] /\ v = r[2]
    OBVIOUS
  <2>4. u \in 1..n /\ v \in 1..n /\ u <= v /\ \A k \in u..v : s[k] # Semi
    BY <1>1, <2>2, <2>3 DEF Run
  <2>5. ASSUME v = i PROVE FALSE
    <3>1. s[i] # Semi
      BY <2>4, <2>5
    <3>2. s[i] = Space
      BY <3>1
    <3>3. PICK x \in u..v : s[x] # Space
      BY <2>1, <2>3, Zenon
    <3>4. x < b
      BY <1>2, <2>4, <2>5, <3>2, <3>3 DEF Fresh
    <3>5. b # 1 /\ b - 1 \in u..v
      BY <1>2, <2>4, <2>5, <3>4
    <3> QED
      BY <2>4, <3>5 DEF Fresh
  <2> QED
    BY <1>2, <2>3, <2>4, <2>5
<1>4. \E l : Fresh(s, l, i + 1)
  <2>1. CASE s[i] = Semi
    <3>1. PICK l : l = i + 1
      OBVIOUS
    <3>2. /\ l \in 1..(n + 1) /\ l \in l..(n + 1) /\ s[l - 1] = Semi
          /\ \A j \in l..(l - 1) : s[j] = Space
      BY <1>2, <2>1, <3>1
    <3>3. Fresh(s, l, l)
      BY <1>1, <3>2, Zenon DEF Fresh
    <3> QED
      BY <3>1, <3>3, Zenon
  <2>2. CASE s[i] = Space
    <3>1. Fresh(s, b, i + 1)
      <4>1. i + 1 \in b..(n + 1)
        BY <1>2
      <4>2. \A j \in b..((i + 1) - 1) : s[j] = Space
        BY <1>2, <2>2 DEF Fresh
      <4> QED
        BY <1>1, <4>1, <4>2, Zenon DEF Fresh
    <3> QED
      BY <3>1, Zenon
  <2> QED
    BY <2>1, <2>2
<1>5. Later(s, name, i) = Later(s, name, i + 1)
  BY <1>3, Zenon DEF Later
<1> QED
  BY <1>4, <1>5, Zenon

(* The piece a cookie starts in at i: it is the first of the rest, and one *)
(* of the name if the pair read has it.                                    *)
Here(s, name, b, i, e) ==
  /\ CookieStart(s, <<b, e>>) = i
  /\ <<b, e>> \in Cookies(s, name) <=> Named(SubSeq(s, i, e), name)
  /\ \A o \in Later(s, name, i) :
       /\ o[1] \in Nat /\ o[2] \in Nat /\ o[1] >= b /\ o[1] <= o[2] /\ o[2] <= Len(s)
       /\ o[1] <= e + 1 => o = <<b, e>>

(* Behind the blanks a cookie starts.                                      *)
LEMMA CookieHere ==
  ASSUME NEW s \in Seq(Int), NEW name \in Int, name # Eq, NEW b, NEW i, NEW e,
         Fresh(s, b, i), i <= e, Segment(s, Semi, b, e), s[i] # Space
  PROVE  Here(s, name, b, i, e)
<1>1. PICK n \in Nat : n = Len(s)
  OBVIOUS
<1>2. b \in 1..(n + 1) /\ i \in b..(n + 1) /\ e \in 0..n /\ i \in b..e
  BY <1>1 DEF Fresh, Segment
<1>3. b \in Nat /\ i \in Nat /\ e \in Nat /\ b <= i /\ i <= e /\ b >= 1 /\ i >= 1 /\ e <= n
  BY <1>2
<1>4. \A j \in b..(i - 1) : s[j] = Space
  BY DEF Fresh
<1>5. CookieStart(s, <<b, e>>) = i
  BY <1>3, <1>4, StartIs, ZenonT(60)
<1>6. Run(s, Semi, b, e)
  <2>1. b \in 1..n /\ e \in 1..n /\ b <= e
    BY <1>2
  <2> QED
    BY <1>1, <2>1, Zenon DEF Segment, Run
<1>7. PICK r : r = <<b, e>> /\ r[1] = b /\ r[2] = e
  <2>1. <<b, e>>[1] = b /\ <<b, e>>[2] = e
    OBVIOUS
  <2> QED
    BY <2>1, Zenon
<1>8. r \in Runs(s, Semi)
  BY <1>6, <1>7, RunsAre, Zenon
<1>9. \E x \in r[1]..r[2] : s[x] # Space
  BY <1>2, <1>7, Zenon
<1>10. PICK p \in Seq(Int) :
         /\ p = SubSeq(s, i, e) /\ Len(p) = (IF i <= e THEN e - i + 1 ELSE 0)
         /\ \A k \in 1..Len(p) : p[k] = s[i + k - 1]
  <2>1. e <= Len(s)
    BY <1>1, <1>3
  <2>2. /\ SubSeq(s, i, e) \in Seq(Int)
        /\ Len(SubSeq(s, i, e)) = (IF i <= e THEN e - i + 1 ELSE 0)
        /\ \A k \in 1..Len(SubSeq(s, i, e)) : SubSeq(s, i, e)[k] = s[i + k - 1]
    BY <1>3, <2>1, SubTextFacts, Zenon
  <2> QED
    BY <2>2, Zenon
<1>11. Named(p, name) <=> e > i /\ s[i] = name /\ s[i + 1] = Eq
  <2>1. Named(p, name) <=> Len(p) >= 2 /\ p[1] = name /\ p[2] = Eq
    BY NamedIs, Zenon
  <2>2. Len(p) = e - i + 1
    BY <1>3, <1>10
  <2>3. p[1] = s[i]
    <3>1. 1 \in 1..Len(p) /\ i + 1 - 1 = i
      BY <1>3, <2>2
    <3> QED
      BY <1>10, <3>1
  <2>4. e > i => p[2] = s[i + 1]
    <3>1. e > i => 2 \in 1..Len(p) /\ i + 2 - 1 = i + 1
      BY <1>3, <2>2
    <3> QED
      BY <1>10, <3>1
  <2>5. Len(p) >= 2 <=> e > i
    BY <1>3, <2>2
  <2> QED
    BY <2>1, <2>3, <2>4, <2>5, Zenon
<1>12. Match(s, name, r) <=> e > i /\ s[i] = name /\ s[i + 1] = Eq
  BY <1>5, <1>7, Zenon DEF Match
<1>13. r \in Cookies(s, name) <=> Named(p, name)
  BY <1>8, <1>9, <1>11, <1>12, Zenon DEF Cookies
<1>14. ASSUME NEW o \in Later(s, name, i)
       PROVE  /\ o[1] \in Nat /\ o[2] \in Nat /\ o[1] >= b /\ o[1] <= o[2] /\ o[2] <= n
              /\ o[1] <= e + 1 => o = <<b, e>>
  <2>1. o \in Runs(s, Semi) /\ o[2] >= i
    BY Zenon DEF Later, Cookies
  <2>2. o = <<o[1], o[2]>> /\ Run(s, Semi, o[1], o[2])
    BY <2>1, RunsAre, Zenon
  <2>3. PICK x, y : x = o[1] /\ y = o[2] /\ Run(s, Semi, x, y)
    BY <2>2, Zenon
  <2>4. x \in 1..n /\ y \in 1..n /\ x <= y
    BY <1>1, <2>3 DEF Run
  <2>5. (y >= b => x >= b) /\ (x >= b /\ x <= e + 1 => x = b /\ y = e)
    <3>1. Aligned(b, e, x, y)
      BY <2>3, RunAtSegment, Zenon
    <3> QED
      BY <3>1, Zenon DEF Aligned
  <2>6. x >= b
    BY <1>3, <2>1, <2>3, <2>4, <2>5
  <2>7. x <= e + 1 => o = <<b, e>>
    BY <2>2, <2>3, <2>5, <2>6, Zenon
  <2> QED
    BY <2>3, <2>4, <2>6, <2>7
<1> QED
  BY <1>1, <1>5, <1>7, <1>10, <1>13, <1>14, Zenon DEF Here

(* A part of a text, byte by byte.                                         *)
PartOf(s, i, m, x) ==
  /\ x \in Seq(Int) /\ Len(x) = (IF i <= m THEN m - i + 1 ELSE 0)
  /\ \A k \in 1..Len(x) : x[k] = s[i + k - 1]

(* SubSeq takes it.                                                        *)
LEMMA SubTextIsPart ==
  ASSUME NEW s \in Seq(Int), NEW i \in Nat, i >= 1, NEW m \in Nat, m <= Len(s)
  PROVE  PartOf(s, i, m, SubSeq(s, i, m))
BY SubTextFacts, Zenon DEF PartOf

(* What follows the name and the = of a pair that starts at i.             *)
LEMMA PieceRest ==
  ASSUME NEW s \in Seq(Int), NEW i \in Nat, i >= 1, NEW e \in Nat, e <= Len(s), i + 1 <= e
  PROVE  From(SubSeq(s, i, e), 3) = SubSeq(s, i + 2, e)
<1>1. PICK p \in Seq(Int) :
        /\ p = SubSeq(s, i, e) /\ Len(p) = e - i + 1
        /\ \A k \in 1..Len(p) : p[k] = s[i + k - 1]
  <2>1. /\ SubSeq(s, i, e) \in Seq(Int)
        /\ Len(SubSeq(s, i, e)) = (IF i <= e THEN e - i + 1 ELSE 0)
        /\ \A k \in 1..Len(SubSeq(s, i, e)) : SubSeq(s, i, e)[k] = s[i + k - 1]
    BY SubTextIsPart, ZenonT(60) DEF PartOf
  <2>2. (IF i <= e THEN e - i + 1 ELSE 0) = e - i + 1
    OBVIOUS
  <2> QED
    BY <2>1, <2>2, Zenon
<1>2. PICK l \in Nat, m \in Nat, o \in Nat : l = Len(p) /\ m = e - i - 1 /\ o = 3
  BY <1>1
<1>3. l = m + 2 /\ o >= 1 /\ l <= Len(p) /\ l = e - i + 1
  BY <1>1, <1>2
<1>4. PICK x \in Seq(Int) :
        /\ x = SubSeq(p, o, l) /\ Len(x) = (IF o <= l THEN l - o + 1 ELSE 0)
        /\ \A k \in 1..Len(x) : x[k] = p[o + k - 1]
  <2>1. /\ SubSeq(p, o, l) \in Seq(Int)
        /\ Len(SubSeq(p, o, l)) = (IF o <= l THEN l - o + 1 ELSE 0)
        /\ \A k \in 1..Len(SubSeq(p, o, l)) : SubSeq(p, o, l)[k] = p[o + k - 1]
    <3>1. o >= 1 /\ l <= Len(p)
      BY <1>3
    <3>2. PartOf(p, o, l, SubSeq(p, o, l))
      BY <3>1, SubTextIsPart, Zenon
    <3> QED
      BY <3>2, Zenon DEF PartOf
  <2> QED
    BY <2>1, Zenon
<1>5. PICK a \in Nat : a = i + 2 /\ a >= 1
  OBVIOUS
<1>6. PICK y \in Seq(Int) :
        /\ y = SubSeq(s, a, e) /\ Len(y) = (IF a <= e THEN e - a + 1 ELSE 0)
        /\ \A k \in 1..Len(y) : y[k] = s[a + k - 1]
  <2>1. /\ SubSeq(s, a, e) \in Seq(Int)
        /\ Len(SubSeq(s, a, e)) = (IF a <= e THEN e - a + 1 ELSE 0)
        /\ \A k \in 1..Len(SubSeq(s, a, e)) : SubSeq(s, a, e)[k] = s[a + k - 1]
    <3>1. a >= 1
      BY <1>5
    <3>2. PartOf(s, a, e, SubSeq(s, a, e))
      BY <3>1, SubTextIsPart, Zenon
    <3> QED
      BY <3>2, Zenon DEF PartOf
  <2> QED
    BY <2>1, Zenon
<1>7. Len(x) = m /\ Len(y) = m
  <2>1. m = e - i - 1 /\ l = m + 2 /\ o = 3 /\ a = i + 2
    BY <1>2, <1>3, <1>5
  <2>2. (IF o <= l THEN l - o + 1 ELSE 0) = m
    BY <2>1
  <2>3. (IF a <= e THEN e - a + 1 ELSE 0) = m
    BY <2>1
  <2> QED
    BY <1>4, <1>6, <2>2, <2>3, Zenon
<1>8. ASSUME NEW k \in 1..m PROVE x[k] = y[k]
  <2>1. x[k] = p[o + k - 1] /\ y[k] = s[a + k - 1]
    BY <1>4, <1>6, <1>7
  <2>2. o + k - 1 \in 1..Len(p) /\ i + (o + k - 1) - 1 = a + k - 1
    BY <1>2, <1>3, <1>5
  <2>3. p[o + k - 1] = s[i + (o + k - 1) - 1]
    BY <1>1, <2>2, Zenon
  <2> QED
    BY <2>1, <2>2, <2>3, Zenon
<1>9. x = y
  BY <1>7, <1>8
<1>10. From(p, 3) = x
  BY <1>2, <1>4, Zenon DEF From
<1> QED
  BY <1>1, <1>5, <1>6, <1>9, <1>10, Zenon

(* One turn of cookie_value's loop, if the later ones answer right.        *)
LEMMA CookieTurn ==
  ASSUME NEW s \in Seq(Int), NEW name \in Int, name # Eq,
         NEW g, NEW i \in 1..(Len(s) + 1), g[i] = CookieFrom(s, name, g, i),
         \A j \in 1..(Len(s) + 1) : j > i =>
           ((\E l : Fresh(s, l, j)) => g[j] = Said(s, Later(s, name, j))),
         NEW b, Fresh(s, b, i)
  PROVE  g[i] = Said(s, Later(s, name, i))
<1>1. PICK n \in Nat : n = Len(s)
  OBVIOUS
<1>2. i \in 1..(n + 1) /\ b \in 1..(n + 1) /\ i \in b..(n + 1)
  BY <1>1 DEF Fresh
<1>3. CASE i > n
  <2>1. Later(s, name, i) = {}
    <3>1. ASSUME NEW o \in Later(s, name, i) PROVE FALSE
      <4>1. o \in Runs(s, Semi) /\ o[2] >= i
        BY Zenon DEF Later, Cookies
      <4>2. Run(s, Semi, o[1], o[2])
        BY <4>1, RunsAre, Zenon
      <4>3. o[2] \in 1..n
        BY <1>1, <4>2 DEF Run
      <4> QED
        BY <1>2, <1>3, <4>1, <4>3
    <3> QED
      BY <3>1, Zenon
  <2>2. g[i] = <<>>
    BY <1>1, <1>3, Zenon DEF CookieFrom
  <2> QED
    BY <2>1, <2>2, Zenon DEF Said
<1>4. CASE ~(i > n) /\ s[i] \in {Space, Semi}
  <2>1. i <= Len(s) /\ i + 1 \in 1..(Len(s) + 1) /\ i + 1 > i
    BY <1>1, <1>2, <1>4
  <2>2. Later(s, name, i) = Later(s, name, i + 1) /\ \E l : Fresh(s, l, i + 1)
    BY <1>4, <2>1, SkipKeeps, Zenon
  <2>3. g[i] = g[i + 1]
    BY <1>1, <1>4, Zenon DEF CookieFrom
  <2> QED
    BY <2>1, <2>2, <2>3, Zenon
<1>5. CASE ~(i > n) /\ s[i] \notin {Space, Semi}
  <2>1. s[i] # Space /\ s[i] # Semi /\ i \in Nat /\ i >= 1 /\ i <= n
    BY <1>2, <1>5
  <2>2. \A k \in b..(i - 1) : s[k] # Semi
    <3>1. \A k \in b..(i - 1) : s[k] = Space
      BY DEF Fresh
    <3> QED
      BY <3>1 DEF Space, Semi
  <2>3. PICK e : Segment(s, Semi, b, e) /\ Ending(s, Semi, i, e)
    <3>1. b \in 1..(Len(s) + 1) /\ i \in b..(Len(s) + 1) /\ (b = 1 \/ s[b - 1] = Semi)
      BY Zenon DEF Fresh
    <3> QED
      BY <2>2, <3>1, UpToSegment, Zenon
  <2>4. /\ e \in 0..n /\ e >= i - 1 /\ UpTo(s, Semi, i) = SubSeq(s, i, e)
        /\ FindFrom(s, Semi, i) = 0 => e = n
        /\ FindFrom(s, Semi, i) # 0 =>
             FindFrom(s, Semi, i) = e + 1 /\ e + 1 <= n /\ s[e + 1] = Semi
    BY <1>1, <2>3, Zenon DEF Ending
  <2>5. i <= e
    <3>1. ASSUME e = i - 1 PROVE FALSE
      BY <2>1, <2>4, <3>1
    <3> QED
      BY <2>1, <2>4, <3>1
  <2>6. /\ CookieStart(s, <<b, e>>) = i
        /\ <<b, e>> \in Cookies(s, name) <=> Named(SubSeq(s, i, e), name)
        /\ \A o \in Later(s, name, i) :
             /\ o[1] \in Nat /\ o[2] \in Nat /\ o[1] >= b /\ o[1] <= o[2] /\ o[2] <= Len(s)
             /\ o[1] <= e + 1 => o = <<b, e>>
    <3>1. Here(s, name, b, i, e)
      BY <2>1, <2>3, <2>5, CookieHere, Zenon
    <3> QED
      BY <3>1, Zenon DEF Here
  <2>7. PICK p : p = SubSeq(s, i, e) /\ p = UpTo(s, Semi, i)
    BY <2>4, Zenon
  <2>8. CASE Named(p, name)
    <3>1. e \in Nat /\ e <= Len(s) /\ e <= n /\ e \in 0..n
      BY <1>1, <2>4
    <3>2. p \in Seq(Int) /\ Len(p) = (IF i <= e THEN e - i + 1 ELSE 0)
      <4>1. PartOf(s, i, e, SubSeq(s, i, e))
        BY <2>1, <3>1, SubTextIsPart, Zenon
      <4> QED
        BY <2>7, <4>1, Zenon DEF PartOf
    <3>3. Len(p) >= 2 /\ Find(p, Eq) = 2
      BY <2>8, <3>2, NamedIs, Zenon
    <3>4. i + 1 <= e
      BY <2>1, <2>5, <3>1, <3>2, <3>3
    <3>5. g[i] = SubSeq(s, i + 2, e)
      <4>1. g[i] = From(p, Find(p, Eq) + 1)
        BY <1>1, <1>5, <2>7, <2>8, Zenon DEF CookieFrom
      <4>2. Find(p, Eq) + 1 = 3
        BY <3>3
      <4>3. From(SubSeq(s, i, e), 3) = SubSeq(s, i + 2, e)
        BY <2>1, <3>1, <3>4, PieceRest, Zenon
      <4> QED
        BY <2>7, <4>1, <4>2, <4>3, Zenon
    <3>6. PICK r : r = <<b, e>> /\ r[1] = b /\ r[2] = e
      <4>1. <<b, e>>[1] = b /\ <<b, e>>[2] = e
        OBVIOUS
      <4> QED
        BY <4>1, Zenon
    <3>7. r \in Later(s, name, i)
      <4>1. e >= i
        BY <2>1, <2>5, <3>1
      <4> QED
        BY <2>6, <2>7, <2>8, <3>6, <4>1, Zenon DEF Later
    <3>8. PICK F : F = Later(s, name, i)
      OBVIOUS
    <3>9. \A o \in F : o[1] \in Nat /\ r[1] <= o[1] /\ (o[1] <= r[1] => o = r)
      <4> SUFFICES ASSUME NEW o \in F
                   PROVE  o[1] \in Nat /\ r[1] <= o[1] /\ (o[1] <= r[1] => o = r)
        OBVIOUS
      <4>1. o[1] \in Nat /\ o[1] >= b /\ (o[1] <= e + 1 => o = r)
        BY <2>6, <3>6, <3>8, Zenon
      <4> QED
        BY <1>2, <2>1, <2>5, <3>1, <3>6, <4>1
    <3>10. PICK l : l = First(F)
      OBVIOUS
    <3>11. l \in F /\ \A o \in F : l[1] <= o[1]
      BY <3>7, <3>8, <3>9, <3>10, Zenon DEF First
    <3>12. First(F) = r
      BY <3>7, <3>8, <3>9, <3>10, <3>11, Zenon
    <3>13. Said(s, F) = SubSeq(s, i + 2, e)
      <4>1. F # {}
        BY <3>7, <3>8, Zenon
      <4>2. CookieStart(s, First(F)) = i /\ First(F)[2] = e
        BY <2>6, <3>6, <3>12, Zenon
      <4> QED
        BY <4>1, <4>2, Zenon DEF Said
    <3> QED
      BY <3>5, <3>8, <3>13, Zenon
  <2>9. CASE ~Named(p, name)
    <3>1. ASSUME NEW o \in Later(s, name, i) PROVE o[1] > e + 1 /\ o[2] >= o[1] /\ o[2] <= n
      <4>1. o # <<b, e>>
        BY <2>6, <2>7, <2>9, Zenon DEF Later
      <4>2. o[1] \in Nat /\ o[2] \in Nat /\ o[1] <= o[2] /\ o[2] <= n /\ ~(o[1] <= e + 1)
        BY <1>1, <2>6, <4>1, Zenon
      <4> QED
        BY <2>4, <4>2
    <3>2. g[i] = IF FindFrom(s, Semi, i) = 0 THEN <<>> ELSE g[FindFrom(s, Semi, i) + 1]
      BY <1>1, <1>5, <2>7, <2>9, Zenon DEF CookieFrom
    <3>3. CASE FindFrom(s, Semi, i) = 0
      <4>1. ASSUME NEW o \in Later(s, name, i) PROVE FALSE
        <5>1. o[1] \in Nat /\ o[2] \in Nat
          BY <2>6
        <5> QED
          BY <2>4, <3>1, <3>3, <5>1
      <4>2. Later(s, name, i) = {}
        BY <4>1, Zenon
      <4> QED
        BY <3>2, <3>3, <4>2, Zenon DEF Said
    <3>4. CASE FindFrom(s, Semi, i) # 0
      <4>1. PICK l : l = e + 2
        OBVIOUS
      <4>2. FindFrom(s, Semi, i) + 1 = l /\ l \in 1..(n + 1) /\ l > i /\ s[l - 1] = Semi
        BY <2>1, <2>4, <2>5, <3>4, <4>1
      <4>3. Fresh(s, l, l)
        <5>1. l \in l..(n + 1) /\ \A j \in l..(l - 1) : s[j] = Space
          BY <4>2
        <5> QED
          BY <1>1, <4>2, <5>1, Zenon DEF Fresh
      <4>4. Later(s, name, i) = Later(s, name, l)
        <5>1. ASSUME NEW o \in Later(s, name, i) PROVE o[2] >= l
          <6>1. o[1] \in Nat /\ o[2] \in Nat
            BY <2>6
          <6> QED
            BY <2>4, <3>1, <4>1, <6>1
        <5>2. ASSUME NEW o \in Later(s, name, l) PROVE o[2] >= i
          <6>1. o \in Runs(s, Semi) /\ o[2] >= l
            BY Zenon DEF Later, Cookies
          <6>2. Run(s, Semi, o[1], o[2])
            BY <6>1, RunsAre, Zenon
          <6>3. o[2] \in 1..n
            BY <1>1, <6>2 DEF Run
          <6> QED
            BY <1>2, <4>2, <6>1, <6>3
        <5> QED
          BY <5>1, <5>2, Zenon DEF Later
      <4>5. g[l] = Said(s, Later(s, name, l))
        BY <1>1, <4>2, <4>3, Zenon
      <4> QED
        BY <3>2, <3>4, <4>2, <4>4, <4>5, Zenon
    <3> QED
      BY <3>3, <3>4
  <2> QED
    BY <2>8, <2>9
<1> QED
  BY <1>3, <1>4, <1>5

(* cookie_value reads every header as it is meant.                         *)
LEMMA CookieAsMeant ==
  ASSUME NEW s \in Seq(Int), NEW name \in Int, name # Eq
  PROVE  CookieValue(s, name) = CookieMeaning(s, name)
<1>1. PICK N \in Nat : N = Len(s) + 1
  OBVIOUS
<1>2. PICK g \in [1..(Len(s) + 1) -> Seq(Int)] :
        /\ CookieValue(s, name) = g[1]
        /\ \A i \in 1..(Len(s) + 1) : g[i] = CookieFrom(s, name, g, i)
  BY CookieFacts, Zenon
<1> DEFINE H == {i \in 1..N : (\E l : Fresh(s, l, i)) => g[i] = Said(s, Later(s, name, i))}
<1>3. ASSUME NEW i \in 1..N, \A j \in 1..N : j > i => j \in H PROVE i \in H
  <2>1. ASSUME NEW b, Fresh(s, b, i) PROVE g[i] = Said(s, Later(s, name, i))
    <3>1. \A j \in 1..(Len(s) + 1) : j > i =>
            ((\E l : Fresh(s, l, j)) => g[j] = Said(s, Later(s, name, j)))
      BY <1>1, <1>3, Zenon
    <3>2. i \in 1..(Len(s) + 1) /\ g[i] = CookieFrom(s, name, g, i)
      BY <1>1, <1>2, Zenon
    <3> QED
      BY <2>1, <3>1, <3>2, CookieTurn, Zenon
  <2> QED
    BY <2>1, Zenon
<1>4. 1 \in H
  <2> HIDE DEF H
  <2>1. \A k \in 1..N : k \in H
    BY <1>3, InductionFromTheEnd
  <2>2. 1 \in 1..N
    BY <1>1
  <2> QED
    BY <2>1, <2>2, Zenon
<1>5. Fresh(s, 1, 1)
  BY DEF Fresh
<1>6. Later(s, name, 1) = Cookies(s, name)
  <2>1. ASSUME NEW o \in Cookies(s, name) PROVE o[2] >= 1
    <3>1. o \in Runs(s, Semi)
      BY Zenon DEF Cookies
    <3>2. Run(s, Semi, o[1], o[2])
      BY <3>1, RunsAre, Zenon
    <3> QED
      BY <3>2 DEF Run
  <2> QED
    BY <2>1, Zenon DEF Later
<1>7. g[1] = Said(s, Later(s, name, 1))
  BY <1>4, <1>5, Zenon
<1> QED
  BY <1>2, <1>6, <1>7, CookieMeaningIs, Zenon

-----------------------------------------------------------------------------
(* The text is one of bytes.                                               *)
TextInv == alphabet \in Alphabets /\ text \in Seq(0..255)

(* It stays one.                                                           *)
LEMMA TextInvariant == TextSpec => []TextInv
<1>1. TextInit => TextInv
  <2> SUFFICES ASSUME text = <<>>, alphabet \in Alphabets PROVE TextInv
    BY DEF TextInit
  <2>1. \A B : <<>> \in Seq(B)
    OBVIOUS
  <2> QED
    BY <2>1, Zenon DEF TextInv
<1>2. TextInv /\ [TextNext]_textVars => TextInv'
  <2> SUFFICES ASSUME TextInv, [TextNext]_textVars PROVE TextInv'
    OBVIOUS
  <2>1. CASE TextNext
    <3>1. PICK c \in alphabet : text' = Append(text, c) /\ alphabet' = alphabet
      BY <2>1 DEF TextNext
    <3>2. c \in 0..255
      BY TextAssumption DEF TextInv
    <3>3. \A B : \A s \in Seq(B) : \A b \in B : Append(s, b) \in Seq(B)
      OBVIOUS
    <3> QED
      BY <3>1, <3>2, <3>3, Zenon DEF TextInv
  <2>2. CASE UNCHANGED textVars
    BY <2>2 DEF TextInv, textVars
  <2> QED
    BY <2>1, <2>2
<1> QED
  BY <1>1, <1>2, PTL DEF TextSpec

(* links.hpp:11: for product urls of any length over all 256 bytes, a      *)
(* partner that splits and decodes the affiliate link as this server does  *)
(* gets the url and the click token back.                                  *)
THEOREM UrlEncAlwaysSurvives == TextSpec => []UrlEncSurvives
<1>1. TextInv => UrlEncSurvives
  <2> SUFFICES ASSUME TextInv PROVE UrlEncSurvives
    OBVIOUS
  <2>1. text \in Seq(0..255)
    BY DEF TextInv
  <2>2. PICK values : values = [url |-> text, subid |-> <<55, 75>>, campaign |-> <<>>]
    OBVIOUS
  <2>3. ParseQuery(SplitTarget(RenderLink(Affiliate, values)).query) =
          [n \in {<<U>>, <<S>>} |-> IF n = <<U>> THEN text ELSE <<55, 75>>]
    BY <2>1, <2>2, UrlEncSurvivesEveryText, Zenon
  <2> QED
    BY <2>2, <2>3, Zenon DEF UrlEncSurvives
<1> QED
  BY <1>1, TextInvariant, PTL

(* links.hpp:27: for templates of any length over all 256 bytes,           *)
(* render_link loses nothing of the template and never expands what it has *)
(* put in for a placeholder.                                               *)
THEOREM RenderAlwaysOnePass == TextSpec => []RenderIsOnePass
<1>1. TextInv => RenderIsOnePass
  <2> SUFFICES ASSUME TextInv PROVE RenderIsOnePass
    OBVIOUS
  <2>1. text \in Seq(0..255)
    BY DEF TextInv
  <2> QED
    BY <2>1, OnePass, Zenon DEF RenderIsOnePass, NoUrlEnc
<1> QED
  BY <1>1, TextInvariant, PTL

(* handlers.cpp:108-143: parse_query and cookie_value read every text of   *)
(* every length as it is meant.                                            *)
THEOREM ReadsAlwaysAsMeant == TextSpec => []ReadsAsMeant
<1>1. TextInv => ReadsAsMeant
  <2> SUFFICES ASSUME TextInv PROVE ReadsAsMeant
    OBVIOUS
  <2>1. text \in Seq(Int)
    BY TextFacts, Zenon DEF TextInv
  <2>2. U \in Int /\ U # Eq
    BY DEF U, Eq
  <2> QED
    BY <2>1, <2>2, ParsesAsMeant, CookieAsMeant, Zenon DEF ReadsAsMeant
<1> QED
  BY <1>1, TextInvariant, PTL

-----------------------------------------------------------------------------
(* The amount of a postback.                                               *)

(* Powers of two, counted as subsets: the provers know ^ only by name.     *)
LEMMA PowerZero == 2^0 = 1
BY FS_SUBSET, FS_EmptySet, FS_Singleton, SUBSET {} = {{}}

(* 2^n is the number of subsets of n numbers.                              *)
LEMMA PowerOfTwo ==
  ASSUME NEW n \in Nat
  PROVE  /\ IsFiniteSet(SUBSET (1..n))
         /\ 2^n = Cardinality(SUBSET (1..n))
<1>1. IsFiniteSet(1..n) /\ Cardinality(1..n) = n
  <2>1. 1 \in Int /\ n \in Int /\ n >= 0
    OBVIOUS
  <2> QED
    BY <2>1, FS_Interval
<1> QED
  BY <1>1, FS_SUBSET

(* One number more doubles the subsets.                                    *)
LEMMA PowerStep ==
  ASSUME NEW n \in Nat
  PROVE  2^n \in Nat /\ 2^(n + 1) = 2 * 2^n
<1> DEFINE A == SUBSET (1..n)
           f == [s \in A |-> s \cup {n + 1}]
           B == {s \in SUBSET (1..(n + 1)) : n + 1 \in s}
<1>1. /\ IsFiniteSet(A) /\ 2^n = Cardinality(A) /\ 2^(n + 1) = Cardinality(SUBSET (1..(n + 1)))
  BY PowerOfTwo, SMTT(60)
<1>2. SUBSET (1..(n + 1)) = A \cup B /\ A \cap B = {}
  OBVIOUS
<1>3. f \in Bijection(A, B)
  <2>1. f \in [A -> B]
    OBVIOUS
  <2>2. ASSUME NEW s \in A, NEW t \in A, f[s] = f[t] PROVE s = t
    <3>1. s \cup {n + 1} = t \cup {n + 1} /\ n + 1 \notin s /\ n + 1 \notin t
      BY <2>2
    <3> QED
      BY <3>1
  <2>3. ASSUME NEW t \in B PROVE \E s \in A : f[s] = t
    <3>1. t \ {n + 1} \in A /\ f[t \ {n + 1}] = t
      OBVIOUS
    <3> QED
      BY <3>1
  <2> HIDE DEF f, A, B
  <2> QED
    BY <2>1, <2>2, <2>3 DEF Bijection, Injection, Surjection, IsInjective
<1> HIDE DEF f, A, B
<1>4. IsFiniteSet(B) /\ Cardinality(B) = Cardinality(A)
  BY <1>1, <1>3, FS_Bijection DEF ExistsBijection
<1>5. Cardinality(A \cup B) = Cardinality(A) + Cardinality(B) - Cardinality(A \cap B)
  BY <1>1, <1>4, FS_Union
<1>6. Cardinality(A) \in Nat /\ Cardinality({}) = 0
  BY <1>1, FS_CardinalityType, FS_EmptySet
<1>7. Cardinality(SUBSET (1..(n + 1))) = Cardinality(A) + Cardinality(A)
  <2>1. Cardinality(SUBSET (1..(n + 1))) = Cardinality(A \cup B) /\ Cardinality(A \cap B) = 0
    BY <1>2, <1>6, Zenon
  <2> QED
    BY <1>4, <1>5, <1>6, <2>1
<1>8. \A c \in Nat : c + c = 2 * c
  OBVIOUS
<1> QED
  BY <1>1, <1>6, <1>7, <1>8

(* What the powers of two are needed for.                                  *)
LEMMA PowerFacts ==
  ASSUME NEW n \in Nat
  PROVE  /\ 2^n \in Nat /\ 2^n >= 1
         /\ 2^(n + 1) = 2 * 2^n
         /\ 2^(n + 6) = 64 * 2^n /\ 2^(n + 7) = 128 * 2^n
<1>1. \A m \in Nat : 2^m \in Nat /\ 2^(m + 1) = 2 * 2^m
  BY PowerStep
<1>2. 2^n >= 1
  <2> DEFINE T == {m \in Nat : 2^m = 0}
  <2>1. ASSUME T # {} PROVE FALSE
    <3>1. PICK m \in T : \A k \in T : m <= k
      BY <2>1, LeastNumber
    <3>2. m \in Nat /\ m # 0
      <4>1. m \in Nat /\ 2^m = 0
        OBVIOUS
      <4>2. m = 0 => 2^m = 1
        BY PowerZero, Zenon
      <4>3. 0 # 1
        OBVIOUS
      <4> QED
        BY <4>1, <4>2, <4>3, Zenon
    <3>3. m - 1 \in Nat /\ (m - 1) + 1 = m
      BY <3>2
    <3>4. 2^(m - 1) \in Nat /\ 2^m = 2 * 2^(m - 1)
      BY <1>1, <3>3
    <3>5. 2^(m - 1) = 0
      BY <3>1, <3>4
    <3> QED
      BY <3>1, <3>3, <3>5
  <2>2. 2^n # 0
    BY <2>1, Zenon
  <2>3. 2^n \in Nat
    BY <1>1
  <2> QED
    BY <2>2, <2>3
<1>3. 2^(n + 6) = 64 * 2^n /\ 2^(n + 7) = 128 * 2^n
  <2>1. \A k \in Nat : (n + k) + 1 = n + (k + 1)
    OBVIOUS
  <2>2. \A k \in Nat : 2^(n + k) \in Nat /\ 2^(n + (k + 1)) = 2 * 2^(n + k)
    BY <1>1, <2>1
  <2>3. /\ n + 0 = n /\ 0 + 1 = 1 /\ 1 + 1 = 2 /\ 2 + 1 = 3 /\ 3 + 1 = 4
        /\ 4 + 1 = 5 /\ 5 + 1 = 6 /\ 6 + 1 = 7
    OBVIOUS
  <2>4. /\ 2^(n + 1) = 2 * 2^n /\ 2^(n + 2) = 2 * 2^(n + 1)
        /\ 2^(n + 3) = 2 * 2^(n + 2) /\ 2^(n + 4) = 2 * 2^(n + 3)
        /\ 2^(n + 5) = 2 * 2^(n + 4) /\ 2^(n + 6) = 2 * 2^(n + 5)
        /\ 2^(n + 7) = 2 * 2^(n + 6)
    BY <2>2, <2>3
  <2> QED
    BY <1>1, <2>4
<1> QED
  BY <1>1, <1>2, <1>3

(* Rounding errs by at most half a unit.                                   *)
LEMMA NearestFacts ==
  ASSUME NEW a \in Nat, NEW b \in Nat, b > 0
  PROVE  /\ Nearest(a, b) \in Nat
         /\ 2 * (b * Nearest(a, b)) <= 2 * a + b /\ 2 * a <= 2 * (b * Nearest(a, b)) + b
<1> DEFINE q == a \div b
           r == a % b
<1>1. q \in Nat /\ r \in 0..(b - 1) /\ a = b * q + r
  OBVIOUS
<1>2. Nearest(a, b) = IF 2 * r > b \/ (2 * r = b /\ q % 2 = 1) THEN q + 1 ELSE q
  BY DEF Nearest
<1> HIDE DEF q, r
<1>3. b * (q + 1) = b * q + b
  BY <1>1
<1>4. PICK p : p = b * q
  OBVIOUS
<1>5. p \in Nat
  BY <1>1, <1>4
<1>6. CASE Nearest(a, b) = q + 1 /\ 2 * r >= b
  BY <1>1, <1>3, <1>4, <1>5, <1>6
<1>7. CASE Nearest(a, b) = q /\ 2 * r <= b
  BY <1>1, <1>3, <1>4, <1>5, <1>7
<1> QED
  BY <1>1, <1>2, <1>6, <1>7

(* Nothing is rounded where the division comes out even.                   *)
LEMMA NearestExact ==
  ASSUME NEW m \in Nat, NEW b \in Nat, b > 0
  PROVE  Nearest(m * b, b) = m
<1>1. (m * b) % b = 0 /\ (m * b) \div b = m
  OBVIOUS
<1> QED
  BY <1>1 DEF Nearest

-----------------------------------------------------------------------------
(* The constants of an amount: h is 2^(Precision - 7).                     *)
LEMMA PrecisionFacts ==
  \E h \in Nat :
    /\ h >= 1 /\ MaxAmount \in Nat /\ MaxAmount < 100 * h
    /\ 2^(Precision - 1) = 64 * h /\ 2^Precision = 128 * h
    /\ 2^(Precision - 1 + 6) = 4096 * h /\ 2^(Precision + 6) = 8192 * h
    /\ 2^(Precision - 1 + 7) = 8192 * h /\ 2^(Precision + 7) = 16384 * h
<1>1. PICK m : m = Precision - 7
  OBVIOUS
<1>2. /\ m \in Nat /\ m + 6 \in Nat /\ m + 7 \in Nat /\ Precision = m + 7
      /\ Precision - 1 = m + 6 /\ Precision - 1 + 6 = (m + 6) + 6
      /\ Precision + 6 = (m + 7) + 6 /\ Precision - 1 + 7 = (m + 7) + 6
      /\ Precision + 7 = (m + 7) + 7
  BY <1>1, AmountAssumption
<1>3. PICK h \in Nat : h = 2^m
  BY <1>2, PowerFacts
<1>4. h >= 1 /\ 2^(m + 6) = 64 * h /\ 2^(m + 7) = 128 * h
  BY <1>2, <1>3, PowerFacts
<1>5. /\ 2^((m + 6) + 6) = 64 * (64 * h)
      /\ 2^((m + 7) + 6) = 64 * (128 * h) /\ 2^((m + 7) + 7) = 128 * (128 * h)
  BY <1>2, <1>4, PowerFacts
<1>6. 64 * (64 * h) = 4096 * h /\ 64 * (128 * h) = 8192 * h /\ 128 * (128 * h) = 16384 * h
  OBVIOUS
<1>7. MaxAmount \in Nat /\ MaxAmount < 100 * h
  BY <1>1, <1>3, AmountAssumption
<1> QED
  BY <1>2, <1>4, <1>5, <1>6, <1>7

(* 2^7 divides 2^k from k = 7 on; below, 2^k is at most 64.                *)
LEMMA PowersAroundSeven ==
  ASSUME NEW k \in Nat
  PROVE  IF k < 7 THEN 2^k <= 64
         ELSE /\ k - 7 \in Nat /\ k - 6 \in Nat /\ k - 2 \in Nat
              /\ 2^k = 128 * 2^(k - 7) /\ 2^k = 64 * 2^(k - 6) /\ 2^k = 4 * 2^(k - 2)
<1>1. CASE k < 7
  <2>1. \A m \in Nat : 2^m \in Nat /\ 2^(m + 1) = 2 * 2^m
    BY PowerStep
  <2>2. /\ 0 + 1 = 1 /\ 1 + 1 = 2 /\ 2 + 1 = 3 /\ 3 + 1 = 4 /\ 4 + 1 = 5 /\ 5 + 1 = 6
        /\ 0 \in Nat /\ 1 \in Nat /\ 2 \in Nat /\ 3 \in Nat /\ 4 \in Nat /\ 5 \in Nat
    OBVIOUS
  <2>3. /\ 2^1 = 2 * 2^0 /\ 2^2 = 2 * 2^1 /\ 2^3 = 2 * 2^2
        /\ 2^4 = 2 * 2^3 /\ 2^5 = 2 * 2^4 /\ 2^6 = 2 * 2^5
    BY <2>1, <2>2
  <2>4. 2^0 = 1 /\ 2^1 = 2 /\ 2^2 = 4 /\ 2^3 = 8 /\ 2^4 = 16 /\ 2^5 = 32 /\ 2^6 = 64
    BY <2>3, PowerZero
  <2>5. k \in {0, 1, 2, 3, 4, 5, 6}
    BY <1>1
  <2>6. 2^k \in {1, 2, 4, 8, 16, 32, 64}
    BY <2>4, <2>5, ZenonT(60)
  <2>7. 2^k <= 64
    BY <2>6
  <2> QED
    BY <1>1, <2>7
<1>2. CASE ~(k < 7)
  <2>1. /\ k - 7 \in Nat /\ k - 6 \in Nat /\ k - 2 \in Nat /\ (k - 7) + 7 = k
        /\ (k - 6) + 6 = k /\ (k - 2) + 1 \in Nat /\ ((k - 2) + 1) + 1 = k
    BY <1>2
  <2>2. 2^k = 128 * 2^(k - 7) /\ 2^k = 64 * 2^(k - 6)
    BY <2>1, PowerFacts
  <2>3. 2^k = 2 * (2 * 2^(k - 2)) /\ 2^(k - 2) \in Nat
    BY <2>1, PowerFacts
  <2>4. \A c \in Nat : 2 * (2 * c) = 4 * c
    OBVIOUS
  <2> QED
    BY <1>2, <2>1, <2>2, <2>3, <2>4
<1> QED
  BY <1>1, <1>2

(* stod: an exponent that fits the significand exists, is at least 7, and  *)
(* the double is the nearest one.                                          *)
LEMMA StodFacts ==
  ASSUME NEW n \in 1..MaxAmount
  PROVE  \E k \in Nat :
           /\ k >= 7 /\ Stod(n) = [sig |-> Nearest(n * 2^k, 100), scale |-> k]
           /\ 100 * 2^(Precision - 1) <= n * 2^k /\ n * 2^k < 100 * 2^Precision
<1>1. PICK h \in Nat :
        /\ h >= 1 /\ MaxAmount \in Nat /\ MaxAmount < 100 * h
        /\ 2^(Precision - 1) = 64 * h /\ 2^Precision = 128 * h
        /\ 2^(Precision + 6) = 8192 * h
  BY PrecisionFacts
<1> DEFINE Fits(k) == 100 * 2^(Precision - 1) <= n * 2^k /\ n * 2^k < 100 * 2^Precision
           T == {k \in Nat : 6400 * h <= n * 2^k}
<1>2. n \in Nat /\ n >= 1 /\ n < 100 * h
  BY <1>1
<1>3. PICK c : c = CHOOSE l \in 0..(Precision + 7) : Fits(l)
  OBVIOUS
<1>4. Stod(n) = [sig |-> Nearest(n * 2^c, 100), scale |-> c]
  BY <1>3, Zenon DEF Stod
<1>5. Precision + 6 \in Nat /\ Precision + 6 \in T
  <2>1. Precision + 6 \in Nat
    BY AmountAssumption
  <2>2. \A d \in Nat : d <= n * d
    BY <1>2
  <2>3. 6400 * h <= 8192 * h /\ 8192 * h \in Nat
    OBVIOUS
  <2>4. 6400 * h <= n * 2^(Precision + 6)
    BY <1>1, <1>2, <2>2, <2>3
  <2> QED
    BY <2>1, <2>4
<1>6. PICK k \in T : \A j \in T : k <= j
  <2>1. T \in SUBSET Nat /\ T # {}
    BY <1>5
  <2> HIDE DEF T
  <2> QED
    BY <2>1, LeastNumber
<1>7. k \in Nat /\ 6400 * h <= n * 2^k /\ k <= Precision + 6
  BY <1>5, <1>6
<1>8. k # 0
  <2> HIDE DEF T, Fits
  <2>1. \A l : l = 0 => 2^l = 1
    BY PowerZero, Zenon
  <2>2. n * 1 = n /\ n < 6400 * h
    BY <1>1, <1>2
  <2> QED
    BY <1>2, <1>7, <2>1, <2>2
<1>9. n * 2^k < 12800 * h
  <2>1. k - 1 \in Nat /\ (k - 1) + 1 = k /\ k - 1 < k
    BY <1>7, <1>8
  <2>2. PICK d \in Nat : d = 2^(k - 1) /\ 2^k = 2 * d
    BY <2>1, PowerFacts
  <2>3. ~(6400 * h <= n * 2^(k - 1))
    BY <1>6, <2>1
  <2>4. n * d \in Nat /\ n * d < 6400 * h
    BY <1>2, <2>2, <2>3
  <2>5. n * (2 * d) = 2 * (n * d)
    BY <1>2
  <2> QED
    BY <2>2, <2>4, <2>5
<1>10. 100 * 2^(Precision - 1) = 6400 * h /\ 100 * 2^Precision = 12800 * h
  BY <1>1
<1>11. k \in 0..(Precision + 7) /\ Fits(k)
  BY <1>7, <1>9, <1>10, AmountAssumption
<1>12. c \in 0..(Precision + 7) /\ Fits(c)
  BY <1>11, <1>3
<1>13. c \in Nat
  BY <1>12, AmountAssumption
<1>14. c >= 7
  <2> SUFFICES ASSUME c < 7 PROVE FALSE
    BY <1>13
  <2>1. 2^c \in Nat /\ 2^c <= 64
    BY <1>13, PowersAroundSeven, PowerFacts
  <2>2. \A d \in Nat : d <= 64 => n * d <= n * 64
    BY <1>2
  <2>3. n * 2^c <= n * 64 /\ n * 64 < 6400 * h
    BY <1>2, <2>1, <2>2
  <2>4. 6400 * h <= n * 2^c
    BY <1>10, <1>12
  <2>5. n * 2^c \in Nat
    BY <1>2, <2>1
  <2> QED
    BY <1>2, <2>3, <2>4, <2>5
<1> QED
  BY <1>12, <1>13, <1>14, <1>4

(* The multiplication: whichever of the two exponents it is, the cast      *)
(* divides by a power of two that 2^k is a multiple of.                    *)
LEMMA Times100Facts ==
  ASSUME NEW k \in Nat, k >= 7, NEW sig \in Nat,
         2^(Precision - 1) <= sig, sig <= 2^Precision
  PROVE  \E s \in {6, 7}, D \in Nat :
           /\ D >= 1 /\ 2^s \in {64, 128} /\ 2^k = D * 2^s /\ (2^s = 64 => D >= 2)
           /\ Trunc(Times100([sig |-> sig, scale |-> k])) = Nearest(sig * 100, 2^s) \div D
<1>1. PICK h \in Nat :
        /\ h >= 1
        /\ 2^(Precision - 1) = 64 * h /\ 2^Precision = 128 * h
        /\ 2^(Precision - 1 + 6) = 4096 * h /\ 2^(Precision + 6) = 8192 * h
        /\ 2^(Precision - 1 + 7) = 8192 * h /\ 2^(Precision + 7) = 16384 * h
  BY PrecisionFacts
<1> DEFINE Fits(s) == 2^(Precision - 1 + s) <= sig * 100 /\ sig * 100 < 2^(Precision + s)
           x == [sig |-> sig, scale |-> k]
<1>2. Fits(6) \/ Fits(7)
  BY <1>1
<1>3. PICK s : s = CHOOSE t \in 6..7 : Fits(t)
  OBVIOUS
<1>4. s \in 6..7
  BY <1>2, <1>3
<1>5. s \in {6, 7}
  BY <1>4
<1>6. Times100(x) = [sig |-> Nearest(sig * 100, 2^s), scale |-> k - s]
  <2>1. x.sig = sig /\ x.scale = k
    OBVIOUS
  <2> HIDE DEF x
  <2> QED
    BY <1>3, <2>1, Zenon DEF Times100
<1>7. Trunc(Times100(x)) = Nearest(sig * 100, 2^s) \div 2^(k - s)
  <2>1. /\ Times100(x).sig = Nearest(sig * 100, 2^s)
        /\ Times100(x).scale = k - s
    BY <1>6
  <2> QED
    BY <2>1, Zenon DEF Trunc
<1>8. 2^6 = 64 /\ 2^7 = 128
  <2>1. 2^(0 + 6) = 64 * 2^0 /\ 2^(0 + 7) = 128 * 2^0
    BY PowerFacts
  <2>2. 0 + 6 = 6 /\ 0 + 7 = 7 /\ 64 * 1 = 64 /\ 128 * 1 = 128
    OBVIOUS
  <2> QED
    BY <2>1, <2>2, PowerZero, ZenonT(60)
<1>9. /\ k - 7 \in Nat /\ k - 6 \in Nat
      /\ 2^k = 128 * 2^(k - 7) /\ 2^k = 64 * 2^(k - 6)
      /\ 2^(k - 7) \in Nat /\ 2^(k - 7) >= 1 /\ 2^(k - 6) \in Nat
  BY PowersAroundSeven, PowerFacts
<1>10. PICK D : D = 2^(k - s)
  OBVIOUS
<1>11. CASE s = 6
  <2>1. 2^s = 64 /\ D = 2^(k - 6)
    BY <1>8, <1>10, <1>11, Zenon
  <2>2. D \in Nat /\ 2^k = 64 * D /\ 2^k = 128 * 2^(k - 7)
    BY <1>9, <2>1
  <2>3. D >= 2
    BY <1>9, <2>2
  <2>4. 2^k = D * 2^s
    BY <2>1, <2>2
  <2> QED
    BY <1>5, <1>7, <1>10, <2>1, <2>2, <2>3, <2>4
<1>12. CASE s = 7
  <2>1. 2^s = 128 /\ D = 2^(k - 7)
    BY <1>8, <1>10, <1>12, Zenon
  <2>2. D \in Nat /\ D >= 1 /\ 2^k = 128 * D
    BY <1>9, <2>1
  <2>3. 2^k = D * 2^s
    BY <2>1, <2>2
  <2> QED
    BY <1>5, <1>7, <1>10, <2>1, <2>2, <2>3
<1> QED
  BY <1>5, <1>11, <1>12

(* The conversion of a single amount.                                      *)
LEMMA KopekFacts ==
  ASSUME NEW n \in 0..MaxAmount
  PROVE  /\ Kopek(n) \in {n - 1, n}
         /\ n % 25 = 0 => Kopek(n) = n
<1>1. CASE n = 0
  BY <1>1 DEF Kopek
<1>2. CASE n # 0
  <2>1. n \in 1..MaxAmount /\ n \in Nat /\ MaxAmount \in Nat
    BY <1>2, PrecisionFacts
  <2>2. PICK k \in Nat :
          /\ k >= 7 /\ Stod(n) = [sig |-> Nearest(n * 2^k, 100), scale |-> k]
          /\ 100 * 2^(Precision - 1) <= n * 2^k /\ n * 2^k < 100 * 2^Precision
    BY <2>1, StodFacts
  <2>3. PICK h \in Nat : 2^(Precision - 1) = 64 * h /\ 2^Precision = 128 * h
    BY PrecisionFacts
  <2>4. PICK a \in Nat : a = n * 2^k
    BY <2>1, PowerFacts
  <2>5. PICK sig : sig = Nearest(a, 100)
    OBVIOUS
  <2>6. sig \in Nat /\ 2 * (100 * sig) <= 2 * a + 100 /\ 2 * a <= 2 * (100 * sig) + 100
    BY <2>5, NearestFacts
  <2>7. 2^(Precision - 1) <= sig /\ sig <= 2^Precision
    <3>1. 6400 * h <= a /\ a < 12800 * h
      BY <2>2, <2>3, <2>4
    <3>2. 64 * h <= sig /\ sig <= 128 * h
      BY <2>6, <3>1
    <3> QED
      BY <2>3, <3>2
  <2>8. PICK s \in {6, 7}, D \in Nat :
          /\ D >= 1 /\ 2^s \in {64, 128} /\ 2^k = D * 2^s /\ (2^s = 64 => D >= 2)
          /\ Trunc(Times100([sig |-> sig, scale |-> k])) = Nearest(sig * 100, 2^s) \div D
    BY <2>2, <2>6, <2>7, Times100Facts
  <2>9. PICK w \in {64, 128} : w = 2^s
    BY <2>8
  <2>10. PICK R : R = Nearest(sig * 100, w)
    OBVIOUS
  <2>11. Kopek(n) = R \div D
    BY <1>2, <2>2, <2>4, <2>5, <2>8, <2>9, <2>10, Zenon DEF Kopek
  <2>12. PICK m \in Nat : m = n * D
    BY <2>1
  <2>13. a = m * w
    <3>1. a = n * (D * w)
      BY <2>4, <2>8, <2>9
    <3>2. n * (D * w) = (n * D) * w
      BY <2>1
    <3> QED
      BY <2>12, <3>1, <3>2
  <2>14. /\ R \in Nat /\ 2 * (w * R) <= 2 * (sig * 100) + w
         /\ 2 * (sig * 100) <= 2 * (w * R) + w
    <3>1. PICK b \in Nat : b = sig * 100
      BY <2>6
    <3>2. w \in Nat /\ w > 0 /\ R = Nearest(b, w)
      BY <2>10, <3>1
    <3>3. R \in Nat /\ 2 * (w * R) <= 2 * b + w /\ 2 * b <= 2 * (w * R) + w
      BY <3>2, NearestFacts
    <3> QED
      BY <3>1, <3>3
  <2>15. (n - 1) * D = m - D /\ (n + 1) * D = m + D
    BY <2>1, <2>12
  <2>16. R \div D \in {n - 1, n}
    <3>1. m - D <= R /\ R < m + D
      <4>1. CASE w = 64
        BY <2>6, <2>8, <2>9, <2>13, <2>14, <4>1
      <4>2. CASE w = 128
        BY <2>6, <2>8, <2>9, <2>13, <2>14, <4>2
      <4> QED
        BY <2>9, <4>1, <4>2
    <3> QED
      BY <2>1, <2>8, <2>14, <2>15, <3>1
  <2>17. ASSUME n % 25 = 0 PROVE R \div D = n
    <3>1. PICK j \in Nat : n = 25 * j
      BY <2>1, <2>17
    <3>2. PICK c \in Nat : 2^k = 4 * c
      BY <2>2, PowersAroundSeven, PowerFacts
    <3>3. a = (j * c) * 100 /\ j * c \in Nat
      <4>1. a = (25 * j) * (4 * c)
        BY <2>4, <3>1, <3>2
      <4>2. (25 * j) * (4 * c) = (j * c) * 100
        OBVIOUS
      <4> QED
        BY <4>1, <4>2
    <3>4. sig = j * c
      BY <2>5, <3>3, NearestExact
    <3>5. sig * 100 = m * w
      BY <2>13, <3>3, <3>4
    <3>6. R = m
      BY <2>9, <2>10, <3>5, NearestExact
    <3> QED
      BY <2>1, <2>8, <2>12, <3>6
  <2> QED
    BY <2>11, <2>16, <2>17
<1> QED
  BY <1>1, <1>2

(* handlers.cpp:493: stod, the multiplication by 100.0 and the cast        *)
(* together lose at most one kopeck, never add one, and lose none on whole *)
(* rubles, halves and quarters: for significands of every width above      *)
(* seven bits, the 53 of a double included, and every amount below         *)
(* 2^(Precision - 7) rubles.                                               *)
THEOREM AmountsOffByAtMostOne == AmountSpec => []OffByAtMostOne
<1> DEFINE Inv == quoted \in 0..MaxAmount /\ amount = Kopek(quoted)
<1>1. AmountInit => Inv
  BY PrecisionFacts DEF AmountInit, Kopek
<1>2. Inv /\ [QuoteAmount]_amountVars => Inv'
  BY PrecisionFacts DEF QuoteAmount, amountVars
<1>3. Inv => OffByAtMostOne
  BY KopekFacts DEF OffByAtMostOne
<1> QED
  BY <1>1, <1>2, <1>3, PTL DEF AmountSpec

-----------------------------------------------------------------------------
(* A behaviour of RequestData is one of each of its parts: the two that    *)
(* are not fed stay as they are.                                           *)
LEMMA Parted == DataSpec => TextSpec /\ CatalogSpec /\ AmountSpec
<1>1. DataInit => TextInit /\ CatalogInit /\ AmountInit
  BY DEF DataInit
<1>2. [DataNext]_dataVars => /\ [TextNext]_textVars /\ [CatalogNext]_catalogVars
                          /\ [QuoteAmount]_amountVars
  BY DEF DataNext, dataVars
<1> QED
  BY <1>1, <1>2, PTL DEF DataSpec, TextSpec, CatalogSpec, AmountSpec

(* handlers.cpp:81-143 and 493, links.cpp:57-89 and catalog.cpp:18-77 as   *)
(* RequestData composes them: the url and the token of a link survive it,  *)
(* a template is filled in one pass, requests are read as they are meant,  *)
(* the pages tile the feed, and an amount loses at most one kopeck.        *)
THEOREM RequestDataCorrect ==
  DataSpec => [](/\ UrlEncSurvives /\ RenderIsOnePass /\ ReadsAsMeant
                 /\ ViewsAgree /\ PagesTileTheFeed /\ OffByAtMostOne)
BY Parted, UrlEncAlwaysSurvives, RenderAlwaysOnePass, ReadsAlwaysAsMeant, ViewsAlwaysAgree,
   PagesAlwaysTile, AmountsOffByAtMostOne, PTL
=============================================================================
