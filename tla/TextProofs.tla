----------------------------- MODULE TextProofs -----------------------------
(***************************************************************************)
(* Texts, of any length: what a client said through the gateway is what    *)
(* the provider is asked and what a conversation keeps, for any windows,   *)
(* names and providers; and the chunks of a long text are the text, for    *)
(* any words and any target, overlap and window of the encoder.            *)
(***************************************************************************)
EXTENDS GatewayTranslation, Chunks, FiniteSetTheorems, SequenceTheorems, WellFoundedInduction,
        TLAPS

-----------------------------------------------------------------------------
(* Induction over sequences: what holds of <<>> and of Append(s, x) if it  *)
(* holds of s has no shortest counterexample.                              *)
LEMMA LeastNumber ==
  ASSUME NEW S \in SUBSET Nat, S # {}
  PROVE  Min(S) \in S /\ \A x \in S : Min(S) <= x
<1> DEFINE Less == {ss \in Nat \X Nat : ss[1] < ss[2]}
<1>1. IsWellFoundedOn(Less, Nat)
  BY NatLessThanWellFounded, Zenon DEF OpToRel
<1>2. \A x, y \in Nat : y < x => <<y, x>> \in Less
  OBVIOUS
<1> HIDE DEF Less
<1>3. PICK x \in S : \A y \in S : ~(<<y, x>> \in Less)
  BY <1>1, WFMin
<1>4. ASSUME NEW y \in S PROVE x <= y
  <2>1. ~(y < x)
    BY <1>2, <1>3
  <2>2. QED
    BY <2>1
<1>5. QED
  BY <1>4 DEF Min

(* The function by which a sequence of sequences is joined.                *)
Joins(f, ss, n) == f = [i \in 1..n |-> IF i = 1 THEN ss[i] ELSE f[i - 1] \o ss[i]]

LEMMA JoinsOnce ==
  ASSUME NEW ss, NEW n \in Nat, NEW f, Joins(f, ss, n), NEW g, Joins(g, ss, n)
  PROVE  f = g
<1> DEFINE D == {i \in 1..n : f[i] # g[i]}
<1>1. DOMAIN f = 1..n /\ DOMAIN g = 1..n
  BY DEF Joins
<1>2. \A i \in 1..n : f[i] = (IF i = 1 THEN ss[i] ELSE f[i - 1] \o ss[i])
        /\ g[i] = (IF i = 1 THEN ss[i] ELSE g[i - 1] \o ss[i])
  BY DEF Joins
<1>3. D = {}
  <2>1. SUFFICES ASSUME D # {} PROVE FALSE
    OBVIOUS
  <2>2. D \in SUBSET Nat
    OBVIOUS
  <2>3. PICK m \in D : \A x \in D : m <= x
    BY <2>1, <2>2, LeastNumber
  <2>4. m # 1
    BY <1>2
  <2>5. m - 1 \in 1..n /\ m - 1 \notin D
    BY <2>3, <2>4
  <2>6. f[m - 1] = g[m - 1]
    BY <2>5
  <2>7. QED
    BY <1>2, <2>4, <2>6
<1>4. \A i \in 1..n : f[i] = g[i]
  BY <1>3
<1>5. f = [i \in 1..n |-> f[i]] /\ g = [i \in 1..n |-> g[i]]
  BY DEF Joins
<1>6. QED
  BY <1>4, <1>5

LEMMA FlattenIs ==
  ASSUME NEW ss, Len(ss) \in Nat, Len(ss) # 0, NEW f, Joins(f, ss, Len(ss))
  PROVE  FlattenSeq(ss) = f[Len(ss)]
<1> DEFINE g == CHOOSE h : h
      = [i \in 1..Len(ss) |-> IF i = 1 THEN ss[i] ELSE h[i - 1] \o ss[i]]
<1>1. g = [i \in 1..Len(ss) |-> IF i = 1 THEN ss[i] ELSE g[i - 1] \o ss[i]]
  BY DEF Joins
<1>2. Joins(g, ss, Len(ss))
  BY <1>1, Zenon DEF Joins
<1>3. FlattenSeq(ss) = g[Len(ss)]
  BY DEF FlattenSeq
<1> HIDE DEF g
<1>4. g = f
  BY <1>2, JoinsOnce
<1>5. QED
  BY <1>3, <1>4

(* Induction over sequences: a set that has the empty one and is closed    *)
(* under appending has them all.                                           *)
LEMMA BySequence ==
  ASSUME NEW X, NEW P, <<>> \in P, \A s \in Seq(X) : \A x \in X : s \in P
    => Append(s, x) \in P
  PROVE  \A s \in Seq(X) : s \in P
<1> DEFINE D == {n \in Nat : \E s \in Seq(X) : s \notin P /\ Len(s) = n}
<1>1. SUFFICES ASSUME NEW s \in Seq(X), s \notin P PROVE FALSE
  OBVIOUS
<1>2. D \in SUBSET Nat /\ D # {}
  <2>1. Len(s) \in D
    BY <1>1
  <2>2. QED
    BY <2>1
<1>3. PICK m \in D : \A x \in D : m <= x
  BY <1>2, LeastNumber
<1>4. PICK t \in Seq(X) : t \notin P /\ Len(t) = m
  BY <1>3
<1>5. m # 0 /\ m \in Nat
  <2>1. Len(t) = 0 => t = <<>>
    OBVIOUS
  <2>2. QED
    BY <1>4, <2>1
<1> DEFINE u == SubSeq(t, 1, m - 1)
<1>6. u \in Seq(X) /\ Len(u) = m - 1 /\ \A i \in 1..(m - 1) : u[i] = t[i]
  BY <1>4, <1>5
<1>7. t[m] \in X
  BY <1>4, <1>5
<1> HIDE DEF u
<1>8. t = Append(u, t[m])
  <2>1. Append(u, t[m]) \in Seq(X) /\ Len(Append(u, t[m])) = m
    BY <1>5, <1>6, <1>7
  <2>2. \A i \in 1..m : Append(u, t[m])[i] = t[i]
    BY <1>5, <1>6, <1>7
  <2>3. QED
    BY <1>4, <2>1, <2>2, SeqEqual
<1>9. m - 1 \in Nat /\ m - 1 \notin D
  BY <1>3, <1>5
<1>10. u \in P
  BY <1>6, <1>9
<1>11. QED
  BY <1>4, <1>6, <1>7, <1>8, <1>10

LEMMA JoinsExist ==
  ASSUME NEW S, NEW ss \in Seq(Seq(S))
  PROVE  \E f \in [1..Len(ss) -> Seq(S)] : Joins(f, ss, Len(ss))
<1> DEFINE D == {n \in Nat : n <= Len(ss) /\ ~ \E f \in [1..n -> Seq(S)] : Joins(f, ss, n)}
<1>0. \A n \in Nat : n <= Len(ss) => n \in D \/ \E f \in [1..n -> Seq(S)] : Joins(f, ss, n)
  OBVIOUS
<1>00. Len(ss) \in Nat /\ Len(ss) <= Len(ss)
  OBVIOUS
<1>1. SUFFICES ASSUME D # {} PROVE FALSE
  BY <1>0, <1>00
<1>2. PICK m \in D : \A x \in D : m <= x
  <2>1. D \in SUBSET Nat
    OBVIOUS
  <2>2. QED
    BY <1>1, <2>1, LeastNumber
<1>3. m # 0
  <2>1. [i \in 1..0 |-> <<>>] \in [1..0 -> Seq(S)]
    OBVIOUS
  <2>2. Joins([i \in 1..0 |-> <<>>], ss, 0)
    BY DEF Joins
  <2>3. QED
    BY <1>2, <2>1, <2>2
<1>4. m \in Nat /\ m <= Len(ss) /\ m - 1 \in Nat /\ m - 1 <= Len(ss) /\ m - 1 \notin D
  <2>1. m \in Nat /\ m <= Len(ss)
    OBVIOUS
  <2>2. m - 1 \in Nat /\ m - 1 <= Len(ss) /\ ~(m <= m - 1)
    BY <1>00, <1>3, <2>1
  <2> HIDE DEF D
  <2>3. QED
    BY <1>2, <2>1, <2>2
<1>5. PICK f \in [1..(m - 1) -> Seq(S)] : Joins(f, ss, m - 1)
  BY <1>4
<1> DEFINE g == [i \in 1..m |-> IF i = m THEN IF m = 1
      THEN ss[1] ELSE f[m - 1] \o ss[m] ELSE f[i]]
<1>6. \A i \in 1..m : ss[i] \in Seq(S)
  BY <1>4
<1>7. g \in [1..m -> Seq(S)]
  <2>1. ASSUME NEW i \in 1..m PROVE g[i] \in Seq(S)
    <3>1. CASE i = m /\ m = 1
      BY <1>6, <3>1
    <3>2. CASE i = m /\ m # 1
      <4>1. m - 1 \in 1..(m - 1) /\ f[m - 1] \in Seq(S) /\ ss[m] \in Seq(S)
        BY <1>4, <1>6, <3>2
      <4>2. QED
        BY <3>2, <4>1, ConcatProperties
    <3>3. CASE i # m
      BY <1>4, <3>3
    <3>4. QED
      BY <3>1, <3>2, <3>3
  <2>2. QED
    BY <2>1
<1>8. ASSUME NEW i \in 1..m PROVE g[i] = IF i = 1 THEN ss[i] ELSE g[i - 1] \o ss[i]
  <2>1. \A j \in 1..(m - 1) : f[j] = IF j = 1 THEN ss[j] ELSE f[j - 1] \o ss[j]
    BY <1>5 DEF Joins
  <2>2. i # 1 => i - 1 \in 1..m /\ i - 1 # m /\ g[i - 1] = f[i - 1]
    BY <1>4
  <2>3. CASE i = m
    <3>1. g[i] = IF m = 1 THEN ss[1] ELSE f[m - 1] \o ss[m]
      BY <2>3
    <3>2. QED
      BY <2>2, <2>3, <3>1
  <2>4. CASE i # m
    <3>1. i \in 1..(m - 1) /\ g[i] = f[i]
      BY <1>4, <2>4
    <3>2. QED
      BY <2>1, <2>2, <3>1
  <2>5. QED
    BY <2>3, <2>4
<1>9. Joins(g, ss, m)
  BY <1>8 DEF Joins
<1> HIDE DEF g
<1>10. QED
  BY <1>2, <1>7, <1>9

LEMMA FlattenNone == FlattenSeq(<<>>) = <<>>
BY DEF FlattenSeq

LEMMA FlattenType ==
  ASSUME NEW S, NEW ss \in Seq(Seq(S))
  PROVE  FlattenSeq(ss) \in Seq(S)
<1>1. CASE Len(ss) = 0
  <2>1. ss = <<>>
    BY <1>1
  <2>2. FlattenSeq(ss) = <<>>
    BY <2>1, FlattenNone
  <2>3. <<>> \in Seq(S)
    OBVIOUS
  <2>4. QED
    BY <2>2, <2>3
<1>2. CASE Len(ss) # 0
  <2>1. PICK f \in [1..Len(ss) -> Seq(S)] : Joins(f, ss, Len(ss))
    BY JoinsExist
  <2>2. Len(ss) \in 1..Len(ss)
    BY <1>2
  <2>3. FlattenSeq(ss) = f[Len(ss)]
    BY <1>2, <2>1, FlattenIs
  <2>4. QED
    BY <2>2, <2>3
<1>3. QED
  BY <1>1, <1>2

LEMMA FlattenMore ==
  ASSUME NEW S, NEW ss \in Seq(Seq(S)), NEW s \in Seq(S)
  PROVE  FlattenSeq(Append(ss, s)) = FlattenSeq(ss) \o s
<1> DEFINE n == Len(ss)
           tt == Append(ss, s)
<1>1. tt \in Seq(Seq(S)) /\ Len(tt) = n + 1 /\ n \in Nat /\ tt[n + 1] = s
        /\ \A i \in 1..n : tt[i] = ss[i]
  OBVIOUS
<1>2. PICK g \in [1..Len(tt) -> Seq(S)] : Joins(g, tt, Len(tt))
  BY <1>1, JoinsExist
<1>3. FlattenSeq(tt) = g[n + 1]
  <2>1. Len(tt) \in Nat /\ Len(tt) # 0
    BY <1>1
  <2>2. FlattenSeq(tt) = g[Len(tt)]
    BY <1>2, <2>1, FlattenIs
  <2>3. QED
    BY <1>1, <2>2
<1>4. \A i \in 1..(n + 1) : g[i] = IF i = 1 THEN tt[i] ELSE g[i - 1] \o tt[i]
  BY <1>1, <1>2 DEF Joins
<1>5. CASE n = 0
  <2>0. ss = <<>>
    BY <1>5
  <2>1. FlattenSeq(ss) = <<>>
    BY <2>0, FlattenNone
  <2>2. FlattenSeq(tt) = s
    <3>1. 1 \in 1..(n + 1) /\ n + 1 = 1
      BY <1>5
    <3>2. g[1] = tt[1]
      BY <1>4, <3>1
    <3>3. QED
      BY <1>1, <1>3, <3>1, <3>2
  <2>3. QED
    BY <2>1, <2>2
<1>6. CASE n # 0
  <2> DEFINE h == [i \in 1..n |-> g[i]]
  <2>1. ASSUME NEW i \in 1..n PROVE h[i] = IF i = 1 THEN ss[i] ELSE h[i - 1] \o ss[i]
    <3>1. i \in 1..(n + 1) /\ tt[i] = ss[i] /\ h[i] = g[i] /\ (i # 1 => h[i - 1] = g[i - 1])
      BY <1>1
    <3>2. g[i] = IF i = 1 THEN tt[i] ELSE g[i - 1] \o tt[i]
      BY <1>4, <3>1
    <3>3. QED
      BY <3>1, <3>2
  <2>2. Joins(h, ss, n)
    BY <2>1 DEF Joins
  <2>3. h[n] = g[n] /\ n + 1 # 1 /\ g[n + 1] = g[n] \o s
    <3>1. n + 1 \in 1..(n + 1) /\ n + 1 # 1 /\ (n + 1) - 1 = n /\ n \in 1..n
      BY <1>1, <1>6
    <3>2. g[n + 1] = g[(n + 1) - 1] \o tt[n + 1]
      BY <1>4, <3>1
    <3>3. QED
      BY <1>1, <3>1, <3>2
  <2> HIDE DEF h
  <2>4. FlattenSeq(ss) = h[n]
    BY <1>1, <1>6, <2>2, FlattenIs
  <2>5. QED
    BY <1>3, <2>3, <2>4
<1>7. QED
  BY <1>5, <1>6
-----------------------------------------------------------------------------
(* Selections.                                                             *)
LEMMA SelectedNone == ASSUME NEW at PROVE Selected(<<>>, at) = <<>>
BY FlattenNone DEF Selected

LEMMA SelectedMore ==
  ASSUME NEW X, NEW s \in Seq(X), NEW x \in X, NEW at
  PROVE  /\ Selected(s, at) \in Seq(X)
         /\ Selected(Append(s, x), at)
              = IF Len(s) + 1 \in at THEN Append(Selected(s, at), x) ELSE Selected(s, at)
<1> DEFINE t == Append(s, x)
           n == Len(s)
           ss == [i \in DOMAIN s |-> IF i \in at THEN <<s[i]>> ELSE <<>>]
           tt == [i \in DOMAIN t |-> IF i \in at THEN <<t[i]>> ELSE <<>>]
           y == IF n + 1 \in at THEN <<x>> ELSE <<>>
<1>1. n \in Nat /\ DOMAIN s = 1..n /\ DOMAIN t = 1..(n + 1) /\ t[n + 1] = x
        /\ \A i \in 1..n : t[i] = s[i] /\ s[i] \in X
  OBVIOUS
<1>2. ss \in Seq(Seq(X)) /\ Len(ss) = n
  BY <1>1
<1>3. y \in Seq(X)
  OBVIOUS
<1>4. tt = Append(ss, y)
  <2>1. tt \in Seq(Seq(X)) /\ Len(tt) = n + 1
    BY <1>1
  <2>2. Append(ss, y) \in Seq(Seq(X)) /\ Len(Append(ss, y)) = n + 1
    BY <1>2, <1>3
  <2>3. ASSUME NEW i \in 1..(n + 1) PROVE tt[i] = Append(ss, y)[i]
    <3>1. CASE i = n + 1
      <4>1. tt[n + 1] = y
        BY <1>1
      <4>2. Append(ss, y)[n + 1] = y
        BY <1>1, <1>2, <1>3
      <4>3. QED
        BY <3>1, <4>1, <4>2
    <3>2. CASE i # n + 1
      <4>1. i \in 1..n
        BY <1>1, <3>2
      <4>2. tt[i] = ss[i]
        BY <1>1, <4>1
      <4>3. Append(ss, y)[i] = ss[i]
        BY <1>1, <1>2, <1>3, <4>1
      <4>4. QED
        BY <4>2, <4>3
    <3>3. QED
      BY <3>1, <3>2
  <2>4. QED
    BY <2>1, <2>2, <2>3, SeqEqual
<1> HIDE DEF ss, tt, y
<1>5. FlattenSeq(tt) = FlattenSeq(ss) \o y /\ FlattenSeq(ss) \in Seq(X)
  BY <1>2, <1>3, <1>4, FlattenMore, FlattenType
<1>6. Selected(s, at) = FlattenSeq(ss) /\ Selected(t, at) = FlattenSeq(tt)
  BY DEF Selected, ss, tt
<1>7. CASE n + 1 \in at
  <2>1. y = <<x>>
    BY <1>7 DEF y
  <2>2. FlattenSeq(ss) \o <<x>> = Append(FlattenSeq(ss), x)
    BY <1>5
  <2>3. QED
    BY <1>5, <1>6, <1>7, <2>1, <2>2
<1>8. CASE n + 1 \notin at
  <2>1. y = <<>>
    BY <1>8 DEF y
  <2>2. FlattenSeq(ss) \o <<>> = FlattenSeq(ss)
    BY <1>5
  <2>3. QED
    BY <1>5, <1>6, <1>8, <2>1, <2>2
<1>9. QED
  BY <1>7, <1>8

LEMMA SelectedType ==
  ASSUME NEW X, NEW s \in Seq(X), NEW at
  PROVE  Selected(s, at) \in Seq(X)
<1> DEFINE ss == [i \in DOMAIN s |-> IF i \in at THEN <<s[i]>> ELSE <<>>]
           n == Len(s)
<1>0. n \in Nat /\ DOMAIN s = 1..n /\ \A i \in 1..n : s[i] \in X
  OBVIOUS
<1>1. ss \in Seq(Seq(X)) /\ Len(ss) = n
  BY <1>0
<1> HIDE DEF ss
<1>2. FlattenSeq(ss) \in Seq(X)
  BY <1>1, FlattenType
<1>3. QED
  BY <1>2 DEF Selected, ss

LEMMA SelectedSame ==
  ASSUME NEW s, NEW at, NEW bt, \A i \in DOMAIN s : i \in at <=> i \in bt
  PROVE  Selected(s, at) = Selected(s, bt)
<1>1. [i \in DOMAIN s |-> IF i \in at
        THEN <<s[i]>> ELSE <<>>] = [i \in DOMAIN s |-> IF i \in bt THEN <<s[i]>> ELSE <<>>]
  OBVIOUS
<1>2. QED
  BY <1>1, Zenon DEF Selected

LEMMA SelectedAll ==
  ASSUME NEW X, NEW s \in Seq(X), NEW at, DOMAIN s \subseteq at
  PROVE  Selected(s, at) = s
<1> DEFINE P == {t \in Seq(X) : DOMAIN t \subseteq at => Selected(t, at) = t}
<1>1. <<>> \in P
  BY SelectedNone
<1>2. ASSUME NEW t \in Seq(X), NEW x \in X, t \in P PROVE Append(t, x) \in P
  <2>1. SUFFICES ASSUME DOMAIN Append(t, x) \subseteq at
          PROVE Selected(Append(t, x), at) = Append(t, x)
    OBVIOUS
  <2>2. DOMAIN t = 1..Len(t) /\ DOMAIN Append(t, x) = 1..(Len(t) + 1) /\ Len(t) \in Nat
    OBVIOUS
  <2>3. Len(t) + 1 \in at /\ DOMAIN t \subseteq at
    BY <2>1, <2>2
  <2>4. Selected(t, at) = t
    BY <1>2, <2>3
  <2>5. QED
    BY <2>3, <2>4, SelectedMore
<1> HIDE DEF P
<1>3. s \in P
  BY <1>1, <1>2, BySequence
<1>4. QED
  BY <1>3 DEF P

(* Control characters.                                                     *)
LEMMA StripNone == Strip(<<>>) = <<>>
BY SelectedNone DEF Strip

LEMMA StripMore ==
  ASSUME NEW X, NEW t \in Seq(X), NEW x \in X
  PROVE  /\ Strip(t) \in Seq(X)
         /\ Strip(Append(t, x)) = IF x = Control THEN Strip(t) ELSE Append(Strip(t), x)
<1> DEFINE u == Append(t, x)
           at == {i \in DOMAIN u : u[i] # Control}
           bt == {i \in DOMAIN t : t[i] # Control}
<1>1. Len(t) \in Nat /\ DOMAIN t = 1..Len(t) /\ DOMAIN u = 1..(Len(t) + 1)
        /\ u[Len(t) + 1] = x /\ \A i \in 1..Len(t) : u[i] = t[i]
  OBVIOUS
<1>2. (Len(t) + 1 \in at) <=> x # Control
  BY <1>1
<1>3. \A i \in DOMAIN t : i \in at <=> i \in bt
  BY <1>1
<1>4. Strip(u) = Selected(u, at) /\ Strip(t) = Selected(t, bt)
  BY DEF Strip
<1> HIDE DEF at, bt
<1>5. Selected(t, at) = Selected(t, bt)
  BY <1>3, SelectedSame
<1>6. Selected(t, at) \in Seq(X)
        /\ Selected(u, at) = IF Len(t) + 1 \in at
             THEN Append(Selected(t, at), x) ELSE Selected(t, at)
  BY SelectedMore
<1>7. QED
  BY <1>2, <1>4, <1>5, <1>6

LEMMA StripClean ==
  ASSUME NEW X, Control \notin X, NEW t \in Seq(X)
  PROVE  Strip(t) = t
<1> DEFINE at == {i \in DOMAIN t : t[i] # Control}
<1>1. DOMAIN t \subseteq at
  OBVIOUS
<1> HIDE DEF at
<1>2. Selected(t, at) = t
  BY <1>1, SelectedAll
<1>3. QED
  BY <1>2 DEF Strip, at

LEMMA StripType ==
  ASSUME NEW X, NEW t \in Seq(X)
  PROVE  Strip(t) \in Seq(X \ {Control})
<1> DEFINE P == {u \in Seq(X) : Strip(u) \in Seq(X \ {Control})}
<1>1. <<>> \in P
  <2>1. <<>> \in Seq(X) /\ <<>> \in Seq(X \ {Control})
    OBVIOUS
  <2>2. QED
    BY <2>1, StripNone
<1>2. ASSUME NEW u \in Seq(X), NEW x \in X, u \in P PROVE Append(u, x) \in P
  <2>1. Strip(Append(u, x)) = IF x = Control THEN Strip(u) ELSE Append(Strip(u), x)
    BY StripMore
  <2>2. Strip(u) \in Seq(X \ {Control})
    BY <1>2
  <2>3. x # Control => Append(Strip(u), x) \in Seq(X \ {Control})
    BY <2>2
  <2>4. Strip(Append(u, x)) \in Seq(X \ {Control}) /\ Append(u, x) \in Seq(X)
    BY <2>1, <2>2, <2>3
  <2>5. QED
    BY <2>4
<1> HIDE DEF P
<1>3. t \in P
  BY <1>1, <1>2, BySequence
<1>4. QED
  BY <1>3 DEF P

LEMMA ConcatAppend ==
  ASSUME NEW X, NEW a \in Seq(X), NEW b \in Seq(X), NEW x \in X
  PROVE  a \o b \in Seq(X) /\ a \o Append(b, x) = Append(a \o b, x)
<1>1. a \o b \in Seq(X) /\ Len(a \o b) = Len(a) + Len(b)
  BY ConcatProperties
<1>2. Append(b, x) \in Seq(X) /\ Len(Append(b, x)) = Len(b) + 1 /\ Len(a) \in Nat
        /\ Len(b) \in Nat
  OBVIOUS
<1> DEFINE m == Len(a) + Len(b) + 1
<1>3. a \o Append(b, x) \in Seq(X) /\ Len(a \o Append(b, x)) = m
  BY <1>2, ConcatProperties
<1>4. Append(a \o b, x) \in Seq(X) /\ Len(Append(a \o b, x)) = m
  BY <1>1
<1>5. ASSUME NEW i \in 1..m PROVE (a \o Append(b, x))[i] = Append(a \o b, x)[i]
  BY <1>1, <1>2
<1>6. QED
  BY <1>3, <1>4, <1>5, SeqEqual

LEMMA StripMore0 ==
  ASSUME NEW X, NEW t \in Seq(X)
  PROVE  Strip(t) \in Seq(X)
BY SelectedType DEF Strip

LEMMA StripConcat ==
  ASSUME NEW X, NEW a \in Seq(X), NEW b \in Seq(X)
  PROVE  Strip(a \o b) = Strip(a) \o Strip(b)
<1> DEFINE P == {u \in Seq(X) : Strip(a \o u) = Strip(a) \o Strip(u)}
<1>0. Strip(a) \in Seq(X)
  BY StripMore0
<1>1. <<>> \in P
  <2>1. a \o <<>> = a /\ Strip(a) \o <<>> = Strip(a) /\ <<>> \in Seq(X)
    BY <1>0, ConcatEmptySeq
  <2>2. QED
    BY <2>1, StripNone
<1>2. ASSUME NEW u \in Seq(X), NEW x \in X, u \in P PROVE Append(u, x) \in P
  <2>1. Strip(Append(u, x)) = IF x = Control THEN Strip(u) ELSE Append(Strip(u), x)
    BY StripMore
  <2>2. a \o u \in Seq(X) /\ a \o Append(u, x) = Append(a \o u, x)
    BY ConcatAppend
  <2>3. Strip(Append(a \o u, x))
          = IF x = Control THEN Strip(a \o u) ELSE Append(Strip(a \o u), x)
    BY <2>2, StripMore
  <2>4. Strip(u) \in Seq(X) /\ Strip(a \o u) = Strip(a) \o Strip(u)
    BY <1>2, StripMore
  <2>5. Strip(a) \o Append(Strip(u), x) = Append(Strip(a) \o Strip(u), x)
    BY <1>0, <2>4, ConcatAppend
  <2>6. Append(u, x) \in Seq(X)
    OBVIOUS
  <2>7. Strip(a \o Append(u, x)) = Strip(a) \o Strip(Append(u, x))
    <3>1. CASE x = Control
      <4>1. Strip(Append(u, x)) = Strip(u) /\ Strip(Append(a \o u, x)) = Strip(a \o u)
        BY <2>1, <2>3, <3>1
      <4>2. QED
        BY <2>2, <2>4, <4>1
    <3>2. CASE x # Control
      <4>1. Strip(Append(u, x)) = Append(Strip(u), x)
              /\ Strip(Append(a \o u, x)) = Append(Strip(a \o u), x)
        BY <2>1, <2>3, <3>2
      <4>2. QED
        BY <2>2, <2>4, <2>5, <4>1
    <3>3. QED
      BY <3>1, <3>2
  <2>8. QED
    BY <2>6, <2>7
<1> HIDE DEF P
<1>3. b \in P
  BY <1>1, <1>2, BySequence
<1>4. QED
  BY <1>3 DEF P
-----------------------------------------------------------------------------
(* Blocks: those of an unknown type are dropped, text loses its control    *)
(* characters, and what is kept of the text is all of it but those.        *)
Blocks(X) == {b \in [type : {"text", "image", "audio"}, text : Seq(X)] : b.type = "text"
  \/ b.text = <<>>}
Part(b) == IF b.type = "text" THEN [b EXCEPT !.text = Strip(@)] ELSE b
Parts(known) == [i \in DOMAIN known |-> Part(known[i])]
Texts(blocks) == FlattenSeq([i \in DOMAIN blocks |-> blocks[i].text])

LEMMA PartType ==
  ASSUME NEW X, NEW b \in Blocks(X)
  PROVE  Part(b) \in Blocks(X) /\ Part(b).type = b.type
    /\ Part(b).text = IF b.type = "text" THEN Strip(b.text) ELSE <<>>
<1>1. b = [type |-> b.type, text |-> b.text] /\ b.type \in {"text", "image", "audio"}
        /\ b.text \in Seq(X)
  BY DEF Blocks
<1>2. b.type = "text" \/ b.text = <<>>
  BY DEF Blocks
<1>3. CASE b.type = "text"
  <2>1. Strip(b.text) \in Seq(X)
    BY <1>1, StripMore0
  <2>2. Part(b) = [b EXCEPT !.text = Strip(b.text)]
    BY <1>3 DEF Part
  <2>3. Part(b) = [type |-> "text", text |-> Strip(b.text)]
    BY <1>1, <1>3, <2>2
  <2>4. QED
    BY <1>3, <2>1, <2>3 DEF Blocks
<1>4. CASE b.type # "text"
  <2>1. Part(b) = b
    BY <1>4 DEF Part
  <2>2. QED
    BY <1>2, <1>4, <2>1
<1>5. QED
  BY <1>3, <1>4

LEMMA PartsMore ==
  ASSUME NEW X, NEW k \in Seq(Blocks(X)), NEW b \in Blocks(X)
  PROVE  Parts(k) \in Seq(Blocks(X)) /\ Parts(Append(k, b)) = Append(Parts(k), Part(b))
<1> DEFINE B == Blocks(X)
           n == Len(k)
           t == Append(k, b)
<1>1. n \in Nat /\ DOMAIN k = 1..n /\ DOMAIN t = 1..(n + 1) /\ t[n + 1] = b
        /\ \A i \in 1..n : t[i] = k[i] /\ k[i] \in B
  OBVIOUS
<1>2. \A c \in B : Part(c) \in B
  BY PartType
<1> HIDE DEF B, t
<1>3. Parts(k) \in Seq(B) /\ Len(Parts(k)) = n /\ \A i \in 1..n : Parts(k)[i] = Part(k[i])
  BY <1>1, <1>2 DEF Parts
<1>4. Part(b) \in B
  BY <1>2 DEF B
<1>5. Append(Parts(k), Part(b)) \in Seq(B) /\ Len(Append(Parts(k), Part(b))) = n + 1
  BY <1>3, <1>4
<1>6. \A i \in 1..(n + 1) : t[i] \in B
  BY <1>1 DEF B
<1>7. Parts(t) \in Seq(B) /\ Len(Parts(t)) = n + 1
        /\ \A i \in 1..(n + 1) : Parts(t)[i] = Part(t[i])
  BY <1>1, <1>2, <1>6 DEF Parts
<1>8. ASSUME NEW i \in 1..(n + 1) PROVE Parts(t)[i] = Append(Parts(k), Part(b))[i]
  <2>1. CASE i = n + 1
    BY <1>1, <1>3, <1>4, <1>7, <2>1
  <2>2. CASE i # n + 1
    <3>1. i \in 1..n
      BY <1>1, <2>2
    <3>2. Append(Parts(k), Part(b))[i] = Parts(k)[i]
      BY <1>1, <1>3, <1>4, <3>1
    <3>3. QED
      BY <1>1, <1>3, <1>7, <3>1, <3>2
  <2>3. QED
    BY <2>1, <2>2
<1>9. Parts(t) = Append(Parts(k), Part(b))
  BY <1>5, <1>7, <1>8, SeqEqual
<1>10. QED
  BY <1>3, <1>9 DEF B, t

LEMMA BuildNone == BuildMessageParts(<<>>) = <<>>
<1> DEFINE at == {i \in DOMAIN <<>> : <<>>[i].type \in {"text", "image", "tool_use",
      "tool_result"}}
<1>1. Selected(<<>>, at) = <<>>
  BY SelectedNone
<1>2. BuildMessageParts(<<>>) = Parts(Selected(<<>>, at))
  BY DEF BuildMessageParts, Parts, Part
<1>3. Parts(<<>>) = <<>>
  BY DEF Parts
<1>4. QED
  BY <1>1, <1>2, <1>3

LEMMA BuildMore ==
  ASSUME NEW X, NEW bs \in Seq(Blocks(X)), NEW b \in Blocks(X)
  PROVE  /\ BuildMessageParts(bs) \in Seq(Blocks(X))
         /\ BuildMessageParts(Append(bs, b)) =
              IF b.type = "audio" THEN BuildMessageParts(bs)
                ELSE Append(BuildMessageParts(bs), Part(b))
<1> DEFINE types == {"text", "image", "tool_use", "tool_result"}
           u == Append(bs, b)
           at == {i \in DOMAIN u : u[i].type \in types}
           bt == {i \in DOMAIN bs : bs[i].type \in types}
<1>1. Len(bs) \in Nat /\ DOMAIN bs = 1..Len(bs) /\ DOMAIN u = 1..(Len(bs) + 1)
        /\ u[Len(bs) + 1] = b /\ \A i \in 1..Len(bs) : u[i] = bs[i]
  OBVIOUS
<1>2. b.type \in {"text", "image", "audio"}
  BY DEF Blocks
<1>3. (Len(bs) + 1 \in at) <=> b.type # "audio"
  BY <1>1, <1>2
<1>4. \A i \in DOMAIN bs : i \in at <=> i \in bt
  BY <1>1
<1>5. BuildMessageParts(u) = Parts(Selected(u, at))
        /\ BuildMessageParts(bs) = Parts(Selected(bs, bt))
  BY DEF BuildMessageParts, Parts, Part
<1> HIDE DEF at, bt
<1>6. Selected(bs, at) = Selected(bs, bt)
  BY <1>4, SelectedSame
<1> DEFINE k == Selected(bs, at)
<1>7. k \in Seq(Blocks(X))
        /\ Selected(u, at) = IF Len(bs) + 1 \in at THEN Append(k, b) ELSE k
  BY SelectedMore
<1> HIDE DEF k
<1>8. Parts(k) \in Seq(Blocks(X)) /\ Parts(Append(k, b)) = Append(Parts(k), Part(b))
  BY <1>7, PartsMore
<1>9. BuildMessageParts(bs) = Parts(k)
  BY <1>5, <1>6 DEF k
<1>10. CASE b.type = "audio"
  BY <1>3, <1>5, <1>7, <1>8, <1>9, <1>10
<1>11. CASE b.type # "audio"
  BY <1>3, <1>5, <1>7, <1>8, <1>9, <1>11
<1>12. QED
  BY <1>10, <1>11

LEMMA TextsNone == Texts(<<>>) = <<>>
BY FlattenNone DEF Texts

LEMMA TextsMore ==
  ASSUME NEW X, NEW bs \in Seq(Blocks(X)), NEW b \in Blocks(X)
  PROVE  Texts(bs) \in Seq(X) /\ Texts(Append(bs, b)) = Texts(bs) \o b.text
<1> DEFINE t == Append(bs, b)
           n == Len(bs)
           ss == [i \in DOMAIN bs |-> bs[i].text]
           tt == [i \in DOMAIN t |-> t[i].text]
<1>1. n \in Nat /\ DOMAIN bs = 1..n /\ DOMAIN t = 1..(n + 1) /\ t[n + 1] = b
        /\ \A i \in 1..n : t[i] = bs[i] /\ bs[i] \in Blocks(X)
  OBVIOUS
<1>2. \A c \in Blocks(X) : c.text \in Seq(X)
  BY DEF Blocks
<1>3. ss \in Seq(Seq(X)) /\ Len(ss) = n
  BY <1>1, <1>2
<1>4. b.text \in Seq(X)
  BY <1>2
<1>5. tt = Append(ss, b.text)
  <2>0. \A i \in 1..(n + 1) : t[i] \in Blocks(X)
    BY <1>1
  <2>1. tt \in Seq(Seq(X)) /\ Len(tt) = n + 1
    BY <1>1, <1>2, <2>0
  <2>2. Append(ss, b.text) \in Seq(Seq(X)) /\ Len(Append(ss, b.text)) = n + 1
    BY <1>3, <1>4
  <2>3. ASSUME NEW i \in 1..(n + 1) PROVE tt[i] = Append(ss, b.text)[i]
    <3>1. CASE i = n + 1
      BY <1>1, <1>3, <1>4, <3>1
    <3>2. CASE i # n + 1
      <4>1. i \in 1..n
        BY <1>1, <3>2
      <4>2. tt[i] = ss[i]
        BY <1>1, <4>1
      <4>3. Append(ss, b.text)[i] = ss[i]
        BY <1>1, <1>3, <1>4, <4>1
      <4>4. QED
        BY <4>2, <4>3
    <3>3. QED
      BY <3>1, <3>2
  <2>4. QED
    BY <2>1, <2>2, <2>3, SeqEqual
<1> HIDE DEF ss, tt
<1>6. FlattenSeq(tt) = FlattenSeq(ss) \o b.text /\ FlattenSeq(ss) \in Seq(X)
  BY <1>3, <1>4, <1>5, FlattenMore, FlattenType
<1>7. QED
  BY <1>6 DEF Texts, ss, tt

LEMMA TextsType ==
  ASSUME NEW X, NEW bs \in Seq(Blocks(X))
  PROVE  Texts(bs) \in Seq(X)
<1> DEFINE ss == [i \in DOMAIN bs |-> bs[i].text]
<1>1. \A c \in Blocks(X) : c.text \in Seq(X)
  BY DEF Blocks
<1>2. Len(bs) \in Nat /\ DOMAIN bs = 1..Len(bs) /\ \A i \in 1..Len(bs) : bs[i] \in Blocks(X)
  OBVIOUS
<1>3. ss \in Seq(Seq(X)) /\ Len(ss) = Len(bs)
  BY <1>1, <1>2
<1> HIDE DEF ss
<1>4. FlattenSeq(ss) \in Seq(X)
  BY <1>3, FlattenType
<1>5. QED
  BY <1>4 DEF Texts, ss

LEMMA TextOfNone == TextParts(<<>>) = <<>> /\ TextOf(<<>>) = <<>>
<1>1. TextParts(<<>>) = <<>>
  BY SelectedNone DEF TextParts
<1>2. TextOf(<<>>) = Texts(TextParts(<<>>))
  BY DEF TextOf, Texts
<1>3. QED
  BY <1>1, <1>2, TextsNone

LEMMA TextOfMore ==
  ASSUME NEW X, NEW ps \in Seq(Blocks(X)), NEW p \in Blocks(X)
  PROVE  /\ TextParts(ps) \in Seq(Blocks(X)) /\ TextOf(ps) \in Seq(X)
         /\ TextOf(Append(ps, p)) = IF p.type = "text"
              THEN TextOf(ps) \o p.text ELSE TextOf(ps)
<1> DEFINE u == Append(ps, p)
           at == {i \in DOMAIN u : u[i].type = "text"}
           bt == {i \in DOMAIN ps : ps[i].type = "text"}
<1>1. Len(ps) \in Nat /\ DOMAIN ps = 1..Len(ps) /\ DOMAIN u = 1..(Len(ps) + 1)
        /\ u[Len(ps) + 1] = p /\ \A i \in 1..Len(ps) : u[i] = ps[i]
  OBVIOUS
<1>3. (Len(ps) + 1 \in at) <=> p.type = "text"
  BY <1>1
<1>4. \A i \in DOMAIN ps : i \in at <=> i \in bt
  BY <1>1
<1>5. TextParts(u) = Selected(u, at) /\ TextParts(ps) = Selected(ps, bt)
  BY DEF TextParts
<1> HIDE DEF at, bt
<1>6. Selected(ps, at) = Selected(ps, bt)
  BY <1>4, SelectedSame
<1> DEFINE k == Selected(ps, at)
<1>7. k \in Seq(Blocks(X))
        /\ Selected(u, at) = IF Len(ps) + 1 \in at THEN Append(k, p) ELSE k
  BY SelectedMore
<1> HIDE DEF k
<1>8. TextParts(ps) = k
  BY <1>5, <1>6 DEF k
<1>9. TextOf(ps) = Texts(k) /\ TextOf(u) = Texts(TextParts(u))
  BY <1>8 DEF TextOf, Texts
<1>10. Texts(k) \in Seq(X) /\ Texts(Append(k, p)) = Texts(k) \o p.text
  BY <1>7, TextsMore
<1>11. CASE p.type = "text"
  BY <1>3, <1>5, <1>7, <1>8, <1>9, <1>10, <1>11
<1>12. CASE p.type # "text"
  BY <1>3, <1>5, <1>7, <1>8, <1>9, <1>10, <1>12
<1>13. QED
  BY <1>11, <1>12

LEMMA PartsKeepText ==
  ASSUME NEW X, NEW bs \in Seq(Blocks(X))
  PROVE  /\ BuildMessageParts(bs) \in Seq(Blocks(X))
         /\ TextOf(BuildMessageParts(bs)) = Strip(Texts(bs))
<1> DEFINE B == Blocks(X)
           P == {cs \in Seq(B) : BuildMessageParts(cs) \in Seq(B)
             /\ TextOf(BuildMessageParts(cs)) = Strip(Texts(cs))}
<1>1. <<>> \in P
  <2>1. <<>> \in Seq(B)
    OBVIOUS
  <2>2. QED
    BY <2>1, BuildNone, TextOfNone, TextsNone, StripNone
<1>2. ASSUME NEW cs \in Seq(B), NEW b \in B, cs \in P PROVE Append(cs, b) \in P
  <2> DEFINE ps == BuildMessageParts(cs)
             us == BuildMessageParts(Append(cs, b))
  <2>1. ps \in Seq(B) /\ us = IF b.type = "audio" THEN ps ELSE Append(ps, Part(b))
    BY BuildMore
  <2>2. TextOf(ps) = Strip(Texts(cs))
    BY <1>2
  <2>3. Append(cs, b) \in Seq(B)
    OBVIOUS
  <2>4. Texts(cs) \in Seq(X) /\ Texts(Append(cs, b)) = Texts(cs) \o b.text
    BY TextsMore
  <2>5. b.text \in Seq(X) /\ b.type \in {"text", "image", "audio"}
          /\ (b.type = "text" \/ b.text = <<>>)
    BY DEF Blocks
  <2>6. Strip(Texts(cs) \o b.text) = Strip(Texts(cs)) \o Strip(b.text)
    BY <2>4, <2>5, StripConcat
  <2>7. Part(b) \in B /\ Part(b).type = b.type
          /\ Part(b).text = IF b.type = "text" THEN Strip(b.text) ELSE <<>>
    BY PartType
  <2> HIDE DEF ps, us, B, P
  <2>8. TextOf(ps) \in Seq(X)
          /\ TextOf(Append(ps, Part(b)))
               = IF Part(b).type = "text" THEN TextOf(ps) \o Part(b).text ELSE TextOf(ps)
    BY <2>1, <2>7, TextOfMore DEF B
  <2>9. us \in Seq(B)
    BY <2>1, <2>7
  <2>10. TextOf(us) = Strip(Texts(Append(cs, b)))
    <3>1. CASE b.type = "text"
      <4>1. TextOf(us) = TextOf(ps) \o Strip(b.text)
        BY <2>1, <2>7, <2>8, <3>1
      <4>2. QED
        BY <2>2, <2>4, <2>6, <4>1
    <3>2. CASE b.type # "text"
      <4>1. Strip(b.text) = <<>> /\ b.text = <<>>
        BY <2>5, <3>2, StripNone
      <4>2. Texts(Append(cs, b)) = Texts(cs)
        BY <2>4, <4>1, ConcatEmptySeq
      <4>3. TextOf(us) = TextOf(ps)
        BY <2>1, <2>7, <2>8, <3>2
      <4>4. QED
        BY <2>2, <4>2, <4>3
    <3>3. QED
      BY <3>1, <3>2
  <2>11. QED
    BY <2>3, <2>9, <2>10 DEF P, us
<1> HIDE DEF P
<1>3. bs \in P
  BY <1>1, <1>2, BySequence
<1>4. QED
  BY <1>3 DEF P
-----------------------------------------------------------------------------
(* The words.  Spoken is what a conversation may contain, System, Memory   *)
(* and the two markers are never said in it.                               *)
Spoken == {Control} \union UNION {{Asked(w, n), AsksMore(w, n),
  Answered(w, n)} : w \in Chats, n \in Nat}
Vocabulary == Spoken \union {System, Memory, Open, Close}

LEMMA WordsApart ==
  /\ System # Memory /\ System # Control /\ System # Open /\ System # Close
  /\ Memory # Control /\ Memory # Open /\ Memory # Close
  /\ Control # Open /\ Control # Close /\ Open # Close
BY DEF System, Memory, Control, Open, Close

LEMMA SpokenApart == {Open, Memory, Close} \intersect Spoken = {}
<1>1. ASSUME NEW x \in {Open, Memory, Close}, NEW w \in Chats, NEW n \in Nat
      PROVE  x # Asked(w, n) /\ x # AsksMore(w, n) /\ x # Answered(w, n)
  <2>1. Len(x) = 1
    BY DEF Open, Memory, Close
  <2>2. Len(Asked(w, n)) = 3 /\ Len(AsksMore(w, n)) = 3 /\ Len(Answered(w, n)) = 3
    BY DEF Asked, AsksMore, Answered
  <2>3. QED
    BY <2>1, <2>2
<1>2. Control \notin {Open, Memory, Close}
  BY WordsApart
<1>3. QED
  BY <1>1, <1>2 DEF Spoken

LEMMA SelectedOne ==
  ASSUME NEW x, NEW at
  PROVE  Selected(<<x>>, at) = IF 1 \in at THEN <<x>> ELSE <<>>
<1>1. ASSUME NEW e \in Seq({x}), e = <<>>
        PROVE Selected(<<x>>, at) = IF 1 \in at THEN <<x>> ELSE <<>>
  <2>1. Selected(Append(e, x), at)
          = IF Len(e) + 1 \in at THEN Append(Selected(e, at), x) ELSE Selected(e, at)
    BY SelectedMore
  <2>2. Len(e) + 1 = 1 /\ Append(e, x) = <<x>>
    BY <1>1
  <2>3. Selected(e, at) = <<>>
    BY <1>1, SelectedNone
  <2>4. Append(Selected(e, at), x) = <<x>>
    BY <2>3
  <2>5. QED
    BY <2>1, <2>2, <2>3, <2>4
<1>2. <<>> \in Seq({x})
  OBVIOUS
<1>3. QED
  BY <1>1, <1>2

LEMMA SelectedAfter ==
  ASSUME NEW X, NEW x \in X, NEW at, NEW s \in Seq(X), 1 \notin at,
    \A i \in 1..Len(s) : i + 1 \in at
  PROVE  Selected(<<x>> \o s, at) = s
<1> DEFINE P == {t \in Seq(X) : (\A i \in 1..Len(t) : i + 1 \in at)
      => Selected(<<x>> \o t, at) = t}
<1>0. <<x>> \in Seq(X) /\ Len(<<x>>) = 1 /\ <<x>> = Append(<<>>, x) /\ <<>> \in Seq(X)
        /\ Len(<<>>) = 0
  OBVIOUS
<1>1. <<>> \in P
  <2>2. Selected(<<x>>, at) = <<>>
    BY SelectedOne
  <2>3. <<x>> \o <<>> = <<x>>
    BY <1>0, ConcatEmptySeq
  <2>4. QED
    BY <1>0, <2>2, <2>3
<1>2. ASSUME NEW t \in Seq(X), NEW y \in X, t \in P PROVE Append(t, y) \in P
  <2>1. Append(t, y) \in Seq(X) /\ Len(Append(t, y)) = Len(t) + 1 /\ Len(t) \in Nat
    OBVIOUS
  <2>2. SUFFICES ASSUME \A i \in 1..(Len(t) + 1) : i + 1 \in at
          PROVE Selected(<<x>> \o Append(t, y), at) = Append(t, y)
    BY <2>1
  <2>3. \A i \in 1..Len(t) : i + 1 \in at
    BY <2>1, <2>2
  <2>4. Selected(<<x>> \o t, at) = t
    BY <1>2, <2>3
  <2>5. <<x>> \o t \in Seq(X) /\ <<x>> \o Append(t, y) = Append(<<x>> \o t, y)
    BY <1>0, ConcatAppend
  <2>6. Len(<<x>> \o t) = Len(t) + 1
    BY <1>0, <2>1, ConcatProperties
  <2>7. (Len(t) + 1) + 1 \in at
    BY <2>1, <2>2
  <2> DEFINE u == <<x>> \o t
  <2>50. u \in Seq(X)
    BY <2>5
  <2> HIDE DEF u
  <2>80. Selected(Append(u, y), at)
           = IF Len(u) + 1 \in at THEN Append(Selected(u, at), y) ELSE Selected(u, at)
    BY <2>50, SelectedMore
  <2>8. Selected(Append(<<x>> \o t, y), at)
          = IF Len(<<x>> \o t) + 1 \in at
          THEN Append(Selected(<<x>> \o t, at), y) ELSE Selected(<<x>> \o t, at)
    BY <2>80 DEF u
  <2>9. QED
    BY <2>4, <2>5, <2>6, <2>7, <2>8
<1> HIDE DEF P
<1>3. s \in P
  BY <1>1, <1>2, BySequence
<1>4. QED
  BY <1>3 DEF P

LEMMA SelectedFirst ==
  ASSUME NEW X, NEW x \in X, NEW at, NEW s \in Seq(X), 1 \in at,
    \A i \in 1..Len(s) : i + 1 \notin at
  PROVE  Selected(<<x>> \o s, at) = <<x>>
<1> DEFINE P == {t \in Seq(X) : (\A i \in 1..Len(t) : i + 1 \notin at)
      => Selected(<<x>> \o t, at) = <<x>>}
<1>0. <<x>> \in Seq(X) /\ Len(<<x>>) = 1 /\ <<x>> = Append(<<>>, x) /\ <<>> \in Seq(X)
        /\ Len(<<>>) = 0
  OBVIOUS
<1>1. <<>> \in P
  <2>2. Selected(<<x>>, at) = <<x>>
    BY SelectedOne
  <2>3. <<x>> \o <<>> = <<x>>
    BY <1>0, ConcatEmptySeq
  <2>4. QED
    BY <1>0, <2>2, <2>3
<1>2. ASSUME NEW t \in Seq(X), NEW y \in X, t \in P PROVE Append(t, y) \in P
  <2>1. Append(t, y) \in Seq(X) /\ Len(Append(t, y)) = Len(t) + 1 /\ Len(t) \in Nat
    OBVIOUS
  <2>2. SUFFICES ASSUME \A i \in 1..(Len(t) + 1) : i + 1 \notin at
          PROVE Selected(<<x>> \o Append(t, y), at) = <<x>>
    BY <2>1
  <2>3. \A i \in 1..Len(t) : i + 1 \notin at
    BY <2>1, <2>2
  <2>4. Selected(<<x>> \o t, at) = <<x>>
    BY <1>2, <2>3
  <2>5. <<x>> \o t \in Seq(X) /\ <<x>> \o Append(t, y) = Append(<<x>> \o t, y)
    BY <1>0, ConcatAppend
  <2>6. Len(<<x>> \o t) = Len(t) + 1
    BY <1>0, <2>1, ConcatProperties
  <2>7. (Len(t) + 1) + 1 \notin at
    BY <2>1, <2>2
  <2> DEFINE u == <<x>> \o t
  <2>50. u \in Seq(X)
    BY <2>5
  <2> HIDE DEF u
  <2>80. Selected(Append(u, y), at)
           = IF Len(u) + 1 \in at THEN Append(Selected(u, at), y) ELSE Selected(u, at)
    BY <2>50, SelectedMore
  <2>8. Selected(Append(<<x>> \o t, y), at)
          = IF Len(<<x>> \o t) + 1 \in at
          THEN Append(Selected(<<x>> \o t, at), y) ELSE Selected(<<x>> \o t, at)
    BY <2>80 DEF u
  <2>9. QED
    BY <2>4, <2>5, <2>6, <2>7, <2>8
<1> HIDE DEF P
<1>3. s \in P
  BY <1>1, <1>2, BySequence
<1>4. QED
  BY <1>3 DEF P

(* What a window shows, and what of it goes into a request.                *)
CallIds == {<<"call", n>> : n \in Nat}
Shown == [role : {"user", "assistant", "tool"}, blocks : Seq(Blocks(Spoken)),
  calls : SUBSET CallIds, answers : CallIds \union {NoId}]
Translated(shown) ==
  [i \in DOMAIN shown |-> [role |-> shown[i].role,
    parts |-> BuildMessageParts(shown[i].blocks),
                           calls |-> shown[i].calls, answers |-> shown[i].answers]]
PrefaceText(w) == IF Presents[w].marked THEN <<System, Open, Memory, Close>> ELSE <<System>>

LEMMA PrefaceIs ==
  ASSUME NEW w \in Chats
  PROVE  /\ Preface(w) = <<Preface(w)[1]>> /\ Preface(w)[1].role = "system"
         /\ Preface(w)[1].blocks = <<Block("text", PrefaceText(w))>>
BY DEF Preface, Message, PrefaceText

LEMMA PrefaceTextIs ==
  ASSUME NEW w \in Chats
  PROVE  PrefaceText(w) \in Seq({System, Open, Memory, Close})
    /\ Strip(PrefaceText(w)) = PrefaceText(w)
<1> DEFINE X == {System, Open, Memory, Close}
<1>1. <<System, Open, Memory, Close>> \in Seq(X) /\ <<System>> \in Seq(X)
  OBVIOUS
<1>2. Control \notin X
  BY WordsApart
<1> HIDE DEF X
<1>3. PrefaceText(w) \in Seq(X)
  BY <1>1 DEF PrefaceText
<1>4. Strip(PrefaceText(w)) = PrefaceText(w)
  BY <1>2, <1>3, StripClean
<1>5. QED
  BY <1>3, <1>4 DEF X

IsRequest(r) ==
  r = [conversation |-> r.conversation, system |-> r.system, messages |-> r.messages,
    model |-> r.model, provider |-> r.provider]

LEMMA NormalizeIs ==
  ASSUME NEW w \in Chats, NEW shown \in Seq(Shown), NEW model, NEW id
  PROVE  /\ IsRequest(Normalize(Preface(w) \o shown, model, id))
         /\ Normalize(Preface(w) \o shown, model, id).conversation = id
         /\ Normalize(Preface(w) \o shown, model, id).messages = Translated(shown)
         /\ TextOf(Normalize(Preface(w) \o shown, model, id).system) = PrefaceText(w)
         /\ Normalize(Preface(w) \o shown, model, id).model = UpstreamModel(model)
         /\ Normalize(Preface(w) \o shown, model, id).provider = Resolve(model)
<1> DEFINE p == Preface(w)[1]
           X == Shown \union {p}
           all == Preface(w) \o shown
           no == {i \in DOMAIN all : (all[i].role = "system") = FALSE}
           yes == {i \in DOMAIN all : (all[i].role = "system") = TRUE}
           r == Normalize(all, model, id)
           system == Selected(all, yes)
           others == Selected(all, no)
<1>1. Preface(w) = <<p>> /\ p.role = "system"
        /\ p.blocks = <<Block("text", PrefaceText(w))>>
  BY PrefaceIs
<1>2. r = [conversation |-> id,
           system |-> FlattenSeq([i \in DOMAIN system |->
                                    BuildMessageParts(system[i].blocks)]),
           messages |-> Translated(others),
           model |-> UpstreamModel(model), provider |-> Resolve(model)]
  BY Zenon DEF Normalize, Translated
<1>3. Len(shown) \in Nat /\ DOMAIN shown = 1..Len(shown)
        /\ (\A i \in 1..Len(shown) : shown[i] \in Shown) /\ shown \in Seq(X)
  OBVIOUS
<1>4. \A m \in Shown : m.role # "system"
  BY DEF Shown
<1>5. all \in Seq(X) /\ DOMAIN all = 1..(Len(shown) + 1) /\ all[1] = p
        /\ \A i \in 1..Len(shown) : all[i + 1] = shown[i]
  <2>1. <<p>> \in Seq(X) /\ Len(<<p>>) = 1 /\ <<p>>[1] = p
    OBVIOUS
  <2>2. <<p>> \o shown \in Seq(X) /\ Len(<<p>> \o shown) = 1 + Len(shown)
        /\ \A i \in 1..(1 + Len(shown)) : (<<p>> \o shown)[i]
             = IF i <= 1 THEN <<p>>[i] ELSE shown[i - 1]
    BY <1>3, <2>1, ConcatProperties
  <2>3. all = <<p>> \o shown
    BY <1>1
  <2> HIDE DEF all, X, p
  <2>4. DOMAIN all = 1..(Len(shown) + 1) /\ all[1] = p
    BY <1>3, <2>1, <2>2, <2>3
  <2>5. ASSUME NEW i \in 1..Len(shown) PROVE all[i + 1] = shown[i]
    <3>1. i + 1 \in 1..(1 + Len(shown)) /\ ~(i + 1 <= 1) /\ (i + 1) - 1 = i
      BY <1>3
    <3>2. QED
      BY <2>2, <2>3, <3>1
  <2>6. QED
    BY <2>2, <2>3, <2>4, <2>5
<1>6. 1 \in yes /\ 1 \notin no /\ \A i \in 1..Len(shown) : i + 1 \in no /\ i + 1 \notin yes
  <2>1. 1 \in DOMAIN all /\ \A i \in 1..Len(shown) : i + 1 \in DOMAIN all
    BY <1>3, <1>5
  <2>2. all[1].role = "system" /\ \A i \in 1..Len(shown) : all[i + 1].role # "system"
    BY <1>1, <1>3, <1>4, <1>5
  <2>3. QED
    BY <2>1, <2>2
<1>7. p \in X
  OBVIOUS
<1> HIDE DEF X, no, yes, p
<1>8. others = shown
  BY <1>1, <1>3, <1>6, <1>7, SelectedAfter
<1>9. system = <<p>>
  BY <1>1, <1>3, <1>6, <1>7, SelectedFirst
<1> HIDE DEF system, others, all
<1> DEFINE speech == PrefaceText(w)
           parts == BuildMessageParts(<<Block("text", speech)>>)
           b == Block("text", speech)
<1>10. speech \in Seq(Vocabulary) /\ Strip(speech) = speech
  <2>1. {System, Open, Memory, Close} \subseteq Vocabulary
    BY DEF Vocabulary
  <2>2. QED
    BY <2>1, PrefaceTextIs
<1> HIDE DEF speech
<1>11. b \in Blocks(Vocabulary) /\ b.text = speech
  BY <1>10 DEF Blocks, Block
<1> HIDE DEF b
<1>12. <<b>> \in Seq(Blocks(Vocabulary)) /\ <<b>> = Append(<<>>, b)
         /\ <<>> \in Seq(Blocks(Vocabulary))
  BY <1>11
<1>13. Texts(<<b>>) = speech
  <2>1. Texts(Append(<<>>, b)) = Texts(<<>>) \o b.text
    BY <1>11, <1>12, TextsMore
  <2>2. <<>> \o speech = speech
    BY <1>10, ConcatEmptySeq
  <2>3. QED
    BY <1>11, <1>12, <2>1, <2>2, TextsNone
<1>14. parts \in Seq(Blocks(Vocabulary)) /\ TextOf(parts) = speech
  <2>1. BuildMessageParts(<<b>>) \in Seq(Blocks(Vocabulary))
          /\ TextOf(BuildMessageParts(<<b>>)) = Strip(Texts(<<b>>))
    BY <1>12, PartsKeepText
  <2>2. QED
    BY <1>10, <1>13, <2>1 DEF b
<1> HIDE DEF parts
<1>15. FlattenSeq([i \in DOMAIN system |-> BuildMessageParts(system[i].blocks)]) = parts
  <2> DEFINE ss == [i \in DOMAIN system |-> BuildMessageParts(system[i].blocks)]
  <2>1. DOMAIN system = 1..1 /\ system[1].blocks = <<Block("text", speech)>>
    BY <1>1, <1>9 DEF speech
  <2>2. ss = <<parts>>
    BY <2>1 DEF parts
  <2>3. <<parts>> = Append(<<>>, parts) /\ <<>> \in Seq(Seq(Blocks(Vocabulary)))
    OBVIOUS
  <2> HIDE DEF ss
  <2>4. FlattenSeq(Append(<<>>, parts)) = FlattenSeq(<<>>) \o parts
    BY <1>14, <2>3, FlattenMore
  <2>5. <<>> \o parts = parts
    BY <1>14, ConcatEmptySeq
  <2>6. FlattenSeq(ss) = parts
    BY <2>2, <2>3, <2>4, <2>5, FlattenNone
  <2>7. QED
    BY <2>6 DEF ss
<1>16. QED
  BY <1>2, <1>8, <1>14, <1>15 DEF all, speech, IsRequest
-----------------------------------------------------------------------------
(* What a window shows and what is made of it.                             *)
AnswersFollow(shown) ==
  \A i \in DOMAIN shown : shown[i].answers = NoId
    \/ \E j \in 1..(i - 1) : shown[i].answers \in shown[j].calls

Requested(w, shown, request) ==
  \E model \in Models :
    Exposing(model) # {} /\ request
      = Normalize(Preface(w) \o shown, model, request.conversation)

Window(w, step, shown, request, sent) ==
  /\ shown \in Seq(Shown) /\ AnswersFollow(shown)
  /\ step # "idle" => shown # <<>> /\ Requested(w, shown, request)
  /\ step = "sent" => \E memory \in Injected(w) : sent = BuildPayload(request, memory)

Faithful(shown, sent) ==
  /\ Len(sent.messages) = Len(shown)
  /\ \A i \in DOMAIN sent.messages :
       /\ sent.messages[i].role = shown[i].role /\ sent.messages[i].calls = shown[i].calls
       /\ sent.messages[i].content = {} => Strip(Texts(shown[i].blocks)) = <<>>
       /\ \A speech \in sent.messages[i].content : speech = Strip(Texts(shown[i].blocks))
       /\ sent.messages[i].answers = NoId
            \/ \E j \in 1..(i - 1) : sent.messages[i].answers \in sent.messages[j].calls
  /\ Providers[sent.provider].enabled
  /\ \E m \in Providers[sent.provider].models : sent.model \in {m, Tail(m)}

LEMMA ResolveIs ==
  ASSUME NEW model, Exposing(model) # {}
  PROVE  /\ Providers[Resolve(model)].enabled /\ model \in Providers[Resolve(model)].models
         /\ UpstreamModel(model) \in {model, Tail(model)}
<1>1. Exposing(model) \in SUBSET Nat
  BY TranslationAssumption DEF Exposing
<1>2. PICK i \in Exposing(model) : \A j \in Exposing(model) : i <= j
  BY <1>1, LeastNumber
<1>3. Resolve(model) \in Exposing(model)
  BY <1>2 DEF Resolve
<1>4. QED
  BY <1>3 DEF Exposing, UpstreamModel

LEMMA SanitizeClean ==
  ASSUME NEW X, NEW speech \in Seq(X)
  PROVE  Sanitize(Strip(speech)) = Strip(speech)
<1>1. Strip(speech) \in Seq(X \ {Control})
  BY StripType
<1>2. Control \notin X \ {Control}
  OBVIOUS
<1>3. Strip(Strip(speech)) = Strip(speech)
  BY <1>1, <1>2, StripClean
<1>4. QED
  BY <1>3 DEF Sanitize

LEMMA ContentIs ==
  ASSUME NEW bs \in Seq(Blocks(Spoken)), NEW content,
         content = IF TextParts(BuildMessageParts(bs)) = <<>>
           THEN {} ELSE {Sanitize(TextOf(BuildMessageParts(bs)))}
  PROVE  /\ content = {} => Strip(Texts(bs)) = <<>>
         /\ \A speech \in content : speech = Strip(Texts(bs))
              /\ speech \in Seq(Spoken \ {Control})
<1> DEFINE parts == BuildMessageParts(bs)
<1>1. TextOf(parts) = Strip(Texts(bs))
  BY PartsKeepText
<1>2. Texts(bs) \in Seq(Spoken)
  BY TextsType
<1>3. Sanitize(Strip(Texts(bs))) = Strip(Texts(bs))
        /\ Strip(Texts(bs)) \in Seq(Spoken \ {Control})
  BY <1>2, SanitizeClean, StripType
<1>4. TextParts(parts) = <<>> => TextOf(parts) = <<>>
  <2>1. TextOf(parts) = Texts(TextParts(parts))
    BY DEF TextOf, Texts
  <2>2. QED
    BY <2>1, TextsNone
<1> HIDE DEF parts
<1>5. content = IF TextParts(parts) = <<>> THEN {} ELSE {Sanitize(TextOf(parts))}
  BY DEF parts
<1>6. QED
  BY <1>1, <1>3, <1>4, <1>5

LEMMA PayloadIs ==
  ASSUME NEW w \in Chats, NEW shown \in Seq(Shown), NEW model, NEW id, NEW memory
  PROVE  LET r == Normalize(Preface(w) \o shown, model, id)
             sent == BuildPayload(r, memory) IN
         /\ IsRequest(sent)
         /\ sent.system = SystemText(r.system, memory)
         /\ sent.messages = MessagesToOpenaiPayload(Translated(shown))
         /\ sent.model = UpstreamModel(model) /\ sent.provider = Resolve(model)
<1> DEFINE r == Normalize(Preface(w) \o shown, model, id)
           sent == BuildPayload(r, memory)
<1>1. /\ IsRequest(r) /\ r.messages = Translated(shown)
      /\ r.model = UpstreamModel(model) /\ r.provider = Resolve(model)
  BY NormalizeIs
<1> HIDE DEF r
<1>2. sent = [r EXCEPT !.system = SystemText(r.system, memory),
        !.messages = MessagesToOpenaiPayload(r.messages)]
  BY DEF BuildPayload
<1> HIDE DEF sent
<1> DEFINE system == SystemText(r.system, memory)
           messages == MessagesToOpenaiPayload(r.messages)
<1>3. sent = [r EXCEPT !.system = system, !.messages = messages]
  BY <1>2
<1> HIDE DEF system, messages
<1>4. sent = [conversation |-> r.conversation, system |-> system, messages |-> messages,
        model |-> r.model, provider |-> r.provider]
  BY <1>1, <1>3 DEF IsRequest
<1>5. IsRequest(sent) /\ sent.system = system /\ sent.messages = messages
        /\ sent.model = r.model /\ sent.provider = r.provider
  BY <1>4 DEF IsRequest
<1>6. messages = MessagesToOpenaiPayload(Translated(shown))
  BY <1>1 DEF messages
<1>7. QED
  BY <1>1, <1>5, <1>6 DEF r, sent, system

LEMMA MessagesAre ==
  ASSUME NEW shown \in Seq(Shown)
  PROVE  LET sent == MessagesToOpenaiPayload(Translated(shown)) IN
         /\ DOMAIN sent = 1..Len(shown) /\ Len(sent) = Len(shown)
         /\ \A i \in 1..Len(shown) :
              /\ sent[i].role = shown[i].role /\ sent[i].calls = shown[i].calls
                   /\ sent[i].answers = shown[i].answers
              /\ sent[i].content = {} => Strip(Texts(shown[i].blocks)) = <<>>
              /\ \A speech \in sent[i].content : speech = Strip(Texts(shown[i].blocks))
                   /\ speech \in Seq(Spoken \ {Control})
<1> DEFINE ms == Translated(shown)
           sent == MessagesToOpenaiPayload(ms)
           n == Len(shown)
<1>1. n \in Nat /\ DOMAIN shown = 1..n /\ \A i \in 1..n : shown[i] \in Shown
  OBVIOUS
<1>2. DOMAIN ms = 1..n /\ \A i \in 1..n :
        ms[i] = [role |-> shown[i].role, parts |-> BuildMessageParts(shown[i].blocks),
                 calls |-> shown[i].calls, answers |-> shown[i].answers]
  BY <1>1 DEF Translated
<1> HIDE DEF ms
<1>3. DOMAIN sent = 1..n /\ \A i \in 1..n :
        sent[i] = [role |-> ms[i].role,
                   content |-> IF TextParts(ms[i].parts) = <<>>
                     THEN {} ELSE {Sanitize(TextOf(ms[i].parts))},
                   calls |-> ms[i].calls, answers |-> ms[i].answers]
  BY <1>2 DEF MessagesToOpenaiPayload
<1> HIDE DEF sent
<1>4. Len(sent) = n
  BY <1>1, <1>3
<1>5. ASSUME NEW i \in 1..n
      PROVE  /\ sent[i].role = shown[i].role /\ sent[i].calls = shown[i].calls
                  /\ sent[i].answers = shown[i].answers
             /\ sent[i].content = {} => Strip(Texts(shown[i].blocks)) = <<>>
             /\ \A speech \in sent[i].content : speech = Strip(Texts(shown[i].blocks))
                  /\ speech \in Seq(Spoken \ {Control})
  <2> DEFINE bs == shown[i].blocks
             content == sent[i].content
  <2>1. bs \in Seq(Blocks(Spoken))
    BY <1>1 DEF Shown
  <2>2. ms[i].role = shown[i].role /\ ms[i].parts = BuildMessageParts(bs)
          /\ ms[i].calls = shown[i].calls /\ ms[i].answers = shown[i].answers
    BY <1>2
  <2>3. sent[i].role = ms[i].role /\ sent[i].calls = ms[i].calls
          /\ sent[i].answers = ms[i].answers
    BY <1>3
  <2>4. content = IF TextParts(BuildMessageParts(bs)) = <<>>
          THEN {} ELSE {Sanitize(TextOf(BuildMessageParts(bs)))}
    <3> DEFINE c == IF TextParts(ms[i].parts) = <<>>
          THEN {} ELSE {Sanitize(TextOf(ms[i].parts))}
    <3>1. sent[i] = [role |-> ms[i].role, content |-> c, calls |-> ms[i].calls,
            answers |-> ms[i].answers]
      BY <1>3
    <3> HIDE DEF c
    <3>2. content = c
      BY <3>1
    <3>3. c = IF TextParts(BuildMessageParts(bs)) = <<>>
            THEN {} ELSE {Sanitize(TextOf(BuildMessageParts(bs)))}
      BY <2>2 DEF c
    <3>4. QED
      BY <3>2, <3>3
  <2> HIDE DEF bs, content
  <2>5. /\ content = {} => Strip(Texts(bs)) = <<>>
        /\ \A speech \in content : speech = Strip(Texts(bs)) /\ speech \in Seq(Spoken \ {Control})
    BY <2>1, <2>4, ContentIs
  <2>6. QED
    BY <2>2, <2>3, <2>5 DEF bs, content
<1>6. QED
  BY <1>3, <1>4, <1>5 DEF sent, ms

LEMMA WindowFaithful ==
  ASSUME NEW w \in Chats, NEW shown, NEW request, NEW sent,
    Window(w, "sent", shown, request, sent)
  PROVE  Faithful(shown, sent)
<1>1. shown \in Seq(Shown) /\ AnswersFollow(shown)
  BY DEF Window
<1>2. PICK model \in Models : Exposing(model) # {}
        /\ request = Normalize(Preface(w) \o shown, model, request.conversation)
  BY DEF Window, Requested
<1>3. PICK memory \in Injected(w) : sent = BuildPayload(request, memory)
  BY DEF Window
<1> DEFINE id == request.conversation
<1>4. sent = BuildPayload(Normalize(Preface(w) \o shown, model, id), memory)
  BY <1>2, <1>3
<1> HIDE DEF id
<1>5. sent.messages = MessagesToOpenaiPayload(Translated(shown))
        /\ sent.model = UpstreamModel(model) /\ sent.provider = Resolve(model)
  BY <1>1, <1>4, PayloadIs
<1>6. /\ DOMAIN sent.messages = 1..Len(shown) /\ Len(sent.messages) = Len(shown)
      /\ \A i \in 1..Len(shown) :
           /\ sent.messages[i].role = shown[i].role
                /\ sent.messages[i].calls = shown[i].calls
                     /\ sent.messages[i].answers = shown[i].answers
           /\ sent.messages[i].content = {} => Strip(Texts(shown[i].blocks)) = <<>>
           /\ \A speech \in sent.messages[i].content : speech = Strip(Texts(shown[i].blocks))
  BY <1>1, <1>5, MessagesAre
<1>7. ASSUME NEW i \in 1..Len(shown)
      PROVE  sent.messages[i].answers = NoId
        \/ \E j \in 1..(i - 1) : sent.messages[i].answers \in sent.messages[j].calls
  <2>1. Len(shown) \in Nat /\ DOMAIN shown = 1..Len(shown)
    BY <1>1
  <2>2. shown[i].answers = NoId \/ \E j \in 1..(i - 1) : shown[i].answers \in shown[j].calls
    BY <1>1, <2>1 DEF AnswersFollow
  <2>3. \A j \in 1..(i - 1) : j \in 1..Len(shown)
    BY <2>1
  <2>4. QED
    BY <1>6, <2>2, <2>3
<1>8. /\ Providers[sent.provider].enabled
      /\ \E m \in Providers[sent.provider].models : sent.model \in {m, Tail(m)}
  BY <1>2, <1>5, ResolveIs
<1>9. QED
  BY <1>6, <1>7, <1>8 DEF Faithful
-----------------------------------------------------------------------------
(* The system text: a block of memory, if there is one, is behind the      *)
(* client's word and closed at the end.                                    *)
OneBlock(speech) ==
  /\ Len(speech) >= 1 /\ speech[1] = System
  /\ \A i \in DOMAIN speech :
       /\ i # 1 => speech[i] # System
       /\ i # 2 => speech[i] # Open
       /\ speech[i] = Memory => i > 2
       /\ i # Len(speech) => speech[i] # Close
  /\ Len(speech) > 1 => speech[2] = Open /\ speech[Len(speech)] = Close

BlockTexts ==
  {<<System>>, <<System, Open, Close>>, <<System, Open, Memory, Close>>,
   <<System, Open, Memory, Control, Close>>, <<System, Open, Memory, Memory, Memory,
     Close>>}

LEMMA InWords == System \in Vocabulary /\ Memory \in Vocabulary /\ Control \in Vocabulary
  /\ Open \in Vocabulary /\ Close \in Vocabulary
BY DEF Vocabulary, Spoken

LEMMA BlockTextsAre ==
  ASSUME NEW speech \in BlockTexts
  PROVE  speech \in Seq(Vocabulary) /\ OneBlock(speech)
<1>2. CASE speech = <<System>>
  <2>1. Len(speech) = 1 /\ DOMAIN speech = 1..1
    BY <1>2
  <2>2. speech[1] = System
    BY <1>2
  <2>3. speech \in Seq(Vocabulary)
    BY InWords, <1>2
  <2>4. \A i \in 1..1 : i = 1
    OBVIOUS
  <2>5. OneBlock(speech)
    BY <2>1, <2>2, <2>4, WordsApart DEF OneBlock
  <2>6. QED
    BY <2>3, <2>5
<1>3. CASE speech = <<System, Open, Close>>
  <2>1. Len(speech) = 3 /\ DOMAIN speech = 1..3
    BY <1>3
  <2>2. speech[1] = System /\ speech[2] = Open /\ speech[3] = Close
    BY <1>3
  <2>3. speech \in Seq(Vocabulary)
    BY InWords, <1>3
  <2>4. \A i \in 1..3 : i = 1 \/ i = 2 \/ i = 3
    OBVIOUS
  <2>5. OneBlock(speech)
    BY <2>1, <2>2, <2>4, WordsApart DEF OneBlock
  <2>6. QED
    BY <2>3, <2>5
<1>4. CASE speech = <<System, Open, Memory, Close>>
  <2>1. Len(speech) = 4 /\ DOMAIN speech = 1..4
    BY <1>4
  <2>2. speech[1] = System /\ speech[2] = Open /\ speech[3] = Memory /\ speech[4] = Close
    BY <1>4
  <2>3. speech \in Seq(Vocabulary)
    BY InWords, <1>4
  <2>4. \A i \in 1..4 : i = 1 \/ i = 2 \/ i = 3 \/ i = 4
    OBVIOUS
  <2>5. OneBlock(speech)
    BY <2>1, <2>2, <2>4, WordsApart DEF OneBlock
  <2>6. QED
    BY <2>3, <2>5
<1>5. CASE speech = <<System, Open, Memory, Control, Close>>
  <2>1. Len(speech) = 5 /\ DOMAIN speech = 1..5
    BY <1>5
  <2>2. speech[1] = System /\ speech[2] = Open /\ speech[3] = Memory /\ speech[4] = Control
          /\ speech[5] = Close
    BY <1>5
  <2>3. speech \in Seq(Vocabulary)
    BY InWords, <1>5
  <2>4. \A i \in 1..5 : i = 1 \/ i = 2 \/ i = 3 \/ i = 4 \/ i = 5
    OBVIOUS
  <2>5. OneBlock(speech)
    BY <2>1, <2>2, <2>4, WordsApart DEF OneBlock
  <2>6. QED
    BY <2>3, <2>5
<1>6. CASE speech = <<System, Open, Memory, Memory, Memory, Close>>
  <2>1. Len(speech) = 6 /\ DOMAIN speech = 1..6
    BY <1>6
  <2>2. speech[1] = System /\ speech[2] = Open /\ speech[3] = Memory /\ speech[4] = Memory
          /\ speech[5] = Memory /\ speech[6] = Close
    BY <1>6
  <2>3. speech \in Seq(Vocabulary)
    BY InWords, <1>6
  <2>4. \A i \in 1..6 : i = 1 \/ i = 2 \/ i = 3 \/ i = 4 \/ i = 5 \/ i = 6
    OBVIOUS
  <2>5. OneBlock(speech)
    BY <2>1, <2>2, <2>4, WordsApart DEF OneBlock
  <2>6. QED
    BY <2>3, <2>5
<1>7. QED
  BY <1>2, <1>3, <1>4, <1>5, <1>6 DEF BlockTexts

(* The block with a given memory in it.                                    *)
LEMMA JoinedNothing ==
  ASSUME NEW X, NEW x \in X, NEW y \in X, NEW z \in X
  PROVE  <<x>> \o (<<y>> \o <<>> \o <<z>>) = <<x, y, z>>
<1> DEFINE s == <<x>> \o (<<y>> \o <<>> \o <<z>>)
           t == <<x, y, z>>
<1>1. <<x>> \in Seq(X) /\ <<y>> \in Seq(X) /\ <<z>> \in Seq(X) /\ <<>> \in Seq(X)
  OBVIOUS
<1>2. s \in Seq(X) /\ Len(s) = 3
  BY <1>1
<1>3. t \in Seq(X) /\ Len(t) = 3
  OBVIOUS
<1>4. \A i \in 1..3 : s[i] = t[i]
  OBVIOUS
<1> HIDE DEF s, t
<1>5. s = t
  BY <1>2, <1>3, <1>4, SeqEqual
<1>6. QED
  BY <1>5 DEF s, t

LEMMA JoinedTwo ==
  ASSUME NEW X, NEW x \in X, NEW y \in X, NEW a \in X, NEW b \in X, NEW z \in X
  PROVE  <<x>> \o (<<y>> \o <<a, b>> \o <<z>>) = <<x, y, a, b, z>>
<1> DEFINE s == <<x>> \o (<<y>> \o <<a, b>> \o <<z>>)
           t == <<x, y, a, b, z>>
<1>1. <<x>> \in Seq(X) /\ <<y>> \in Seq(X) /\ <<z>> \in Seq(X) /\ <<a, b>> \in Seq(X)
  OBVIOUS
<1>2. s \in Seq(X) /\ Len(s) = 5
  BY <1>1
<1>3. t \in Seq(X) /\ Len(t) = 5
  OBVIOUS
<1>4. \A i \in 1..5 : s[i] = t[i]
  OBVIOUS
<1> HIDE DEF s, t
<1>5. s = t
  BY <1>2, <1>3, <1>4, SeqEqual
<1>6. QED
  BY <1>5 DEF s, t

LEMMA JoinedThree ==
  ASSUME NEW X, NEW x \in X, NEW y \in X, NEW a \in X, NEW b \in X, NEW c \in X, NEW z \in X
  PROVE  <<x>> \o (<<y>> \o <<a, b, c>> \o <<z>>) = <<x, y, a, b, c, z>>
<1> DEFINE s == <<x>> \o (<<y>> \o <<a, b, c>> \o <<z>>)
           t == <<x, y, a, b, c, z>>
<1>1. <<x>> \in Seq(X) /\ <<y>> \in Seq(X) /\ <<z>> \in Seq(X) /\ <<a, b, c>> \in Seq(X)
  OBVIOUS
<1>2. s \in Seq(X) /\ Len(s) = 6
  BY <1>1
<1>3. t \in Seq(X) /\ Len(t) = 6
  OBVIOUS
<1>4. \A i \in 1..6 : s[i] = t[i]
  OBVIOUS
<1> HIDE DEF s, t
<1>5. s = t
  BY <1>2, <1>3, <1>4, SeqEqual
<1>6. QED
  BY <1>5 DEF s, t

LEMMA AppendThree ==
  ASSUME NEW X, NEW a \in X, NEW b \in X, NEW c \in X, NEW d \in X, NEW e \in X
  PROVE  Append(<<a, b, c>>, d) = <<a, b, c, d>>
    /\ Append(Append(<<a, b, c>>, d), e) = <<a, b, c, d, e>>
<1> DEFINE s == <<a, b, c>>
           t == <<a, b, c, d>>
           u == <<a, b, c, d, e>>
<1>1. s \in Seq(X) /\ Len(s) = 3 /\ t \in Seq(X) /\ Len(t) = 4 /\ u \in Seq(X) /\ Len(u) = 5
  OBVIOUS
<1>2. Append(s, d) \in Seq(X) /\ Len(Append(s, d)) = 4
        /\ \A i \in 1..4 : Append(s, d)[i] = t[i]
  OBVIOUS
<1>3. Append(t, e) \in Seq(X) /\ Len(Append(t, e)) = 5
        /\ \A i \in 1..5 : Append(t, e)[i] = u[i]
  OBVIOUS
<1> HIDE DEF s, t, u
<1>4. Append(s, d) = t
  BY <1>1, <1>2, SeqEqual
<1>5. Append(t, e) = u
  BY <1>1, <1>3, SeqEqual
<1>6. QED
  BY <1>4, <1>5 DEF s, t, u

LEMMA BlockTextsStripped ==
  ASSUME NEW speech \in BlockTexts
  PROVE  Strip(speech) \in BlockTexts
<1> DEFINE Clean == {System, Memory, Open, Close}
<1>1. Control \notin Clean
  BY WordsApart
<1>2. CASE speech # <<System, Open, Memory, Control, Close>>
  <2>1. speech \in Seq(Clean)
    <3>1. <<System>> \in Seq(Clean)
      OBVIOUS
    <3>2. <<System, Open, Close>> \in Seq(Clean)
      OBVIOUS
    <3>3. <<System, Open, Memory, Close>> \in Seq(Clean)
      OBVIOUS
    <3>4. <<System, Open, Memory, Memory, Memory, Close>> \in Seq(Clean)
      OBVIOUS
    <3> HIDE DEF Clean
    <3>5. QED
      BY <1>2, <3>1, <3>2, <3>3, <3>4 DEF BlockTexts
  <2> HIDE DEF Clean
  <2>2. Strip(speech) = speech
    BY <1>1, <2>1, StripClean
  <2>3. QED
    BY <2>2
<1>3. CASE speech = <<System, Open, Memory, Control, Close>>
  <2> DEFINE a == <<System, Open, Memory>>
             X == Clean \union {Control}
  <2>1. a \in Seq(X) /\ Append(a, Control) \in Seq(X) /\ a \in Seq(Clean)
    OBVIOUS
  <2>2. speech = Append(Append(a, Control), Close)
    <3>1. Append(Append(a, Control), Close) = <<System, Open, Memory, Control, Close>>
      BY InWords, AppendThree
    <3>2. QED
      BY <1>3, <3>1
  <2>3. Control \in X /\ Close \in X /\ Close # Control
    BY WordsApart
  <2>4. Append(a, Close) \in BlockTexts
    <3>1. Append(a, Close) = <<System, Open, Memory, Close>>
      BY InWords, AppendThree
    <3>2. QED
      BY <3>1 DEF BlockTexts
  <2> HIDE DEF Clean, X, a
  <2>5. Strip(a) = a
    BY <1>1, <2>1, StripClean
  <2>6. Strip(Append(a, Control)) = Strip(a)
    BY <2>1, <2>3, StripMore
  <2>7. Strip(Append(Append(a, Control), Close)) = Append(Strip(Append(a, Control)), Close)
    BY <2>1, <2>3, StripMore
  <2>8. QED
    BY <2>2, <2>4, <2>5, <2>6, <2>7
<1>4. QED
  BY <1>2, <1>3

LEMMA WithMemory ==
  ASSUME NEW w \in Chats, NEW memory \in Injected(w)
  PROVE  PrefaceText(w) \o memory \in BlockTexts
<1>1. CASE memory = <<>>
  <2>1. PrefaceText(w) \in Seq({System, Open, Memory, Close})
    BY PrefaceTextIs
  <2>2. PrefaceText(w) \o <<>> = PrefaceText(w)
    BY <2>1, ConcatEmptySeq
  <2>3. PrefaceText(w) \in BlockTexts
    BY DEF PrefaceText, BlockTexts
  <2>4. QED
    BY <1>1, <2>2, <2>3
<1>2. CASE memory # <<>>
  <2>1. ~Presents[w].marked /\ memory \in Wrapped
    BY <1>2 DEF Injected
  <2>2. PrefaceText(w) = <<System>>
    BY <2>1 DEF PrefaceText
  <2>3. PICK m \in Memories : memory = WrapMemoryContext(m)
    BY <2>1 DEF Wrapped
  <2>4. CASE m = <<>>
    <3>1. <<System>> \o (<<Open>> \o <<>> \o <<Close>>) = <<System, Open, Close>>
      BY InWords, JoinedNothing
    <3>2. QED
      BY <2>2, <2>3, <2>4, <3>1 DEF WrapMemoryContext, BlockTexts
  <2>5. CASE m = <<Memory, Control>>
    <3>1. <<System>> \o (<<Open>> \o <<Memory, Control>> \o <<Close>>) = <<System, Open,
            Memory, Control, Close>>
      BY InWords, JoinedTwo
    <3>2. QED
      BY <2>2, <2>3, <2>5, <3>1 DEF WrapMemoryContext, BlockTexts
  <2>6. CASE m = <<Memory, Memory, Memory>>
    <3>1. <<System>> \o (<<Open>> \o <<Memory, Memory, Memory>> \o <<Close>>) = <<System,
            Open, Memory, Memory, Memory, Close>>
      BY InWords, JoinedThree
    <3>2. QED
      BY <2>2, <2>3, <2>6, <3>1 DEF WrapMemoryContext, BlockTexts
  <2>7. QED
    BY <2>4, <2>5, <2>6 DEF Memories
<1>3. QED
  BY <1>1, <1>2

LEMMA OneNumber ==
  ASSUME NEW n \in Nat
  PROVE  Max({n}) = n /\ IsFiniteSet({n}) /\ Cardinality({n}) = 1
<1>1. \E x \in {n} : \A y \in {n} : x >= y
  OBVIOUS
<1>2. Max({n}) \in {n}
  BY <1>1 DEF Max
<1>3. QED
  BY <1>2, FS_Singleton

(* Words of a text that is cut at the limit.                               *)
OneMemoryIn(speech) ==
  LET at(word) == {i \in DOMAIN speech : speech[i] = word} IN
  /\ Cardinality(at(Open)) <= 1
  /\ at(Memory) # {} => at(Open) # {} /\ Max(at(Open)) < Min(at(Memory))
  /\ at(Open) # {} /\ Len(speech) < SystemLimit => Max(at(Close)) = Len(speech)
  /\ SystemLimit > 0 => at(System) = {1}

LEMMA CutText ==
  ASSUME NEW X, NEW speech \in Seq(X), OneBlock(speech)
  PROVE  OneMemoryIn(SubSeq(speech, 1, Min({Len(speech), SystemLimit})))
<1> DEFINE n == Len(speech)
           k == Min({n, SystemLimit})
           cut == SubSeq(speech, 1, k)
           at(word) == {i \in DOMAIN cut : cut[i] = word}
           opens == at(Open)
           memories == at(Memory)
           closes == at(Close)
           systems == at(System)
<1>1. n \in Nat /\ SystemLimit \in Nat /\ n >= 1
  BY TranslationAssumption DEF OneBlock
<1>2. k \in {n, SystemLimit} /\ k <= n /\ k <= SystemLimit
  <2> DEFINE S == {n, SystemLimit}
  <2>1. S \in SUBSET Nat /\ S # {}
    BY <1>1
  <2> HIDE DEF S
  <2>2. Min(S) \in S /\ \A x \in S : Min(S) <= x
    BY <2>1, LeastNumber
  <2>3. QED
    BY <2>2 DEF S
<1> HIDE DEF k
<1>3. k \in Nat /\ k <= n
  BY <1>1, <1>2
<1>4. DOMAIN cut = 1..k /\ Len(cut) = k /\ \A i \in 1..k : cut[i] = speech[i]
  BY <1>1, <1>3
<1>5. \A i \in 1..k : i \in DOMAIN speech
  BY <1>1, <1>3
<1> HIDE DEF cut
<1>6. \A i \in 1..k :
        /\ i # 1 => cut[i] # System
        /\ i # 2 => cut[i] # Open
        /\ cut[i] = Memory => i > 2
        /\ i # n => cut[i] # Close
  BY <1>4, <1>5 DEF OneBlock
<1>7. opens \subseteq {2} /\ closes \subseteq {n} /\ systems \subseteq {1}
        /\ memories \in SUBSET Nat /\ \A i \in memories : i > 2
  BY <1>3, <1>4, <1>6
<1>8. Cardinality(opens) <= 1
  <2> DEFINE T == {2}
  <2>1. IsFiniteSet(T) /\ Cardinality(T) = 1
    BY OneNumber
  <2>2. opens \in SUBSET T
    BY <1>7
  <2> HIDE DEF T, opens
  <2>3. Cardinality(opens) <= Cardinality(T)
    BY ONLY <2>1, <2>2, FS_Subset
  <2>4. QED
    BY ONLY <2>1, <2>3
<1>9. k > 1 => 2 \in opens
  BY <1>1, <1>3, <1>4 DEF OneBlock
<1>10. memories # {} => opens # {} /\ Max(opens) < Min(memories)
  <2>1. SUFFICES ASSUME memories # {} PROVE opens # {} /\ Max(opens) < Min(memories)
    OBVIOUS
  <2>2. PICK i \in memories : TRUE
    BY <2>1
  <2>3. i \in 1..k /\ i > 2
    BY <1>4, <1>7
  <2>4. 2 \in opens
    BY <1>3, <1>9, <2>3
  <2>5. opens = {2}
    BY <1>7, <2>4
  <2> HIDE DEF opens, memories
  <2>6. Max(opens) = 2
    BY <2>5, OneNumber
  <2>7. Min(memories) \in memories
    BY <1>7, <2>1, LeastNumber
  <2>8. Min(memories) > 2
    BY <1>7, <2>7
  <2>9. QED
    BY <1>7, <2>4, <2>6, <2>7, <2>8
<1>11. opens # {} /\ k < SystemLimit => Max(closes) = k
  <2>1. SUFFICES ASSUME opens # {}, k < SystemLimit PROVE Max(closes) = k
    OBVIOUS
  <2>2. 2 \in DOMAIN cut
    BY <1>7, <2>1
  <2>3. k = n /\ n > 1
    BY <1>1, <1>2, <1>4, <2>1, <2>2
  <2>4. n \in closes
    BY <1>1, <1>4, <2>3 DEF OneBlock
  <2>5. closes = {n}
    BY <1>7, <2>4
  <2> HIDE DEF closes
  <2>6. QED
    BY <1>1, <2>3, <2>5, OneNumber
<1>12. SystemLimit > 0 => systems = {1}
  <2>1. SUFFICES ASSUME SystemLimit > 0 PROVE 1 \in systems
    BY <1>7
  <2>2. 1 \in 1..k
    BY <1>1, <1>2, <2>1
  <2>3. QED
    BY <1>4, <2>2 DEF OneBlock
<1>13. OneMemoryIn(cut)
  BY <1>4, <1>8, <1>10, <1>11, <1>12 DEF OneMemoryIn
<1>14. QED
  BY <1>13 DEF cut, k

LEMMA SanitizeBlock ==
  ASSUME NEW speech \in BlockTexts
  PROVE  Sanitize(speech) \in Seq(Vocabulary) /\ OneBlock(Sanitize(speech))
<1>1. Sanitize(speech) \in BlockTexts
  BY BlockTextsStripped DEF Sanitize
<1>2. QED
  BY <1>1, BlockTextsAre

NoneSaid(messages) ==
  \A m \in Range(messages) : \A said \in m.content : {Open, Memory,
    Close} \intersect Range(said) = {}

LEMMA WindowOneMemory ==
  ASSUME NEW w \in Chats, NEW shown, NEW request, NEW sent,
    Window(w, "sent", shown, request, sent)
  PROVE  OneMemoryIn(sent.system) /\ NoneSaid(sent.messages)
<1>1. shown \in Seq(Shown)
  BY DEF Window
<1>2. PICK model \in Models : request
        = Normalize(Preface(w) \o shown, model, request.conversation)
  BY DEF Window, Requested
<1>3. PICK memory \in Injected(w) : sent = BuildPayload(request, memory)
  BY DEF Window
<1> DEFINE id == request.conversation
           r == Normalize(Preface(w) \o shown, model, id)
<1>4. sent = BuildPayload(r, memory)
  BY <1>2, <1>3
<1> HIDE DEF id
<1>5. sent.messages = MessagesToOpenaiPayload(Translated(shown))
        /\ sent.system = SystemText(r.system, memory)
  BY <1>1, <1>4, PayloadIs
<1>6. TextOf(r.system) = PrefaceText(w)
  BY <1>1, NormalizeIs
<1> HIDE DEF r
<1> DEFINE speech == Sanitize(PrefaceText(w) \o memory)
<1>7. speech \in Seq(Vocabulary) /\ OneBlock(speech)
  BY WithMemory, SanitizeBlock
<1>8. sent.system = SubSeq(speech, 1, Min({Len(speech), SystemLimit}))
  BY <1>5, <1>6 DEF SystemText
<1> HIDE DEF speech
<1>9. OneMemoryIn(sent.system)
  BY <1>7, <1>8, CutText
<1>10. ASSUME NEW m \in Range(sent.messages), NEW said \in m.content
       PROVE  {Open, Memory, Close} \intersect Range(said) = {}
  <2> DEFINE ms == MessagesToOpenaiPayload(Translated(shown))
  <2>1. /\ DOMAIN ms = 1..Len(shown)
        /\ \A i \in 1..Len(shown) : \A t \in ms[i].content : t \in Seq(Spoken \ {Control})
    BY <1>1, MessagesAre
  <2> HIDE DEF ms
  <2>2. sent.messages = ms
    BY <1>5 DEF ms
  <2>3. PICK i \in 1..Len(shown) : m = ms[i]
    BY <2>1, <2>2 DEF Range
  <2>4. said \in Seq(Spoken \ {Control})
    BY <2>1, <2>3
  <2>5. Range(said) \subseteq Spoken
    BY <2>4 DEF Range
  <2>6. QED
    BY <2>5, SpokenApart
<1>11. QED
  BY <1>9, <1>10 DEF NoneSaid
-----------------------------------------------------------------------------
(* What is appended to a window and taken back.                            *)
LEMMA SpokenHas ==
  ASSUME NEW w \in Chats, NEW n \in Nat
  PROVE  Asked(w, n) \in Spoken /\ AsksMore(w, n) \in Spoken /\ Answered(w, n) \in Spoken
    /\ Control \in Spoken
<1> DEFINE S == {Asked(w, n), AsksMore(w, n), Answered(w, n)}
           All == {{Asked(v, k), AsksMore(v, k), Answered(v, k)} : v \in Chats, k \in Nat}
<1>1. S \in All
  OBVIOUS
<1>2. Spoken = {Control} \union UNION All
  BY DEF Spoken
<1>3. Asked(w, n) \in S /\ AsksMore(w, n) \in S /\ Answered(w, n) \in S
  OBVIOUS
<1> HIDE DEF S, All
<1>4. QED
  BY <1>1, <1>2, <1>3

LEMMA NextMessagesAre ==
  ASSUME NEW w \in Chats, NEW n \in Nat, past[w] \in Seq(Shown),
    NEW m \in NextMessages(w, n)
  PROVE  m \in Shown /\ (m.answers = NoId
    \/ (past[w] # <<>> /\ m.answers \in past[w][Len(past[w])].calls))
<1> DEFINE B == Blocks(Spoken)
           speech == Block("text", <<Asked(w, n)>>)
           image == Block("image", <<>>)
           audio == Block("audio", <<>>)
           more == Block("text", <<Control, AsksMore(w, n)>>)
           open == IF past[w] = <<>> THEN {} ELSE Last(past[w]).calls
<1>1. speech \in B /\ image \in B /\ audio \in B /\ more \in B
  <2>1. Asked(w, n) \in Spoken /\ AsksMore(w, n) \in Spoken /\ Control \in Spoken
    BY SpokenHas
  <2>2. <<Asked(w, n)>> \in Seq(Spoken) /\ <<Control, AsksMore(w, n)>> \in Seq(Spoken)
          /\ <<>> \in Seq(Spoken)
    BY <2>1
  <2>3. QED
    BY <2>2 DEF Blocks, Block
<1>2. CASE open # {}
  <2>1. past[w] # <<>> /\ open = Last(past[w]).calls
    BY <1>2
  <2>2. PICK c \in open : m = [Message("tool", <<speech>>) EXCEPT !.answers = c]
    BY <1>2 DEF NextMessages
  <2>3. Len(past[w]) \in Nat /\ Len(past[w]) # 0
    BY <2>1
  <2>4. past[w][Len(past[w])] \in Shown /\ Last(past[w]) = past[w][Len(past[w])]
    BY <2>3 DEF Last
  <2>5. c \in CallIds
    BY <2>1, <2>4 DEF Shown
  <2>6. <<speech>> \in Seq(B)
    BY <1>1
  <2> HIDE DEF speech, B
  <2>7. m = [role |-> "tool", blocks |-> <<speech>>, calls |-> {}, answers |-> c]
    BY <2>2 DEF Message
  <2>8. m \in Shown
    BY <2>5, <2>6, <2>7 DEF Shown, B
  <2>9. QED
    BY <2>1, <2>4, <2>7, <2>8
<1>3. CASE open = {}
  <2>1. m \in {Message("user", <<speech>>), Message("user", <<image>>),
          Message("user", <<speech, image, audio, more>>)}
    BY <1>3 DEF NextMessages
  <2> HIDE DEF speech, image, audio, more, B
  <2>2. <<speech>> \in Seq(B) /\ <<image>> \in Seq(B)
          /\ <<speech, image, audio, more>> \in Seq(B)
    BY <1>1
  <2>3. PICK bs \in Seq(B) : m = Message("user", bs)
    BY <2>1, <2>2
  <2>4. m = [role |-> "user", blocks |-> bs, calls |-> {}, answers |-> NoId]
    BY <2>3 DEF Message
  <2>5. NoId \in CallIds \union {NoId} /\ {} \in SUBSET CallIds
          /\ bs \in Seq(Blocks(Spoken)) /\ m.answers = NoId
    BY <2>4 DEF B
  <2>6. m \in Shown
    BY <2>4, <2>5 DEF Shown
  <2>7. QED
    BY <2>5, <2>6
<1>4. QED
  BY <1>2, <1>3

LEMMA ShownMore ==
  ASSUME NEW shown \in Seq(Shown), AnswersFollow(shown), NEW m \in Shown,
         m.answers = NoId \/ (shown # <<>> /\ m.answers \in shown[Len(shown)].calls)
  PROVE  Append(shown, m) \in Seq(Shown) /\ AnswersFollow(Append(shown, m))
    /\ Append(shown, m) # <<>>
<1> DEFINE n == Len(shown)
           t == Append(shown, m)
<1>1. n \in Nat /\ DOMAIN shown = 1..n /\ t \in Seq(Shown) /\ DOMAIN t = 1..(n + 1)
        /\ t[n + 1] = m /\ (\A i \in 1..n : t[i] = shown[i]) /\ t # <<>>
  OBVIOUS
<1>2. shown # <<>> => n \in 1..n
  BY <1>1
<1> HIDE DEF t
<1>3. ASSUME NEW i \in 1..(n + 1)
        PROVE t[i].answers = NoId \/ \E j \in 1..(i - 1) : t[i].answers \in t[j].calls
  <2>1. CASE i = n + 1
    <3>1. (i - 1) = n /\ t[i] = m
      BY <1>1, <2>1
    <3>2. m.answers = NoId \/ (n \in 1..n /\ m.answers \in t[n].calls)
      BY <1>1, <1>2
    <3>3. QED
      BY <3>1, <3>2
  <2>2. CASE i # n + 1
    <3>1. i \in 1..n /\ t[i] = shown[i] /\ \A j \in 1..(i - 1) : t[j] = shown[j]
      BY <1>1, <2>2
    <3>2. shown[i].answers = NoId
            \/ \E j \in 1..(i - 1) : shown[i].answers \in shown[j].calls
      BY <1>1, <3>1 DEF AnswersFollow
    <3>3. QED
      BY <3>1, <3>2
  <2>3. QED
    BY <2>1, <2>2
<1>4. AnswersFollow(t)
  BY <1>1, <1>3 DEF AnswersFollow
<1>5. QED
  BY <1>1, <1>4 DEF t

LEMMA ShownLess ==
  ASSUME NEW shown \in Seq(Shown), AnswersFollow(shown), shown # <<>>
  PROVE  Front(shown) \in Seq(Shown) /\ AnswersFollow(Front(shown))
<1> DEFINE n == Len(shown)
           t == Front(shown)
<1>1. n \in Nat /\ n # 0 /\ DOMAIN shown = 1..n
  OBVIOUS
<1>2. t = SubSeq(shown, 1, n - 1)
  BY DEF Front
<1>3. t \in Seq(Shown) /\ DOMAIN t = 1..(n - 1) /\ \A i \in 1..(n - 1) : t[i] = shown[i]
  BY <1>1, <1>2
<1> HIDE DEF t
<1>4. ASSUME NEW i \in 1..(n - 1)
        PROVE t[i].answers = NoId \/ \E j \in 1..(i - 1) : t[i].answers \in t[j].calls
  <2>1. i \in 1..n /\ t[i] = shown[i] /\ \A j \in 1..(i - 1) : t[j] = shown[j]
    BY <1>1, <1>3
  <2>2. shown[i].answers = NoId \/ \E j \in 1..(i - 1) : shown[i].answers \in shown[j].calls
    BY <1>1, <2>1 DEF AnswersFollow
  <2>3. QED
    BY <2>1, <2>2
<1>5. AnswersFollow(t)
  BY <1>3, <1>4 DEF AnswersFollow
<1>6. QED
  BY <1>3, <1>5 DEF t

(* The windows.                                                            *)
Steps == {"idle", "injecting", "sent"}
WindowsOver(f) == f = [w \in Chats |-> f[w]]

WindowsInv ==
  /\ turn \in [Chats -> Steps] /\ WindowsOver(past) /\ WindowsOver(canonical)
       /\ WindowsOver(payload)
  /\ WindowsOver(heldId) /\ WindowsOver(used)
  /\ turns \in 0..MaxTurns /\ nextFresh \in 0..turns
  /\ \A w \in Chats : Window(w, turn[w], past[w], canonical[w], payload[w])

LEMMA WindowsOverExcept ==
  ASSUME NEW f, WindowsOver(f), NEW w \in Chats, NEW x
  PROVE  /\ WindowsOver([f EXCEPT ![w] = x]) /\ [f EXCEPT ![w] = x][w] = x
         /\ \A v \in Chats \ {w} : [f EXCEPT ![w] = x][v] = f[v]
         /\ f = [f EXCEPT ![w] = f[w]]
<1>1. f = [v \in Chats |-> f[v]]
  BY DEF WindowsOver
<1> DEFINE g == [f EXCEPT ![w] = x]
<1>2. DOMAIN f = Chats
  BY <1>1
<1>3. g = [v \in Chats |-> IF v = w THEN x ELSE f[v]]
  BY <1>2
<1> HIDE DEF g
<1>4. g[w] = x /\ \A v \in Chats \ {w} : g[v] = f[v]
  BY <1>3
<1>5. g = [v \in Chats |-> g[v]]
  BY <1>3
<1>6. f = [f EXCEPT ![w] = f[w]]
  BY <1>1
<1>7. QED
  BY <1>4, <1>5, <1>6 DEF WindowsOver, g

(* A step of one window.                                                   *)
LEMMA WindowsKept ==
  ASSUME WindowsInv, NEW w \in Chats, NEW t \in Steps, NEW p, NEW c, NEW s, NEW h, NEW u,
         turn' = [turn EXCEPT ![w] = t], past' = [past EXCEPT ![w] = p],
           canonical' = [canonical EXCEPT ![w] = c],
         payload' = [payload EXCEPT ![w] = s], heldId' = [heldId EXCEPT ![w] = h],
           used' = [used EXCEPT ![w] = u],
         turns' \in 0..MaxTurns, nextFresh' \in 0..turns', Window(w, t, p, c, s)
  PROVE  WindowsInv'
<1>1. WindowsOver(past') /\ past'[w] = p /\ \A v \in Chats \ {w} : past'[v] = past[v]
  <2>1. WindowsOver(past)
    BY DEF WindowsInv
  <2>2. past = [v \in Chats |-> past[v]]
    BY <2>1 DEF WindowsOver
  <2>3. DOMAIN past = Chats
    BY <2>2
  <2>4. past' = [v \in Chats |-> IF v = w THEN p ELSE past[v]]
    BY <2>3
  <2>5. past'[w] = p /\ \A v \in Chats \ {w} : past'[v] = past[v]
    BY <2>4
  <2>6. past' = [v \in Chats |-> past'[v]]
    BY <2>4
  <2>7. QED
    BY <2>5, <2>6, Zenon DEF WindowsOver
<1>2. WindowsOver(canonical') /\ canonical'[w] = c
        /\ \A v \in Chats \ {w} : canonical'[v] = canonical[v]
  <2>1. WindowsOver(canonical)
    BY DEF WindowsInv
  <2>2. canonical = [v \in Chats |-> canonical[v]]
    BY <2>1 DEF WindowsOver
  <2>3. DOMAIN canonical = Chats
    BY <2>2
  <2>4. canonical' = [v \in Chats |-> IF v = w THEN c ELSE canonical[v]]
    BY <2>3
  <2>5. canonical'[w] = c /\ \A v \in Chats \ {w} : canonical'[v] = canonical[v]
    BY <2>4
  <2>6. canonical' = [v \in Chats |-> canonical'[v]]
    BY <2>4
  <2>7. QED
    BY <2>5, <2>6, Zenon DEF WindowsOver
<1>3. WindowsOver(payload') /\ payload'[w] = s
        /\ \A v \in Chats \ {w} : payload'[v] = payload[v]
  <2>1. WindowsOver(payload)
    BY DEF WindowsInv
  <2>2. payload = [v \in Chats |-> payload[v]]
    BY <2>1 DEF WindowsOver
  <2>3. DOMAIN payload = Chats
    BY <2>2
  <2>4. payload' = [v \in Chats |-> IF v = w THEN s ELSE payload[v]]
    BY <2>3
  <2>5. payload'[w] = s /\ \A v \in Chats \ {w} : payload'[v] = payload[v]
    BY <2>4
  <2>6. payload' = [v \in Chats |-> payload'[v]]
    BY <2>4
  <2>7. QED
    BY <2>5, <2>6, Zenon DEF WindowsOver
<1>4. WindowsOver(heldId') /\ WindowsOver(used')
  BY WindowsOverExcept DEF WindowsInv
<1>5. turn' \in [Chats -> Steps] /\ turn'[w] = t
        /\ \A v \in Chats \ {w} : turn'[v] = turn[v]
  BY DEF WindowsInv
<1>6. ASSUME NEW v \in Chats PROVE Window(v, turn'[v], past'[v], canonical'[v], payload'[v])
  <2>1. CASE v = w
    BY <1>1, <1>2, <1>3, <1>5, <2>1
  <2>2. CASE v # w
    <3>1. Window(v, turn[v], past[v], canonical[v], payload[v])
      BY DEF WindowsInv
    <3>2. turn'[v] = turn[v] /\ past'[v] = past[v] /\ canonical'[v] = canonical[v]
            /\ payload'[v] = payload[v]
      BY <1>1, <1>2, <1>3, <1>5, <2>2
    <3>3. QED
      BY <3>1, <3>2, Zenon
  <2>3. QED
    BY <2>1, <2>2
<1>7. (\A v \in Chats : Window(v, turn[v], past[v], canonical[v], payload[v]))'
  <2>1. TAKE v \in Chats
  <2>2. Window(v, turn'[v], past'[v], canonical'[v], payload'[v])
    BY <1>6
  <2>3. QED
    BY <2>2
<1>8. QED
  BY <1>1, <1>2, <1>3, <1>4, <1>5, <1>7 DEF WindowsInv
LEMMA WindowsStart == TranslationInit => WindowsInv
<1> SUFFICES ASSUME TranslationInit PROVE WindowsInv
  OBVIOUS
<1>1. turn \in [Chats -> Steps] /\ WindowsOver(past) /\ WindowsOver(canonical)
        /\ WindowsOver(payload) /\ WindowsOver(heldId) /\ WindowsOver(used)
  BY DEF TranslationInit, Steps, WindowsOver
<1>2. turns \in 0..MaxTurns /\ nextFresh \in 0..turns
  BY TranslationAssumption DEF TranslationInit
<1>3. ASSUME NEW w \in Chats PROVE Window(w, turn[w], past[w], canonical[w], payload[w])
  <2>1. turn[w] = "idle" /\ past[w] = <<>>
    BY DEF TranslationInit
  <2>2. <<>> \in Seq(Shown) /\ DOMAIN <<>> = {}
    OBVIOUS
  <2>3. AnswersFollow(<<>>)
    BY <2>2 DEF AnswersFollow
  <2>4. QED
    BY <2>1, <2>2, <2>3 DEF Window
<1>4. QED
  BY <1>1, <1>2, <1>3 DEF WindowsInv

(* A window's own variables, when they stay.                               *)
LEMMA WindowStays ==
  ASSUME WindowsInv, NEW w \in Chats
  PROVE  /\ past = [past EXCEPT ![w] = past[w]]
              /\ canonical = [canonical EXCEPT ![w] = canonical[w]]
         /\ payload = [payload EXCEPT ![w] = payload[w]]
              /\ heldId = [heldId EXCEPT ![w] = heldId[w]]
         /\ used = [used EXCEPT ![w] = used[w]] /\ turn = [turn EXCEPT ![w] = turn[w]]
         /\ past[w] \in Seq(Shown) /\ AnswersFollow(past[w]) /\ turn[w] \in Steps
         /\ turns \in Nat /\ MaxTurns \in Nat /\ nextFresh \in Nat /\ nextFresh <= turns
              /\ turns <= MaxTurns
         /\ Window(w, turn[w], past[w], canonical[w], payload[w])
<1>1. /\ past = [v \in Chats |-> past[v]] /\ canonical = [v \in Chats |-> canonical[v]]
           /\ payload = [v \in Chats |-> payload[v]]
      /\ heldId = [v \in Chats |-> heldId[v]] /\ used = [v \in Chats |-> used[v]]
  BY Zenon DEF WindowsInv, WindowsOver
<1>2. past = [past EXCEPT ![w] = past[w]]
  BY <1>1
<1>3. canonical = [canonical EXCEPT ![w] = canonical[w]]
  BY <1>1
<1>4. payload = [payload EXCEPT ![w] = payload[w]]
  BY <1>1
<1>5. heldId = [heldId EXCEPT ![w] = heldId[w]]
  BY <1>1
<1>6. used = [used EXCEPT ![w] = used[w]]
  BY <1>1
<1>7. turn = [turn EXCEPT ![w] = turn[w]] /\ turn[w] \in Steps
  BY DEF WindowsInv
<1>8. Window(w, turn[w], past[w], canonical[w], payload[w])
  BY DEF WindowsInv
<1>9. past[w] \in Seq(Shown) /\ AnswersFollow(past[w])
  BY <1>8 DEF Window
<1>10. turns \in Nat /\ MaxTurns \in Nat /\ nextFresh \in Nat /\ nextFresh <= turns
         /\ turns <= MaxTurns
  BY TranslationAssumption DEF WindowsInv
<1>11. QED
  BY <1>2, <1>3, <1>4, <1>5, <1>6, <1>7, <1>8, <1>9, <1>10

LEMMA BeginsKeeps ==
  ASSUME WindowsInv, NEW w \in Chats, TurnBegins(w)
  PROVE  WindowsInv'
<1>1. /\ past = [past EXCEPT ![w] = past[w]]
           /\ canonical = [canonical EXCEPT ![w] = canonical[w]]
      /\ payload = [payload EXCEPT ![w] = payload[w]]
           /\ heldId = [heldId EXCEPT ![w] = heldId[w]]
      /\ used = [used EXCEPT ![w] = used[w]] /\ turn = [turn EXCEPT ![w] = turn[w]]
      /\ past[w] \in Seq(Shown) /\ AnswersFollow(past[w]) /\ turn[w] \in Steps
      /\ turns \in Nat /\ MaxTurns \in Nat /\ nextFresh \in Nat /\ nextFresh <= turns
           /\ turns <= MaxTurns
      /\ Window(w, turn[w], past[w], canonical[w], payload[w])
  BY WindowStays
<1>2. turns' = turns + 1 /\ turns < MaxTurns /\ heldId' = heldId /\ payload' = payload
        /\ used' = used
  BY DEF TurnBegins
<1>3. turns' \in 0..MaxTurns
  BY <1>1, <1>2
<1>4. PICK model \in Models, m \in NextMessages(w, turns + 1) :
        \/ Exposing(model) = {} /\ UNCHANGED <<turn, past, canonical, nextFresh>>
        \/ LET id == DeriveConversationId(w, Fresh) IN
           /\ Exposing(model) # {}
           /\ past' = [past EXCEPT ![w] = Append(@, m)]
           /\ canonical' = [canonical EXCEPT ![w]
                = Normalize(Preface(w) \o past'[w], model, id)]
           /\ nextFresh' = IF id = Fresh THEN nextFresh + 1 ELSE nextFresh
           /\ turn' = [turn EXCEPT ![w] = "injecting"]
  BY DEF TurnBegins
<1>5. CASE Exposing(model) = {} /\ UNCHANGED <<turn, past, canonical, nextFresh>>
  <2>1. nextFresh' \in 0..turns'
    BY <1>1, <1>2, <1>5
  <2>2. /\ turn' = [turn EXCEPT ![w] = turn[w]] /\ past' = [past EXCEPT ![w] = past[w]]
        /\ canonical' = [canonical EXCEPT ![w] = canonical[w]]
             /\ payload' = [payload EXCEPT ![w] = payload[w]]
        /\ heldId' = [heldId EXCEPT ![w] = heldId[w]]
             /\ used' = [used EXCEPT ![w] = used[w]]
    BY <1>1, <1>2, <1>5
  <2>3. QED
    BY <1>1, <1>3, <2>1, <2>2, WindowsKept
<1>6. CASE ~(Exposing(model) = {} /\ UNCHANGED <<turn, past, canonical, nextFresh>>)
  <2> DEFINE id == DeriveConversationId(w, Fresh)
             p == Append(past[w], m)
             c == Normalize(Preface(w) \o p, model, id)
  <2>1. /\ Exposing(model) # {}
        /\ past' = [past EXCEPT ![w] = p]
        /\ canonical' = [canonical EXCEPT ![w]
             = Normalize(Preface(w) \o past'[w], model, id)]
        /\ nextFresh' = IF id = Fresh THEN nextFresh + 1 ELSE nextFresh
        /\ turn' = [turn EXCEPT ![w] = "injecting"]
    BY <1>4, <1>6
  <2>2. m \in Shown /\ (m.answers = NoId
          \/ (past[w] # <<>> /\ m.answers \in past[w][Len(past[w])].calls))
    <3>1. turns + 1 \in Nat
      BY <1>1
    <3>2. QED
      BY <1>1, <3>1, NextMessagesAre
  <2>3. p \in Seq(Shown) /\ AnswersFollow(p) /\ p # <<>>
    BY <1>1, <2>2, ShownMore
  <2> HIDE DEF id, p
  <2>4. past'[w] = p
    <3>1. WindowsOver(past)
      BY DEF WindowsInv
    <3>2. DOMAIN past = Chats
      BY <3>1 DEF WindowsOver
    <3>3. QED
      BY <2>1, <3>2
  <2>5. canonical' = [canonical EXCEPT ![w] = c]
    BY <2>1, <2>4
  <2>6. c.conversation = id
    BY <2>3, NormalizeIs
  <2>7. c = Normalize(Preface(w) \o p, model, c.conversation)
    BY <2>6
  <2> HIDE DEF c
  <2>8. Requested(w, p, c)
    BY <2>1, <2>7 DEF Requested
  <2>9. Window(w, "injecting", p, c, payload[w])
    BY <2>3, <2>8 DEF Window
  <2>10. nextFresh' \in 0..turns'
    BY <1>1, <1>2, <2>1
  <2>11. /\ payload' = [payload EXCEPT ![w] = payload[w]]
         /\ heldId' = [heldId EXCEPT ![w] = heldId[w]]
              /\ used' = [used EXCEPT ![w] = used[w]]
    BY <1>1, <1>2
  <2>12. "injecting" \in Steps
    BY DEF Steps
  <2>13. QED
    BY <1>3, <2>1, <2>5, <2>9, <2>10, <2>11, <2>12, WindowsKept
<1>7. QED
  BY <1>5, <1>6

LEMMA TakesBack ==
  ASSUME WindowsInv, NEW w \in Chats, turn[w] # "idle", TakeBack(w), UNCHANGED <<heldId,
    used, turns, nextFresh>>
  PROVE  WindowsInv'
<1>1. /\ heldId = [heldId EXCEPT ![w] = heldId[w]] /\ used = [used EXCEPT ![w] = used[w]]
      /\ past[w] \in Seq(Shown) /\ AnswersFollow(past[w])
      /\ turns \in Nat /\ MaxTurns \in Nat /\ nextFresh \in Nat /\ nextFresh <= turns
           /\ turns <= MaxTurns
      /\ Window(w, turn[w], past[w], canonical[w], payload[w])
  BY WindowStays
<1>2. past[w] # <<>>
  BY <1>1 DEF Window
<1> DEFINE p == Front(past[w])
<1>3. p \in Seq(Shown) /\ AnswersFollow(p)
  BY <1>1, <1>2, ShownLess
<1>4. /\ turn' = [turn EXCEPT ![w] = "idle"] /\ past' = [past EXCEPT ![w] = p]
      /\ canonical' = [canonical EXCEPT ![w] = NoRequest]
           /\ payload' = [payload EXCEPT ![w] = NoRequest]
  BY DEF TakeBack
<1> HIDE DEF p
<1>5. Window(w, "idle", p, NoRequest, NoRequest)
  BY <1>3 DEF Window
<1>6. turns' \in 0..MaxTurns /\ nextFresh' \in 0..turns'
  BY <1>1
<1>7. heldId' = [heldId EXCEPT ![w] = heldId[w]] /\ used' = [used EXCEPT ![w] = used[w]]
  BY <1>1
<1>8. "idle" \in Steps
  BY DEF Steps
<1>9. QED
  BY <1>4, <1>5, <1>6, <1>7, <1>8, WindowsKept

LEMMA SentKeeps ==
  ASSUME WindowsInv, NEW w \in Chats, TurnSent(w)
  PROVE  WindowsInv'
<1>1. /\ past = [past EXCEPT ![w] = past[w]]
           /\ canonical = [canonical EXCEPT ![w] = canonical[w]]
      /\ heldId = [heldId EXCEPT ![w] = heldId[w]] /\ used = [used EXCEPT ![w] = used[w]]
      /\ turns \in Nat /\ MaxTurns \in Nat /\ nextFresh \in Nat /\ nextFresh <= turns
           /\ turns <= MaxTurns
      /\ Window(w, turn[w], past[w], canonical[w], payload[w])
  BY WindowStays
<1>2. turn[w] = "injecting" /\ UNCHANGED <<heldId, used, turns, nextFresh>>
  BY DEF TurnSent
<1>3. PICK memory \in Injected(w) :
        IF Refuses(TextOf(canonical[w].system) \o memory) THEN TakeBack(w)
        ELSE /\ payload' = [payload EXCEPT ![w] = BuildPayload(canonical[w], memory)]
             /\ turn' = [turn EXCEPT ![w] = "sent"] /\ UNCHANGED <<past, canonical>>
  BY DEF TurnSent
<1>4. CASE Refuses(TextOf(canonical[w].system) \o memory)
  <2>1. TakeBack(w)
    BY <1>3, <1>4
  <2>2. QED
    BY <1>2, <2>1, TakesBack
<1>5. CASE ~Refuses(TextOf(canonical[w].system) \o memory)
  <2> DEFINE s == BuildPayload(canonical[w], memory)
  <2>1. payload' = [payload EXCEPT ![w] = s] /\ turn' = [turn EXCEPT ![w] = "sent"]
          /\ UNCHANGED <<past, canonical>>
    BY <1>3, <1>5
  <2>2. \E x \in Injected(w) : s = BuildPayload(canonical[w], x)
    OBVIOUS
  <2> HIDE DEF s
  <2>3. Window(w, "sent", past[w], canonical[w], s)
    BY <1>1, <1>2, <2>2 DEF Window
  <2>4. turns' \in 0..MaxTurns /\ nextFresh' \in 0..turns'
    BY <1>1, <1>2
  <2>5. /\ past' = [past EXCEPT ![w] = past[w]]
             /\ canonical' = [canonical EXCEPT ![w] = canonical[w]]
        /\ heldId' = [heldId EXCEPT ![w] = heldId[w]]
             /\ used' = [used EXCEPT ![w] = used[w]]
    BY <1>1, <1>2, <2>1
  <2>6. "sent" \in Steps
    BY DEF Steps
  <2>7. QED
    BY <2>1, <2>3, <2>4, <2>5, <2>6, WindowsKept
<1>6. QED
  BY <1>4, <1>5

LEMMA FailsKeeps ==
  ASSUME WindowsInv, NEW w \in Chats, TurnFails(w)
  PROVE  WindowsInv'
<1>1. turn[w] # "idle" /\ TakeBack(w) /\ UNCHANGED <<heldId, used, turns, nextFresh>>
  BY DEF TurnFails
<1>2. QED
  BY <1>1, TakesBack

LEMMA AnsweredKeeps ==
  ASSUME WindowsInv, NEW w \in Chats, TurnAnswered(w)
  PROVE  WindowsInv'
<1>1. /\ heldId = [heldId EXCEPT ![w] = heldId[w]]
      /\ past[w] \in Seq(Shown) /\ AnswersFollow(past[w])
      /\ turns \in Nat /\ MaxTurns \in Nat /\ nextFresh \in Nat /\ nextFresh <= turns
           /\ turns <= MaxTurns
  BY WindowStays
<1> DEFINE n == Len(past[w])
           answer == Block("text", <<Answered(w, n)>>)
           speech == Message("assistant", <<answer>>)
           call == [Message("assistant", <<>>) EXCEPT !.calls = {<<"call", n>>}]
           h == IF Presents[w].echo THEN canonical[w].conversation ELSE heldId[w]
           u == used[w] \union {canonical[w].conversation}
<1>2. n \in Nat
  BY <1>1
<1>3. /\ turn' = [turn EXCEPT ![w] = "idle"]
      /\ canonical' = [canonical EXCEPT ![w] = NoRequest]
           /\ payload' = [payload EXCEPT ![w] = NoRequest]
      /\ used' = [used EXCEPT ![w] = u]
      /\ UNCHANGED <<turns, nextFresh>>
  BY DEF TurnAnswered
<1>4. heldId' = [heldId EXCEPT ![w] = h]
  <2>1. heldId' = IF Presents[w].echo
          THEN [heldId EXCEPT ![w] = canonical[w].conversation] ELSE heldId
    BY DEF TurnAnswered
  <2>2. CASE Presents[w].echo
    BY <2>1, <2>2
  <2>3. CASE ~Presents[w].echo
    BY <1>1, <2>1, <2>3
  <2>4. QED
    BY <2>2, <2>3
<1>5. PICK m \in {speech, call} : past' = [past EXCEPT ![w] = Append(past[w], m)]
  BY DEF TurnAnswered
<1>6. speech \in Shown /\ speech.answers = NoId
  <2>1. Answered(w, n) \in Spoken
    BY <1>2, SpokenHas
  <2>2. <<Answered(w, n)>> \in Seq(Spoken)
    BY <2>1
  <2>3. answer \in Blocks(Spoken)
    BY <2>2 DEF Blocks, Block
  <2> HIDE DEF answer
  <2>4. <<answer>> \in Seq(Blocks(Spoken))
    BY <2>3
  <2>5. speech = [role |-> "assistant", blocks |-> <<answer>>, calls |-> {}, answers |-> NoId]
    BY DEF Message
  <2>6. NoId \in CallIds \union {NoId} /\ {} \in SUBSET CallIds
    OBVIOUS
  <2> DEFINE bs == <<answer>>
  <2>7. bs \in Seq(Blocks(Spoken))
          /\ speech = [role |-> "assistant", blocks |-> bs, calls |-> {}, answers |-> NoId]
    BY <2>4, <2>5
  <2> HIDE DEF bs, speech
  <2>8. QED
    BY <2>6, <2>7 DEF Shown
<1>7. call \in Shown /\ call.answers = NoId
  <2>1. {<<"call", n>>} \in SUBSET CallIds
    BY <1>2 DEF CallIds
  <2>2. call = [role |-> "assistant", blocks |-> <<>>, calls |-> {<<"call", n>>},
          answers |-> NoId]
    BY DEF Message
  <2>3. NoId \in CallIds \union {NoId} /\ <<>> \in Seq(Blocks(Spoken))
    OBVIOUS
  <2>4. QED
    BY <2>1, <2>2, <2>3 DEF Shown
<1> DEFINE p == Append(past[w], m)
<1>8. m \in Shown /\ m.answers = NoId
  BY <1>5, <1>6, <1>7
<1>9. p \in Seq(Shown) /\ AnswersFollow(p)
  BY <1>1, <1>8, ShownMore
<1>10. past' = [past EXCEPT ![w] = p]
  BY <1>5
<1> HIDE DEF p, h, u
<1>11. Window(w, "idle", p, NoRequest, NoRequest)
  BY <1>9 DEF Window
<1>12. turns' \in 0..MaxTurns /\ nextFresh' \in 0..turns'
  BY <1>1, <1>3
<1>13. "idle" \in Steps
  BY DEF Steps
<1>14. QED
  BY <1>3, <1>4, <1>10, <1>11, <1>12, <1>13, WindowsKept
-----------------------------------------------------------------------------
(* The conversation ids a window has to do with: those of its answered     *)
(* turns, the one its client holds and the one of the turn in progress.    *)
IdsOf(w) ==
  used[w] \union ({heldId[w]} \ {NoId}) \union (IF turn[w] = "idle"
    THEN {} ELSE {canonical[w].conversation})

Known == [w \in Chats |-> IdsOf(w)]

Apart(ids, fresh) ==
  /\ \A w \in Chats :
       /\ Len(Names(w)) >= 2 => ids[w] \subseteq {Names(w)}
       /\ Len(Names(w)) < 2 => ids[w] \subseteq {NewId(n) : n \in 0..(fresh - 1)}
  /\ \A w, v \in Chats :
       w # v /\ Len(Names(w)) < 2 /\ Len(Names(v)) < 2 => ids[w] \intersect ids[v] = {}

Echoed(w) ==
  Presents[w].echo =>
    IF heldId[w] = NoId THEN used[w] = {}
    ELSE used[w] \subseteq {heldId[w]}
      /\ (turn[w] # "idle" => canonical[w].conversation = heldId[w])

ConversationsInv == Apart(Known, nextFresh) /\ \A w \in Chats : Echoed(w)

LEMMA NamesLength == ASSUME NEW w \in Chats PROVE Len(Names(w)) \in Nat
<1> DEFINE ids == <<Presents[w].client, Presents[w].workspace, Presents[w].conversation>>
           X == {Presents[w].client, Presents[w].workspace, Presents[w].conversation}
<1>1. ids \in Seq(X)
  OBVIOUS
<1>2. Names(w) = Selected(ids, {i \in DOMAIN ids : ids[i] # NoId})
  BY DEF Names
<1> HIDE DEF ids, X
<1>3. Names(w) \in Seq(X)
  BY <1>1, <1>2, SelectedType
<1>4. QED
  BY <1>3

LEMMA NewIdsDiffer == ASSUME NEW n \in Nat, NEW k \in Nat, NewId(n) = NewId(k) PROVE n = k
<1>1. NewId(n)[2] = n /\ NewId(k)[2] = k
  BY DEF NewId
<1>2. QED
  BY <1>1

(* A window learns its own names, or a new id if it has none.              *)
Learns(w, more, ids, jds, n, m) ==
  /\ w \in Chats /\ n \in Nat /\ m \in Nat /\ m >= n
  /\ \A v \in Chats \ {w} : jds[v] = ids[v]
  /\ jds[w] \subseteq ids[w] \union more
  /\ \/ more = {}
     \/ Len(Names(w)) >= 2 /\ more = {Names(w)}
     \/ Len(Names(w)) < 2 /\ more = {NewId(n)} /\ m = n + 1

LEMMA ApartKept ==
  ASSUME NEW w, NEW more, NEW ids, NEW jds, NEW n, NEW m, Learns(w, more, ids, jds, n, m),
    Apart(ids, n)
  PROVE  Apart(jds, m)
<1> USE DEF Learns
<1> DEFINE Old == {NewId(i) : i \in 0..(n - 1)}
           New == {NewId(i) : i \in 0..(m - 1)}
<1>0. Len(Names(w)) \in Nat
  BY NamesLength
<1>1. Old \subseteq New
  OBVIOUS
<1>2. Len(Names(w)) < 2 => more \subseteq New
  <2>1. SUFFICES ASSUME Len(Names(w)) < 2, more # {} PROVE more \subseteq New
    OBVIOUS
  <2>2. more = {NewId(n)} /\ m = n + 1
    BY <1>0, <2>1
  <2>3. n \in 0..(m - 1)
    BY <2>2
  <2>4. QED
    BY <2>2, <2>3
<1>3. ASSUME NEW v \in Chats, Len(Names(v)) < 2 PROVE ids[v] \subseteq Old
  BY <1>3 DEF Apart
<1>4. NewId(n) \notin Old
  <2>1. ASSUME NEW i \in 0..(n - 1) PROVE NewId(n) # NewId(i)
    BY NewIdsDiffer
  <2>2. QED
    BY <2>1
<1> HIDE DEF Old, New
<1>5. ASSUME NEW v \in Chats, Len(Names(v)) >= 2 PROVE jds[v] \subseteq {Names(v)}
  <2>1. ids[v] \subseteq {Names(v)}
    BY <1>5 DEF Apart
  <2>2. CASE v # w
    BY <2>1, <2>2
  <2>3. CASE v = w
    <3>1. more \subseteq {Names(w)}
      BY <1>0, <1>5, <2>3
    <3>2. QED
      BY <2>1, <2>3, <3>1
  <2>4. QED
    BY <2>2, <2>3
<1>6. ASSUME NEW v \in Chats, Len(Names(v)) < 2 PROVE jds[v] \subseteq New
  <2>1. ids[v] \subseteq Old
    BY <1>3, <1>6
  <2>2. CASE v # w
    BY <1>1, <2>1, <2>2
  <2>3. CASE v = w
    <3>1. more \subseteq New
      BY <1>2, <1>6, <2>3
    <3>2. QED
      BY <1>1, <2>1, <2>3, <3>1
  <2>4. QED
    BY <2>2, <2>3
<1>7. ASSUME Len(Names(w)) < 2, NEW v \in Chats \ {w}, Len(Names(v)) < 2
        PROVE jds[w] \intersect jds[v] = {}
  <2>1. ids[w] \intersect ids[v] = {}
    BY <1>7 DEF Apart
  <2>2. ids[v] \subseteq Old /\ jds[v] = ids[v]
    BY <1>3, <1>7
  <2>3. more \subseteq {NewId(n)}
    BY <1>0, <1>7
  <2>4. more \intersect ids[v] = {}
    BY <1>4, <2>2, <2>3
  <2>5. QED
    BY <2>1, <2>2, <2>4
<1>8. ASSUME NEW x \in Chats, NEW v \in Chats, x # v, Len(Names(x)) < 2, Len(Names(v)) < 2
      PROVE  jds[x] \intersect jds[v] = {}
  <2>1. CASE x = w
    BY <1>7, <1>8, <2>1
  <2>2. CASE v = w
    BY <1>7, <1>8, <2>2
  <2>3. CASE x # w /\ v # w
    <3>1. ids[x] \intersect ids[v] = {}
      BY <1>8 DEF Apart
    <3>2. QED
      BY <2>3, <3>1
  <2>4. QED
    BY <2>1, <2>2, <2>3
<1>9. QED
  BY <1>5, <1>6, <1>8 DEF Apart, New

LEMMA KeptConversations == WindowsInv /\ ConversationsInv => ConversationsKept
<1> SUFFICES ASSUME WindowsInv, ConversationsInv, NEW w \in Chats, NEW v \in Chats
             PROVE  /\ Cardinality(used[w]) > 1 => Len(Names(w)) < 2 /\ ~Presents[w].echo
                    /\ w # v /\ used[w] \intersect used[v] # {}
                         => Names(w) = Names(v) /\ Len(Names(w)) >= 2
  BY Zenon DEF ConversationsKept
<1>1. \A x \in Chats : used[x] \subseteq Known[x]
  BY DEF Known, IdsOf
<1>2. \A x \in Chats : Len(Names(x)) \in Nat
  BY NamesLength
<1>3. /\ \A x \in Chats : Len(Names(x)) >= 2 => Known[x] \subseteq {Names(x)}
      /\ \A x \in Chats : Len(Names(x)) < 2
           => Known[x] \subseteq {NewId(n) : n \in 0..(nextFresh - 1)}
      /\ \A x, y \in Chats : x # y /\ Len(Names(x)) < 2 /\ Len(Names(y)) < 2
           => Known[x] \intersect Known[y] = {}
  BY DEF ConversationsInv, Apart
<1>4. ASSUME NEW x, used[w] \subseteq {x} PROVE Cardinality(used[w]) <= 1
  <2> DEFINE One == {x}
             S == used[w]
  <2>1. IsFiniteSet(One) /\ Cardinality(One) = 1
    BY FS_Singleton
  <2>2. S \in SUBSET One
    BY <1>4
  <2> HIDE DEF One, S
  <2>3. Cardinality(S) <= Cardinality(One)
    BY ONLY <2>1, <2>2, FS_Subset
  <2>4. QED
    BY <2>1, <2>3 DEF S
<1>5. Presents[w].echo => \E x : used[w] \subseteq {x}
  <2>1. Echoed(w)
    BY DEF ConversationsInv
  <2>2. QED
    BY <2>1 DEF Echoed
<1>6. Len(Names(w)) >= 2 => \E x : used[w] \subseteq {x}
  BY <1>1, <1>3
<1>7. (\E x : used[w] \subseteq {x}) => ~(Cardinality(used[w]) > 1)
  <2>1. SUFFICES ASSUME NEW x, used[w] \subseteq {x} PROVE ~(Cardinality(used[w]) > 1)
    OBVIOUS
  <2>2. Cardinality(used[w]) <= 1 /\ Cardinality(used[w]) \in Nat
    <3>1. IsFiniteSet({x})
      BY FS_Singleton
    <3>2. IsFiniteSet(used[w])
      BY <2>1, <3>1, FS_Subset
    <3>3. Cardinality(used[w]) \in Nat
      BY <3>2, FS_CardinalityType
    <3>4. QED
      BY <1>4, <2>1, <3>3
  <2>3. QED
    BY <2>2
<1>8. Cardinality(used[w]) > 1 => Len(Names(w)) < 2 /\ ~Presents[w].echo
  <2>1. SUFFICES ASSUME Cardinality(used[w]) > 1
          PROVE Len(Names(w)) < 2 /\ ~Presents[w].echo
    OBVIOUS
  <2>2. ~ \E x : used[w] \subseteq {x}
    BY <1>7, <2>1
  <2>3. ~(Len(Names(w)) >= 2) /\ ~Presents[w].echo
    BY ONLY <1>5, <1>6, <2>2
  <2>4. QED
    BY <1>2, <2>3
<1>9. ASSUME NEW x \in Chats, NEW y \in Chats, Len(Names(x)) >= 2, Len(Names(y)) < 2
        PROVE Known[x] \intersect Known[y] = {}
  <2>1. ASSUME NEW n \in 0..(nextFresh - 1) PROVE NewId(n) # Names(x)
    <3>1. n \in 0..MaxTurns
      BY TranslationAssumption DEF WindowsInv
    <3>2. QED
      BY <3>1, NewIdAssumption
  <2>2. QED
    BY <1>3, <1>9, <2>1
<1>10. ASSUME w # v, used[w] \intersect used[v] # {}
         PROVE Names(w) = Names(v) /\ Len(Names(w)) >= 2
  <2>1. Known[w] \intersect Known[v] # {}
    BY <1>1, <1>10
  <2>2. Len(Names(w)) >= 2 /\ Len(Names(v)) >= 2
    BY <1>2, <1>3, <1>9, <1>10, <2>1
  <2>3. QED
    BY <1>3, <2>1, <2>2
<1>11. QED
  BY <1>8, <1>10
LEMMA ConversationsStart == TranslationInit => ConversationsInv
<1> SUFFICES ASSUME TranslationInit PROVE ConversationsInv
  OBVIOUS
<1>1. ASSUME NEW w \in Chats PROVE Known[w] = {} /\ Echoed(w)
  BY DEF TranslationInit, Known, IdsOf, Echoed
<1>2. QED
  BY <1>1 DEF ConversationsInv, Apart

(* What a step of window w leaves to the others, and what it learns.       *)
LEMMA ConversationsStep ==
  ASSUME WindowsInv, WindowsInv', ConversationsInv, NEW w \in Chats,
         \A v \in Chats \ {w} : used'[v] = used[v] /\ heldId'[v] = heldId[v]
           /\ turn'[v] = turn[v] /\ canonical'[v] = canonical[v],
         nextFresh' >= nextFresh,
         NEW more, IdsOf(w)' \subseteq IdsOf(w) \union more,
         \/ more = {}
         \/ Len(Names(w)) >= 2 /\ more = {Names(w)}
         \/ Len(Names(w)) < 2 /\ more = {NewId(nextFresh)} /\ nextFresh' = nextFresh + 1,
         Echoed(w)'
  PROVE  ConversationsInv'
<1>1. nextFresh \in Nat /\ nextFresh' \in Nat
  BY DEF WindowsInv
<1>2. \A v \in Chats \ {w} : (Known')[v] = Known[v]
  BY DEF Known, IdsOf
<1>3. (Known')[w] = IdsOf(w)' /\ Known[w] = IdsOf(w)
  BY DEF Known
<1>4. Apart(Known, nextFresh)
  BY DEF ConversationsInv
<1> DEFINE ids == Known
           jds == Known'
           n == nextFresh
           m == nextFresh'
<1>5. (\A v \in Chats \ {w} : jds[v] = ids[v]) /\ jds[w] \subseteq ids[w] \union more
  BY <1>2, <1>3
<1>6. Apart(ids, n) /\ n \in Nat /\ m \in Nat /\ m >= n /\ w \in Chats
  BY <1>1, <1>4
<1>7. \/ more = {}
      \/ Len(Names(w)) >= 2 /\ more = {Names(w)}
      \/ Len(Names(w)) < 2 /\ more = {NewId(n)} /\ m = n + 1
  OBVIOUS
<1> HIDE DEF ids, jds, n, m
<1>8. Apart(jds, m)
  <2>1. Learns(w, more, ids, jds, n, m)
    BY <1>5, <1>6, <1>7 DEF Learns
  <2>2. QED
    BY <1>6, <2>1, ApartKept
<1>9. ASSUME NEW v \in Chats \ {w} PROVE Echoed(v)'
  <2>1. Echoed(v)
    BY DEF ConversationsInv
  <2>2. QED
    BY <2>1 DEF Echoed
<1>10. Apart(Known, nextFresh)'
  BY <1>8 DEF jds, m, Apart
<1>11. QED
  BY <1>9, <1>10 DEF ConversationsInv

LEMMA OthersStay ==
  ASSUME NEW f, WindowsOver(f), NEW w \in Chats, NEW x, NEW g, g = [f EXCEPT ![w] = x]
    \/ g = f
  PROVE  \A v \in Chats \ {w} : g[v] = f[v]
BY WindowsOverExcept

LEMMA BeginsConverses ==
  ASSUME WindowsInv, WindowsInv', ConversationsInv, NEW w \in Chats, TurnBegins(w)
  PROVE  ConversationsInv'
<1>1. WindowsOver(past) /\ WindowsOver(canonical) /\ WindowsOver(heldId)
        /\ WindowsOver(used) /\ turn \in [Chats -> Steps] /\ nextFresh \in Nat
  BY DEF WindowsInv
<1>2. heldId' = heldId /\ used' = used /\ turn[w] = "idle"
  BY DEF TurnBegins
<1>3. Echoed(w)
  BY DEF ConversationsInv
<1>4. PICK model \in Models, m \in NextMessages(w, turns + 1) :
        \/ Exposing(model) = {} /\ UNCHANGED <<turn, past, canonical, nextFresh>>
        \/ LET id == DeriveConversationId(w, Fresh) IN
           /\ Exposing(model) # {}
           /\ past' = [past EXCEPT ![w] = Append(@, m)]
           /\ canonical' = [canonical EXCEPT ![w]
                = Normalize(Preface(w) \o past'[w], model, id)]
           /\ nextFresh' = IF id = Fresh THEN nextFresh + 1 ELSE nextFresh
           /\ turn' = [turn EXCEPT ![w] = "injecting"]
  BY DEF TurnBegins
<1>5. CASE Exposing(model) = {} /\ UNCHANGED <<turn, past, canonical, nextFresh>>
  <2> DEFINE none == {}
  <2>1. IdsOf(w)' \subseteq IdsOf(w) \union none /\ nextFresh' >= nextFresh /\ Echoed(w)'
    BY <1>1, <1>2, <1>3, <1>5 DEF IdsOf, Echoed
  <2>2. \A v \in Chats \ {w} : used'[v] = used[v] /\ heldId'[v] = heldId[v]
          /\ turn'[v] = turn[v] /\ canonical'[v] = canonical[v]
    BY <1>2, <1>5
  <2>3. QED
    BY <2>1, <2>2, ConversationsStep
<1>6. CASE ~(Exposing(model) = {} /\ UNCHANGED <<turn, past, canonical, nextFresh>>)
  <2> DEFINE id == DeriveConversationId(w, Fresh)
             more == IF heldId[w] # NoId THEN {} ELSE {id}
  <2>1. /\ canonical' = [canonical EXCEPT ![w]
             = Normalize(Preface(w) \o past'[w], model, id)]
        /\ nextFresh' = IF id = Fresh THEN nextFresh + 1 ELSE nextFresh
        /\ turn' = [turn EXCEPT ![w] = "injecting"]
    BY <1>4, <1>6
  <2>2. /\ heldId[w] # NoId => id = heldId[w]
        /\ heldId[w] = NoId /\ Len(Names(w)) >= 2 => id = Names(w)
        /\ heldId[w] = NoId /\ ~(Len(Names(w)) >= 2) => id = Fresh
    <3>1. CASE heldId[w] # NoId
      BY <3>1 DEF DeriveConversationId
    <3>2. CASE heldId[w] = NoId /\ Len(Names(w)) >= 2
      BY <3>2 DEF DeriveConversationId
    <3>3. CASE heldId[w] = NoId /\ ~(Len(Names(w)) >= 2)
      BY <3>3 DEF DeriveConversationId
    <3>4. QED
      BY <3>1, <3>2, <3>3
  <2> HIDE DEF id
  <2>3. past'[w] \in Seq(Shown)
    BY DEF WindowsInv, Window
  <2>4. Normalize(Preface(w) \o past'[w], model, id).conversation = id
    BY <2>3, NormalizeIs
  <2>5. canonical'[w].conversation = id /\ turn'[w] = "injecting"
    <3>1. DOMAIN canonical = Chats
      BY <1>1 DEF WindowsOver
    <3>2. QED
      BY <1>1, <2>1, <2>4, <3>1
  <2>6. \A v \in Chats \ {w} : used'[v] = used[v] /\ heldId'[v] = heldId[v]
          /\ turn'[v] = turn[v] /\ canonical'[v] = canonical[v]
    <3>1. \A v \in Chats \ {w} : canonical'[v] = canonical[v]
      BY <1>1, <2>1, OthersStay
    <3>2. \A v \in Chats \ {w} : turn'[v] = turn[v]
      BY <1>1, <2>1
    <3>3. QED
      BY <1>2, <3>1, <3>2
  <2>7. nextFresh' >= nextFresh
    BY <1>1, <2>1
  <2>8. IdsOf(w)' \subseteq IdsOf(w) \union more
    <3>1. IdsOf(w)' = used[w] \union ({heldId[w]} \ {NoId}) \union {id}
      BY <1>2, <2>5 DEF IdsOf
    <3>2. IdsOf(w) = used[w] \union ({heldId[w]} \ {NoId})
      BY <1>2 DEF IdsOf
    <3>3. QED
      BY <2>2, <3>1, <3>2
  <2>9. Echoed(w)'
    BY <1>2, <1>3, <2>2, <2>5 DEF Echoed
  <2>10. \/ more = {}
         \/ Len(Names(w)) >= 2 /\ more = {Names(w)}
         \/ Len(Names(w)) < 2 /\ more = {NewId(nextFresh)} /\ nextFresh' = nextFresh + 1
    <3>1. Len(Names(w)) \in Nat
      BY NamesLength
    <3>2. CASE heldId[w] # NoId
      BY <3>2
    <3>3. CASE heldId[w] = NoId /\ Len(Names(w)) >= 2
      BY <2>2, <3>3
    <3>4. CASE heldId[w] = NoId /\ ~(Len(Names(w)) >= 2)
      <4>1. id = Fresh
        BY <2>2, <3>4
      <4>2. nextFresh' = nextFresh + 1
        BY <2>1, <4>1
      <4>3. QED
        BY <3>1, <3>4, <4>1, <4>2 DEF Fresh
    <3>5. QED
      BY <3>2, <3>3, <3>4
  <2> HIDE DEF more
  <2>11. QED
    BY <2>6, <2>7, <2>8, <2>9, <2>10, ConversationsStep
<1>7. QED
  BY <1>5, <1>6

LEMMA TakesBackConverses ==
  ASSUME WindowsInv, WindowsInv', ConversationsInv, NEW w \in Chats, turn[w] # "idle",
    TakeBack(w), UNCHANGED <<heldId, used, turns, nextFresh>>
  PROVE  ConversationsInv'
<1>1. WindowsOver(canonical) /\ turn \in [Chats -> Steps] /\ nextFresh \in Nat
  BY DEF WindowsInv
<1>2. Echoed(w)
  BY DEF ConversationsInv
<1>3. turn' = [turn EXCEPT ![w] = "idle"]
        /\ canonical' = [canonical EXCEPT ![w] = NoRequest]
  BY DEF TakeBack
<1>4. \A v \in Chats \ {w} : used'[v] = used[v] /\ heldId'[v] = heldId[v]
        /\ turn'[v] = turn[v] /\ canonical'[v] = canonical[v]
  <2>1. \A v \in Chats \ {w} : canonical'[v] = canonical[v]
    BY <1>1, <1>3, OthersStay
  <2>2. \A v \in Chats \ {w} : turn'[v] = turn[v]
    BY <1>1, <1>3
  <2>3. QED
    BY <2>1, <2>2
<1>5. turn'[w] = "idle"
  BY <1>1, <1>3
<1> DEFINE none == {}
<1>6. IdsOf(w)' \subseteq IdsOf(w) \union none /\ nextFresh' >= nextFresh /\ Echoed(w)'
  BY <1>1, <1>2, <1>5 DEF IdsOf, Echoed
<1>7. QED
  BY <1>4, <1>6, ConversationsStep

LEMMA SentConverses ==
  ASSUME WindowsInv, WindowsInv', ConversationsInv, NEW w \in Chats, TurnSent(w)
  PROVE  ConversationsInv'
<1>1. turn \in [Chats -> Steps] /\ nextFresh \in Nat
  BY DEF WindowsInv
<1>2. turn[w] = "injecting" /\ UNCHANGED <<heldId, used, turns, nextFresh>>
  BY DEF TurnSent
<1>3. TakeBack(w) \/ (turn' = [turn EXCEPT ![w] = "sent"] /\ canonical' = canonical)
  BY DEF TurnSent
<1>4. CASE TakeBack(w)
  BY <1>2, <1>4, TakesBackConverses
<1>5. CASE turn' = [turn EXCEPT ![w] = "sent"] /\ canonical' = canonical
  <2>1. Echoed(w)
    BY DEF ConversationsInv
  <2>2. turn'[w] = "sent" /\ \A v \in Chats \ {w} : turn'[v] = turn[v]
    BY <1>1, <1>5
  <2>3. \A v \in Chats \ {w} : used'[v] = used[v] /\ heldId'[v] = heldId[v]
          /\ turn'[v] = turn[v] /\ canonical'[v] = canonical[v]
    BY <1>2, <1>5, <2>2
  <2> DEFINE none == {}
  <2>4. IdsOf(w)' \subseteq IdsOf(w) \union none
    BY <1>2, <1>5, <2>2 DEF IdsOf
  <2>5. nextFresh' >= nextFresh
    BY <1>1, <1>2
  <2>6. Echoed(w)'
    BY <1>2, <1>5, <2>1, <2>2 DEF Echoed
  <2>7. QED
    BY <2>3, <2>4, <2>5, <2>6, ConversationsStep
<1>6. QED
  BY <1>3, <1>4, <1>5

LEMMA AnsweredConverses ==
  ASSUME WindowsInv, WindowsInv', ConversationsInv, NEW w \in Chats, TurnAnswered(w)
  PROVE  ConversationsInv'
<1>1. WindowsOver(canonical) /\ WindowsOver(heldId) /\ WindowsOver(used)
        /\ turn \in [Chats -> Steps] /\ nextFresh \in Nat
  BY DEF WindowsInv
<1>2. Echoed(w)
  BY DEF ConversationsInv
<1> DEFINE id == canonical[w].conversation
<1>3. /\ turn[w] = "sent" /\ turn' = [turn EXCEPT ![w] = "idle"]
      /\ heldId' = IF Presents[w].echo THEN [heldId EXCEPT ![w] = id] ELSE heldId
      /\ canonical' = [canonical EXCEPT ![w] = NoRequest]
      /\ used' = [used EXCEPT ![w] = used[w] \union {id}]
      /\ nextFresh' = nextFresh
  BY DEF TurnAnswered
<1> HIDE DEF id
<1>4. heldId' = [heldId EXCEPT ![w] = id] \/ heldId' = heldId
  BY <1>3
<1>5. \A v \in Chats \ {w} : used'[v] = used[v] /\ heldId'[v] = heldId[v]
        /\ turn'[v] = turn[v] /\ canonical'[v] = canonical[v]
  <2>1. \A v \in Chats \ {w} : canonical'[v] = canonical[v]
    BY <1>1, <1>3, OthersStay
  <2>2. \A v \in Chats \ {w} : turn'[v] = turn[v]
    BY <1>1, <1>3
  <2>3. \A v \in Chats \ {w} : heldId'[v] = heldId[v]
    BY <1>1, <1>4, OthersStay
  <2>4. \A v \in Chats \ {w} : used'[v] = used[v]
    BY <1>1, <1>3, OthersStay
  <2>5. QED
    BY <2>1, <2>2, <2>3, <2>4
<1>6. turn'[w] = "idle" /\ used'[w] = used[w] \union {id}
        /\ heldId'[w] = IF Presents[w].echo THEN id ELSE heldId[w]
  <2>1. DOMAIN heldId = Chats /\ DOMAIN used = Chats
    BY <1>1 DEF WindowsOver
  <2>2. turn'[w] = "idle" /\ used'[w] = used[w] \union {id}
    BY <1>1, <1>3, <2>1
  <2>3. heldId'[w] = IF Presents[w].echo THEN id ELSE heldId[w]
    BY <1>3, <2>1
  <2>4. QED
    BY <2>2, <2>3
<1>7. IdsOf(w) = used[w] \union ({heldId[w]} \ {NoId}) \union {id}
  BY <1>3 DEF IdsOf, id
<1>8. IdsOf(w)' = used'[w] \union ({heldId'[w]} \ {NoId})
  BY <1>6 DEF IdsOf
<1> DEFINE none == {}
<1>9. IdsOf(w)' \subseteq IdsOf(w) \union none
  BY <1>6, <1>7, <1>8
<1>10. nextFresh' >= nextFresh
  BY <1>1, <1>3
<1>11. id # NoId
  <2>1. id \in Known[w]
    BY <1>7 DEF Known
  <2>2. Len(Names(w)) \in Nat
    BY NamesLength
  <2>3. CASE Len(Names(w)) >= 2
    <3>1. id = Names(w)
      BY <2>1, <2>3 DEF ConversationsInv, Apart
    <3>2. 0 \in 0..MaxTurns
      BY TranslationAssumption
    <3>3. QED
      BY <3>1, <3>2, NewIdAssumption
  <2>4. CASE Len(Names(w)) < 2
    <3>1. PICK n \in 0..(nextFresh - 1) : id = NewId(n)
      BY <2>1, <2>4 DEF ConversationsInv, Apart
    <3>2. n \in 0..MaxTurns
      BY TranslationAssumption DEF WindowsInv
    <3>3. QED
      BY <3>1, <3>2, NewIdAssumption
  <2>5. QED
    BY <2>2, <2>3, <2>4
<1>12. Echoed(w)'
  <2>1. SUFFICES ASSUME Presents[w].echo
                 PROVE  heldId'[w] # NoId /\ used'[w] \subseteq {heldId'[w]}
    BY <1>6 DEF Echoed
  <2>2. heldId'[w] = id /\ used'[w] = used[w] \union {id}
    BY <1>6, <2>1
  <2>3. used[w] \subseteq {id}
    BY <1>2, <1>3, <2>1 DEF Echoed, id
  <2>4. QED
    BY <1>11, <2>2, <2>3
<1>13. QED
  BY <1>5, <1>9, <1>10, <1>12, ConversationsStep
-----------------------------------------------------------------------------
(* The direct request.                                                     *)
LEMMA GreatestNumber ==
  ASSUME NEW n \in Nat, NEW S \in SUBSET (1..n), S # {}
  PROVE  Max(S) \in S /\ \A x \in S : Max(S) >= x
<1> DEFINE T == {n - x : x \in S}
<1>1. T \in SUBSET Nat /\ T # {}
  <2>1. \A x \in S : n - x \in Nat
    OBVIOUS
  <2>2. PICK x \in S : TRUE
    OBVIOUS
  <2>3. n - x \in T
    OBVIOUS
  <2>4. \A y \in T : y \in Nat
    BY <2>1
  <2> HIDE DEF T
  <2>5. QED
    BY <2>3, <2>4
<1>2. PICK t \in T : \A y \in T : t <= y
  BY <1>1, LeastNumber
<1>3. PICK x \in S : t = n - x
  OBVIOUS
<1>4. ASSUME NEW y \in S PROVE x >= y
  <2>1. n - y \in T
    OBVIOUS
  <2>2. n - x <= n - y /\ x \in Int /\ y \in Int
    BY <1>2, <1>3, <2>1
  <2>3. QED
    BY <2>2
<1>5. QED
  BY <1>3, <1>4 DEF Max

LEMMA SelectedBut ==
  ASSUME NEW X, NEW a \in Seq(X), NEW x \in X, NEW b \in Seq(X), NEW at,
         Len(a) + 1 \notin at, 1..Len(a) \subseteq at,
           \A i \in 1..Len(b) : Len(a) + 1 + i \in at
  PROVE  Selected(Append(a, x) \o b, at) = a \o b
<1> DEFINE P == {t \in Seq(X) : (\A i \in 1..Len(t) : Len(a) + 1 + i \in at)
      => Selected(Append(a, x) \o t, at) = a \o t}
           ax == Append(a, x)
<1>0. ax \in Seq(X) /\ Len(ax) = Len(a) + 1 /\ Len(a) \in Nat /\ DOMAIN a = 1..Len(a)
  <2>1. Len(a) \in Nat /\ DOMAIN a = 1..Len(a)
    OBVIOUS
  <2>2. ax \in Seq(X) /\ Len(ax) = Len(a) + 1
    OBVIOUS
  <2>3. QED
    BY <2>1, <2>2
<1>1. <<>> \in P
  <2>1. Selected(a, at) = a
    BY <1>0, SelectedAll
  <2>2. Selected(ax, at) = a
    BY <2>1, SelectedMore
  <2> HIDE DEF ax
  <2>3. ax \o <<>> = ax /\ a \o <<>> = a /\ <<>> \in Seq(X)
    BY <1>0, ConcatEmptySeq
  <2>4. Selected(ax \o <<>>, at) = a \o <<>>
    BY <2>2, <2>3
  <2>5. QED
    BY <2>3, <2>4 DEF ax
<1>2. ASSUME NEW t \in Seq(X), NEW y \in X, t \in P PROVE Append(t, y) \in P
  <2>1. Append(t, y) \in Seq(X) /\ Len(Append(t, y)) = Len(t) + 1 /\ Len(t) \in Nat
    OBVIOUS
  <2>2. SUFFICES ASSUME \A i \in 1..(Len(t) + 1) : Len(a) + 1 + i \in at
          PROVE Selected(ax \o Append(t, y), at) = a \o Append(t, y)
    BY <2>1
  <2>3. \A i \in 1..Len(t) : Len(a) + 1 + i \in at
    BY <2>1, <2>2
  <2>4. Selected(ax \o t, at) = a \o t
    BY <1>2, <2>3
  <2> HIDE DEF ax
  <2>5. ax \o t \in Seq(X) /\ ax \o Append(t, y) = Append(ax \o t, y)
    BY <1>0, ConcatAppend
  <2>6. a \o Append(t, y) = Append(a \o t, y)
    BY ConcatAppend
  <2>7. Len(ax \o t) = Len(a) + 1 + Len(t)
    BY <1>0, <2>1, ConcatProperties
  <2>8. Len(a) + 1 + (Len(t) + 1) \in at
    BY <2>1, <2>2
  <2> DEFINE u == ax \o t
  <2>9. u \in Seq(X) /\ Len(u) + 1 \in at
    <3>1. Len(u) + 1 = Len(a) + 1 + (Len(t) + 1)
      BY <1>0, <2>1, <2>7
    <3>2. QED
      BY <2>5, <2>8, <3>1
  <2> HIDE DEF u
  <2>10. Selected(Append(u, y), at) = Append(Selected(u, at), y)
    BY <2>9, SelectedMore
  <2>11. QED
    BY <2>4, <2>5, <2>6, <2>10 DEF u
<1> HIDE DEF P
<1>3. b \in P
  BY <1>1, <1>2, BySequence
<1>4. QED
  BY <1>3 DEF P

(* The message of memory is the first that is not a system message, and    *)
(* the others are the body.                                                *)
WithMessage(body, sent) ==
  LET with == {i \in DOMAIN sent : sent[i] = MemoryMessage} IN
  /\ Selected(sent, DOMAIN sent \ with) = body
  /\ Cardinality(with) = IF DirectMemory THEN 1 ELSE 0
  /\ \A i \in with : /\ \A j \in 1..i : sent[j].role = "system"
                     /\ i < Len(sent) /\ sent[i + 1].role # "system"

LEMMA BodiesAre ==
  ASSUME NEW body \in Bodies
  PROVE  /\ body \in Seq(DirectMessages) /\ \A i \in DOMAIN body : body[i] # MemoryMessage
<1>1. PICK n \in 0..DirectLength : body \in [1..n -> DirectMessages]
  BY DEF Bodies
<1>2. body \in Seq(DirectMessages) /\ DOMAIN body = 1..n
  BY <1>1
<1>3. \A m \in DirectMessages : m # MemoryMessage
  <2>1. \A m \in DirectMessages : m.content # "memory"
    BY DEF DirectMessages
  <2>2. MemoryMessage.content = "memory"
    BY DEF MemoryMessage
  <2>3. QED
    BY <2>1, <2>2
<1>4. QED
  BY <1>1, <1>2, <1>3

LEMMA WithNone ==
  ASSUME NEW body \in Bodies, ~DirectMemory
  PROVE  WithMessage(body, body)
<1> DEFINE with == {i \in DOMAIN body : body[i] = MemoryMessage}
<1>1. body \in Seq(DirectMessages) /\ with = {}
  BY BodiesAre
<1> HIDE DEF with
<1>2. Selected(body, DOMAIN body \ with) = body
  BY <1>1, SelectedAll
<1>3. Cardinality(with) = 0
  BY <1>1, FS_EmptySet
<1>4. WithMessage(body, body)
  BY <1>1, <1>2, <1>3 DEF WithMessage, with
<1>5. QED
  BY <1>4

LEMMA MaterializeIs ==
  ASSUME NEW body \in Bodies, Said(body, "user") # {}, DirectMemory
  PROVE  WithMessage(body, Materialize(body))
<1> DEFINE n == Len(body)
           others == {i \in DOMAIN body : body[i].role # "system"}
           f == Min(others)
           leading == {i \in DOMAIN body : \A j \in 1..i : body[j].role = "system"}
<1>1. body \in Seq(DirectMessages) /\ n \in Nat /\ DOMAIN body = 1..n
        /\ (\A i \in 1..n : body[i] \in DirectMessages /\ body[i] # MemoryMessage)
  BY BodiesAre
<1>2. others \in SUBSET Nat /\ others # {}
  BY <1>1 DEF Said
<1>3. f \in others /\ \A x \in others : f <= x
  <2> HIDE DEF others
  <2>1. QED
    BY <1>2, LeastNumber
<1> HIDE DEF f
<1>4. f \in 1..n /\ body[f].role # "system" /\ \A j \in 1..n : j < f
        => body[j].role = "system"
  BY <1>1, <1>3
<1>5. leading = 1..(f - 1)
  <2>1. ASSUME NEW i \in leading PROVE i \in 1..(f - 1)
    <3>1. i \in 1..n /\ \A j \in 1..i : body[j].role = "system"
      BY <1>1
    <3>2. f \notin 1..i
      BY <1>4, <3>1
    <3>3. QED
      BY <1>4, <3>1, <3>2
  <2>2. ASSUME NEW i \in 1..(f - 1) PROVE i \in leading
    BY <1>1, <1>4
  <2>3. QED
    BY <2>1, <2>2
<1>6. Cardinality(leading) + 1 = f
  <2>1. f - 1 \in Nat /\ (f - 1 = 0 \/ f - 1 >= 1)
    BY <1>1, <1>4
  <2>2. Cardinality(1..(f - 1)) = IF 1 > f - 1 THEN 0 ELSE (f - 1) - 1 + 1
    BY <2>1, FS_Interval
  <2>3. Cardinality(1..(f - 1)) = f - 1
    BY <2>1, <2>2
  <2>4. Cardinality(leading) = f - 1
    BY <1>5, <2>3, Zenon
  <2> HIDE DEF leading
  <2>5. f \in Int
    BY <1>1, <1>4
  <2>6. QED
    BY <2>4, <2>5
<1> DEFINE X == DirectMessages \union {MemoryMessage}
           a == SubSeq(body, 1, f - 1)
           b == SubSeq(body, f, n)
           sent == Append(a, MemoryMessage) \o b
<1>7. /\ a \in Seq(X) /\ Len(a) = f - 1 /\ \A i \in 1..(f - 1) : a[i] = body[i]
  <2>1. f - 1 \in Int /\ 1 \in Int /\ \A i \in 1..(f - 1) : body[i] \in X
    BY <1>1, <1>4
  <2>2. QED
    BY <1>1, <1>4, <2>1
<1>8. b \in Seq(X) /\ Len(b) = n - f + 1 /\ \A i \in 1..(n - f + 1) : b[i] = body[f + i - 1]
  <2>1. f \in Int /\ n \in Int /\ \A i \in f..n : body[i] \in X
    BY <1>1, <1>4
  <2>2. b \in Seq(X) /\ (Len(b) = IF f <= n THEN n - f + 1 ELSE 0)
          /\ \A i \in 1..(n - f + 1) : b[i] = body[f + i - 1]
    BY <2>1, SubSeqProperties
  <2>3. QED
    BY <1>4, <2>2
<1>9. Materialize(body) = sent
  <2>1. Materialize(body) = InsertAt(body, f, MemoryMessage)
    BY <1>6 DEF Materialize
  <2>2. InsertAt(body, f, MemoryMessage) = (a \o <<MemoryMessage>>) \o b
    BY DEF InsertAt
  <2>3. a \o <<MemoryMessage>> = Append(a, MemoryMessage)
    <3> HIDE DEF a
    <3>1. QED
      BY <1>7
  <2>4. QED
    BY <2>1, <2>2, <2>3
<1> DEFINE with == {i \in DOMAIN sent : sent[i] = MemoryMessage}
<1>10. MemoryMessage \in X
  OBVIOUS
<1> HIDE DEF a, b, X, leading, others
<1>11. Append(a, MemoryMessage) \in Seq(X) /\ Len(Append(a, MemoryMessage)) = f
         /\ Append(a, MemoryMessage)[f] = MemoryMessage
       /\ \A i \in 1..(f - 1) : Append(a, MemoryMessage)[i] = body[i]
  BY <1>4, <1>7, <1>10
<1>12. sent \in Seq(X) /\ Len(sent) = n + 1 /\ sent[f] = MemoryMessage
       /\ (\A i \in 1..(f - 1) : sent[i] = body[i])
            /\ \A i \in (f + 1)..(n + 1) : sent[i] = body[i - 1]
  <2> DEFINE c == Append(a, MemoryMessage)
  <2>0. c \in Seq(X) /\ Len(c) = f /\ c[f] = MemoryMessage
          /\ \A i \in 1..(f - 1) : c[i] = body[i]
    BY <1>11
  <2>00. sent = c \o b
    OBVIOUS
  <2> HIDE DEF c, sent
  <2>1. c \o b \in Seq(X) /\ Len(c \o b) = Len(c) + Len(b)
        /\ \A i \in 1..(Len(c) + Len(b)) : (c \o b)[i]
             = IF i <= Len(c) THEN c[i] ELSE b[i - Len(c)]
    BY <1>8, <2>0, ConcatProperties
  <2>2. Len(c) + Len(b) = n + 1
    BY <1>1, <1>4, <1>8, <2>0
  <2>3. \A i \in 1..(n + 1) : sent[i] = IF i <= f THEN c[i] ELSE b[i - f]
    BY <2>0, <2>00, <2>1, <2>2
  <2>4. sent[f] = MemoryMessage /\ \A i \in 1..(f - 1) : sent[i] = body[i]
    BY <1>1, <1>4, <2>0, <2>3
  <2>5. ASSUME NEW i \in (f + 1)..(n + 1) PROVE sent[i] = body[i - 1]
    <3>1. i \in 1..(n + 1) /\ ~(i <= f) /\ i - f \in 1..(n - f + 1)
            /\ f + (i - f) - 1 = i - 1
      BY <1>1, <1>4
    <3>2. sent[i] = b[i - f]
      BY <2>3, <3>1
    <3>3. b[i - f] = body[f + (i - f) - 1]
      BY <1>8, <3>1
    <3>4. QED
      BY <3>1, <3>2, <3>3
  <2>6. QED
    BY <2>00, <2>1, <2>2, <2>4, <2>5
<1>13. a \o b = body
  <2>1. body \in Seq(X)
    BY <1>1 DEF X
  <2>2. a \o b \in Seq(X) /\ Len(a \o b) = Len(a) + Len(b)
        /\ \A i \in 1..(Len(a) + Len(b)) : (a \o b)[i]
             = IF i <= Len(a) THEN a[i] ELSE b[i - Len(a)]
    BY <1>7, <1>8, ConcatProperties
  <2>3. Len(a) + Len(b) = n
    BY <1>1, <1>4, <1>7, <1>8
  <2>4. ASSUME NEW i \in 1..n PROVE (a \o b)[i] = body[i]
    <3>1. CASE i <= f - 1
      <4>1. i \in 1..(f - 1) /\ i <= Len(a)
        BY <1>7, <3>1
      <4>2. QED
        BY <1>7, <2>2, <2>3, <4>1
    <3>2. CASE ~(i <= f - 1)
      <4>1. i - (f - 1) \in 1..(n - f + 1) /\ f + (i - (f - 1)) - 1 = i /\ ~(i <= Len(a))
        BY <1>1, <1>4, <1>7, <3>2
      <4>2. (a \o b)[i] = b[i - (f - 1)]
        BY <1>7, <2>2, <2>3, <4>1
      <4>3. b[i - (f - 1)] = body[f + (i - (f - 1)) - 1]
        BY <1>8, <4>1
      <4>4. QED
        BY <4>1, <4>2, <4>3
    <3>3. QED
      BY <3>1, <3>2
  <2>5. QED
    BY <2>1, <2>2, <2>3, <2>4, SeqEqual
<1>14. with = {f} /\ DOMAIN sent = 1..(n + 1)
  <2> HIDE DEF sent
  <2>1. DOMAIN sent = 1..(n + 1)
    BY <1>12
  <2>2. ASSUME NEW i \in 1..(n + 1), i # f PROVE sent[i] # MemoryMessage
    <3>1. CASE i < f
      <4>1. i \in 1..(f - 1) /\ i \in 1..n
        BY <1>1, <1>4, <3>1
      <4>2. QED
        BY <1>1, <1>12, <4>1
    <3>2. CASE i > f
      <4>1. i \in (f + 1)..(n + 1) /\ i - 1 \in 1..n
        BY <1>1, <1>4, <3>2
      <4>2. QED
        BY <1>1, <1>12, <4>1
    <3>3. QED
      BY <1>1, <1>4, <2>2, <3>1, <3>2
  <2>3. f \in 1..(n + 1)
    BY <1>1, <1>4
  <2>4. QED
    BY <1>12, <2>1, <2>2, <2>3
<1> DEFINE at == DOMAIN sent \ with
<1>15. Len(a) + 1 \notin at /\ 1..Len(a) \subseteq at
         /\ \A i \in 1..Len(b) : Len(a) + 1 + i \in at
  <2> HIDE DEF sent, with
  <2>1. Len(a) + 1 = f /\ Len(a) = f - 1 /\ Len(b) = n - f + 1
    BY <1>4, <1>7, <1>8
  <2>2. QED
    BY <1>1, <1>4, <1>14, <2>1
<1> HIDE DEF at
<1>16. Selected(sent, at) = body
  <2>1. Selected(Append(a, MemoryMessage) \o b, at) = a \o b
    BY <1>7, <1>8, <1>10, <1>15, SelectedBut
  <2>2. QED
    BY <1>13, <2>1
<1> HIDE DEF sent, with
<1>17. Cardinality(with) = 1
  BY <1>14, FS_Singleton
<1>18. ASSUME NEW i \in with
       PROVE  /\ \A j \in 1..i : sent[j].role = "system"
              /\ i < Len(sent) /\ sent[i + 1].role # "system"
  <2>1. i = f
    BY <1>14
  <2>2. ASSUME NEW j \in 1..f PROVE sent[j].role = "system"
    <3>1. CASE j = f
      BY <1>12, <3>1 DEF MemoryMessage
    <3>2. CASE j # f
      <4>1. j \in 1..(f - 1) /\ j \in 1..n /\ j < f
        BY <1>1, <1>4, <3>2
      <4>2. QED
        BY <1>4, <1>12, <4>1
    <3>3. QED
      BY <3>1, <3>2
  <2>3. f + 1 \in (f + 1)..(n + 1) /\ (f + 1) - 1 = f /\ f < n + 1
    BY <1>1, <1>4
  <2>4. sent[f + 1] = body[f]
    BY <1>12, <2>3
  <2>5. QED
    BY <1>4, <1>12, <2>1, <2>2, <2>3, <2>4
<1>19. WithMessage(body, sent)
  BY <1>16, <1>17, <1>18 DEF WithMessage, with, at
<1>20. QED
  BY <1>9, <1>19
ForProvider(body) == IF DirectMemory THEN Materialize(body) ELSE body

LEMMA ForProviderIs ==
  ASSUME NEW body \in Bodies, ValidChatRequest(body)
  PROVE  WithMessage(body, ForProvider(body))
<1>1. Said(body, "user") # {}
  BY DEF ValidChatRequest
<1>2. CASE DirectMemory
  BY <1>1, <1>2, MaterializeIs DEF ForProvider
<1>3. CASE ~DirectMemory
  BY <1>3, WithNone DEF ForProvider
<1>4. QED
  BY <1>2, <1>3

(* What is told and observed of an answer.                                 *)
Told(body, outcome, status, observed) ==
  /\ status = ClientStatus(outcome)
  /\ observed = IF status = 200 THEN <<outcome.kind, Max(Said(body, "user"))>> ELSE <<>>

Direct(d) ==
  /\ d = [at |-> d.at, body |-> d.body, sent |-> d.sent, status |-> d.status,
       observed |-> d.observed]
  /\ \/ d = NoDirect
     \/ /\ d.at = "injecting" /\ DirectMemory /\ d.body \in Bodies
          /\ ValidChatRequest(d.body)
        /\ d.sent = d.body /\ d.status = 0 /\ d.observed = <<>>
     \/ /\ d.at = "sending" /\ d.body \in Bodies /\ ValidChatRequest(d.body)
        /\ d.sent = ForProvider(d.body) /\ d.status = 0 /\ d.observed = <<>>
     \/ d.at = "over" /\ d.sent = <<>> /\ d.status \in {400, 503} /\ d.observed = <<>>
     \/ /\ d.at = "over" /\ d.body \in Bodies /\ ValidChatRequest(d.body)
        /\ d.sent = ForProvider(d.body)
        /\ \E outcome \in Outcomes : Told(d.body, outcome, d.status, d.observed)

LEMMA ToldIs ==
  ASSUME NEW body \in Bodies, ValidChatRequest(body), NEW outcome \in Outcomes, NEW status,
    NEW observed,
         Told(body, outcome, status, observed)
  PROVE  /\ status \in {200, 400, 500, 502, 503, 504}
         /\ observed # <<>> <=> status = 200
         /\ observed # <<>> =>
              /\ observed[1] = "usable"
              /\ \A i \in DOMAIN body : i > observed[2] => body[i].role # "user"
<1>1. status \in {200, 400, 500, 502, 503, 504} /\ (status = 200 => outcome.kind = "usable")
  <2>1. outcome.kind \in Kinds \union {"status"}
    BY DEF Outcomes
  <2>2. ClassifyStatus(outcome.status) \in {400, 502, 503}
    <3>1. CASE outcome.status \in {400, 404, 422}
      BY <3>1 DEF ClassifyStatus
    <3>2. CASE outcome.status = 429
      BY <3>2 DEF ClassifyStatus
    <3>3. CASE outcome.status \notin {400, 404, 422, 429}
      BY <3>3 DEF ClassifyStatus
    <3>4. QED
      BY <3>1, <3>2, <3>3
  <2>3. CASE outcome.kind = "timeout"
    BY <2>3 DEF Told, ClientStatus
  <2>4. CASE outcome.kind = "credentials"
    BY <2>4 DEF Told, ClientStatus
  <2>5. CASE outcome.kind = "status"
    BY <2>2, <2>5 DEF Told, ClientStatus
  <2>6. CASE outcome.kind = "no object"
    <3>1. ClientStatus(outcome) = 500
      BY <2>6 DEF ClientStatus
    <3>2. status = 500
      BY <3>1, Zenon DEF Told
    <3>3. QED
      BY <3>2
  <2>7. CASE outcome.kind = "usable"
    BY <2>7 DEF Told, ClientStatus
  <2>8. CASE outcome.kind \notin {"timeout", "credentials", "status", "no object", "usable"}
    <3>1. ClientStatus(outcome) = 502
      BY <2>8 DEF ClientStatus
    <3>2. status = 502
      BY <3>1, Zenon DEF Told
    <3>3. QED
      BY <3>2
  <2>9. QED
    BY <2>3, <2>4, <2>5, <2>6, <2>7, <2>8
<1> DEFINE n == Max(Said(body, "user"))
<1>2. \A i \in DOMAIN body : i > n => body[i].role # "user"
  <2> DEFINE S == Said(body, "user")
  <2>1. body \in Seq(DirectMessages)
    BY BodiesAre
  <2>2. Len(body) \in Nat /\ DOMAIN body = 1..Len(body)
    BY <2>1
  <2>3. S \in SUBSET (1..Len(body)) /\ S # {}
    BY <2>2 DEF Said, ValidChatRequest
  <2>4. \A i \in DOMAIN body : body[i].role = "user" => i \in S
    BY DEF Said
  <2> HIDE DEF S
  <2>5. Max(S) \in S /\ \A x \in S : Max(S) >= x
    BY <2>2, <2>3, GreatestNumber
  <2>6. n = Max(S)
    BY DEF S
  <2> HIDE DEF n
  <2>7. ASSUME NEW i \in DOMAIN body, i > n, body[i].role = "user" PROVE FALSE
    <3>1. i \in S /\ n >= i /\ n \in S
      BY <2>4, <2>5, <2>6, <2>7
    <3>2. i \in Int /\ n \in Int
      BY <2>3, <3>1
    <3>3. QED
      BY <2>7, <3>1, <3>2
  <2>8. QED
    BY <2>7
<1>3. observed = IF status = 200 THEN <<outcome.kind, n>> ELSE <<>>
  BY DEF Told
<1> HIDE DEF n
<1>4. CASE status = 200
  <2>1. observed = <<outcome.kind, n>>
    BY <1>3, <1>4
  <2>2. observed # <<>> /\ observed[1] = outcome.kind /\ observed[2] = n
    BY <2>1
  <2>3. QED
    BY <1>1, <1>2, <1>4, <2>2
<1>5. CASE status # 200
  BY <1>1, <1>3, <1>5
<1>6. QED
  BY <1>4, <1>5

LEMMA DirectIsSound == Direct(direct) => DirectSound
<1> SUFFICES ASSUME Direct(direct) PROVE DirectSound
  OBVIOUS
<1> DEFINE with == {i \in DOMAIN direct.sent : direct.sent[i] = MemoryMessage}
           sent == direct.sent
           body == direct.body
<1>1. CASE sent = <<>> /\ direct.status \in {0, 400, 503} /\ direct.observed = <<>>
        /\ direct.at # "sending"
  <2>1. with = {}
    BY <1>1
  <2> HIDE DEF with
  <2>2. direct.status \notin {200, 401, 403} /\ direct.at # "sending"
          /\ direct.observed = <<>>
    BY <1>1
  <2>3. QED
    BY <1>1, <2>1, <2>2 DEF DirectSound, with
<1>2. CASE direct.at = "injecting" /\ sent = body /\ body \in Bodies /\ direct.status = 0
        /\ direct.observed = <<>>
  <2>1. body \in Seq(DirectMessages) /\ with = {}
    BY <1>2, BodiesAre
  <2> HIDE DEF with, body
  <2>2. Selected(body, DOMAIN body \ with) = body
    BY <2>1, SelectedAll
  <2>3. Selected(direct.sent, DOMAIN direct.sent \ with) = direct.body
    BY <1>2, <2>2 DEF body
  <2>4. QED
    BY <1>2, <2>1, <2>3 DEF DirectSound, with
<1>3. CASE WithMessage(body, sent) /\ direct.at = "sending" /\ direct.status = 0
        /\ direct.observed = <<>>
  <2>1. /\ Selected(sent, DOMAIN sent \ with) = body
        /\ Cardinality(with) = IF DirectMemory THEN 1 ELSE 0
        /\ \A i \in with : /\ \A j \in 1..i : sent[j].role = "system"
                           /\ i < Len(sent) /\ sent[i + 1].role # "system"
    BY <1>3, Zenon DEF WithMessage
  <2>2. direct.status \notin {200, 401, 403} /\ direct.observed = <<>>
    BY <1>3
  <2> HIDE DEF with
  <2>3. QED
    BY <2>1, <2>2 DEF DirectSound, with
<1>4. CASE /\ direct.at = "over" /\ body \in Bodies /\ ValidChatRequest(body)
        /\ WithMessage(body, sent)
           /\ \E outcome \in Outcomes : Told(body, outcome, direct.status, direct.observed)
  <2>1. /\ Selected(sent, DOMAIN sent \ with) = body
        /\ \A i \in with : /\ \A j \in 1..i : sent[j].role = "system"
                           /\ i < Len(sent) /\ sent[i + 1].role # "system"
    BY <1>4, Zenon DEF WithMessage
  <2>2. PICK outcome \in Outcomes : Told(body, outcome, direct.status, direct.observed)
    BY <1>4
  <2>3. body \in Bodies /\ ValidChatRequest(body)
    BY <1>4
  <2> DEFINE status == direct.status
             observed == direct.observed
  <2> HIDE DEF body, status, observed
  <2>4. /\ status \in {200, 400, 500, 502, 503, 504}
        /\ observed # <<>> <=> status = 200
        /\ observed # <<>> =>
              /\ observed[1] = "usable"
              /\ \A i \in DOMAIN body : i > observed[2] => body[i].role # "user"
    BY <2>2, <2>3, ToldIs DEF status, observed
  <2>5. status \notin {401, 403} /\ direct.at # "sending"
    BY <1>4, <2>4
  <2> HIDE DEF with
  <2>6. QED
    BY <2>1, <2>4, <2>5 DEF DirectSound, with, status, observed, body
<1>5. QED
  <2>1. CASE direct = NoDirect
    BY <1>1, <2>1 DEF NoDirect
  <2>2. CASE direct # NoDirect
    BY <1>1, <1>2, <1>3, <1>4, <2>2, ForProviderIs DEF Direct
  <2>3. QED
    BY <2>1, <2>2

(* The direct request with other values.                                   *)
LEMMA DirectAskedIs ==
  ASSUME Direct(direct), NEW a, NEW b, NEW s
  PROVE  [direct EXCEPT !.at = a, !.body = b, !.sent = s]
    = [at |-> a, body |-> b, sent |-> s, status |-> direct.status,
    observed |-> direct.observed]
<1>1. direct = [at |-> direct.at, body |-> direct.body, sent |-> direct.sent,
        status |-> direct.status, observed |-> direct.observed]
  BY DEF Direct
<1> DEFINE d == direct
<1>2. DOMAIN d = {"at", "body", "sent", "status", "observed"}
  BY <1>1
<1>3. d = [at |-> d.at, body |-> d.body, sent |-> d.sent, status |-> d.status,
        observed |-> d.observed]
  BY <1>1
<1> DEFINE e == [d EXCEPT !.at = a, !.body = b, !.sent = s]
<1>4. e = [d EXCEPT !.at = a, !.body = b, !.sent = s]
  OBVIOUS
<1> HIDE DEF d, e
<1>5. e = [at |-> a, body |-> b, sent |-> s, status |-> d.status, observed |-> d.observed]
  BY <1>3, <1>4
<1>6. QED
  BY <1>5 DEF d, e

LEMMA DirectRefusedIs ==
  ASSUME Direct(direct), NEW a, NEW b, NEW t
  PROVE  [direct EXCEPT !.at = a, !.body = b, !.status = t]
    = [at |-> a, body |-> b, sent |-> direct.sent, status |-> t,
    observed |-> direct.observed]
<1>1. direct = [at |-> direct.at, body |-> direct.body, sent |-> direct.sent,
        status |-> direct.status, observed |-> direct.observed]
  BY DEF Direct
<1> DEFINE d == direct
<1>2. DOMAIN d = {"at", "body", "sent", "status", "observed"}
  BY <1>1
<1>3. d = [at |-> d.at, body |-> d.body, sent |-> d.sent, status |-> d.status,
        observed |-> d.observed]
  BY <1>1
<1> DEFINE e == [d EXCEPT !.at = a, !.body = b, !.status = t]
<1>4. e = [d EXCEPT !.at = a, !.body = b, !.status = t]
  OBVIOUS
<1> HIDE DEF d, e
<1>5. e = [at |-> a, body |-> b, sent |-> d.sent, status |-> t, observed |-> d.observed]
  BY <1>3, <1>4
<1>6. QED
  BY <1>5 DEF d, e

LEMMA DirectInjectedIs ==
  ASSUME Direct(direct), NEW a, NEW s
  PROVE  [direct EXCEPT !.at = a, !.sent = s]
    = [at |-> a, body |-> direct.body, sent |-> s, status |-> direct.status,
    observed |-> direct.observed]
<1>1. direct = [at |-> direct.at, body |-> direct.body, sent |-> direct.sent,
        status |-> direct.status, observed |-> direct.observed]
  BY DEF Direct
<1> DEFINE d == direct
<1>2. DOMAIN d = {"at", "body", "sent", "status", "observed"}
  BY <1>1
<1>3. d = [at |-> d.at, body |-> d.body, sent |-> d.sent, status |-> d.status,
        observed |-> d.observed]
  BY <1>1
<1> DEFINE e == [d EXCEPT !.at = a, !.sent = s]
<1>4. e = [d EXCEPT !.at = a, !.sent = s]
  OBVIOUS
<1> HIDE DEF d, e
<1>5. e = [at |-> a, body |-> d.body, sent |-> s, status |-> d.status,
        observed |-> d.observed]
  BY <1>3, <1>4
<1>6. QED
  BY <1>5 DEF d, e

LEMMA DirectUninjectedIs ==
  ASSUME Direct(direct), NEW a, NEW s, NEW t
  PROVE  [direct EXCEPT !.at = a, !.sent = s, !.status = t]
    = [at |-> a, body |-> direct.body, sent |-> s, status |-> t,
    observed |-> direct.observed]
<1>1. direct = [at |-> direct.at, body |-> direct.body, sent |-> direct.sent,
        status |-> direct.status, observed |-> direct.observed]
  BY DEF Direct
<1> DEFINE d == direct
<1>2. DOMAIN d = {"at", "body", "sent", "status", "observed"}
  BY <1>1
<1>3. d = [at |-> d.at, body |-> d.body, sent |-> d.sent, status |-> d.status,
        observed |-> d.observed]
  BY <1>1
<1> DEFINE e == [d EXCEPT !.at = a, !.sent = s, !.status = t]
<1>4. e = [d EXCEPT !.at = a, !.sent = s, !.status = t]
  OBVIOUS
<1> HIDE DEF d, e
<1>5. e = [at |-> a, body |-> d.body, sent |-> s, status |-> t, observed |-> d.observed]
  BY <1>3, <1>4
<1>6. QED
  BY <1>5 DEF d, e

LEMMA DirectAnsweredIs ==
  ASSUME Direct(direct), NEW a, NEW t, NEW o
  PROVE  [direct EXCEPT !.at = a, !.status = t, !.observed = o]
    = [at |-> a, body |-> direct.body, sent |-> direct.sent, status |-> t, observed |-> o]
<1>1. direct = [at |-> direct.at, body |-> direct.body, sent |-> direct.sent,
        status |-> direct.status, observed |-> direct.observed]
  BY DEF Direct
<1> DEFINE d == direct
<1>2. DOMAIN d = {"at", "body", "sent", "status", "observed"}
  BY <1>1
<1>3. d = [at |-> d.at, body |-> d.body, sent |-> d.sent, status |-> d.status,
        observed |-> d.observed]
  BY <1>1
<1> DEFINE e == [d EXCEPT !.at = a, !.status = t, !.observed = o]
<1>4. e = [d EXCEPT !.at = a, !.status = t, !.observed = o]
  OBVIOUS
<1> HIDE DEF d, e
<1>5. e = [at |-> a, body |-> d.body, sent |-> d.sent, status |-> t, observed |-> o]
  BY <1>3, <1>4
<1>6. QED
  BY <1>5 DEF d, e

LEMMA DirectAskedKeeps ==
  ASSUME Direct(direct), DirectAsked
  PROVE  Direct(direct')
<1>1. direct.at = "new" /\ direct = NoDirect
  BY DEF DirectAsked, Direct
<1>2. PICK body \in Bodies :
        direct' = IF ValidChatRequest(body)
                    THEN [direct EXCEPT !.at = IF DirectMemory
                      THEN "injecting" ELSE "sending",
                                        !.body = body, !.sent = body]
                    ELSE [direct EXCEPT !.at = "over", !.body = body, !.status = 400]
  BY DEF DirectAsked
<1>3. direct.sent = <<>> /\ direct.status = 0 /\ direct.observed = <<>>
  BY <1>1 DEF NoDirect
<1>4. CASE ValidChatRequest(body)
  <2> DEFINE a == IF DirectMemory THEN "injecting" ELSE "sending"
  <2>1. direct' = [direct EXCEPT !.at = a, !.body = body, !.sent = body]
    BY <1>2, <1>4
  <2> HIDE DEF a
  <2>2. direct' = [at |-> a, body |-> body, sent |-> body, status |-> 0, observed |-> <<>>]
    BY <1>3, <2>1, DirectAskedIs
  <2>3. DirectMemory \in BOOLEAN
    BY TranslationAssumption
  <2>4. ~DirectMemory => body = ForProvider(body)
    BY DEF ForProvider
  <2>5. QED
    BY <1>4, <2>2, <2>3, <2>4 DEF Direct, a
<1>5. CASE ~ValidChatRequest(body)
  <2>1. direct' = [direct EXCEPT !.at = "over", !.body = body, !.status = 400]
    BY <1>2, <1>5
  <2>0. direct' = [at |-> "over", body |-> body, sent |-> direct.sent, status |-> 400,
          observed |-> direct.observed]
    <3> DEFINE a == "over"
               t == 400
    <3>1. direct' = [direct EXCEPT !.at = a, !.body = body, !.status = t]
      BY <2>1
    <3> HIDE DEF a, t
    <3>2. direct' = [at |-> a, body |-> body, sent |-> direct.sent, status |-> t,
            observed |-> direct.observed]
      BY <3>1, DirectRefusedIs
    <3>3. QED
      BY <3>2 DEF a, t
  <2>2. direct' = [at |-> "over", body |-> body, sent |-> <<>>, status |-> 400,
          observed |-> <<>>]
    BY <1>3, <2>0
  <2>3. QED
    BY <2>2 DEF Direct
<1>6. QED
  BY <1>4, <1>5

LEMMA DirectInjectedKeeps ==
  ASSUME Direct(direct), DirectInjected
  PROVE  Direct(direct')
<1>1. direct.at = "injecting"
  BY DEF DirectInjected
<1>2. DirectMemory /\ direct.body \in Bodies /\ ValidChatRequest(direct.body)
        /\ direct.status = 0 /\ direct.observed = <<>>
  BY <1>1 DEF Direct, NoDirect
<1>3. CASE direct' = [direct EXCEPT !.at = "sending", !.sent = Materialize(direct.body)]
  <2> DEFINE s == ForProvider(direct.body)
  <2>1. direct' = [direct EXCEPT !.at = "sending", !.sent = s]
    BY <1>2, <1>3 DEF ForProvider
  <2>0. s = ForProvider(direct.body)
    OBVIOUS
  <2> HIDE DEF s
  <2>2. direct' = [at |-> "sending", body |-> direct.body, sent |-> s, status |-> 0,
          observed |-> <<>>]
    BY <1>2, <2>1, DirectInjectedIs
  <2>3. QED
    BY <1>2, <2>0, <2>2 DEF Direct
<1>4. CASE direct' = [direct EXCEPT !.at = "over", !.sent = <<>>, !.status = 503]
  <2>0. direct' = [at |-> "over", body |-> direct.body, sent |-> <<>>, status |-> 503,
          observed |-> direct.observed]
    <3> DEFINE a == "over"
               s == <<>>
               t == 503
    <3>1. direct' = [direct EXCEPT !.at = a, !.sent = s, !.status = t]
      BY <1>4
    <3> HIDE DEF a, s, t
    <3>2. direct' = [at |-> a, body |-> direct.body, sent |-> s, status |-> t,
            observed |-> direct.observed]
      BY <3>1, DirectUninjectedIs
    <3>3. QED
      BY <3>2 DEF a, s, t
  <2>1. direct' = [at |-> "over", body |-> direct.body, sent |-> <<>>, status |-> 503,
          observed |-> <<>>]
    BY <1>2, <2>0
  <2>2. QED
    BY <2>1 DEF Direct
<1>5. QED
  BY <1>3, <1>4 DEF DirectInjected

LEMMA DirectAnsweredKeeps ==
  ASSUME Direct(direct), DirectAnswered
  PROVE  Direct(direct')
<1>1. direct.at = "sending"
  BY DEF DirectAnswered
<1>2. direct.body \in Bodies /\ ValidChatRequest(direct.body)
        /\ direct.sent = ForProvider(direct.body)
  BY <1>1 DEF Direct, NoDirect
<1>3. PICK outcome \in Outcomes :
        direct' = [direct EXCEPT !.at = "over", !.status = ClientStatus(outcome),
                     !.observed = IF ClientStatus(outcome) = 200 THEN <<outcome.kind,
                       Max(Said(direct.body, "user"))>> ELSE <<>>]
  BY DEF DirectAnswered
<1> DEFINE t == ClientStatus(outcome)
           o == IF t = 200 THEN <<outcome.kind, Max(Said(direct.body, "user"))>> ELSE <<>>
<1>4. Told(direct.body, outcome, t, o)
  BY DEF Told
<1>5. direct' = [direct EXCEPT !.at = "over", !.status = t, !.observed = o]
  BY <1>3
<1> HIDE DEF t, o
<1>6. direct' = [at |-> "over", body |-> direct.body, sent |-> direct.sent, status |-> t,
        observed |-> o]
  BY <1>5, DirectAnsweredIs
<1>7. QED
  BY <1>2, <1>4, <1>6 DEF Direct
-----------------------------------------------------------------------------
TranslationInv == WindowsInv /\ ConversationsInv /\ Direct(direct)

LEMMA TranslationStart == TranslationInit => TranslationInv
<1> SUFFICES ASSUME TranslationInit PROVE TranslationInv
  OBVIOUS
<1>1. direct = NoDirect
  BY DEF TranslationInit
<1>2. Direct(NoDirect)
  BY DEF Direct, NoDirect
<1>3. QED
  BY <1>1, <1>2, WindowsStart, ConversationsStart DEF TranslationInv

LEMMA TranslationStep == TranslationInv /\ [TranslationNext]_translationVars
  => TranslationInv'
<1> SUFFICES ASSUME TranslationInv, [TranslationNext]_translationVars PROVE TranslationInv'
  OBVIOUS
<1>1. WindowsInv /\ ConversationsInv /\ Direct(direct)
  BY DEF TranslationInv
<1>2. ASSUME UNCHANGED turnVars PROVE WindowsInv' /\ ConversationsInv'
  <2>1. turn' = turn /\ past' = past /\ heldId' = heldId /\ canonical' = canonical
          /\ payload' = payload
        /\ used' = used /\ turns' = turns /\ nextFresh' = nextFresh
    BY <1>2 DEF turnVars
  <2>2. WindowsInv'
    BY <1>1, <2>1 DEF WindowsInv, WindowsOver
  <2>3. ConversationsInv'
    BY <1>1, <2>1 DEF ConversationsInv, Apart, Known, IdsOf, Echoed
  <2>4. QED
    BY <2>2, <2>3
<1>3. ASSUME NEW w \in Chats, TurnBegins(w) PROVE TranslationInv'
  <2>1. WindowsInv'
    BY <1>1, <1>3, BeginsKeeps
  <2>2. ConversationsInv'
    BY <1>1, <1>3, <2>1, BeginsConverses
  <2>3. direct' = direct
    BY <1>3 DEF TurnBegins
  <2>4. QED
    BY <1>1, <2>1, <2>2, <2>3 DEF TranslationInv
<1>4. ASSUME NEW w \in Chats, TurnSent(w) PROVE TranslationInv'
  <2>1. WindowsInv'
    BY <1>1, <1>4, SentKeeps
  <2>2. ConversationsInv'
    BY <1>1, <1>4, <2>1, SentConverses
  <2>3. direct' = direct
    BY <1>4 DEF TurnSent
  <2>4. QED
    BY <1>1, <2>1, <2>2, <2>3 DEF TranslationInv
<1>5. ASSUME NEW w \in Chats, TurnAnswered(w) PROVE TranslationInv'
  <2>1. WindowsInv'
    BY <1>1, <1>5, AnsweredKeeps
  <2>2. ConversationsInv'
    BY <1>1, <1>5, <2>1, AnsweredConverses
  <2>3. direct' = direct
    BY <1>5 DEF TurnAnswered
  <2>4. QED
    BY <1>1, <2>1, <2>2, <2>3 DEF TranslationInv
<1>6. ASSUME NEW w \in Chats, TurnFails(w) PROVE TranslationInv'
  <2>1. WindowsInv'
    BY <1>1, <1>6, FailsKeeps
  <2>2. turn[w] # "idle" /\ TakeBack(w) /\ UNCHANGED <<heldId, used, turns, nextFresh>>
          /\ direct' = direct
    BY <1>6 DEF TurnFails
  <2>3. ConversationsInv'
    BY <1>1, <2>1, <2>2, TakesBackConverses
  <2>4. QED
    BY <1>1, <2>1, <2>2, <2>3 DEF TranslationInv
<1>7. CASE DirectAsked
  <2>1. UNCHANGED turnVars
    BY <1>7 DEF DirectAsked
  <2>2. QED
    BY <1>1, <1>2, <1>7, <2>1, DirectAskedKeeps DEF TranslationInv
<1>8. CASE DirectInjected
  <2>1. UNCHANGED turnVars
    BY <1>8 DEF DirectInjected
  <2>2. QED
    BY <1>1, <1>2, <1>8, <2>1, DirectInjectedKeeps DEF TranslationInv
<1>9. CASE DirectAnswered
  <2>1. UNCHANGED turnVars
    BY <1>9 DEF DirectAnswered
  <2>2. QED
    BY <1>1, <1>2, <1>9, <2>1, DirectAnsweredKeeps DEF TranslationInv
<1>10. CASE UNCHANGED translationVars
  <2>1. UNCHANGED turnVars /\ direct' = direct
    BY <1>10 DEF translationVars
  <2>2. QED
    BY <1>1, <1>2, <2>1 DEF TranslationInv
<1>11. QED
  BY <1>3, <1>4, <1>5, <1>6, <1>7, <1>8, <1>9, <1>10 DEF TranslationNext

LEMMA Translates == TranslationInv => RequestsTranslated
<1> SUFFICES ASSUME TranslationInv PROVE RequestsTranslated
  OBVIOUS
<1>1. ASSUME NEW w \in Chats, turn[w] = "sent"
        PROVE Window(w, "sent", past[w], canonical[w], payload[w])
  <2>1. Window(w, turn[w], past[w], canonical[w], payload[w])
    BY DEF TranslationInv, WindowsInv
  <2>2. QED
    BY <1>1, <2>1
<1>2. TurnsFaithful
  <2>1. ASSUME NEW w \in Chats, turn[w] = "sent" PROVE Faithful(past[w], payload[w])
    BY <1>1, <2>1, WindowFaithful
  <2>2. QED
    BY <2>1, Zenon DEF TurnsFaithful, Faithful, Texts
<1>3. OneMemory
  <2>1. ASSUME NEW w \in Chats, turn[w] = "sent"
          PROVE OneMemoryIn(payload[w].system) /\ NoneSaid(payload[w].messages)
    BY <1>1, <2>1, WindowOneMemory
  <2>2. QED
    BY <2>1, Zenon DEF OneMemory, OneMemoryIn, NoneSaid
<1>4. ConversationsKept /\ DirectSound
  BY KeptConversations, DirectIsSound DEF TranslationInv
<1>5. QED
  BY <1>2, <1>3, <1>4 DEF RequestsTranslated

TranslationSpec == TranslationInit /\ [][TranslationNext]_translationVars

(* Every request means the same on both sides of the gateway, for any      *)
(* number of windows and turns, any text they show, any providers and any  *)
(* limit of the system text (gateway/request_normalizer.py,                *)
(* gateway/memory_injector.py, gateway/upstream_router.py,                 *)
(* gateway/request_policy.py, gateway/normalize.py).                       *)
THEOREM RequestsAreTranslated == TranslationSpec => []RequestsTranslated
<1>1. TranslationInit => TranslationInv
  BY TranslationStart
<1>2. TranslationInv /\ [TranslationNext]_translationVars => TranslationInv'
  BY TranslationStep
<1>3. TranslationInv => RequestsTranslated
  BY Translates
<1>4. QED
  BY <1>1, <1>2, <1>3, PTL DEF TranslationSpec

-----------------------------------------------------------------------------
(* Numbers up to a bound, one after the other.                             *)
LEMMA ByNumber ==
  ASSUME NEW n \in Nat, NEW P, 0 \in P, \A i \in 1..n : i - 1 \in P => i \in P
  PROVE  \A i \in 0..n : i \in P
<1> DEFINE D == {i \in 0..n : i \notin P}
<1>1. SUFFICES ASSUME D # {} PROVE FALSE
  OBVIOUS
<1>2. D \in SUBSET Nat
  OBVIOUS
<1>3. PICK m \in D : \A x \in D : m <= x
  BY <1>1, <1>2, LeastNumber
<1>4. m \in 1..n /\ m - 1 \in 0..n /\ m - 1 \notin D
  BY <1>3
<1>5. QED
  BY <1>3, <1>4

(* A function that is given at 0 and by each value for the next one.       *)
Alike(f, g, n) ==
  /\ n \in Nat /\ f = [i \in 0..n |-> f[i]] /\ g = [i \in 0..n |-> g[i]]
  /\ f[0] = g[0] /\ \A i \in 1..n : f[i - 1] = g[i - 1] => f[i] = g[i]

LEMMA GivenOnce ==
  ASSUME NEW f, NEW g, NEW n, Alike(f, g, n)
  PROVE  f = g
<1> DEFINE P == {i \in 0..n : f[i] = g[i]}
<1>0. n \in Nat /\ f = [i \in 0..n |-> f[i]] /\ g = [i \in 0..n |-> g[i]]
  BY DEF Alike
<1>1. 0 \in P /\ \A i \in 1..n : i - 1 \in P => i \in P
  <2>1. 0 \in 0..n /\ \A i \in 1..n : i \in 0..n /\ i - 1 \in 0..n
    BY <1>0
  <2>2. f[0] = g[0] /\ \A i \in 1..n : f[i - 1] = g[i - 1] => f[i] = g[i]
    BY DEF Alike
  <2>3. \A i \in 1..n : i - 1 \in P => f[i - 1] = g[i - 1]
    OBVIOUS
  <2>4. QED
    BY <2>1, <2>2, <2>3
<1> HIDE DEF P
<1>2. \A i \in 0..n : i \in P
  BY <1>0, <1>1, ByNumber
<1>3. \A i \in 0..n : f[i] = g[i]
  BY <1>2 DEF P
<1>4. QED
  BY <1>0, <1>3

Stepped(g, n, S, base) == n \in Nat /\ base \in S /\ g \in [S \X (1..n) -> S]
Reached(g, n, S, base) ==
  \E f \in [0..n -> S] : f[0] = base /\ \A i \in 1..n : f[i] = g[<<f[i - 1], i>>]

LEMMA GivenExists ==
  ASSUME NEW g, NEW n, NEW S, NEW base, Stepped(g, n, S, base)
  PROVE  Reached(g, n, S, base)
<1>0. n \in Nat /\ base \in S /\ g \in [S \X (1..n) -> S]
  BY DEF Stepped
<1> DEFINE Given(m) ==
             \E f \in [0..m -> S] : f[0] = base /\ \A i \in 1..m : f[i] = g[<<f[i - 1], i>>]
           P == {m \in 0..n : Given(m)}
<1>1. 0 \in P
  <2> DEFINE f == [i \in 0..0 |-> base]
  <2>1. f \in [0..0 -> S] /\ f[0] = base /\ \A i \in 1..0 : f[i] = g[<<f[i - 1], i>>]
    BY <1>0
  <2> HIDE DEF f
  <2>2. Given(0)
    BY <2>1
  <2>3. QED
    BY <1>0, <2>2
<1>2. ASSUME NEW m \in 1..n, m - 1 \in P PROVE m \in P
  <2>1. PICK f \in [0..(m - 1) -> S] : f[0] = base
          /\ \A i \in 1..(m - 1) : f[i] = g[<<f[i - 1], i>>]
    BY <1>2
  <2> DEFINE h == [i \in 0..m |-> IF i = m THEN g[<<f[m - 1], m>>] ELSE f[i]]
  <2>2. f[m - 1] \in S /\ g[<<f[m - 1], m>>] \in S
    BY <1>0
  <2>3. h \in [0..m -> S]
    BY <1>0, <2>2
  <2>4. h[0] = base
    BY <1>0, <2>1
  <2>40. h[m] = g[<<f[m - 1], m>>] /\ \A j \in 0..(m - 1) : h[j] = f[j]
    BY <1>0
  <2> HIDE DEF h
  <2>5. ASSUME NEW i \in 1..m PROVE h[i] = g[<<h[i - 1], i>>]
    <3>1. h[i - 1] = f[i - 1] /\ i - 1 \in 0..(m - 1)
      BY <1>0, <2>40
    <3>2. CASE i = m
      BY <2>40, <3>1, <3>2
    <3>3. CASE i # m
      <4>1. i \in 1..(m - 1) /\ h[i] = f[i]
        BY <1>0, <2>40, <3>3
      <4>2. f[i] = g[<<f[i - 1], i>>]
        BY <2>1, <4>1
      <4>3. QED
        BY <3>1, <4>1, <4>2
    <3>4. QED
      BY <3>2, <3>3
  <2>6. Given(m)
    BY <2>3, <2>4, <2>5
  <2>7. QED
    BY <1>0, <2>6
<1> HIDE DEF P
<1>3. n \in P
  <2>1. \A i \in 0..n : i \in P
    BY <1>0, <1>1, <1>2, ByNumber
  <2>2. QED
    BY <1>0, <2>1
<1>4. QED
  BY <1>3 DEF P, Reached

(* What comes after the first elements of a sequence.                      *)
LEMMA TailIs ==
  ASSUME NEW S, NEW s \in Seq(S), NEW c \in 0..Len(s)
  PROVE  /\ SubSeq(s, c + 1, Len(s)) \in Seq(S)
              /\ Len(SubSeq(s, c + 1, Len(s))) = Len(s) - c
         /\ \A i \in 1..(Len(s) - c) : SubSeq(s, c + 1, Len(s))[i] = s[c + i]
              /\ c + i \in 1..Len(s)
<1> DEFINE n == Len(s)
           a == SubSeq(s, c + 1, n)
<1>1. n \in Nat /\ c \in Nat /\ c <= n /\ \A i \in 1..n : s[i] \in S
  OBVIOUS
<1> HIDE DEF n
<1>2. n - c \in Nat /\ n - (c + 1) + 1 = n - c /\ c + 1 \in Int /\ n \in Int
        /\ (c + 1 <= n \/ n - c = 0) /\ (\A i \in (c + 1)..n : i \in 1..n)
        /\ \A i \in 1..(n - c) : (c + 1) + i - 1 = c + i /\ c + i \in 1..n
  BY <1>1
<1>3. \A i \in (c + 1)..n : s[i] \in S
  BY <1>1, <1>2
<1>4. /\ a \in Seq(S) /\ Len(a) = IF c + 1 <= n THEN n - (c + 1) + 1 ELSE 0
      /\ \A i \in 1..(n - (c + 1) + 1) : a[i] = s[(c + 1) + i - 1]
  BY <1>2, <1>3, SubSeqProperties
<1> HIDE DEF a
<1>5. Len(a) = n - c
  BY <1>1, <1>2, <1>4
<1>6. \A i \in 1..(n - c) : a[i] = s[c + i]
  BY <1>2, <1>4
<1>7. QED
  BY <1>2, <1>4, <1>5, <1>6 DEF a, n

-----------------------------------------------------------------------------
(* Totals.                                                                 *)
LEMMA TotalIs ==
  ASSUME NEW s \in Seq(Nat)
  PROVE  \E f \in [0..Len(s) -> Nat] :
           f[0] = 0 /\ (\A i \in 1..Len(s) : f[i] = f[i - 1] + s[i]) /\ Total(s) = f[Len(s)]
<1> DEFINE n == Len(s)
           g == [x \in Nat \X (1..n) |-> x[1] + s[x[2]]]
           h == CHOOSE u : u = [i \in 0..n |-> IF i = 0 THEN 0 ELSE u[i - 1] + s[i]]
<1>1. n \in Nat /\ \A i \in 1..n : s[i] \in Nat
  OBVIOUS
<1>2. g \in [Nat \X (1..n) -> Nat] /\ \A a \in Nat, i \in 1..n : g[<<a, i>>] = a + s[i]
  BY <1>1
<1>0. Total(s) = h[n]
  BY DEF Total
<1> HIDE DEF g, n
<1>3. PICK f \in [0..n -> Nat] : f[0] = 0 /\ \A i \in 1..n : f[i] = g[<<f[i - 1], i>>]
  <2>1. Stepped(g, n, Nat, 0)
    BY <1>1, <1>2 DEF Stepped
  <2>2. Reached(g, n, Nat, 0)
    BY <2>1, GivenExists
  <2>3. QED
    BY <2>2 DEF Reached
<1>4. ASSUME NEW i \in 1..n PROVE f[i - 1] \in Nat /\ f[i] = f[i - 1] + s[i]
  <2>1. i - 1 \in 0..n
    BY <1>1
  <2>2. f[i - 1] \in Nat
    BY <2>1
  <2>3. QED
    BY <1>2, <1>3, <2>2
<1>5. f = [i \in 0..n |-> IF i = 0 THEN 0 ELSE f[i - 1] + s[i]]
  <2>1. \A i \in 0..n : f[i] = IF i = 0 THEN 0 ELSE f[i - 1] + s[i]
    BY <1>1, <1>3, <1>4
  <2>2. QED
    BY <2>1
<1>6. h = [i \in 0..n |-> IF i = 0 THEN 0 ELSE h[i - 1] + s[i]]
  BY <1>5
<1> HIDE DEF h
<1>7. h = f
  <2>1. DOMAIN h = 0..n /\ h = [i \in 0..n |-> h[i]] /\ f = [i \in 0..n |-> f[i]]
    BY <1>6
  <2>2. h[0] = 0
    BY <1>1, <1>6
  <2>3. ASSUME NEW i \in 1..n, h[i - 1] = f[i - 1] PROVE h[i] = f[i]
    <3>1. i \in 0..n /\ i # 0
      BY <1>1
    <3>2. h[i] = h[i - 1] + s[i]
      BY <1>6, <3>1
    <3>3. QED
      BY <1>4, <2>3, <3>2
  <2>4. h[0] = f[0] /\ n \in Nat
    BY <1>1, <1>3, <2>2
  <2>5. \A i \in 1..n : h[i - 1] = f[i - 1] => h[i] = f[i]
    BY <2>3
  <2>6. Alike(h, f, n)
    BY <2>1, <2>4, <2>5 DEF Alike
  <2>7. QED
    BY <2>6, GivenOnce
<1>8. QED
  BY <1>0, <1>3, <1>4, <1>7 DEF n

LEMMA TotalNone == Total(<<>>) = 0
<1>1. <<>> \in Seq(Nat) /\ Len(<<>>) = 0
  OBVIOUS
<1>2. QED
  BY <1>1, TotalIs

LEMMA TotalType ==
  ASSUME NEW s \in Seq(Nat)
  PROVE  Total(s) \in Nat
<1>1. PICK f \in [0..Len(s) -> Nat] : Total(s) = f[Len(s)]
  BY TotalIs
<1>2. Len(s) \in 0..Len(s)
  OBVIOUS
<1>3. QED
  BY <1>1, <1>2

LEMMA TotalMore ==
  ASSUME NEW s \in Seq(Nat), NEW x \in Nat
  PROVE  Total(Append(s, x)) = Total(s) + x
<1> DEFINE n == Len(s)
           t == Append(s, x)
<1>1. n \in Nat /\ t \in Seq(Nat) /\ Len(t) = n + 1 /\ t[n + 1] = x
        /\ \A i \in 1..n : t[i] = s[i]
  OBVIOUS
<1>2. PICK f \in [0..n -> Nat] :
        f[0] = 0 /\ (\A i \in 1..n : f[i] = f[i - 1] + s[i]) /\ Total(s) = f[n]
  BY TotalIs
<1> HIDE DEF t
<1>3. PICK g \in [0..(n + 1) -> Nat] :
        g[0] = 0 /\ (\A i \in 1..(n + 1) : g[i] = g[i - 1] + t[i]) /\ Total(t) = g[n + 1]
  <2>1. \E h \in [0..Len(t) -> Nat] :
          h[0] = 0 /\ (\A i \in 1..Len(t) : h[i] = h[i - 1] + t[i]) /\ Total(t) = h[Len(t)]
    BY <1>1, TotalIs
  <2>2. QED
    BY <1>1, <2>1
<1> HIDE DEF n
<1>4. f[n] = g[n]
  <2> DEFINE P == {i \in 0..n : f[i] = g[i]}
  <2>1. 0 \in P
    BY <1>1, <1>2, <1>3
  <2>2. ASSUME NEW i \in 1..n, i - 1 \in P PROVE i \in P
    <3>0. f[i - 1] = g[i - 1]
      BY <2>2
    <3>1. i \in 1..(n + 1) /\ t[i] = s[i] /\ f[i - 1] = g[i - 1] /\ i \in 0..n
      BY <1>1, <3>0
    <3>2. f[i] = f[i - 1] + s[i] /\ g[i] = g[i - 1] + t[i]
      BY <1>2, <1>3, <3>1
    <3>3. QED
      BY <3>1, <3>2
  <2> HIDE DEF P
  <2>3. \A i \in 0..n : i \in P
    BY <1>1, <2>1, <2>2, ByNumber
  <2>4. n \in 0..n
    BY <1>1
  <2>5. QED
    BY <2>3, <2>4 DEF P
<1>5. g[n + 1] = g[n] + x
  <2>1. n + 1 \in 1..(n + 1) /\ (n + 1) - 1 = n
    BY <1>1
  <2>2. g[n + 1] = g[(n + 1) - 1] + t[n + 1]
    BY <1>3, <2>1
  <2>3. QED
    BY <1>1, <2>1, <2>2
<1>6. QED
  BY <1>2, <1>3, <1>4, <1>5 DEF t

LEMMA TotalConcat ==
  ASSUME NEW a \in Seq(Nat), NEW b \in Seq(Nat)
  PROVE  Total(a \o b) = Total(a) + Total(b)
<1> DEFINE P == {t \in Seq(Nat) : Total(a \o t) = Total(a) + Total(t)}
<1>1. <<>> \in P
  <2>1. a \o <<>> = a /\ <<>> \in Seq(Nat)
    OBVIOUS
  <2>2. Total(a) + 0 = Total(a)
    BY TotalType
  <2>3. QED
    BY <2>1, <2>2, TotalNone
<1>2. ASSUME NEW t \in Seq(Nat), NEW x \in Nat, t \in P PROVE Append(t, x) \in P
  <2>1. Append(t, x) \in Seq(Nat) /\ a \o t \in Seq(Nat)
          /\ a \o Append(t, x) = Append(a \o t, x)
    BY ConcatAppend
  <2>2. Total(Append(a \o t, x)) = Total(a \o t) + x /\ Total(Append(t, x)) = Total(t) + x
    BY <2>1, TotalMore
  <2>3. Total(a) \in Nat /\ Total(t) \in Nat
    BY TotalType
  <2>4. Total(a \o t) = Total(a) + Total(t)
    BY <1>2
  <2>5. Total(a \o Append(t, x)) = Total(a) + Total(Append(t, x))
    BY <2>1, <2>2, <2>3, <2>4
  <2>6. QED
    BY <2>1, <2>5
<1> HIDE DEF P
<1>3. \A t \in Seq(Nat) : t \in P
  BY <1>1, <1>2, BySequence
<1>4. QED
  BY <1>3 DEF P

(* What the numbers up to one of them come to.                             *)
LEMMA TotalUpTo ==
  ASSUME NEW s \in Seq(Nat), NEW k \in DOMAIN s
  PROVE  Total(SubSeq(s, 1, k - 1)) + s[k] <= Total(s)
<1> DEFINE n == Len(s)
           a == SubSeq(s, 1, k - 1)
           b == SubSeq(s, k + 1, n)
<1>1. n \in Nat /\ k \in 1..n /\ s[k] \in Nat /\ DOMAIN s = 1..n
  OBVIOUS
<1>2. a \in Seq(Nat) /\ Len(a) = k - 1 /\ \A i \in 1..(k - 1) : a[i] = s[i]
  BY <1>1
<1>3. b \in Seq(Nat) /\ Len(b) = n - k /\ \A i \in 1..(n - k) : b[i] = s[k + i]
  <2>1. k \in 0..Len(s)
    BY <1>1
  <2>2. QED
    BY <2>1, TailIs
<1> HIDE DEF a, b, n
<1>4. Append(a, s[k]) \in Seq(Nat) /\ Len(Append(a, s[k])) = k /\ Append(a, s[k])[k] = s[k]
        /\ \A i \in 1..(k - 1) : Append(a, s[k])[i] = s[i]
  BY <1>1, <1>2
<1> DEFINE c == Append(a, s[k])
           t == c \o b
<1>40. c \in Seq(Nat) /\ Len(c) = k /\ c[k] = s[k] /\ \A i \in 1..(k - 1) : c[i] = s[i]
  BY <1>4
<1> HIDE DEF c
<1>5. t = s
  <2>0. t \in Seq(Nat) /\ Len(t) = k + (n - k)
          /\ \A i \in 1..(k + (n - k)) : t[i] = IF i <= k THEN c[i] ELSE b[i - k]
    <3>1. c \in Seq(Nat) /\ b \in Seq(Nat) /\ Len(c) = k /\ Len(b) = n - k
      BY <1>3, <1>40
    <3>2. c \o b \in Seq(Nat) /\ Len(c \o b) = Len(c) + Len(b)
            /\ \A i \in 1..(Len(c) + Len(b)) : (c \o b)[i]
                 = IF i <= Len(c) THEN c[i] ELSE b[i - Len(c)]
      BY <3>1, ConcatProperties
    <3>3. QED
      BY <3>1, <3>2
  <2>01. k + (n - k) = n
    BY <1>1
  <2> HIDE DEF t
  <2>1. t \in Seq(Nat) /\ Len(t) = n
          /\ \A i \in 1..n : t[i] = IF i <= k THEN c[i] ELSE b[i - k]
    BY <2>0, <2>01
  <2>2. ASSUME NEW i \in 1..n PROVE t[i] = s[i]
    <3>1. CASE i <= k
      <4>1. i = k \/ i \in 1..(k - 1)
        BY <1>1, <3>1
      <4>2. t[i] = c[i]
        BY <2>1, <3>1
      <4>3. QED
        BY <1>40, <4>1, <4>2
    <3>2. CASE ~(i <= k)
      <4>1. i - k \in 1..(n - k) /\ k + (i - k) = i
        BY <1>1, <3>2
      <4>2. t[i] = b[i - k]
        BY <2>1, <3>2
      <4>3. b[i - k] = s[k + (i - k)]
        BY <1>3, <4>1
      <4>4. QED
        BY <4>1, <4>2, <4>3
    <3>3. QED
      BY <3>1, <3>2
  <2>3. QED
    BY <1>1, <2>1, <2>2, SeqEqual DEF n
<1>6. Total(s) = Total(a) + s[k] + Total(b)
  <2>1. Total(c \o b) = Total(c) + Total(b)
    BY <1>3, <1>4, TotalConcat DEF c
  <2>2. Total(c) = Total(a) + s[k]
    BY <1>1, <1>2, TotalMore DEF c
  <2>3. QED
    BY <1>5, <2>1, <2>2
<1>7. Total(a) \in Nat /\ Total(b) \in Nat
  BY <1>2, <1>3, TotalType
<1>8. QED
  BY <1>1, <1>6, <1>7 DEF a

-----------------------------------------------------------------------------
(* Pieces, atoms and lists of atoms, and what they weigh.                  *)
Pieces == {p \in [word : Nat, from : Nat, to : Nat] : p.from <= p.to}
Atoms == Seq(Pieces)
Tokens(p) == p.to - p.from + 1

LEMMA CountSizes ==
  ASSUME NEW a \in Atoms
  PROVE  [k \in DOMAIN a |-> Tokens(a[k])] \in Seq(Nat)
    /\ Count(a) = Total([k \in DOMAIN a |-> Tokens(a[k])])
<1>1. DOMAIN a = 1..Len(a) /\ Len(a) \in Nat /\ \A k \in 1..Len(a) : a[k] \in Pieces
  BY DEF Atoms
<1>2. \A k \in 1..Len(a) : Tokens(a[k]) \in Nat
  BY <1>1 DEF Pieces, Tokens
<1>3. QED
  BY <1>1, <1>2 DEF Count, Tokens

LEMMA CountType ==
  ASSUME NEW a \in Atoms
  PROVE  Count(a) \in Nat
BY CountSizes, TotalType

LEMMA CountNone == Count(<<>>) = 0
<1>1. <<>> \in Atoms /\ [k \in DOMAIN <<>> |-> Tokens(<<>>[k])] = <<>>
  BY DEF Atoms
<1>2. Count(<<>>) = Total(<<>>)
  BY <1>1, CountSizes
<1>3. QED
  BY <1>2, TotalNone

LEMMA CountMore ==
  ASSUME NEW a \in Atoms, NEW p \in Pieces
  PROVE  Append(a, p) \in Atoms /\ Count(Append(a, p)) = Count(a) + Tokens(p)
    /\ Tokens(p) \in Nat
<1> DEFINE b == Append(a, p)
           n == Len(a)
           s == [k \in DOMAIN a |-> Tokens(a[k])]
           t == [k \in DOMAIN b |-> Tokens(b[k])]
<1>1. b \in Atoms /\ n \in Nat /\ DOMAIN a = 1..n /\ DOMAIN b = 1..(n + 1) /\ b[n + 1] = p
        /\ \A k \in 1..n : b[k] = a[k]
  BY DEF Atoms
<1>2. s \in Seq(Nat) /\ t \in Seq(Nat) /\ Count(a) = Total(s) /\ Count(b) = Total(t)
  BY <1>1, CountSizes
<1>3. Tokens(p) \in Nat
  BY DEF Pieces, Tokens
<1>4. Append(s, Tokens(p)) = t
  <2>1. Len(s) = n /\ Len(t) = n + 1 /\ (\A k \in 1..n : s[k] = Tokens(a[k]))
          /\ \A k \in 1..(n + 1) : t[k] = Tokens(b[k])
    BY <1>1
  <2> HIDE DEF s, t, b
  <2>2. Append(s, Tokens(p)) \in Seq(Nat) /\ Len(Append(s, Tokens(p))) = n + 1
    BY <1>2, <1>3, <2>1
  <2>3. \A k \in 1..(n + 1) : Append(s, Tokens(p))[k] = t[k]
    BY <1>1, <1>2, <1>3, <2>1
  <2>4. QED
    BY <1>2, <2>1, <2>2, <2>3, SeqEqual
<1> HIDE DEF s, t, b
<1>5. Total(t) = Total(s) + Tokens(p)
  BY <1>2, <1>3, <1>4, TotalMore
<1>6. QED
  BY <1>1, <1>2, <1>3, <1>5 DEF b

LEMMA WeighSizes ==
  ASSUME NEW c \in Seq(Atoms)
  PROVE  [k \in DOMAIN c |-> Count(c[k])] \in Seq(Nat)
    /\ Weigh(c) = Total([k \in DOMAIN c |-> Count(c[k])])
<1>1. DOMAIN c = 1..Len(c) /\ Len(c) \in Nat /\ \A k \in 1..Len(c) : c[k] \in Atoms
  OBVIOUS
<1>2. \A k \in 1..Len(c) : Count(c[k]) \in Nat
  BY <1>1, CountType
<1>3. QED
  BY <1>1, <1>2 DEF Weigh

LEMMA WeighType ==
  ASSUME NEW c \in Seq(Atoms)
  PROVE  Weigh(c) \in Nat
BY WeighSizes, TotalType

LEMMA WeighNone == Weigh(<<>>) = 0
<1>1. <<>> \in Seq(Atoms) /\ [k \in DOMAIN <<>> |-> Count(<<>>[k])] = <<>>
  OBVIOUS
<1>2. Weigh(<<>>) = Total(<<>>)
  BY <1>1, WeighSizes
<1>3. QED
  BY <1>2, TotalNone

LEMMA WeighMore ==
  ASSUME NEW c \in Seq(Atoms), NEW a \in Atoms
  PROVE  Weigh(Append(c, a)) = Weigh(c) + Count(a)
<1> DEFINE d == Append(c, a)
           n == Len(c)
           s == [k \in DOMAIN c |-> Count(c[k])]
           t == [k \in DOMAIN d |-> Count(d[k])]
<1>1. d \in Seq(Atoms) /\ n \in Nat /\ DOMAIN c = 1..n /\ DOMAIN d = 1..(n + 1)
        /\ d[n + 1] = a
        /\ \A k \in 1..n : d[k] = c[k]
  OBVIOUS
<1>2. s \in Seq(Nat) /\ t \in Seq(Nat) /\ Weigh(c) = Total(s) /\ Weigh(d) = Total(t)
  BY <1>1, WeighSizes
<1>3. Count(a) \in Nat
  BY CountType
<1>4. Append(s, Count(a)) = t
  <2>1. Len(s) = n /\ Len(t) = n + 1 /\ (\A k \in 1..n : s[k] = Count(c[k]))
          /\ \A k \in 1..(n + 1) : t[k] = Count(d[k])
    BY <1>1
  <2> HIDE DEF s, t, d
  <2>2. Append(s, Count(a)) \in Seq(Nat) /\ Len(Append(s, Count(a))) = n + 1
    BY <1>2, <1>3, <2>1
  <2>3. \A k \in 1..(n + 1) : Append(s, Count(a))[k] = t[k]
    BY <1>1, <1>2, <1>3, <2>1
  <2>4. QED
    BY <1>2, <2>1, <2>2, <2>3, SeqEqual
<1> HIDE DEF s, t, d
<1>5. Total(t) = Total(s) + Count(a)
  BY <1>2, <1>3, <1>4, TotalMore
<1>6. QED
  BY <1>2, <1>5 DEF d

(* Joining atoms keeps their tokens.                                       *)
LEMMA CountConcat ==
  ASSUME NEW a \in Atoms, NEW b \in Atoms
  PROVE  a \o b \in Atoms /\ Count(a \o b) = Count(a) + Count(b)
<1> DEFINE P == {t \in Seq(Pieces) : Count(a \o t) = Count(a) + Count(t)}
<1>0. a \in Seq(Pieces) /\ b \in Seq(Pieces) /\ a \o b \in Seq(Pieces)
  BY DEF Atoms
<1>1. <<>> \in P
  <2>1. a \o <<>> = a /\ <<>> \in Seq(Pieces)
    BY <1>0
  <2>2. Count(a) + 0 = Count(a)
    BY CountType
  <2>3. QED
    BY <2>1, <2>2, CountNone
<1>2. ASSUME NEW t \in Seq(Pieces), NEW p \in Pieces, t \in P PROVE Append(t, p) \in P
  <2>1. Append(t, p) \in Seq(Pieces) /\ a \o t \in Atoms /\ t \in Atoms
          /\ a \o Append(t, p) = Append(a \o t, p)
    BY <1>0, ConcatAppend DEF Atoms
  <2>2. Count(Append(a \o t, p)) = Count(a \o t) + Tokens(p)
          /\ Count(Append(t, p)) = Count(t) + Tokens(p) /\ Tokens(p) \in Nat
    BY <2>1, CountMore
  <2>3. Count(a) \in Nat /\ Count(t) \in Nat
    BY <2>1, CountType
  <2>4. Count(a \o t) = Count(a) + Count(t)
    BY <1>2
  <2>5. Count(a \o Append(t, p)) = Count(a) + Count(Append(t, p))
    BY <2>1, <2>2, <2>3, <2>4
  <2>6. QED
    BY <2>1, <2>5
<1> HIDE DEF P
<1>3. \A t \in Seq(Pieces) : t \in P
  BY <1>1, <1>2, BySequence
<1>4. QED
  BY <1>0, <1>3 DEF P, Atoms

LEMMA CountFlat ==
  ASSUME NEW c \in Seq(Atoms)
  PROVE  FlattenSeq(c) \in Atoms /\ Count(FlattenSeq(c)) = Weigh(c)
<1> DEFINE P == {t \in Seq(Atoms) : Count(FlattenSeq(t)) = Weigh(t)}
<1>1. <<>> \in P
  BY FlattenNone, CountNone, WeighNone
<1>2. ASSUME NEW t \in Seq(Atoms), NEW a \in Atoms, t \in P PROVE Append(t, a) \in P
  <2>1. FlattenSeq(t) \in Atoms /\ FlattenSeq(Append(t, a)) = FlattenSeq(t) \o a
    BY FlattenType, FlattenMore DEF Atoms
  <2>2. Count(FlattenSeq(t) \o a) = Count(FlattenSeq(t)) + Count(a)
    BY <2>1, CountConcat
  <2>3. Count(FlattenSeq(t)) = Weigh(t)
    BY <1>2
  <2>4. Weigh(Append(t, a)) = Weigh(t) + Count(a)
    BY WeighMore
  <2>5. Count(FlattenSeq(Append(t, a))) = Weigh(Append(t, a)) /\ Append(t, a) \in Seq(Atoms)
    BY <2>1, <2>2, <2>3, <2>4
  <2>6. QED
    BY <2>5
<1> HIDE DEF P
<1>3. \A t \in Seq(Atoms) : t \in P
  BY <1>1, <1>2, BySequence
<1>4. QED
  BY <1>3, FlattenType DEF P, Atoms

LEMMA FlattenConcat ==
  ASSUME NEW S, NEW a \in Seq(Seq(S)), NEW b \in Seq(Seq(S))
  PROVE  FlattenSeq(a \o b) = FlattenSeq(a) \o FlattenSeq(b)
<1> DEFINE X == Seq(S)
           P == {t \in Seq(X) : FlattenSeq(a \o t) = FlattenSeq(a) \o FlattenSeq(t)}
<1>1. <<>> \in P
  <2>1. a \o <<>> = a /\ <<>> \in Seq(X)
    OBVIOUS
  <2>2. FlattenSeq(a) \o <<>> = FlattenSeq(a)
    BY FlattenType
  <2>3. QED
    BY <2>1, <2>2, FlattenNone
<1>2. ASSUME NEW t \in Seq(X), NEW s \in X, t \in P PROVE Append(t, s) \in P
  <2>1. Append(t, s) \in Seq(X) /\ a \o t \in Seq(X)
          /\ a \o Append(t, s) = Append(a \o t, s)
    BY ConcatAppend
  <2>2. FlattenSeq(Append(a \o t, s)) = FlattenSeq(a \o t) \o s
          /\ FlattenSeq(Append(t, s)) = FlattenSeq(t) \o s
    BY <2>1, FlattenMore
  <2>3. FlattenSeq(a) \in Seq(S) /\ FlattenSeq(t) \in Seq(S) /\ s \in Seq(S)
    BY FlattenType
  <2>4. (FlattenSeq(a) \o FlattenSeq(t)) \o s = FlattenSeq(a) \o (FlattenSeq(t) \o s)
    BY <2>3, ConcatAssociative
  <2>5. QED
    BY <1>2, <2>1, <2>2, <2>4
<1> HIDE DEF P
<1>3. \A t \in Seq(X) : t \in P
  BY <1>1, <1>2, BySequence
<1>4. QED
  BY <1>3 DEF P

(* The elements of joined sequences.                                       *)
LEMMA FlattenHas ==
  ASSUME NEW S, NEW ss \in Seq(Seq(S)), NEW x
  PROVE  x \in ToSet(FlattenSeq(ss)) <=> \E k \in DOMAIN ss : x \in ToSet(ss[k])
<1> DEFINE X == Seq(S)
           Has(t) == \E k \in DOMAIN t : x \in ToSet(t[k])
           P == {t \in Seq(X) : x \in ToSet(FlattenSeq(t)) <=> Has(t)}
<1>1. <<>> \in P
  BY FlattenNone DEF ToSet
<1>2. ASSUME NEW t \in Seq(X), NEW s \in X, t \in P PROVE Append(t, s) \in P
  <2> DEFINE u == Append(t, s)
             f == FlattenSeq(t)
  <2>1. u \in Seq(X) /\ Len(t) \in Nat /\ DOMAIN t = 1..Len(t) /\ DOMAIN u = 1..(Len(t) + 1)
          /\ u[Len(t) + 1] = s /\ \A k \in 1..Len(t) : u[k] = t[k]
    OBVIOUS
  <2>2. f \in Seq(S) /\ FlattenSeq(u) = f \o s
    BY FlattenType, FlattenMore
  <2> HIDE DEF u, f
  <2>3. ToSet(f \o s) = ToSet(f) \union ToSet(s)
    <3>1. Len(f) \in Nat /\ Len(s) \in Nat /\ DOMAIN f = 1..Len(f) /\ DOMAIN s = 1..Len(s)
            /\ DOMAIN (f \o s) = 1..(Len(f) + Len(s))
      BY <2>2, ConcatProperties
    <3>2. \A i \in 1..(Len(f) + Len(s)) : (f \o s)[i]
            = IF i <= Len(f) THEN f[i] ELSE s[i - Len(f)]
      BY <2>2, ConcatProperties
    <3>3. ASSUME NEW i \in 1..(Len(f) + Len(s))
            PROVE (f \o s)[i] \in ToSet(f) \union ToSet(s)
      <4>1. CASE i <= Len(f)
        <5>1. i \in 1..Len(f) /\ (f \o s)[i] = f[i]
          BY <3>1, <3>2, <4>1
        <5>2. QED
          BY <3>1, <5>1 DEF ToSet
      <4>2. CASE ~(i <= Len(f))
        <5>1. i - Len(f) \in 1..Len(s) /\ (f \o s)[i] = s[i - Len(f)]
          BY <3>1, <3>2, <4>2
        <5>2. QED
          BY <3>1, <5>1 DEF ToSet
      <4>3. QED
        BY <4>1, <4>2
    <3>4. ASSUME NEW i \in 1..Len(f) PROVE f[i] \in ToSet(f \o s)
      <4>1. i \in 1..(Len(f) + Len(s)) /\ (f \o s)[i] = f[i]
        BY <3>1, <3>2
      <4>2. QED
        BY <3>1, <4>1 DEF ToSet
    <3>5. ASSUME NEW i \in 1..Len(s) PROVE s[i] \in ToSet(f \o s)
      <4>1. i + Len(f) \in 1..(Len(f) + Len(s)) /\ ~(i + Len(f) <= Len(f))
              /\ (i + Len(f)) - Len(f) = i
        BY <3>1
      <4>2. (f \o s)[i + Len(f)] = s[i]
        BY <3>2, <4>1
      <4>3. QED
        BY <3>1, <4>1, <4>2 DEF ToSet
    <3>6. QED
      BY <3>1, <3>3, <3>4, <3>5 DEF ToSet
  <2>4. Has(u) <=> Has(t) \/ x \in ToSet(s)
    <3>1. ASSUME Has(u) PROVE Has(t) \/ x \in ToSet(s)
      <4>1. PICK k \in 1..(Len(t) + 1) : x \in ToSet(u[k])
        BY <2>1, <3>1
      <4>2. k \in 1..Len(t) \/ k = Len(t) + 1
        BY <2>1
      <4>3. QED
        BY <2>1, <4>1, <4>2
    <3>2. ASSUME NEW k \in 1..Len(t), x \in ToSet(t[k]) PROVE Has(u)
      <4>1. k \in DOMAIN u /\ u[k] = t[k]
        BY <2>1
      <4>2. QED
        BY <3>2, <4>1
    <3>3. ASSUME x \in ToSet(s) PROVE Has(u)
      <4>1. Len(t) + 1 \in DOMAIN u
        BY <2>1
      <4>2. QED
        BY <2>1, <3>3, <4>1
    <3>4. QED
      BY <2>1, <3>1, <3>2, <3>3
  <2>5. x \in ToSet(f) <=> Has(t)
    BY <1>2 DEF f
  <2>6. x \in ToSet(FlattenSeq(u)) <=> Has(u)
    BY <2>2, <2>3, <2>4, <2>5
  <2> HIDE DEF Has
  <2>7. QED
    BY <2>1, <2>6 DEF u
<1> HIDE DEF P
<1>3. \A t \in Seq(X) : t \in P
  BY <1>1, <1>2, BySequence
<1>4. QED
  BY <1>3 DEF P

LEMMA FlattenSingles ==
  ASSUME NEW S, NEW ss \in Seq(Seq(S)), \A k \in DOMAIN ss : Len(ss[k]) = 1
  PROVE  /\ FlattenSeq(ss) \in Seq(S) /\ Len(FlattenSeq(ss)) = Len(ss)
         /\ \A k \in 1..Len(ss) : FlattenSeq(ss)[k] = ss[k][1]
<1> DEFINE X == {s \in Seq(S) : Len(s) = 1}
           Firsts(t) == /\ FlattenSeq(t) \in Seq(S) /\ Len(FlattenSeq(t)) = Len(t)
                        /\ \A k \in 1..Len(t) : FlattenSeq(t)[k] = t[k][1]
           P == {t \in Seq(X) : Firsts(t)}
<1>1. <<>> \in P
  <2>1. <<>> \in Seq(X) /\ <<>> \in Seq(S) /\ Len(<<>>) = 0
    OBVIOUS
  <2>2. Firsts(<<>>)
    <3>1. FlattenSeq(<<>>) \in Seq(S) /\ Len(FlattenSeq(<<>>)) = Len(<<>>)
      BY <2>1, FlattenNone
    <3>2. ~\E k \in 1..Len(<<>>) : TRUE
      BY <2>1
    <3>3. QED
      BY <3>1, <3>2
  <2> HIDE DEF Firsts
  <2>3. QED
    BY <2>1, <2>2
<1>2. ASSUME NEW t \in Seq(X), NEW s \in X, t \in P PROVE Append(t, s) \in P
  <2> DEFINE u == Append(t, s)
             f == FlattenSeq(t)
             n == Len(t)
  <2>1. u \in Seq(X) /\ n \in Nat /\ Len(u) = n + 1 /\ u[n + 1] = s
          /\ \A k \in 1..n : u[k] = t[k]
    OBVIOUS
  <2>2. t \in Seq(Seq(S)) /\ s \in Seq(S) /\ Len(s) = 1
    OBVIOUS
  <2>3. f \in Seq(S) /\ Len(f) = n /\ \A k \in 1..n : f[k] = t[k][1]
    BY <1>2
  <2>4. FlattenSeq(u) = f \o s
    BY <2>2, FlattenMore
  <2> HIDE DEF u, f, n
  <2>5. f \o s \in Seq(S) /\ Len(f \o s) = n + 1
          /\ \A k \in 1..(n + 1) : (f \o s)[k] = IF k <= n THEN f[k] ELSE s[k - n]
    <3>1. f \in Seq(S) /\ s \in Seq(S) /\ Len(f) = n /\ Len(s) = 1
      BY <2>2, <2>3
    <3>2. f \o s \in Seq(S) /\ Len(f \o s) = Len(f) + Len(s)
            /\ \A k \in 1..(Len(f) + Len(s)) : (f \o s)[k]
                 = IF k <= Len(f) THEN f[k] ELSE s[k - Len(f)]
      BY <3>1, ConcatProperties
    <3>3. QED
      BY <3>1, <3>2
  <2>6. ASSUME NEW k \in 1..(n + 1) PROVE (f \o s)[k] = u[k][1]
    <3>1. CASE k = n + 1
      <4>1. (f \o s)[k] = s[1]
        <5>1. ~(k <= n) /\ k - n = 1
          BY <2>1, <3>1
        <5>2. QED
          BY <2>5, <5>1
      <4>2. QED
        BY <2>1, <3>1, <4>1
    <3>2. CASE k # n + 1
      <4>1. k \in 1..n
        BY <2>1, <3>2
      <4>2. (f \o s)[k] = f[k]
        <5>1. k <= n
          BY <2>1, <4>1
        <5>2. QED
          BY <2>5, <5>1
      <4>3. QED
        BY <2>1, <2>3, <4>1, <4>2
    <3>3. QED
      BY <3>1, <3>2
  <2>7. Firsts(u)
    BY <2>1, <2>4, <2>5, <2>6
  <2> HIDE DEF Firsts
  <2>8. QED
    BY <2>1, <2>7 DEF u
<1> HIDE DEF P
<1>3. \A t \in Seq(X) : t \in P
  BY <1>1, <1>2, BySequence
<1>4. ss \in Seq(X)
  <2>1. Len(ss) \in Nat /\ DOMAIN ss = 1..Len(ss) /\ \A k \in 1..Len(ss) : ss[k] \in X
    OBVIOUS
  <2> HIDE DEF X
  <2>2. ss = [k \in 1..Len(ss) |-> ss[k]]
    OBVIOUS
  <2>3. QED
    BY <2>1, <2>2
<1>5. QED
  BY <1>3, <1>4 DEF P

-----------------------------------------------------------------------------
(* Runs of a text: pieces of its words, every token once and in its order, *)
(* from the beginning of word i to the end of word j.                      *)
TextTyped == text \in Seq([size : Nat \ {0}, end : EndKinds])
Whole(i) == Piece(i, 1, text[i].size)

Place(p) ==
  p.word \in 1..Len(text) /\ 1 <= p.from /\ p.from <= p.to /\ p.to <= text[p.word].size

Follows(p, q) ==
  \/ q.word = p.word /\ q.from = p.to + 1
  \/ q.word = p.word + 1 /\ q.from = 1 /\ p.to = text[p.word].size

Ordered(ps) ==
  /\ ps \in Atoms /\ \A k \in 1..Len(ps) : Place(ps[k])
  /\ \A k \in 1..(Len(ps) - 1) : Follows(ps[k], ps[k + 1])

Run(ps, i, j) ==
  /\ Ordered(ps)
  /\ ps = <<>> => i = j + 1
  /\ ps # <<>> => /\ ps[1].word = i /\ ps[1].from = 1
                  /\ ps[Len(ps)].word = j /\ ps[Len(ps)].to = text[j].size

LEMMA WordIs ==
  ASSUME TextTyped, NEW i \in 1..Len(text)
  PROVE  /\ text[i].size \in Nat /\ text[i].size >= 1 /\ text[i].end \in EndKinds
         /\ Whole(i) \in Pieces /\ Place(Whole(i)) /\ Tokens(Whole(i)) = text[i].size
         /\ Whole(i).word = i /\ Whole(i).from = 1 /\ Whole(i).to = text[i].size
<1>1. text[i] \in [size : Nat \ {0}, end : EndKinds] /\ i \in Nat
  <2> DEFINE W == [size : Nat \ {0}, end : EndKinds]
  <2>1. text \in Seq(W)
    BY DEF TextTyped
  <2> HIDE DEF W
  <2>2. text[i] \in W /\ i \in Nat
    BY <2>1
  <2>3. QED
    BY <2>2 DEF W
<1>2. text[i].size \in Nat /\ text[i].size >= 1 /\ text[i].end \in EndKinds
  BY <1>1
<1>3. Whole(i) \in [word : Nat, from : Nat, to : Nat] /\ Whole(i).word = i
        /\ Whole(i).from = 1
        /\ Whole(i).to = text[i].size
  BY <1>1, <1>2 DEF Whole, Piece
<1>4. QED
  BY <1>2, <1>3 DEF Pieces, Place, Tokens

LEMMA RunNone == ASSUME NEW i \in Nat PROVE Run(<<>>, i, i - 1)
<1>1. <<>> \in Seq(Pieces) /\ Len(<<>>) = 0
  OBVIOUS
<1>2. QED
  BY <1>1 DEF Run, Ordered, Atoms

LEMMA RunOne ==
  ASSUME TextTyped, NEW i \in 1..Len(text)
  PROVE  Run(<<Whole(i)>>, i, i)
<1> DEFINE p == Whole(i)
           ps == <<p>>
<1>1. p \in Pieces /\ Place(p) /\ p.word = i /\ p.from = 1 /\ p.to = text[i].size
  BY WordIs
<1> HIDE DEF p
<1>2. ps \in Seq(Pieces) /\ Len(ps) = 1 /\ ps[1] = p /\ ps # <<>>
  BY <1>1
<1> HIDE DEF ps
<1>3. Ordered(ps)
  BY <1>1, <1>2 DEF Ordered, Atoms
<1>4. QED
  BY <1>1, <1>2, <1>3 DEF Run, ps, p

LEMMA RunConcat ==
  ASSUME NEW a, NEW b, NEW i \in Nat, NEW j \in Int, NEW k \in Int, Run(a, i, j),
    Run(b, j + 1, k)
  PROVE  Run(a \o b, i, k)
<1> DEFINE c == a \o b
           m == Len(a)
           n == Len(b)
<1>1. a \in Seq(Pieces) /\ b \in Seq(Pieces) /\ m \in Nat /\ n \in Nat
  BY DEF Run, Ordered, Atoms
<1>2. c \in Seq(Pieces) /\ Len(c) = m + n /\ (\A x \in 1..m : c[x] = a[x])
        /\ \A x \in 1..n : c[m + x] = b[x]
  <2>1. c \in Seq(Pieces) /\ Len(c) = m + n
        /\ \A x \in 1..(m + n) : c[x] = IF x <= m THEN a[x] ELSE b[x - m]
    BY <1>1, ConcatProperties
  <2>2. \A x \in 1..m : x \in 1..(m + n) /\ x <= m
    BY <1>1
  <2>3. \A x \in 1..n : m + x \in 1..(m + n) /\ ~(m + x <= m) /\ (m + x) - m = x
    BY <1>1
  <2> HIDE DEF c, m, n
  <2>4. QED
    BY <2>1, <2>2, <2>3
<1>3. CASE a = <<>>
  <2>1. c = b /\ j + 1 = i
    BY <1>1, <1>3 DEF Run
  <2>2. QED
    BY <2>1
<1>4. CASE b = <<>>
  <2>1. c = a /\ j = k
    BY <1>1, <1>4 DEF Run
  <2>2. QED
    BY <2>1
<1>5. CASE a # <<>> /\ b # <<>>
  <2>1. m # 0 /\ n # 0
    BY <1>1, <1>5
  <2>2. /\ a[1].word = i /\ a[1].from = 1 /\ a[m].word = j /\ a[m].to = text[j].size
        /\ b[1].word = j + 1 /\ b[1].from = 1 /\ b[n].word = k /\ b[n].to = text[k].size
    BY <1>5 DEF Run
  <2>3. /\ \A x \in 1..m : Place(a[x])
        /\ \A x \in 1..n : Place(b[x])
        /\ \A x \in 1..(m - 1) : Follows(a[x], a[x + 1])
        /\ \A x \in 1..(n - 1) : Follows(b[x], b[x + 1])
    BY DEF Run, Ordered
  <2> HIDE DEF c, m, n
  <2>4. ASSUME NEW x \in 1..(m + n) PROVE Place(c[x])
    <3>1. CASE x <= m
      BY <1>1, <1>2, <2>3, <3>1
    <3>2. CASE x > m
      <4>1. x - m \in 1..n /\ m + (x - m) = x
        BY <1>1, <3>2
      <4>2. c[x] = b[x - m]
        BY <1>2, <4>1
      <4>3. QED
        BY <2>3, <4>1, <4>2
    <3>3. QED
      BY <1>1, <3>1, <3>2
  <2>5. ASSUME NEW x \in 1..(Len(c) - 1) PROVE Follows(c[x], c[x + 1])
    <3>0. x \in 1..(m + n - 1)
      BY <1>1, <1>2
    <3>1. CASE x < m
      <4>1. x \in 1..(m - 1) /\ x \in 1..m /\ x + 1 \in 1..m
        BY <3>0, <1>1, <3>1
      <4>2. QED
        BY <1>2, <2>3, <4>1
    <3>2. CASE x = m
      <4>1. x \in 1..m /\ x + 1 = m + 1 /\ 1 \in 1..n
        BY <3>0, <1>1, <2>1, <3>2
      <4>2. c[x] = a[m] /\ c[x + 1] = b[1]
        BY <1>2, <3>2, <4>1
      <4>3. QED
        BY <2>2, <4>2 DEF Follows
    <3>3. CASE x > m
      <4>1. x - m \in 1..(n - 1) /\ x - m \in 1..n /\ (x - m) + 1 \in 1..n
              /\ m + (x - m) = x
              /\ m + ((x - m) + 1) = x + 1
        BY <3>0, <1>1, <3>3
      <4>2. c[x] = b[x - m] /\ c[x + 1] = b[(x - m) + 1]
        BY <1>2, <4>1
      <4>3. QED
        BY <2>3, <4>1, <4>2
    <3>4. QED
      BY <3>0, <1>1, <3>1, <3>2, <3>3
  <2>6. Ordered(c)
    <3>1. c \in Atoms /\ Len(c) = m + n
      BY <1>2 DEF Atoms
    <3>2. \A x \in 1..Len(c) : Place(c[x])
      BY <2>4, <3>1
    <3>3. QED
      BY <2>5, <3>1, <3>2 DEF Ordered
  <2>7. c # <<>> /\ c[1] = a[1] /\ c[m + n] = b[n]
    <3>1. 1 \in 1..m /\ n \in 1..n /\ m + n # 0
      BY <1>1, <2>1
    <3>2. c # <<>>
      BY <1>2, <3>1
    <3>3. QED
      BY <1>2, <3>1, <3>2
  <2>8. Run(c, i, k)
    BY <1>2, <2>2, <2>6, <2>7 DEF Run
  <2>9. QED
    BY <2>8 DEF c
<1>6. QED
  BY <1>3, <1>4, <1>5

LEMMA WordsAre ==
  ASSUME TextTyped, NEW i \in 1..Len(text) + 1, NEW j \in (i - 1)..Len(text)
  PROVE  /\ Words(i, j) \in Atoms /\ Len(Words(i, j)) = j - i + 1
         /\ \A k \in 1..(j - i + 1) : Words(i, j)[k] = Whole(i + k - 1)
              /\ i + k - 1 \in i..j
<1>1. Len(text) \in Nat /\ i \in Nat /\ j \in Int /\ j - i + 1 \in Nat
  BY DEF TextTyped
<1>2. ASSUME NEW k \in 1..(j - i + 1) PROVE i + k - 1 \in 1..Len(text) /\ i + k - 1 \in i..j
  BY <1>1
<1>3. \A k \in 1..(j - i + 1) : Whole(i + k - 1) \in Pieces
  BY <1>2, WordIs
<1>4. Words(i, j) = [k \in 1..(j - i + 1) |-> Whole(i + k - 1)]
  BY DEF Words, Whole
<1>5. QED
  BY <1>1, <1>2, <1>3, <1>4 DEF Atoms

LEMMA WordsMore ==
  ASSUME TextTyped, NEW j \in 1..Len(text)
  PROVE  Words(1, j) = Append(Words(1, j - 1), Whole(j)) /\ Words(1, j - 1) \in Atoms
           /\ Words(1, j) \in Atoms /\ Words(1, 0) = <<>>
<1>1. Len(text) \in Nat /\ 1 \in 1..Len(text) + 1 /\ j \in (1 - 1)..Len(text)
        /\ j - 1 \in (1 - 1)..Len(text) /\ 0 \in (1 - 1)..Len(text) /\ j \in Nat
  BY DEF TextTyped
<1>2. /\ Words(1, j) \in Atoms /\ Len(Words(1, j)) = j - 1 + 1
      /\ \A k \in 1..(j - 1 + 1) : Words(1, j)[k] = Whole(1 + k - 1)
  BY <1>1, WordsAre
<1>3. /\ Words(1, j - 1) \in Atoms /\ Len(Words(1, j - 1)) = (j - 1) - 1 + 1
      /\ \A k \in 1..((j - 1) - 1 + 1) : Words(1, j - 1)[k] = Whole(1 + k - 1)
  BY <1>1, WordsAre
<1>4. Words(1, 0) \in Atoms /\ Len(Words(1, 0)) = 0 - 1 + 1
  BY <1>1, WordsAre
<1> DEFINE a == Words(1, j)
           b == Words(1, j - 1)
<1>5. a \in Seq(Pieces) /\ Len(a) = j /\ \A k \in 1..j : a[k] = Whole(k)
  BY <1>1, <1>2 DEF Atoms
<1>6. b \in Seq(Pieces) /\ Len(b) = j - 1 /\ \A k \in 1..(j - 1) : b[k] = Whole(k)
  BY <1>1, <1>3 DEF Atoms
<1>7. Whole(j) \in Pieces
  BY WordIs
<1> HIDE DEF a, b
<1>8. Append(b, Whole(j)) \in Seq(Pieces) /\ Len(Append(b, Whole(j))) = j
        /\ \A k \in 1..j : Append(b, Whole(j))[k] = Whole(k)
  BY <1>1, <1>6, <1>7
<1>9. a = Append(b, Whole(j))
  BY <1>1, <1>5, <1>8, SeqEqual
<1>10. Words(1, 0) = <<>>
  BY <1>4 DEF Atoms
<1>11. QED
  BY <1>2, <1>3, <1>9, <1>10 DEF a, b

LEMMA RunWords ==
  ASSUME TextTyped, NEW i \in 1..Len(text) + 1, NEW j \in (i - 1)..Len(text)
  PROVE  Run(Words(i, j), i, j)
<1> DEFINE ps == Words(i, j)
           n == j - i + 1
<1>1. Len(text) \in Nat /\ i \in Nat /\ j \in Int /\ n \in Nat
  BY DEF TextTyped
<1>2. ps \in Atoms /\ Len(ps) = n /\ \A k \in 1..n : ps[k] = Whole(i + k - 1)
        /\ i + k - 1 \in i..j
  BY WordsAre
<1> HIDE DEF ps
<1>3. ASSUME NEW k \in 1..n
      PROVE  Place(ps[k]) /\ ps[k].word = i + k - 1 /\ ps[k].from = 1
               /\ ps[k].to = text[i + k - 1].size
  <2>1. i + k - 1 \in 1..Len(text) /\ ps[k] = Whole(i + k - 1)
    BY <1>1, <1>2
  <2>2. QED
    BY <2>1, WordIs
<1>4. ASSUME NEW k \in 1..(n - 1) PROVE Follows(ps[k], ps[k + 1])
  <2>1. k \in 1..n /\ k + 1 \in 1..n /\ i + (k + 1) - 1 = (i + k - 1) + 1
    BY <1>1
  <2>2. ps[k].word = i + k - 1 /\ ps[k].to = text[i + k - 1].size
          /\ ps[k + 1].word = i + (k + 1) - 1 /\ ps[k + 1].from = 1
    BY <1>3, <2>1
  <2>3. QED
    BY <2>1, <2>2 DEF Follows
<1>5. Ordered(ps)
  BY <1>2, <1>3, <1>4 DEF Ordered
<1>6. CASE n = 0
  <2>1. ps = <<>> /\ i = j + 1
    BY <1>1, <1>2, <1>6 DEF Atoms
  <2>2. QED
    BY <1>5, <2>1 DEF Run, ps
<1>7. CASE n # 0
  <2>1. 1 \in 1..n /\ n \in 1..n /\ i + 1 - 1 = i /\ i + n - 1 = j
    BY <1>1, <1>7
  <2>2. ps[1].word = i /\ ps[1].from = 1 /\ ps[n].word = j /\ ps[n].to = text[j].size
    BY <1>3, <2>1
  <2>3. ps # <<>>
    BY <1>2, <1>7
  <2>4. QED
    BY <1>2, <1>5, <2>2, <2>3 DEF Run, ps
<1>8. QED
  BY <1>6, <1>7

-----------------------------------------------------------------------------
(* A word that is cut by characters.                                       *)
LEMMA ChunkBounds ==
  Target \in Nat /\ Target >= 1 /\ Overlap \in Nat /\ Overlap < Target /\ Width \in Nat
    /\ Width >= Target
    /\ Sizes \subseteq Nat \ {0} /\ MaxChunks \in Nat /\ MaxChunks >= 1 /\ MaxWords \in Nat
BY ChunkAssumption

Divided(s, t, m) == s \in Nat /\ s >= 1 /\ t \in Nat /\ t >= 1 /\ m = (s + t - 1) \div t

LEMMA PartsOfWord ==
  ASSUME NEW s, NEW t, NEW m, Divided(s, t, m)
  PROVE  /\ m \in Nat /\ m >= 1 /\ s <= m * t
         /\ \A k \in 1..m : (k - 1) * t \in Nat /\ k * t \in Nat /\ k * t = (k - 1) * t + t
              /\ (k - 1) * t < s
<1>0. s \in Nat /\ s >= 1 /\ t \in Nat /\ t >= 1 /\ m = (s + t - 1) \div t
  BY DEF Divided
<1>1. m \in Int /\ s + t - 1 \in Nat
  BY <1>0
<1>2. m * t <= s + t - 1 /\ s + t - 1 < (m + 1) * t
  BY <1>0
<1>3. (m + 1) * t = m * t + t /\ m * t \in Int
  BY <1>0, <1>1
<1>4. s <= m * t
  BY <1>0, <1>1, <1>2, <1>3
<1>5. m >= 1
  <2>1. SUFFICES ASSUME m <= 0 PROVE FALSE
    BY <1>0, <1>1
  <2>2. m * t <= 0
    BY <1>0, <1>1, <2>1
  <2>3. QED
    BY <1>0, <1>4, <2>2
<1>6. ASSUME NEW k \in 1..m
      PROVE  (k - 1) * t \in Nat /\ k * t \in Nat /\ k * t = (k - 1) * t + t
        /\ (k - 1) * t < s
  <2>1. k - 1 \in Nat /\ k \in Nat /\ m - k \in Nat
    BY <1>0, <1>1
  <2>2. (k - 1) * t \in Nat /\ k * t \in Nat /\ (m - k) * t \in Nat
    BY <1>0, <2>1
  <2>3. k * t = (k - 1) * t + t
    BY <1>0, <2>1
  <2>4. m * t = (m - k) * t + k * t
    BY <1>0, <1>1, <2>1
  <2>5. QED
    BY <1>0, <1>2, <1>3, <2>2, <2>3, <2>4
<1>7. QED
  BY <1>0, <1>1, <1>4, <1>5, <1>6

NonEmpty(list) == \A k \in 1..Len(list) : list[k] # <<>>

LEMMA CutUpIs ==
  ASSUME TextTyped, NEW i \in 1..Len(text)
  PROVE  CutUp(Whole(i)) \in Seq(Atoms) /\ NonEmpty(CutUp(Whole(i)))
           /\ Run(FlattenSeq(CutUp(Whole(i))), i, i)
<1> DEFINE s == text[i].size
           m == (s + Target - 1) \div Target
           q(k) == Piece(i, (k - 1) * Target + 1, IF k * Target < s THEN k * Target ELSE s)
           c == CutUp(Whole(i))
           f == FlattenSeq(c)
<1>1. s \in Nat /\ s >= 1 /\ Whole(i).word = i /\ Whole(i).to = s /\ i \in Nat
  BY WordIs DEF TextTyped
<1>2. c = [k \in 1..m |-> <<q(k)>>]
  BY <1>1 DEF CutUp
<1>3. /\ m \in Nat /\ m >= 1 /\ s <= m * Target
      /\ \A k \in 1..m : /\ (k - 1) * Target \in Nat /\ k * Target \in Nat
                         /\ k * Target = (k - 1) * Target + Target /\ (k - 1) * Target < s
  <2>1. Divided(s, Target, m)
    BY <1>1, ChunkBounds DEF Divided
  <2> HIDE DEF s, m
  <2>2. QED
    BY <2>1, PartsOfWord
<1> HIDE DEF s, m, c
<1>4. ASSUME NEW k \in 1..m
      PROVE  /\ q(k) \in Pieces /\ Place(q(k)) /\ q(k).word = i
                  /\ q(k).from = (k - 1) * Target + 1
             /\ q(k).to = IF k * Target < s THEN k * Target ELSE s
  <2> DEFINE e == IF k * Target < s THEN k * Target ELSE s
             b == (k - 1) * Target
  <2>1. b \in Nat /\ k * Target \in Nat /\ k * Target = b + Target /\ b < s
    BY <1>3
  <2>2. e \in Nat /\ b + 1 <= e /\ e <= s
    BY <1>1, <2>1, ChunkBounds
  <2> HIDE DEF b, e
  <2>3. Piece(i, b + 1, e) \in Pieces /\ Piece(i, b + 1, e).word = i
          /\ Piece(i, b + 1, e).from = b + 1
          /\ Piece(i, b + 1, e).to = e
    BY <1>1, <2>1, <2>2 DEF Piece, Pieces
  <2>4. Place(Piece(i, b + 1, e))
    BY <2>1, <2>2, <2>3 DEF Place, s
  <2>5. QED
    BY <2>3, <2>4 DEF b, e
<1>5. ASSUME NEW k \in 1..(m - 1) PROVE Follows(q(k), q(k + 1))
  <2>1. k \in 1..m /\ k + 1 \in 1..m /\ (k + 1) - 1 = k
    BY <1>3
  <2>2. k * Target < s
    <3>1. ((k + 1) - 1) * Target < s
      BY <1>3, <2>1
    <3>2. QED
      BY <2>1, <3>1
  <2>3. q(k).to = k * Target /\ q(k).word = i
    BY <1>4, <2>1, <2>2
  <2>4. q(k + 1).word = i /\ q(k + 1).from = k * Target + 1
    <3>1. q(k + 1).word = i /\ q(k + 1).from = ((k + 1) - 1) * Target + 1
      BY <1>4, <2>1
    <3>2. QED
      BY <2>1, <3>1
  <2> HIDE DEF q
  <2>5. QED
    BY <2>3, <2>4 DEF Follows
<1>6. q(1).from = 1 /\ q(m).to = s /\ 1 \in 1..m /\ m \in 1..m
  <2>1. 1 \in 1..m /\ m \in 1..m
    BY <1>3
  <2>2. (1 - 1) * Target = 0
    BY ChunkBounds
  <2>3. ~(m * Target < s)
    BY <1>1, <1>3, ChunkBounds
  <2>4. q(1).from = (1 - 1) * Target + 1
          /\ q(m).to = IF m * Target < s THEN m * Target ELSE s
    BY <1>4, <2>1
  <2>5. QED
    BY <2>1, <2>2, <2>3, <2>4
<1> HIDE DEF q
<1>7. c \in Seq(Seq(Pieces)) /\ Len(c) = m /\ DOMAIN c = 1..m
        /\ \A k \in 1..m : c[k] = <<q(k)>> /\ Len(c[k]) = 1 /\ c[k][1] = q(k) /\ c[k] # <<>>
  <2>1. \A k \in 1..m : <<q(k)>> \in Seq(Pieces) /\ Len(<<q(k)>>) = 1 /\ <<q(k)>>[1] = q(k)
          /\ <<q(k)>> # <<>>
    BY <1>4
  <2>2. QED
    BY <1>2, <1>3, <2>1
<1>8. f \in Seq(Pieces) /\ Len(f) = m /\ \A k \in 1..m : f[k] = q(k)
  <2>1. /\ f \in Seq(Pieces) /\ Len(f) = Len(c)
        /\ \A k \in 1..Len(c) : f[k] = c[k][1]
    BY <1>7, FlattenSingles
  <2> HIDE DEF f
  <2>2. QED
    BY <1>7, <2>1
<1> HIDE DEF f
<1>9. Ordered(f)
  <2>1. \A k \in 1..m : Place(f[k])
    BY <1>4, <1>8
  <2>2. ASSUME NEW k \in 1..(m - 1) PROVE Follows(f[k], f[k + 1])
    <3>1. k \in 1..m /\ k + 1 \in 1..m
      BY <1>3
    <3>2. QED
      BY <1>5, <1>8, <3>1
  <2>3. QED
    BY <1>8, <2>1, <2>2 DEF Ordered, Atoms
<1>10. Run(f, i, i)
  <2>1. f[1].word = i /\ f[1].from = 1 /\ f[m].word = i /\ f[m].to = s
    BY <1>4, <1>6, <1>8
  <2>2. f # <<>>
    BY <1>3, <1>8
  <2>3. QED
    BY <1>8, <1>9, <2>1, <2>2 DEF Run, s
<1>11. NonEmpty(c)
  BY <1>7 DEF NonEmpty
<1>12. QED
  BY <1>7, <1>10, <1>11 DEF f, c, Atoms

-----------------------------------------------------------------------------
(* A sentence above the target: what is gathered and what is left in the   *)
(* buffer are the words so far.                                            *)
Gathers == [pieces : Seq(Atoms), buffer : Atoms]

GatheredTo(r, i, j) ==
  r \in Gathers /\ NonEmpty(r.pieces) /\ Run(FlattenSeq(r.pieces) \o r.buffer, i, j)

LEMMA BufferIs ==
  ASSUME NEW S, NEW T, NEW r \in [pieces : S, buffer : T], NEW v
  PROVE  [r EXCEPT !.buffer = v] = [pieces |-> r.pieces, buffer |-> v]
  OBVIOUS

LEMMA GatheredCases ==
  ASSUME NEW r \in Gathers, NEW p \in Pieces
  PROVE  /\ Gathered(r, p) = [pieces |-> Gathered(r, p).pieces,
              buffer |-> Gathered(r, p).buffer]
         /\ \/ Gathered(r, p).pieces = r.pieces
              /\ Gathered(r, p).buffer = Append(r.buffer, p)
            \/ r.buffer = <<>> /\ Gathered(r, p).pieces = r.pieces \o CutUp(p)
                 /\ Gathered(r, p).buffer = <<>>
            \/ /\ r.buffer # <<>> /\ Gathered(r, p).pieces = Append(r.pieces, r.buffer)
               /\ Gathered(r, p).buffer = <<p>>
<1> DEFINE ps == r.pieces
           b == r.buffer
<1>1. r \in [pieces : Seq(Atoms), buffer : Atoms]
  BY DEF Gathers
<1>2. [r EXCEPT !.buffer = Append(r.buffer, p)] = [pieces |-> ps, buffer |-> Append(b, p)]
  BY ONLY <1>1, BufferIs
<1>3. CASE Count(Append(b, p)) < Target
  <2>1. Gathered(r, p) = [pieces |-> ps, buffer |-> Append(b, p)]
    BY <1>2, <1>3 DEF Gathered
  <2>2. QED
    BY <2>1
<1>4. CASE ~(Count(Append(b, p)) < Target) /\ b = <<>>
  <2>1. Gathered(r, p) = [pieces |-> ps \o CutUp(p), buffer |-> <<>>]
    BY <1>4 DEF Gathered
  <2>2. QED
    BY <1>4, <2>1
<1>5. CASE ~(Count(Append(b, p)) < Target) /\ b # <<>>
  <2>1. Gathered(r, p) = [pieces |-> Append(ps, b), buffer |-> <<p>>]
    BY <1>5 DEF Gathered
  <2>2. QED
    BY <1>5, <2>1
<1>6. QED
  BY <1>3, <1>4, <1>5

LEMMA NonEmptyMore ==
  ASSUME NEW a \in Seq(Atoms), NonEmpty(a), NEW b \in Atoms, b # <<>>
  PROVE  Append(a, b) \in Seq(Atoms) /\ NonEmpty(Append(a, b))
<1>1. Len(a) \in Nat /\ Append(a, b) \in Seq(Atoms) /\ Len(Append(a, b)) = Len(a) + 1
        /\ Append(a, b)[Len(a) + 1] = b /\ \A k \in 1..Len(a) : Append(a, b)[k] = a[k]
  OBVIOUS
<1>2. \A k \in 1..(Len(a) + 1) : k \in 1..Len(a) \/ k = Len(a) + 1
  BY <1>1
<1>3. QED
  BY <1>1, <1>2 DEF NonEmpty

LEMMA NonEmptyConcat ==
  ASSUME NEW a \in Seq(Atoms), NonEmpty(a), NEW b \in Seq(Atoms), NonEmpty(b)
  PROVE  a \o b \in Seq(Atoms) /\ NonEmpty(a \o b)
<1>1. /\ a \o b \in Seq(Atoms) /\ Len(a \o b) = Len(a) + Len(b) /\ Len(a) \in Nat
           /\ Len(b) \in Nat
      /\ \A k \in 1..(Len(a) + Len(b)) : (a \o b)[k]
           = IF k <= Len(a) THEN a[k] ELSE b[k - Len(a)]
  BY ConcatProperties
<1>2. \A k \in 1..(Len(a) + Len(b)) : k \in 1..Len(a)
        \/ (~(k <= Len(a)) /\ k - Len(a) \in 1..Len(b))
  BY <1>1
<1>3. \A k \in 1..Len(a) : a[k] # <<>>
  BY DEF NonEmpty
<1>4. \A k \in 1..Len(b) : b[k] # <<>>
  BY DEF NonEmpty
<1>5. ASSUME NEW k \in 1..(Len(a) + Len(b)) PROVE (a \o b)[k] # <<>>
  <2>1. CASE k \in 1..Len(a)
    BY <1>1, <1>3, <2>1
  <2>2. CASE ~(k <= Len(a)) /\ k - Len(a) \in 1..Len(b)
    BY <1>1, <1>4, <2>2
  <2>3. QED
    BY <1>2, <2>1, <2>2
<1>6. QED
  BY <1>1, <1>5 DEF NonEmpty

LEMMA GatheredMore ==
  ASSUME TextTyped, NEW i \in Nat, NEW j \in 1..Len(text), NEW r, GatheredTo(r, i, j - 1)
  PROVE  GatheredTo(Gathered(r, Whole(j)), i, j)
<1> DEFINE p == Whole(j)
           ps == r.pieces
           b == r.buffer
           f == FlattenSeq(ps)
           g == Gathered(r, p)
<1>1. r \in Gathers /\ ps \in Seq(Atoms) /\ b \in Atoms /\ NonEmpty(ps)
        /\ Run(f \o b, i, j - 1)
  BY DEF GatheredTo, Gathers
<1>2. p \in Pieces /\ Run(<<p>>, j, j) /\ j \in Int /\ (j - 1) + 1 = j /\ j - 1 \in Int
  BY WordIs, RunOne DEF TextTyped
<1>3. f \in Seq(Pieces) /\ b \in Seq(Pieces) /\ <<p>> \in Seq(Pieces)
  BY <1>1, <1>2, FlattenType DEF Atoms
<1>4. Run((f \o b) \o <<p>>, i, j)
  BY <1>1, <1>2, RunConcat
<1>5. g = [pieces |-> g.pieces, buffer |-> g.buffer]
        /\ \/ g.pieces = ps /\ g.buffer = Append(b, p)
           \/ b = <<>> /\ g.pieces = ps \o CutUp(p) /\ g.buffer = <<>>
           \/ b # <<>> /\ g.pieces = Append(ps, b) /\ g.buffer = <<p>>
  BY <1>1, <1>2, GatheredCases
<1>6. CutUp(p) \in Seq(Atoms) /\ NonEmpty(CutUp(p)) /\ Run(FlattenSeq(CutUp(p)), j, j)
  BY CutUpIs
<1> HIDE DEF p, ps, b, g
<1>7. CASE g.pieces = ps /\ g.buffer = Append(b, p)
  <2>1. (f \o b) \o <<p>> = f \o Append(b, p)
    <3>1. f \o Append(b, p) = Append(f \o b, p) /\ f \o b \in Seq(Pieces)
      BY <1>2, <1>3, ConcatAppend
    <3>2. Append(f \o b, p) = (f \o b) \o <<p>>
      BY <1>2, <3>1
    <3>3. QED
      BY <3>1, <3>2
  <2>2. Append(b, p) \in Atoms
    BY <1>2, <1>3 DEF Atoms
  <2>3. g \in Gathers
    BY <1>1, <1>5, <1>7, <2>2 DEF Gathers
  <2>4. QED
    BY <1>1, <1>4, <1>7, <2>1, <2>3 DEF GatheredTo, g, p
<1>8. CASE b = <<>> /\ g.pieces = ps \o CutUp(p) /\ g.buffer = <<>>
  <2>1. ps \o CutUp(p) \in Seq(Atoms) /\ NonEmpty(ps \o CutUp(p))
    BY <1>1, <1>6, NonEmptyConcat
  <2>2. FlattenSeq(ps \o CutUp(p)) = f \o FlattenSeq(CutUp(p))
    BY <1>1, <1>6, FlattenConcat DEF Atoms
  <2>3. Run(f, i, j - 1)
    <3>1. f \o b = f
      BY <1>3, <1>8
    <3>2. QED
      BY <1>1, <3>1
  <2>4. Run(f \o FlattenSeq(CutUp(p)), i, j)
    BY <1>2, <1>6, <2>3, RunConcat
  <2>5. FlattenSeq(g.pieces) \o g.buffer = f \o FlattenSeq(CutUp(p))
    <3>1. FlattenSeq(g.pieces) \in Seq(Pieces)
      BY <1>8, <2>1, FlattenType DEF Atoms
    <3>2. QED
      BY <1>8, <2>2, <3>1
  <2>6. g \in Gathers
    <3>1. <<>> \in Atoms
      BY DEF Atoms
    <3>2. QED
      BY <1>5, <1>8, <2>1, <3>1 DEF Gathers
  <2>7. QED
    BY <1>8, <2>1, <2>4, <2>5, <2>6 DEF GatheredTo, g, p
<1>9. CASE b # <<>> /\ g.pieces = Append(ps, b) /\ g.buffer = <<p>>
  <2>1. Append(ps, b) \in Seq(Atoms) /\ NonEmpty(Append(ps, b))
    BY <1>1, <1>9, NonEmptyMore
  <2>2. FlattenSeq(Append(ps, b)) = f \o b
    BY <1>1, FlattenMore DEF Atoms
  <2>3. <<p>> \in Atoms
    BY <1>3 DEF Atoms
  <2>4. g \in Gathers
    BY <1>5, <1>9, <2>1, <2>3 DEF Gathers
  <2>5. FlattenSeq(g.pieces) \o g.buffer = (f \o b) \o <<p>>
    BY <1>9, <2>2
  <2>6. QED
    BY <1>4, <1>9, <2>1, <2>4, <2>5 DEF GatheredTo, g, p
<1>10. QED
  BY <1>5, <1>7, <1>8, <1>9

LEMMA GatheredType ==
  ASSUME TextTyped, NEW j \in 1..Len(text), NEW r \in Gathers
  PROVE  Gathered(r, Whole(j)) \in Gathers
<1> DEFINE p == Whole(j)
           g == Gathered(r, p)
<1>1. p \in Pieces /\ CutUp(p) \in Seq(Atoms) /\ <<>> \in Atoms /\ <<p>> \in Atoms
  BY WordIs, CutUpIs DEF Atoms
<1>2. r.pieces \in Seq(Atoms) /\ r.buffer \in Atoms
  BY DEF Gathers
<1>3. g = [pieces |-> g.pieces, buffer |-> g.buffer]
        /\ \/ g.pieces = r.pieces /\ g.buffer = Append(r.buffer, p)
           \/ r.buffer = <<>> /\ g.pieces = r.pieces \o CutUp(p) /\ g.buffer = <<>>
           \/ r.buffer # <<>> /\ g.pieces = Append(r.pieces, r.buffer) /\ g.buffer = <<p>>
  BY <1>1, GatheredCases
<1> HIDE DEF g, p
<1>4. Append(r.buffer, p) \in Atoms
  BY <1>1, <1>2 DEF Atoms
<1>5. r.pieces \o CutUp(p) \in Seq(Atoms) /\ Append(r.pieces, r.buffer) \in Seq(Atoms)
  BY <1>1, <1>2, ConcatProperties
<1>6. g.pieces \in Seq(Atoms) /\ g.buffer \in Atoms
  BY <1>1, <1>2, <1>3, <1>4, <1>5
<1>7. QED
  BY <1>3, <1>6 DEF Gathers, g, p

LEMMA OversizedIs ==
  ASSUME TextTyped, NEW i \in 1..Len(text), NEW e \in i..Len(text)
  PROVE  Oversized(Words(i, e)) \in Seq(Atoms) /\ NonEmpty(Oversized(Words(i, e)))
           /\ Run(FlattenSeq(Oversized(Words(i, e))), i, e)
<1> DEFINE s == Words(i, e)
           n == Len(s)
           none == [pieces |-> <<>>, buffer |-> <<>>]
           h == CHOOSE u : u = [k \in 0..n |-> IF k = 0
             THEN none ELSE Gathered(u[k - 1], s[k])]
           g == [x \in Gathers \X (1..n) |-> Gathered(x[1], s[x[2]])]
<1>1. Oversized(s) = IF h[n].buffer = <<>>
        THEN h[n].pieces ELSE Append(h[n].pieces, h[n].buffer)
  BY DEF Oversized
<1>2. n = e - i + 1 /\ n \in Nat /\ i \in Nat /\ e \in Nat
        /\ \A k \in 1..n : s[k] = Whole(i + k - 1) /\ i + k - 1 \in 1..Len(text)
  <2>1. Len(text) \in Nat /\ i \in 1..Len(text) + 1 /\ e \in (i - 1)..Len(text)
    BY DEF TextTyped
  <2>2. n = e - i + 1 /\ \A k \in 1..(e - i + 1) : s[k] = Whole(i + k - 1)
          /\ i + k - 1 \in i..e
    BY <2>1, WordsAre
  <2> HIDE DEF s, n
  <2>3. QED
    BY <2>1, <2>2
<1> HIDE DEF s, n
<1>3. none \in Gathers
  BY DEF Gathers, Atoms
<1>4. g \in [Gathers \X (1..n) -> Gathers]
        /\ \A r \in Gathers, k \in 1..n : g[<<r, k>>] = Gathered(r, s[k])
  <2>1. \A r \in Gathers, k \in 1..n : Gathered(r, s[k]) \in Gathers
    BY <1>2, GatheredType
  <2>2. QED
    BY <2>1
<1> HIDE DEF g, none
<1>5. PICK f \in [0..n -> Gathers] : f[0] = none
        /\ \A k \in 1..n : f[k] = g[<<f[k - 1], k>>]
  <2>1. Stepped(g, n, Gathers, none)
    BY <1>2, <1>3, <1>4 DEF Stepped
  <2>2. Reached(g, n, Gathers, none)
    BY <2>1, GivenExists
  <2>3. QED
    BY <2>2 DEF Reached
<1>6. f = [k \in 0..n |-> IF k = 0 THEN none ELSE Gathered(f[k - 1], s[k])]
  <2>1. ASSUME NEW k \in 0..n, k # 0 PROVE f[k] = Gathered(f[k - 1], s[k])
    <3>1. k \in 1..n /\ k - 1 \in 0..n
      BY <1>2, <2>1
    <3>2. f[k - 1] \in Gathers
      BY <3>1
    <3>3. QED
      BY <1>4, <1>5, <3>1, <3>2
  <2>2. \A k \in 0..n : f[k] = IF k = 0 THEN none ELSE Gathered(f[k - 1], s[k])
    BY <1>5, <2>1
  <2>3. QED
    BY <2>2
<1>7. h = [k \in 0..n |-> IF k = 0 THEN none ELSE Gathered(h[k - 1], s[k])]
  BY <1>6
<1> HIDE DEF h
<1> DEFINE P == {k \in 0..n : GatheredTo(h[k], i, i + k - 1)}
<1>8. 0 \in P
  <2>1. h[0] = none /\ 0 \in 0..n
    BY <1>2, <1>7
  <2>2. none.pieces = <<>> /\ none.buffer = <<>> /\ <<>> \o <<>> = <<>> /\ NonEmpty(<<>>)
    BY DEF none, NonEmpty
  <2>3. Run(<<>>, i, i + 0 - 1)
    BY <1>2, RunNone
  <2>4. QED
    BY <1>3, <2>1, <2>2, <2>3, FlattenNone DEF GatheredTo
<1>9. ASSUME NEW k \in 1..n, k - 1 \in P PROVE k \in P
  <2>1. GatheredTo(h[k - 1], i, (i + k - 1) - 1)
    <3>1. i + (k - 1) - 1 = (i + k - 1) - 1
      BY <1>2
    <3>2. QED
      BY <1>9, <3>1
  <2>2. h[k] = Gathered(h[k - 1], Whole(i + k - 1)) /\ k \in 0..n
    <3>1. k \in 0..n /\ k # 0
      BY <1>2
    <3>2. h[k] = Gathered(h[k - 1], s[k])
      BY <1>7, <3>1
    <3>3. QED
      BY <1>2, <3>1, <3>2
  <2>3. i + k - 1 \in 1..Len(text)
    BY <1>2
  <2>4. GatheredTo(h[k], i, i + k - 1)
    BY <1>2, <2>1, <2>2, <2>3, GatheredMore
  <2>5. QED
    BY <2>2, <2>4
<1> HIDE DEF P
<1>10. n \in P
  <2>1. \A k \in 0..n : k \in P
    BY <1>2, <1>8, <1>9, ByNumber
  <2>2. QED
    BY <1>2, <2>1
<1>11. GatheredTo(h[n], i, e)
  <2>1. i + n - 1 = e
    BY <1>2
  <2>2. QED
    BY <1>10, <2>1 DEF P
<1> DEFINE ps == h[n].pieces
           b == h[n].buffer
<1>12. ps \in Seq(Atoms) /\ b \in Atoms /\ NonEmpty(ps) /\ Run(FlattenSeq(ps) \o b, i, e)
  BY <1>11 DEF GatheredTo, Gathers
<1>13. CASE b = <<>>
  <2>1. FlattenSeq(ps) \in Seq(Pieces)
    BY <1>12, FlattenType DEF Atoms
  <2> HIDE DEF ps, b
  <2>2. FlattenSeq(ps) \o b = FlattenSeq(ps)
    BY <1>13, <2>1
  <2>3. Oversized(s) = ps
    BY <1>1, <1>13 DEF ps, b
  <2>4. QED
    BY <1>12, <2>2, <2>3 DEF s
<1>14. CASE b # <<>>
  <2>1. FlattenSeq(Append(ps, b)) = FlattenSeq(ps) \o b
    BY <1>12, FlattenMore DEF Atoms
  <2>2. Append(ps, b) \in Seq(Atoms) /\ NonEmpty(Append(ps, b))
    BY <1>12, <1>14, NonEmptyMore
  <2>3. Oversized(s) = Append(ps, b)
    BY <1>1, <1>14
  <2>4. QED
    BY <1>12, <2>1, <2>2, <2>3 DEF s
<1>15. QED
  BY <1>13, <1>14

LEMMA EndIs ==
  ASSUME TextTyped, NEW i \in 1..Len(text), NEW kinds
  PROVE  /\ EndOf(i, kinds) \in i..Len(text)
         /\ text[EndOf(i, kinds)].end \in kinds \/ EndOf(i, kinds) = Len(text)
         /\ \A k \in i..EndOf(i, kinds) - 1 : text[k].end \notin kinds
<1> DEFINE D == {j \in i..Len(text) : text[j].end \in kinds \/ j = Len(text)}
           Ends(j) == /\ text[j].end \in kinds \/ j = Len(text)
                      /\ \A k \in i..j - 1 : text[k].end \notin kinds
<1>1. Len(text) \in Nat
  BY DEF TextTyped
<1>2. Len(text) \in D /\ D \in SUBSET Nat
  BY <1>1
<1>3. PICK j \in D : \A x \in D : j <= x
  <2> HIDE DEF D
  <2>1. D # {}
    BY <1>2
  <2>2. QED
    BY <1>2, <2>1, LeastNumber
<1>4. ASSUME NEW k \in i..j - 1 PROVE text[k].end \notin kinds
  <2>1. k \in i..Len(text) /\ ~(j <= k)
    BY <1>1, <1>3
  <2>2. k \notin D
    BY <1>3, <2>1
  <2>3. QED
    BY <2>1, <2>2
<1>5. j \in i..Len(text) /\ Ends(j)
  BY <1>3, <1>4
<1>6. EndOf(i, kinds) = CHOOSE x \in i..Len(text) : Ends(x)
  BY DEF EndOf
<1> HIDE DEF Ends
<1>7. EndOf(i, kinds) \in i..Len(text) /\ Ends(EndOf(i, kinds))
  BY <1>5, <1>6
<1>8. QED
  BY <1>7 DEF Ends

-----------------------------------------------------------------------------
(* Cutting: the atoms are the text up to the cursor.                       *)
CutInv ==
  /\ TextTyped /\ cursor \in 1..Len(text) + 1 /\ limit \in 0..Len(text)
  /\ limit # 0 => cursor <= limit /\ (text[limit].end = "part" \/ limit = Len(text))
  /\ atoms \in Seq(Atoms) /\ NonEmpty(atoms) /\ (cursor = 1 => atoms = <<>>)
  /\ Run(FlattenSeq(atoms), 1, cursor - 1)

LEMMA CutMore ==
  ASSUME CutInv, NEW e \in cursor..Len(text), NEW more \in Seq(Atoms), NonEmpty(more),
         Run(FlattenSeq(more), cursor, e)
  PROVE  /\ atoms \o more \in Seq(Atoms) /\ NonEmpty(atoms \o more)
         /\ Run(FlattenSeq(atoms \o more), 1, e)
<1>1. atoms \in Seq(Atoms) /\ NonEmpty(atoms) /\ Run(FlattenSeq(atoms), 1, cursor - 1)
        /\ cursor \in Nat /\ e \in Nat /\ (cursor - 1) + 1 = cursor /\ cursor - 1 \in Int
  BY DEF CutInv
<1>2. FlattenSeq(atoms \o more) = FlattenSeq(atoms) \o FlattenSeq(more)
  BY <1>1, FlattenConcat DEF Atoms
<1>3. Run(FlattenSeq(atoms) \o FlattenSeq(more), 1, e)
  BY <1>1, RunConcat
<1>4. QED
  BY <1>1, <1>2, <1>3, NonEmptyConcat

(* One atom of whole words.                                                *)
LEMMA CutWords ==
  ASSUME CutInv, NEW e \in cursor..Len(text)
  PROVE  /\ Append(atoms, Words(cursor, e)) \in Seq(Atoms)
              /\ NonEmpty(Append(atoms, Words(cursor, e)))
         /\ Run(FlattenSeq(Append(atoms, Words(cursor, e))), 1, e)
<1> DEFINE w == Words(cursor, e)
<1>1. TextTyped /\ cursor \in 1..Len(text) + 1 /\ e \in (cursor - 1)..Len(text)
        /\ e - cursor + 1 >= 1
        /\ e - cursor + 1 \in Nat /\ atoms \in Seq(Atoms)
  BY DEF CutInv
<1>2. w \in Atoms /\ Len(w) = e - cursor + 1 /\ Run(w, cursor, e)
  BY <1>1, WordsAre, RunWords
<1> HIDE DEF w
<1>3. w # <<>>
  BY <1>1, <1>2 DEF Atoms
<1>4. <<w>> \in Seq(Atoms) /\ NonEmpty(<<w>>) /\ Append(atoms, w) = atoms \o <<w>>
  BY <1>1, <1>2, <1>3 DEF NonEmpty
<1>5. FlattenSeq(<<w>>) = w
  <2>1. <<w>> = Append(<<>>, w) /\ <<>> \in Seq(Seq(Pieces)) /\ w \in Seq(Pieces)
    BY <1>2 DEF Atoms
  <2>2. FlattenSeq(Append(<<>>, w)) = FlattenSeq(<<>>) \o w
    BY <2>1, FlattenMore
  <2>3. <<>> \o w = w
    BY <2>1
  <2>4. QED
    BY <2>1, <2>2, <2>3, FlattenNone
<1>6. QED
  BY <1>2, <1>4, <1>5, CutMore DEF w

-----------------------------------------------------------------------------
(* What comes before a piece in an atom, and the piece, are in its count.  *)
LEMMA CountUpTo ==
  ASSUME NEW a \in Atoms, NEW k \in 1..Len(a)
  PROVE  /\ a[k] \in Pieces /\ Tokens(a[k]) \in Nat
         /\ Count(SubSeq(a, 1, k - 1)) \in Nat
         /\ Count(SubSeq(a, 1, k - 1)) + Tokens(a[k]) <= Count(a)
<1> DEFINE n == Len(a)
           s == [x \in DOMAIN a |-> Tokens(a[x])]
           b == SubSeq(a, 1, k - 1)
           t == [x \in DOMAIN b |-> Tokens(b[x])]
<1>1. a \in Seq(Pieces) /\ n \in Nat /\ k \in 1..n /\ DOMAIN a = 1..n
  BY DEF Atoms
<1>2. s \in Seq(Nat) /\ Count(a) = Total(s) /\ Len(s) = n
        /\ \A x \in 1..n : s[x] = Tokens(a[x])
  <2>1. s \in Seq(Nat) /\ Count(a) = Total(s)
    BY CountSizes
  <2>2. s = [x \in 1..n |-> Tokens(a[x])]
    BY <1>1
  <2>3. \A x \in 1..n : s[x] = Tokens(a[x])
    BY <2>2
  <2> HIDE DEF s, n
  <2>4. Len(s) = n
    BY <1>1, <2>1, <2>2
  <2>5. QED
    BY <2>1, <2>3, <2>4
<1>3. b \in Atoms /\ Len(b) = k - 1 /\ \A x \in 1..(k - 1) : b[x] = a[x]
  BY <1>1 DEF Atoms
<1> HIDE DEF s, b, n
<1>4. t \in Seq(Nat) /\ Count(b) = Total(t)
  BY <1>3, CountSizes
<1>5. DOMAIN b = 1..(k - 1) /\ Len(t) = k - 1 /\ \A x \in 1..(k - 1) : t[x] = s[x]
  <2>1. DOMAIN b = 1..(k - 1) /\ k - 1 \in Nat /\ \A x \in 1..(k - 1) : x \in 1..n
    BY <1>1, <1>3 DEF Atoms
  <2>2. \A x \in 1..(k - 1) : t[x] = Tokens(b[x])
    BY <2>1
  <2>3. Len(t) = k - 1
    BY <2>1
  <2>4. QED
    BY <1>2, <1>3, <2>1, <2>2, <2>3
<1> HIDE DEF t
<1>6. t = SubSeq(s, 1, k - 1)
  <2>1. SubSeq(s, 1, k - 1) \in Seq(Nat) /\ Len(SubSeq(s, 1, k - 1)) = k - 1
          /\ \A x \in 1..(k - 1) : SubSeq(s, 1, k - 1)[x] = s[x]
    BY <1>1, <1>2
  <2>2. QED
    BY <1>4, <1>5, <2>1, SeqEqual
<1>7. Total(SubSeq(s, 1, k - 1)) + s[k] <= Total(s)
  <2>1. k \in DOMAIN s
    BY <1>1, <1>2
  <2>2. QED
    BY <1>2, <2>1, TotalUpTo
<1>8. a[k] \in Pieces /\ Tokens(a[k]) \in Nat
  <2>1. a[k] \in Pieces
    BY <1>1
  <2>2. QED
    BY <2>1 DEF Pieces, Tokens
<1>9. Count(b) \in Nat
  BY <1>3, CountType
<1>10. s[k] = Tokens(a[k])
  BY <1>1, <1>2
<1>11. QED
  BY <1>2, <1>4, <1>6, <1>7, <1>8, <1>9, <1>10 DEF b

(* Pieces that are in the order of the text from its beginning hold every  *)
(* token up to the last of them, and count as many.                        *)
Holds(ps, i, n) == \E k \in 1..Len(ps) : ps[k].word = i /\ n \in ps[k].from..ps[k].to

Begins(ps) == Ordered(ps) /\ (ps # <<>> => ps[1].word = 1 /\ ps[1].from = 1)

Covers(ps, p) ==
  /\ Count(ps) = Count(Words(1, p.word - 1)) + p.to
  /\ \A i \in 1..(p.word - 1) : \A n \in 1..text[i].size : Holds(ps, i, n)
  /\ \A n \in 1..p.to : Holds(ps, p.word, n)

LEMMA HoldsMore ==
  ASSUME NEW ps \in Atoms, NEW p \in Pieces
  PROVE  /\ \A i, n : Holds(ps, i, n) => Holds(Append(ps, p), i, n)
         /\ \A n \in p.from..p.to : Holds(Append(ps, p), p.word, n)
<1>1. Len(ps) \in Nat /\ Len(Append(ps, p)) = Len(ps) + 1 /\ Append(ps, p)[Len(ps) + 1] = p
        /\ \A k \in 1..Len(ps) : Append(ps, p)[k] = ps[k]
  BY DEF Atoms
<1>2. Len(ps) + 1 \in 1..(Len(ps) + 1) /\ \A k \in 1..Len(ps) : k \in 1..(Len(ps) + 1)
  BY <1>1
<1>3. QED
  BY <1>1, <1>2 DEF Holds

LEMMA BeginsLess ==
  ASSUME NEW ps \in Atoms, NEW p \in Pieces, Begins(Append(ps, p))
  PROVE  /\ Begins(ps) /\ Place(p)
         /\ ps = <<>> => p.word = 1 /\ p.from = 1
         /\ ps # <<>> => Place(ps[Len(ps)]) /\ Follows(ps[Len(ps)], p)
<1> DEFINE t == Append(ps, p)
           m == Len(ps)
<1>1. m \in Nat /\ Len(t) = m + 1 /\ t[m + 1] = p /\ \A k \in 1..m : t[k] = ps[k]
  BY DEF Atoms
<1>2. /\ \A k \in 1..(m + 1) : Place(t[k])
      /\ \A k \in 1..m : Follows(t[k], t[k + 1])
      /\ t # <<>> => t[1].word = 1 /\ t[1].from = 1
  <2>1. (m + 1) - 1 = m
    BY <1>1
  <2> HIDE DEF m
  <2>2. Len(t) = m + 1 /\ Ordered(t) /\ (t # <<>> => t[1].word = 1 /\ t[1].from = 1)
    BY <1>1 DEF Begins
  <2> HIDE DEF t
  <2>3. QED
    BY <2>1, <2>2 DEF Ordered
<1>3. t # <<>>
  BY <1>1
<1>4. ps = <<>> <=> m = 0
  BY DEF Atoms
<1> HIDE DEF t, m
<1>5. \A k \in 1..m : Place(ps[k])
  <2>1. \A k \in 1..m : k \in 1..(m + 1)
    BY <1>1
  <2>2. QED
    BY <1>1, <1>2, <2>1
<1>6. \A k \in 1..(m - 1) : Follows(ps[k], ps[k + 1])
  <2>1. \A k \in 1..(m - 1) : k \in 1..m /\ k + 1 \in 1..m
    BY <1>1
  <2>2. QED
    BY <1>1, <1>2, <2>1
<1>7. Ordered(ps)
  BY <1>5, <1>6 DEF Ordered, m
<1>8. Place(p)
  <2>1. m + 1 \in 1..(m + 1)
    BY <1>1
  <2>2. QED
    BY <1>1, <1>2, <2>1
<1>9. CASE m = 0
  BY <1>1, <1>2, <1>3, <1>4, <1>7, <1>8, <1>9 DEF Begins
<1>10. CASE m # 0
  <2>1. 1 \in 1..m /\ m \in 1..m
    BY <1>1, <1>10
  <2>2. ps[1].word = 1 /\ ps[1].from = 1
    BY <1>1, <1>2, <1>3, <2>1
  <2>3. Begins(ps)
    BY <1>7, <2>2 DEF Begins
  <2>4. Place(ps[m]) /\ Follows(ps[m], p)
    BY <1>1, <1>2, <1>5, <2>1
  <2>5. QED
    BY <1>4, <1>8, <1>10, <2>3, <2>4 DEF m
<1>11. QED
  BY <1>9, <1>10

LEMMA CoversMore ==
  ASSUME TextTyped, NEW ps \in Atoms, NEW p \in Pieces, NEW q \in Pieces, Place(q),
    Place(p),
         Covers(ps, q), Follows(q, p)
  PROVE  Covers(Append(ps, p), p)
<1> DEFINE t == Append(ps, p)
<1>1. Count(t) = Count(ps) + (p.to - p.from + 1) /\ Count(ps) \in Nat
  BY CountMore, CountType DEF Tokens
<1>2. (\A i, n : Holds(ps, i, n) => Holds(t, i, n))
        /\ \A n \in p.from..p.to : Holds(t, p.word, n)
  BY HoldsMore
<1>3. /\ Count(ps) = Count(Words(1, q.word - 1)) + q.to
      /\ \A i \in 1..(q.word - 1) : \A n \in 1..text[i].size : Holds(ps, i, n)
      /\ \A n \in 1..q.to : Holds(ps, q.word, n)
  BY DEF Covers
<1>4. p.word \in Nat /\ p.from \in Nat /\ p.to \in Nat /\ q.word \in 1..Len(text)
        /\ q.word \in Nat /\ q.to \in Nat
  BY DEF Place, Pieces
<1>5. Words(1, q.word) = Append(Words(1, q.word - 1), Whole(q.word))
        /\ Words(1, q.word - 1) \in Atoms
  BY <1>4, WordsMore
<1>6. Whole(q.word) \in Pieces /\ Tokens(Whole(q.word)) = text[q.word].size
        /\ text[q.word].size \in Nat
  BY <1>4, WordIs
<1>7. Count(Words(1, q.word)) = Count(Words(1, q.word - 1)) + text[q.word].size
        /\ Count(Words(1, q.word - 1)) \in Nat
  BY <1>5, <1>6, CountMore, CountType
<1> HIDE DEF t
<1>8. CASE p.word = q.word /\ p.from = q.to + 1
  <2>1. Count(t) = Count(Words(1, p.word - 1)) + p.to
    <3>1. Count(ps) = Count(Words(1, p.word - 1)) + q.to
            /\ Count(Words(1, p.word - 1)) \in Nat
      BY <1>3, <1>7, <1>8
    <3>2. p.to \in Nat /\ q.to \in Nat /\ p.from = q.to + 1
      BY <1>4, <1>8
    <3>3. Count(t) = Count(ps) + (p.to - p.from + 1)
      BY <1>1
    <3>4. QED
      BY ONLY <3>1, <3>2, <3>3
  <2>2. \A i \in 1..(p.word - 1) : \A n \in 1..text[i].size : Holds(t, i, n)
    BY <1>2, <1>3, <1>8
  <2>3. ASSUME NEW n \in 1..p.to PROVE Holds(t, p.word, n)
    <3>1. n \in 1..q.to \/ n \in p.from..p.to
      BY <1>4, <1>8
    <3>2. QED
      BY <1>2, <1>3, <1>8, <3>1
  <2>4. QED
    BY <2>1, <2>2, <2>3 DEF Covers, t
<1>9. CASE p.word = q.word + 1 /\ p.from = 1 /\ q.to = text[q.word].size
  <2>0. p.word - 1 = q.word
    BY <1>4, <1>9
  <2>1. Count(t) = Count(Words(1, p.word - 1)) + p.to
    <3>1. Count(t) = Count(Words(1, q.word)) + p.to
      <4>1. Count(ps) = Count(Words(1, q.word - 1)) + text[q.word].size
        BY <1>3, <1>9
      <4>2. p.to \in Nat /\ p.from = 1 /\ text[q.word].size \in Nat
        BY <1>4, <1>6, <1>9
      <4>3. Count(t) = Count(ps) + (p.to - p.from + 1)
        BY <1>1
      <4>4. QED
        BY ONLY <1>7, <4>1, <4>2, <4>3
    <3>2. QED
      BY <2>0, <3>1
  <2>2. ASSUME NEW i \in 1..(p.word - 1), NEW n \in 1..text[i].size PROVE Holds(t, i, n)
    <3>1. i \in 1..(q.word - 1) \/ i = q.word
      BY <1>4, <2>0
    <3>2. QED
      BY <1>2, <1>3, <1>9, <3>1
  <2>3. \A n \in 1..p.to : Holds(t, p.word, n)
    BY <1>2, <1>9
  <2>4. QED
    BY <2>1, <2>2, <2>3 DEF Covers, t
<1>10. QED
  BY <1>8, <1>9 DEF Follows

LEMMA CoversFirst ==
  ASSUME TextTyped, NEW p \in Pieces, Place(p), p.word = 1, p.from = 1
  PROVE  Covers(Append(<<>>, p), p)
<1> DEFINE t == Append(<<>>, p)
<1>1. <<>> \in Atoms
  BY DEF Atoms
<1>2. Count(t) = Count(<<>>) + (p.to - p.from + 1) /\ p.to \in Nat
  BY <1>1, CountMore DEF Tokens, Pieces
<1>3. Count(t) = p.to
  BY <1>2, CountNone
<1>4. Words(1, 0) = <<>>
  <2>1. 1 \in 1..Len(text)
    BY DEF Place
  <2>2. QED
    BY <2>1, WordsMore
<1>5. \A n \in p.from..p.to : Holds(t, p.word, n)
  BY <1>1, HoldsMore
<1> HIDE DEF t
<1>6. Count(t) = Count(Words(1, p.word - 1)) + p.to
  <2>1. p.word - 1 = 0
    OBVIOUS
  <2>2. Count(Words(1, p.word - 1)) = 0
    BY <1>4, <2>1, CountNone
  <2>3. QED
    BY <1>2, <1>3, <2>2
<1>7. \A i \in 1..(p.word - 1) : \A n \in 1..text[i].size : Holds(t, i, n)
  OBVIOUS
<1>8. \A n \in 1..p.to : Holds(t, p.word, n)
  BY <1>5
<1>9. QED
  BY <1>6, <1>7, <1>8 DEF Covers, t

LEMMA Covered ==
  ASSUME TextTyped, NEW ps \in Atoms, Begins(ps), ps # <<>>
  PROVE  ps[Len(ps)] \in Pieces /\ Place(ps[Len(ps)]) /\ Covers(ps, ps[Len(ps)])
<1> DEFINE Fine(t) == Begins(t) /\ t # <<>> => Covers(t, t[Len(t)])
           P == {t \in Seq(Pieces) : Fine(t)}
<1>1. <<>> \in P
  OBVIOUS
<1>2. ASSUME NEW t \in Seq(Pieces), NEW p \in Pieces, t \in P PROVE Append(t, p) \in P
  <2> DEFINE u == Append(t, p)
  <2>1. u \in Seq(Pieces) /\ u[Len(u)] = p /\ t \in Atoms
    BY DEF Atoms
  <2>2. Fine(t)
    BY <1>2
  <2>3. ASSUME Begins(u) PROVE Covers(u, p)
    <3>1. /\ Begins(t) /\ Place(p)
          /\ t = <<>> => p.word = 1 /\ p.from = 1
          /\ t # <<>> => Place(t[Len(t)]) /\ Follows(t[Len(t)], p)
      BY <2>1, <2>3, BeginsLess
    <3>2. CASE t = <<>>
      BY <3>1, <3>2, CoversFirst
    <3>3. CASE t # <<>>
      <4>1. t[Len(t)] \in Pieces
        BY <3>3
      <4>2. Covers(t, t[Len(t)])
        BY <2>2, <3>1, <3>3
      <4> DEFINE q == t[Len(t)]
      <4> HIDE DEF q
      <4>3. q \in Pieces /\ Place(q) /\ Follows(q, p) /\ Covers(t, q)
        BY <3>1, <3>3, <4>1, <4>2 DEF q
      <4>4. QED
        BY <2>1, <3>1, <4>3, CoversMore
    <3>4. QED
      BY <3>2, <3>3
  <2>4. Fine(u)
    BY <2>1, <2>3
  <2> HIDE DEF Fine
  <2>5. QED
    BY <2>1, <2>4
<1> HIDE DEF P
<1>3. \A t \in Seq(Pieces) : t \in P
  BY <1>1, <1>2, BySequence
<1>4. Fine(ps)
  BY <1>3 DEF P, Atoms
<1>5. Len(ps) \in 1..Len(ps) /\ ps[Len(ps)] \in Pieces
  BY DEF Atoms
<1>6. QED
  BY <1>4, <1>5 DEF Begins, Ordered

(* A run from the beginning counts as many as its words, and holds them.   *)
LEMMA RunCovers ==
  ASSUME TextTyped, NEW j \in 1..Len(text), NEW ps, Run(ps, 1, j)
  PROVE  /\ Count(ps) = Count(Words(1, j)) /\ ps \in Atoms /\ ps # <<>>
         /\ \A i \in 1..j : \A n \in 1..text[i].size : Holds(ps, i, n)
<1> DEFINE q == ps[Len(ps)]
<1>0. j \in Nat
  OBVIOUS
<1>1. ps \in Atoms /\ ps # <<>> /\ Begins(ps) /\ q.word = j /\ q.to = text[j].size
  <2>1. Ordered(ps) /\ (ps = <<>> => 1 = j + 1)
    BY DEF Run
  <2>2. ps # <<>>
    BY <1>0, <2>1
  <2>3. ps \in Atoms
    BY <2>1 DEF Ordered
  <2>4. QED
    BY <2>1, <2>2, <2>3 DEF Run, Begins
<1>2. q \in Pieces /\ Covers(ps, q)
  BY <1>1, Covered
<1> HIDE DEF q
<1>3. /\ Count(ps) = Count(Words(1, j - 1)) + text[j].size
      /\ \A i \in 1..(j - 1) : \A n \in 1..text[i].size : Holds(ps, i, n)
      /\ \A n \in 1..text[j].size : Holds(ps, j, n)
  BY <1>1, <1>2 DEF Covers
<1>4. Words(1, j) = Append(Words(1, j - 1), Whole(j)) /\ Words(1, j - 1) \in Atoms
        /\ Whole(j) \in Pieces /\ Tokens(Whole(j)) = text[j].size
  BY WordsMore, WordIs
<1>5. Count(Words(1, j)) = Count(Words(1, j - 1)) + text[j].size
  BY <1>4, CountMore
<1>6. \A i \in 1..j : i \in 1..(j - 1) \/ i = j
  BY <1>0
<1>7. QED
  BY <1>1, <1>3, <1>5, <1>6

-----------------------------------------------------------------------------
(* The steps that cut.                                                     *)
LEMMA CutKept ==
  ASSUME CutInv, text' = text, cursor' \in 2..Len(text) + 1, limit' \in 0..Len(text),
         limit' # 0 => cursor' <= limit'
           /\ (text[limit'].end = "part" \/ limit' = Len(text)),
         atoms' \in Seq(Atoms), NonEmpty(atoms'), Run(FlattenSeq(atoms'), 1, cursor' - 1)
  PROVE  CutInv'
<1>1. TextTyped'
  BY DEF CutInv, TextTyped
<1>2. Run(FlattenSeq(atoms'), 1, cursor' - 1) = (Run(FlattenSeq(atoms), 1, cursor - 1))'
  BY DEF Run, Ordered, Place, Follows
<1>3. cursor' \in 1..Len(text) + 1 /\ cursor' # 1 /\ Len(text) \in Nat
  BY DEF CutInv, TextTyped
<1>4. NonEmpty(atoms)' = NonEmpty(atoms')
  BY DEF NonEmpty
<1>5. QED
  BY <1>1, <1>2, <1>3, <1>4 DEF CutInv

LEMMA CutSame ==
  ASSUME CutInv, UNCHANGED cutting
  PROVE  CutInv'
<1>1. text' = text /\ cursor' = cursor /\ limit' = limit /\ atoms' = atoms
  BY DEF cutting
<1>2. QED
  BY <1>1 DEF CutInv, TextTyped, NonEmpty, Run, Ordered, Place, Follows

LEMMA CutTextArrives ==
  ASSUME CutInv, TextArrives
  PROVE  CutInv'
<1>1. PICK n \in 1..MaxWords : text' \in [1..n -> [size : Sizes, end : EndKinds]]
  BY DEF TextArrives
<1>2. text = <<>> /\ cursor' = cursor /\ limit' = limit /\ atoms' = atoms
  BY DEF TextArrives
<1>3. n \in Nat /\ n >= 1
  BY <1>1, ChunkBounds
<1>4. text' \in Seq([size : Nat \ {0}, end : EndKinds]) /\ Len(text') = n
  <2>1. [size : Sizes, end : EndKinds] \subseteq [size : Nat \ {0}, end : EndKinds]
    BY ChunkBounds
  <2> DEFINE A == [size : Sizes, end : EndKinds]
             B == [size : Nat \ {0}, end : EndKinds]
  <2> HIDE DEF A, B
  <2>2. text' \in [1..n -> A] /\ A \subseteq B
    BY <1>1, <2>1 DEF A, B
  <2>3. text' \in Seq(B) /\ Len(text') = n
    BY <1>3, <2>2
  <2>4. QED
    BY <2>3 DEF B
<1>5. cursor = 1 /\ limit = 0 /\ atoms = <<>>
  <2>1. Len(text) = 0 /\ cursor \in 1..Len(text) + 1 /\ limit \in 0..Len(text)
    BY <1>2 DEF CutInv
  <2>2. cursor = 1 /\ limit = 0
    BY <2>1
  <2>3. QED
    BY <2>2 DEF CutInv
<1>6. TextTyped'
  BY <1>4 DEF TextTyped
<1>7. (Run(FlattenSeq(atoms), 1, cursor - 1))'
  <2>1. FlattenSeq(atoms') = <<>> /\ cursor' - 1 = 0
    BY <1>2, <1>5, FlattenNone
  <2>2. <<>> \in Seq(Pieces) /\ Len(<<>>) = 0
    OBVIOUS
  <2>3. Ordered(<<>>)'
    BY <2>2 DEF Ordered, Atoms
  <2>4. Run(<<>>, 1, 0)'
    BY <2>3 DEF Run, Ordered
  <2>5. QED
    BY <2>1, <2>4 DEF Run, Ordered, Place, Follows
<1>8. QED
  <2>1. atoms' = <<>> /\ <<>> \in Seq(Atoms) /\ Len(<<>>) = 0
    BY <1>2, <1>5
  <2>2. atoms' \in Seq(Atoms) /\ NonEmpty(atoms)'
    BY <2>1 DEF NonEmpty
  <2>3. cursor' = 1 /\ limit' = 0 /\ Len(text') \in Nat
    BY <1>2, <1>3, <1>4, <1>5
  <2>4. cursor' \in 1..Len(text') + 1 /\ limit' \in 0..Len(text')
    BY <2>3
  <2>5. QED
    BY <1>6, <1>7, <2>1, <2>2, <2>3, <2>4 DEF CutInv

LEMMA CutPartWhole ==
  ASSUME CutInv, PartWhole
  PROVE  CutInv'
<1> DEFINE e == EndOf(cursor, {"part"})
<1>1. limit = 0 /\ cursor <= Len(text) /\ atoms' = Append(atoms, Words(cursor, e))
        /\ cursor' = e + 1
        /\ text' = text /\ limit' = limit
  BY DEF PartWhole
<1>2. TextTyped /\ cursor \in 1..Len(text) /\ Len(text) \in Nat
  BY <1>1 DEF CutInv, TextTyped
<1>3. e \in cursor..Len(text)
  BY <1>2, EndIs
<1> HIDE DEF e
<1>4. e \in Nat /\ e + 1 \in 2..Len(text) + 1 /\ (e + 1) - 1 = e
  BY <1>2, <1>3
<1>5. /\ Append(atoms, Words(cursor, e)) \in Seq(Atoms)
           /\ NonEmpty(Append(atoms, Words(cursor, e)))
      /\ Run(FlattenSeq(Append(atoms, Words(cursor, e))), 1, e)
  BY <1>3, CutWords
<1>6. limit' = 0 /\ limit' \in 0..Len(text)
  BY <1>1, <1>2
<1>7. atoms' \in Seq(Atoms) /\ NonEmpty(atoms') /\ Run(FlattenSeq(atoms'), 1, cursor' - 1)
        /\ cursor' \in 2..Len(text) + 1
  BY <1>1, <1>4, <1>5
<1>8. QED
  BY <1>1, <1>6, <1>7, CutKept

LEMMA CutPartSplit ==
  ASSUME CutInv, PartSplit
  PROVE  CutInv'
<1> DEFINE e == EndOf(cursor, {"part"})
<1>1. cursor <= Len(text) /\ limit' = e /\ text' = text /\ cursor' = cursor
        /\ atoms' = atoms
  BY DEF PartSplit
<1>2. TextTyped /\ cursor \in 1..Len(text) /\ Len(text) \in Nat
  BY <1>1 DEF CutInv, TextTyped
<1>3. e \in cursor..Len(text) /\ (text[e].end \in {"part"} \/ e = Len(text))
  BY <1>2, EndIs
<1> HIDE DEF e
<1>4. limit' \in 0..Len(text) /\ cursor <= limit'
        /\ (text[limit'].end = "part" \/ limit' = Len(text))
  BY <1>1, <1>2, <1>3
<1>5. QED
  BY <1>1, <1>4 DEF CutInv, TextTyped, NonEmpty, Run, Ordered, Place, Follows

LEMMA CutNextSentence ==
  ASSUME CutInv, NextSentence
  PROVE  CutInv'
<1> DEFINE e == EndOf(cursor, {"sentence", "part"})
           s == Words(cursor, e)
<1>1. /\ limit # 0 /\ cursor' = e + 1 /\ limit' = (IF e = limit THEN 0 ELSE limit)
           /\ text' = text
      /\ \/ atoms' = Append(atoms, s)
         \/ atoms' = atoms \o Oversized(s)
  BY DEF NextSentence
<1>2. TextTyped /\ cursor \in 1..Len(text) /\ Len(text) \in Nat /\ limit \in 1..Len(text)
        /\ cursor <= limit
        /\ (text[limit].end = "part" \/ limit = Len(text))
  <2>1. TextTyped /\ cursor \in 1..Len(text) + 1 /\ Len(text) \in Nat
          /\ limit \in 0..Len(text) /\ cursor <= limit
          /\ (text[limit].end = "part" \/ limit = Len(text))
    BY <1>1 DEF CutInv, TextTyped
  <2>2. QED
    BY <1>1, <2>1
<1>3. e \in cursor..Len(text)
        /\ \A k \in cursor..e - 1 : text[k].end \notin {"sentence", "part"}
  BY <1>2, EndIs
<1> HIDE DEF e
<1>4. e <= limit
  <2>1. SUFFICES ASSUME limit < e PROVE FALSE
    BY <1>2, <1>3
  <2>2. limit \in cursor..e - 1 /\ limit # Len(text)
    BY <1>2, <1>3, <2>1
  <2>3. text[limit].end \notin {"sentence", "part"}
    BY <1>3, <2>2
  <2>4. QED
    BY <1>2, <2>2, <2>3
<1>5. e \in Nat /\ e + 1 \in 2..Len(text) + 1 /\ (e + 1) - 1 = e
  BY <1>2, <1>3
<1>6. limit' \in 0..Len(text)
        /\ (limit' # 0 => cursor' <= limit'
             /\ (text[limit'].end = "part" \/ limit' = Len(text)))
  <2>1. CASE e = limit
    BY <1>1, <1>2, <2>1
  <2>2. CASE e # limit
    BY <1>1, <1>2, <1>3, <1>4, <2>2
  <2>3. QED
    BY <2>1, <2>2
<1>7. atoms' \in Seq(Atoms) /\ NonEmpty(atoms') /\ Run(FlattenSeq(atoms'), 1, e)
  <2>1. CASE atoms' = Append(atoms, s)
    <3>1. /\ Append(atoms, s) \in Seq(Atoms) /\ NonEmpty(Append(atoms, s))
          /\ Run(FlattenSeq(Append(atoms, s)), 1, e)
      BY <1>3, CutWords
    <3>2. QED
      BY <2>1, <3>1
  <2>2. CASE atoms' = atoms \o Oversized(s)
    <3>1. Oversized(s) \in Seq(Atoms) /\ NonEmpty(Oversized(s))
            /\ Run(FlattenSeq(Oversized(s)), cursor, e)
      BY <1>2, <1>3, OversizedIs
    <3> DEFINE o == Oversized(s)
    <3> HIDE DEF o
    <3>2. o \in Seq(Atoms) /\ NonEmpty(o) /\ Run(FlattenSeq(o), cursor, e)
      BY <3>1 DEF o
    <3>3. /\ atoms \o o \in Seq(Atoms) /\ NonEmpty(atoms \o o)
               /\ Run(FlattenSeq(atoms \o o), 1, e)
      BY <1>3, <3>2, CutMore
    <3>4. QED
      BY <2>2, <3>3 DEF o
  <2>3. QED
    BY <1>1, <2>1, <2>2
<1>8. Run(FlattenSeq(atoms'), 1, cursor' - 1) /\ cursor' \in 2..Len(text) + 1
  BY <1>1, <1>5, <1>7
<1>9. QED
  BY <1>1, <1>6, <1>7, <1>8, CutKept

-----------------------------------------------------------------------------
(* Packing: the atoms that were taken, without what is repeated, are the   *)
(* first ones, each once and in order.                                     *)
Long(c) == \E a \in ToSet(c) : Count(a) > Target

Within(c, r) ==
  Weigh(c) > Target => (r > 0 \/ Long(c)) /\ (~Long(c) => Weigh(c) <= 2 * Target)

Unrepeated(cs, rs) == [k \in DOMAIN cs |-> SubSeq(cs[k], rs[k] + 1, Len(cs[k]))]

Packing(ats, n, f, c, cs, rs) ==
  /\ ats \in Seq(Atoms) /\ n \in 0..Len(ats)
  /\ f \in Seq(Atoms) /\ c \in 0..Len(f) /\ Within(f, c)
  /\ cs \in Seq(Seq(Atoms)) /\ rs \in Seq(Nat) /\ Len(rs) = Len(cs)
  /\ \A k \in 1..Len(cs) : rs[k] \in 0..Len(cs[k]) /\ Within(cs[k], rs[k])
  /\ FlattenSeq(Unrepeated(cs, rs)) \o SubSeq(f, c + 1, Len(f)) = SubSeq(ats, 1, n)
  /\ cs = <<>> => c = 0
  /\ cs # <<>> => rs[1] = 0

LEMMA WithinNone == Within(<<>>, 0)
<1>1. Weigh(<<>>) <= Target
  BY WeighNone, ChunkBounds
<1>2. ~(Weigh(<<>>) > Target)
  BY <1>1, WeighNone, ChunkBounds
<1>3. QED
  BY <1>2 DEF Within

LEMMA WithinFits ==
  ASSUME NEW c \in Seq(Atoms), Weigh(c) <= Target, NEW r
  PROVE  Within(c, r)
<1>1. ~(Weigh(c) > Target)
  BY WeighType, ChunkBounds
<1>2. QED
  BY <1>1 DEF Within

(* A first atom, or one after those that are repeated.                     *)
LEMMA WithinStarted ==
  ASSUME NEW c \in Seq(Atoms), NEW a \in Atoms,
         c = <<>> \/ Len(c) = 1 \/ Weigh(c) <= Overlap
  PROVE  Within(c, Len(c)) /\ Within(Append(c, a), Len(c))
<1> DEFINE d == Append(c, a)
           n == Len(c)
<1>1. n \in Nat /\ d \in Seq(Atoms) /\ Len(d) = n + 1 /\ d[n + 1] = a
        /\ \A k \in 1..n : d[k] = c[k]
  OBVIOUS
<1>2. Weigh(d) = Weigh(c) + Count(a) /\ Weigh(c) \in Nat /\ Count(a) \in Nat
  BY WeighMore, WeighType, CountType
<1>3. (Count(a) > Target => Long(d)) /\ \A k \in 1..n : Count(c[k]) > Target
        => Long(d) /\ Long(c)
  <2>1. DOMAIN d = 1..(n + 1) /\ DOMAIN c = 1..n /\ n + 1 \in 1..(n + 1)
          /\ \A k \in 1..n : k \in 1..(n + 1)
    BY <1>1
  <2>2. a \in ToSet(d)
    BY <1>1, <2>1 DEF ToSet
  <2>3. \A k \in 1..n : c[k] \in ToSet(d) /\ c[k] \in ToSet(c)
    BY <1>1, <2>1 DEF ToSet
  <2> HIDE DEF d, n
  <2>4. QED
    BY <2>2, <2>3 DEF Long
<1>4. CASE c = <<>>
  <2>1. Weigh(c) = 0 /\ n = 0
    BY <1>4, WeighNone
  <2>2. Weigh(d) > Target => Long(d)
    BY <1>2, <1>3, <2>1
  <2> HIDE DEF d, n
  <2>3. Within(d, n) /\ Within(c, n)
    BY <1>2, <2>1, <2>2, ChunkBounds DEF Within
  <2>4. QED
    BY <2>3 DEF d, n
<1>5. CASE n = 1
  <2>1. Weigh(c) = Count(c[1])
    <3>1. c = Append(<<>>, c[1]) /\ <<>> \in Seq(Atoms) /\ c[1] \in Atoms
      BY <1>5
    <3>2. Weigh(Append(<<>>, c[1])) = Weigh(<<>>) + Count(c[1]) /\ Count(c[1]) \in Nat
      BY <3>1, WeighMore, CountType
    <3>3. QED
      BY <3>1, <3>2, WeighNone
  <2>2. Weigh(c) > Target => Long(d) /\ Long(c)
    <3>1. 1 \in 1..n
      BY <1>5
    <3>2. QED
      BY <1>3, <2>1, <3>1
  <2>3. ~Long(d) => Weigh(d) <= 2 * Target
    BY <1>2, <1>3, <2>2, ChunkBounds
  <2>4. ~Long(c) => Weigh(c) <= 2 * Target
    BY <1>2, <2>2, ChunkBounds
  <2>5. n > 0
    BY <1>5
  <2> HIDE DEF d, n
  <2>6. Within(d, n) /\ Within(c, n)
    BY <2>3, <2>4, <2>5 DEF Within
  <2>7. QED
    BY <2>6 DEF d, n
<1>6. CASE c # <<>> /\ Weigh(c) <= Overlap
  <2>1. n > 0
    BY <1>1, <1>6
  <2>2. ~Long(d) => Weigh(d) <= 2 * Target
    BY <1>2, <1>3, <1>6, ChunkBounds
  <2>3. Weigh(c) <= Target
    BY <1>2, <1>6, ChunkBounds
  <2> HIDE DEF d, n
  <2>4. Within(d, n)
    BY <2>1, <2>2 DEF Within
  <2>5. Within(c, n)
    BY <2>3, WithinFits
  <2>6. QED
    BY <2>4, <2>5 DEF d, n
<1>7. QED
  BY <1>4, <1>5, <1>6

LEMMA RepeatedIs ==
  ASSUME NEW c \in Seq(Atoms), c # <<>>
  PROVE  /\ Repeated(c) \in Seq(Atoms)
         /\ Repeated(c) = <<>> \/ Len(Repeated(c)) = 1 \/ Weigh(Repeated(c)) <= Overlap
<1> DEFINE n == Len(c)
           fits == {k \in 1..n : k = 1 \/ Weigh(SubSeq(c, n - k + 1, n)) <= Overlap}
           most == CHOOSE k \in fits : \A j \in fits : j <= k
<1>1. n \in Nat /\ n >= 1
  OBVIOUS
<1>2. Repeated(c) = IF Overlap = 0 \/ most = n THEN <<>> ELSE SubSeq(c, n - most + 1, n)
  BY DEF Repeated
<1>3. most \in 1..n /\ (most = 1 \/ Weigh(SubSeq(c, n - most + 1, n)) <= Overlap)
  <2>1. 1 \in fits /\ fits \in SUBSET (1..n)
    BY <1>1
  <2> HIDE DEF n, fits
  <2>2. \E m \in fits : \A j \in fits : j <= m
    <3>1. Max(fits) \in fits /\ \A j \in fits : Max(fits) >= j
      BY <1>1, <2>1, GreatestNumber
    <3>2. \A j \in fits : j \in Int
      BY <1>1, <2>1
    <3>3. QED
      BY <3>1, <3>2
  <2>3. most \in fits
    BY <2>2
  <2> HIDE DEF most
  <2>4. QED
    BY <2>3 DEF fits
<1> HIDE DEF most, fits
<1>4. CASE Overlap = 0 \/ most = n
  <2>1. Repeated(c) = <<>>
    BY <1>2, <1>4
  <2>2. QED
    BY <2>1
<1>5. CASE ~(Overlap = 0 \/ most = n)
  <2>1. Repeated(c) = SubSeq(c, n - most + 1, n)
    BY <1>2, <1>5
  <2>2. n - most + 1 \in 1..n /\ n \in 1..n /\ n - (n - most + 1) + 1 = most
    BY <1>1, <1>3
  <2>3. SubSeq(c, n - most + 1, n) \in Seq(Atoms) /\ Len(SubSeq(c, n - most + 1, n)) = most
    <3>1. SubSeq(c, n - most + 1, n) \in Seq(Atoms)
             /\ Len(SubSeq(c, n - most + 1, n)) = n - (n - most + 1) + 1
      <4> DEFINE x == n - most + 1
      <4>1. x \in 1..n /\ n \in 1..n
        BY <2>2
      <4> HIDE DEF x
      <4>2. SubSeq(c, x, n) \in Seq(Atoms) /\ Len(SubSeq(c, x, n)) = n - x + 1
        BY <1>1, <4>1
      <4>3. QED
        BY <4>2 DEF x
    <3>2. QED
      BY <2>2, <3>1
  <2>4. QED
    BY <1>3, <2>1, <2>3
<1>6. QED
  BY <1>4, <1>5

Listed(a, m, S) == m \in Nat /\ a = [i \in 1..m |-> a[i]] /\ \A i \in 1..m : a[i] \in S

LEMMA IsSequence ==
  ASSUME NEW S, NEW m, NEW a, Listed(a, m, S)
  PROVE  a \in Seq(S) /\ Len(a) = m
BY DEF Listed

(* The end of a sequence that grows.                                       *)
LEMMA TailMore ==
  ASSUME NEW S, NEW s \in Seq(S), NEW x \in S, NEW c \in 0..Len(s)
  PROVE  /\ SubSeq(s, c + 1, Len(s)) \in Seq(S)
         /\ SubSeq(Append(s, x), c + 1, Len(s) + 1) = Append(SubSeq(s, c + 1, Len(s)), x)
<1> DEFINE n == Len(s)
           a == SubSeq(s, c + 1, n)
           t == Append(s, x)
           b == SubSeq(t, c + 1, n + 1)
<1>1. n \in Nat /\ c \in Nat /\ c <= n /\ t \in Seq(S) /\ Len(t) = n + 1 /\ t[n + 1] = x
        /\ (\A i \in 1..n : t[i] = s[i] /\ s[i] \in S) /\ \A i \in 1..(n + 1) : t[i] \in S
  OBVIOUS
<1>2. n - c \in Nat /\ (\A i \in 1..(n - c) : c + i \in 1..n)
        /\ \A i \in 1..(n - c) + 1 : c + i \in 1..(n + 1)
  BY <1>1
<1>4. a \in Seq(S) /\ Len(a) = n - c /\ \A i \in 1..(n - c) : a[i] = s[c + i]
  BY TailIs
<1>5. b \in Seq(S) /\ Len(b) = (n - c) + 1 /\ \A i \in 1..(n - c) + 1 : b[i] = t[c + i]
  <2> HIDE DEF t, n
  <2>1. t \in Seq(S) /\ Len(t) = n + 1 /\ c \in 0..Len(t) /\ (n + 1) - c = (n - c) + 1
    BY <1>1
  <2>2. /\ SubSeq(t, c + 1, Len(t)) \in Seq(S) /\ Len(SubSeq(t, c + 1, Len(t))) = Len(t) - c
        /\ \A i \in 1..(Len(t) - c) : SubSeq(t, c + 1, Len(t))[i] = t[c + i]
    BY <2>1, TailIs
  <2>3. QED
    BY <2>1, <2>2
<1> HIDE DEF a, b, t, n
<1>6. Append(a, x) \in Seq(S) /\ Len(Append(a, x)) = (n - c) + 1
        /\ Append(a, x)[(n - c) + 1] = x
        /\ \A i \in 1..(n - c) : Append(a, x)[i] = a[i]
  BY <1>2, <1>4
<1>7. ASSUME NEW i \in 1..(n - c) + 1 PROVE b[i] = Append(a, x)[i]
  <2>1. CASE i = (n - c) + 1
    <3>1. c + i = n + 1
      BY <1>1, <2>1
    <3>2. QED
      BY <1>1, <1>5, <1>6, <2>1, <3>1
  <2>2. CASE i # (n - c) + 1
    <3>1. i \in 1..(n - c)
      BY <1>2, <2>2
    <3>2. QED
      BY <1>1, <1>2, <1>4, <1>5, <1>6, <3>1
  <2>3. QED
    BY <2>1, <2>2
<1>8. b = Append(a, x)
  BY <1>5, <1>6, <1>7, SeqEqual
<1>9. QED
  BY <1>4, <1>8 DEF a, b, t, n

LEMMA HeadMore ==
  ASSUME NEW S, NEW s \in Seq(S), NEW n \in Nat, n < Len(s)
  PROVE  /\ SubSeq(s, 1, n) \in Seq(S) /\ s[n + 1] \in S
         /\ SubSeq(s, 1, n + 1) = Append(SubSeq(s, 1, n), s[n + 1])
<1> DEFINE a == SubSeq(s, 1, n)
           b == SubSeq(s, 1, n + 1)
<1>1. a \in Seq(S) /\ Len(a) = n /\ \A i \in 1..n : a[i] = s[i]
  OBVIOUS
<1>2. b \in Seq(S) /\ Len(b) = n + 1 /\ \A i \in 1..(n + 1) : b[i] = s[i]
  OBVIOUS
<1>3. s[n + 1] \in S
  OBVIOUS
<1> HIDE DEF a, b
<1>4. Append(a, s[n + 1]) \in Seq(S) /\ Len(Append(a, s[n + 1])) = n + 1
        /\ Append(a, s[n + 1])[n + 1] = s[n + 1]
             /\ \A i \in 1..n : Append(a, s[n + 1])[i] = a[i]
  BY <1>1, <1>3
<1>5. \A i \in 1..(n + 1) : i = n + 1 \/ i \in 1..n
  OBVIOUS
<1>6. \A i \in 1..(n + 1) : b[i] = Append(a, s[n + 1])[i]
  BY <1>1, <1>2, <1>4, <1>5
<1>7. b = Append(a, s[n + 1])
  BY <1>2, <1>4, <1>6, SeqEqual
<1>8. QED
  BY <1>1, <1>3, <1>7 DEF a, b

LEMMA FreshType ==
  ASSUME NEW cs \in Seq(Seq(Atoms)), NEW rs \in Seq(Nat), Len(rs) = Len(cs),
         \A k \in 1..Len(cs) : rs[k] \in 0..Len(cs[k])
  PROVE  /\ Unrepeated(cs, rs) \in Seq(Seq(Atoms)) /\ Len(Unrepeated(cs, rs)) = Len(cs)
         /\ \A k \in 1..Len(cs) : Unrepeated(cs, rs)[k]
              = SubSeq(cs[k], rs[k] + 1, Len(cs[k]))
<1>1. Len(cs) \in Nat /\ DOMAIN cs = 1..Len(cs)
  OBVIOUS
<1>2. ASSUME NEW k \in 1..Len(cs) PROVE SubSeq(cs[k], rs[k] + 1, Len(cs[k])) \in Seq(Atoms)
  <2>1. cs[k] \in Seq(Atoms) /\ rs[k] \in 0..Len(cs[k])
    OBVIOUS
  <2> DEFINE d == cs[k]
             r == rs[k]
  <2> HIDE DEF d, r
  <2>2. d \in Seq(Atoms) /\ r \in 0..Len(d)
    BY <2>1 DEF d, r
  <2>3. <<>> \in Atoms
    BY DEF Atoms
  <2>4. SubSeq(d, r + 1, Len(d)) \in Seq(Atoms)
    BY <2>2, <2>3, TailMore
  <2>5. QED
    BY <2>4 DEF d, r
<1>3. Unrepeated(cs, rs) = [k \in 1..Len(cs) |-> SubSeq(cs[k], rs[k] + 1, Len(cs[k]))]
  BY <1>1 DEF Unrepeated
<1> DEFINE f == Unrepeated(cs, rs)
<1> HIDE DEF f
<1>4. \A k \in 1..Len(cs) : f[k] = SubSeq(cs[k], rs[k] + 1, Len(cs[k]))
  BY <1>3 DEF f
<1>5. f = [k \in 1..Len(cs) |-> f[k]] /\ \A k \in 1..Len(cs) : f[k] \in Seq(Atoms)
  BY <1>2, <1>3, <1>4 DEF f
<1>6. f \in Seq(Seq(Atoms)) /\ Len(f) = Len(cs)
  <2>1. Listed(f, Len(cs), Seq(Atoms))
    BY <1>1, <1>5 DEF Listed
  <2>2. QED
    BY <2>1, IsSequence
<1>7. QED
  BY <1>4, <1>6 DEF f

LEMMA PackingNone ==
  ASSUME NEW ats \in Seq(Atoms)
  PROVE  Packing(ats, 0, <<>>, 0, <<>>, <<>>)
<1>1. Len(<<>>) = 0 /\ Len(ats) \in Nat /\ <<>> \in Seq(Atoms) /\ <<>> \in Seq(Seq(Atoms))
        /\ <<>> \in Seq(Nat)
  OBVIOUS
<1>2. Unrepeated(<<>>, <<>>) = <<>>
  BY DEF Unrepeated
<1>3. FlattenSeq(Unrepeated(<<>>, <<>>)) = <<>>
  BY <1>2, FlattenNone
<1>4. SubSeq(<<>>, 0 + 1, Len(<<>>)) = <<>> /\ SubSeq(ats, 1, 0) = <<>>
        /\ <<>> \o <<>> = <<>>
  OBVIOUS
<1>5. FlattenSeq(Unrepeated(<<>>, <<>>)) \o SubSeq(<<>>, 0 + 1, Len(<<>>))
        = SubSeq(ats, 1, 0)
  BY <1>3, <1>4
<1>6. QED
  BY <1>1, <1>5, WithinNone DEF Packing

LEMMA PackingMore ==
  ASSUME NEW ats, NEW n, NEW f, NEW c, NEW cs, NEW rs, Packing(ats, n, f, c, cs, rs),
         n < Len(ats), Within(Append(f, ats[n + 1]), c)
  PROVE  Packing(ats, n + 1, Append(f, ats[n + 1]), c, cs, rs)
<1> DEFINE a == ats[n + 1]
           g == Append(f, a)
           fl == FlattenSeq(Unrepeated(cs, rs))
           t == SubSeq(f, c + 1, Len(f))
<1>1. /\ ats \in Seq(Atoms) /\ n \in 0..Len(ats)
      /\ f \in Seq(Atoms) /\ c \in 0..Len(f)
      /\ cs \in Seq(Seq(Atoms)) /\ rs \in Seq(Nat) /\ Len(rs) = Len(cs)
      /\ \A k \in 1..Len(cs) : rs[k] \in 0..Len(cs[k]) /\ Within(cs[k], rs[k])
      /\ fl \o t = SubSeq(ats, 1, n)
      /\ cs = <<>> => c = 0
      /\ cs # <<>> => rs[1] = 0
  BY DEF Packing
<1>2. n \in Nat /\ n + 1 \in 0..Len(ats)
  BY <1>1
<1>3. a \in Atoms /\ SubSeq(ats, 1, n + 1) = Append(SubSeq(ats, 1, n), a)
  BY <1>1, <1>2, HeadMore
<1> HIDE DEF a
<1>4. g \in Seq(Atoms) /\ Len(g) = Len(f) + 1 /\ c \in 0..Len(g)
  BY <1>1, <1>3
<1>5. t \in Seq(Atoms) /\ SubSeq(g, c + 1, Len(f) + 1) = Append(t, a)
  BY <1>1, <1>3, TailMore
<1>6. fl \in Seq(Atoms)
  <2>1. Unrepeated(cs, rs) \in Seq(Seq(Atoms))
    BY <1>1, FreshType
  <2>2. QED
    BY <2>1, FlattenType
<1> HIDE DEF g, fl, t
<1>7. fl \o Append(t, a) = Append(fl \o t, a)
  <2>1. fl \in Seq(Atoms) /\ t \in Seq(Atoms) /\ a \in Atoms
    BY <1>3, <1>5, <1>6
  <2>2. QED
    BY ONLY <2>1, ConcatAppend
<1>8. fl \o SubSeq(g, c + 1, Len(g)) = SubSeq(ats, 1, n + 1)
  BY <1>1, <1>3, <1>4, <1>5, <1>7
<1>9. Within(g, c)
  BY DEF g, a
<1>10. Packing(ats, n + 1, g, c, cs, rs)
  BY <1>1, <1>2, <1>4, <1>8, <1>9 DEF Packing, fl
<1>11. QED
  BY <1>10 DEF g, a

(* A chunk is closed and the next one starts with what it repeats.         *)
LEMMA PackingClosed ==
  ASSUME NEW ats, NEW n, NEW f, NEW c, NEW cs, NEW rs, Packing(ats, n, f, c, cs, rs),
         NEW g \in Seq(Atoms), Within(g, Len(g))
  PROVE  Packing(ats, n, g, Len(g), Append(cs, f), Append(rs, c))
<1> DEFINE ds == Append(cs, f)
           ss == Append(rs, c)
           m == Len(cs)
           old == Unrepeated(cs, rs)
           new == Unrepeated(ds, ss)
           t == SubSeq(f, c + 1, Len(f))
<1>1. /\ ats \in Seq(Atoms) /\ n \in 0..Len(ats)
      /\ f \in Seq(Atoms) /\ c \in 0..Len(f) /\ Within(f, c)
      /\ cs \in Seq(Seq(Atoms)) /\ rs \in Seq(Nat) /\ Len(rs) = m
      /\ \A k \in 1..m : rs[k] \in 0..Len(cs[k]) /\ Within(cs[k], rs[k])
      /\ FlattenSeq(old) \o t = SubSeq(ats, 1, n)
      /\ cs = <<>> => c = 0
      /\ cs # <<>> => rs[1] = 0
  BY DEF Packing
<1>2. c \in Nat /\ m \in Nat /\ Len(f) \in Nat
  BY <1>1
<1>3. ds \in Seq(Seq(Atoms)) /\ Len(ds) = m + 1 /\ ds[m + 1] = f
        /\ \A k \in 1..m : ds[k] = cs[k]
  BY <1>1, <1>2
<1>4. ss \in Seq(Nat) /\ Len(ss) = m + 1 /\ ss[m + 1] = c /\ \A k \in 1..m : ss[k] = rs[k]
  BY <1>1, <1>2
<1>0. cs = <<>> <=> m = 0
  BY <1>1
<1> HIDE DEF ds, ss, m
<1>5. \A k \in 1..(m + 1) : k \in 1..m \/ k = m + 1
  BY <1>2
<1>6. ASSUME NEW k \in 1..(m + 1) PROVE ss[k] \in 0..Len(ds[k]) /\ Within(ds[k], ss[k])
  BY <1>1, <1>3, <1>4, <1>5
<1>7. old \in Seq(Seq(Atoms)) /\ Len(old) = m
        /\ \A k \in 1..m : old[k] = SubSeq(cs[k], rs[k] + 1, Len(cs[k]))
  BY <1>1, FreshType DEF m
<1>8. new \in Seq(Seq(Atoms)) /\ Len(new) = m + 1
        /\ \A k \in 1..(m + 1) : new[k] = SubSeq(ds[k], ss[k] + 1, Len(ds[k]))
  <2>1. Len(ss) = Len(ds) /\ \A k \in 1..Len(ds) : ss[k] \in 0..Len(ds[k])
    BY <1>3, <1>4, <1>6
  <2> HIDE DEF new
  <2>2. /\ Unrepeated(ds, ss) \in Seq(Seq(Atoms)) /\ Len(Unrepeated(ds, ss)) = Len(ds)
        /\ \A k \in 1..Len(ds) : Unrepeated(ds, ss)[k]
             = SubSeq(ds[k], ss[k] + 1, Len(ds[k]))
    BY <1>3, <1>4, <2>1, FreshType
  <2>3. QED
    BY <1>3, <2>2 DEF new
<1>9. t \in Seq(Atoms)
  <2>1. <<>> \in Atoms
    BY DEF Atoms
  <2>2. QED
    BY <1>1, <2>1, TailMore
<1>10. new = Append(old, t)
  <2>1. \A k \in 1..m : new[k] = old[k]
    <3>1. \A k \in 1..m : k \in 1..(m + 1)
      BY <1>2
    <3>2. QED
      BY <1>3, <1>4, <1>7, <1>8, <3>1
  <2>2. new[m + 1] = t
    <3>1. m + 1 \in 1..(m + 1)
      BY <1>2
    <3>2. QED
      BY <1>3, <1>4, <1>8, <3>1
  <2> HIDE DEF new, old, t
  <2>3. Append(old, t) \in Seq(Seq(Atoms)) /\ Len(Append(old, t)) = m + 1
          /\ Append(old, t)[m + 1] = t
          /\ \A k \in 1..m : Append(old, t)[k] = old[k]
    BY <1>7, <1>9
  <2>4. \A k \in 1..(m + 1) : new[k] = Append(old, t)[k]
    BY <1>5, <2>1, <2>2, <2>3
  <2>5. QED
    BY <1>8, <2>3, <2>4, SeqEqual
<1> HIDE DEF new, old, t
<1>11. FlattenSeq(new) = FlattenSeq(old) \o t /\ FlattenSeq(new) \in Seq(Atoms)
  BY <1>7, <1>8, <1>9, <1>10, FlattenMore, FlattenType
<1>12. Len(g) \in Nat /\ SubSeq(g, Len(g) + 1, Len(g)) = <<>>
  OBVIOUS
<1>13. FlattenSeq(new) \o SubSeq(g, Len(g) + 1, Len(g)) = SubSeq(ats, 1, n)
  <2>1. FlattenSeq(new) \o <<>> = FlattenSeq(new)
    BY <1>11
  <2>2. QED
    BY <1>1, <1>11, <1>12, <2>1
<1>14. ds # <<>> /\ ss[1] = 0
  <2>1. ds # <<>>
    BY <1>2, <1>3
  <2>2. CASE m = 0
    BY <1>0, <1>1, <1>4, <2>1, <2>2
  <2>3. CASE m # 0
    <3>1. 1 \in 1..m
      BY <1>2, <2>3
    <3>2. QED
      BY <1>0, <1>1, <1>4, <2>1, <2>3, <3>1
  <2>4. QED
    BY <2>1, <2>2, <2>3
<1>15. Packing(ats, n, g, Len(g), ds, ss)
  BY <1>1, <1>3, <1>4, <1>6, <1>12, <1>13, <1>14 DEF Packing, new
<1>16. QED
  BY <1>15 DEF ds, ss

-----------------------------------------------------------------------------
(* The steps that pack.                                                    *)
PackInv ==
  /\ Packing(atoms, packed, filling, carried, chunks, repeats)
  /\ packed = 0 => filling = <<>> /\ carried = 0 /\ chunks = <<>> /\ repeats = <<>>
  /\ packed # 0 => cursor = Len(text) + 1 /\ (filling = <<>> => packed = Len(atoms))

ChunkInv == CutInv /\ PackInv

LEMMA PackIdle ==
  ASSUME ChunkInv, CutInv', text = <<>> \/ cursor <= Len(text), UNCHANGED packing
  PROVE  ChunkInv'
<1>1. Len(text) \in Nat /\ cursor \in 1..Len(text) + 1 /\ (cursor = 1 => atoms = <<>>)
  BY DEF ChunkInv, CutInv, TextTyped
<1>2. packed = 0
  <2>1. packed \in 0..Len(atoms) /\ (packed # 0 => cursor = Len(text) + 1)
    BY DEF ChunkInv, PackInv, Packing
  <2>2. SUFFICES ASSUME packed # 0 PROVE FALSE
    OBVIOUS
  <2>3. text = <<>> /\ cursor = 1
    BY <1>1, <2>1, <2>2
  <2>4. Len(atoms) = 0
    BY <1>1, <2>3
  <2>5. QED
    BY <2>1, <2>2, <2>4
<1>3. filling = <<>> /\ carried = 0 /\ chunks = <<>> /\ repeats = <<>>
  BY <1>2 DEF ChunkInv, PackInv
<1>4. packed' = 0 /\ filling' = <<>> /\ carried' = 0 /\ chunks' = <<>> /\ repeats' = <<>>
  BY <1>2, <1>3 DEF packing
<1>5. atoms' \in Seq(Atoms)
  BY DEF CutInv
<1>6. Packing(atoms', 0, <<>>, 0, <<>>, <<>>)
  BY <1>5, PackingNone
<1>7. Packing(atoms, packed, filling, carried, chunks, repeats)'
  BY <1>4, <1>6
<1>8. QED
  BY <1>4, <1>7 DEF ChunkInv, PackInv

LEMMA PackStep ==
  ASSUME ChunkInv, Pack
  PROVE  ChunkInv'
<1> DEFINE atom == atoms[packed + 1]
           carry == Repeated(filling)
           full == filling # <<>> /\ Weigh(filling) + Count(atom) > Target
<1>1. /\ cursor > Len(text) /\ packed < Len(atoms) /\ packed' = packed + 1
           /\ UNCHANGED cutting
      /\ \/ full /\ chunks' = Append(chunks, filling) /\ repeats' = Append(repeats, carried)
              /\ filling' = Append(carry, atom) /\ carried' = Len(carry)
         \/ ~full /\ filling' = Append(filling, atom) /\ carried' = carried
              /\ chunks' = chunks
              /\ repeats' = repeats
  BY DEF Pack
<1>2. CutInv'
  BY <1>1, CutSame DEF ChunkInv
<1>3. cursor' = Len(text') + 1 /\ text' = text /\ atoms' = atoms
  <2>1. Len(text) \in Nat /\ cursor \in 1..Len(text) + 1
    BY DEF ChunkInv, CutInv, TextTyped
  <2>2. QED
    BY <1>1, <2>1 DEF cutting
<1>4. Packing(atoms, packed, filling, carried, chunks, repeats)
  BY DEF ChunkInv, PackInv
<1>5. atoms \in Seq(Atoms) /\ packed \in Nat /\ filling \in Seq(Atoms)
        /\ carried \in 0..Len(filling)
  BY <1>4 DEF Packing
<1>6. atom \in Atoms
  BY <1>1, <1>5
<1> HIDE DEF carry
<1>7. CASE full
  <2>1. carry \in Seq(Atoms) /\ (carry = <<>> \/ Len(carry) = 1 \/ Weigh(carry) <= Overlap)
    BY <1>5, <1>7, RepeatedIs DEF carry
  <2>2. Within(carry, Len(carry)) /\ Within(Append(carry, atom), Len(carry))
    <3> HIDE DEF atom
    <3>1. QED
      BY <1>6, <2>1, WithinStarted
  <2>3. Packing(atoms, packed, carry, Len(carry), Append(chunks, filling),
          Append(repeats, carried))
    BY <1>4, <2>1, <2>2, PackingClosed
  <2>4. Packing(atoms, packed + 1, Append(carry, atom), Len(carry), Append(chunks, filling),
                Append(repeats, carried))
    BY <1>1, <2>2, <2>3, PackingMore
  <2>5. Packing(atoms', packed', filling', carried', chunks', repeats')
    BY <1>1, <1>3, <1>7, <2>4
  <2>6. filling' # <<>> /\ packed' # 0
    <3>1. filling' = Append(carry, atom)
      BY <1>1, <1>7
    <3> HIDE DEF atom
    <3>2. Len(Append(carry, atom)) = Len(carry) + 1 /\ Len(carry) \in Nat
      BY <1>6, <2>1
    <3>3. filling' # <<>>
      BY <3>1, <3>2
    <3>4. packed' # 0
      BY <1>1, <1>5
    <3>5. QED
      BY <3>3, <3>4
  <2>7. QED
    BY <1>2, <1>3, <2>5, <2>6 DEF ChunkInv, PackInv
<1>8. CASE ~full
  <2>1. Append(filling, atom) \in Seq(Atoms)
          /\ Len(Append(filling, atom)) = Len(filling) + 1
    <3> HIDE DEF atom
    <3>1. QED
      BY <1>5, <1>6
  <2>2. Within(Append(filling, atom), carried)
    <3>1. CASE filling = <<>>
      <4>1. carried = Len(filling)
        BY <1>5, <3>1
      <4>2. Within(Append(filling, atom), Len(filling))
        <5> HIDE DEF atom
        <5>1. QED
          BY <1>5, <1>6, <3>1, WithinStarted
      <4>3. QED
        BY <4>1, <4>2
    <3>2. CASE filling # <<>>
      <4>1. Weigh(filling) + Count(atom) <= Target
        <5>1. ~(Weigh(filling) + Count(atom) > Target)
          BY <1>8, <3>2
        <5>2. Weigh(filling) \in Nat /\ Count(atom) \in Nat
          BY <1>5, <1>6, WeighType, CountType
        <5> HIDE DEF atom
        <5>3. QED
          BY <5>1, <5>2, ChunkBounds
      <4>2. Weigh(Append(filling, atom)) = Weigh(filling) + Count(atom)
        BY <1>5, <1>6, WeighMore
      <4>3. QED
        BY <2>1, <4>1, <4>2, WithinFits
    <3>3. QED
      BY <3>1, <3>2
  <2>3. Packing(atoms, packed + 1, Append(filling, atom), carried, chunks, repeats)
    BY <1>1, <1>4, <2>2, PackingMore
  <2>4. Packing(atoms', packed', filling', carried', chunks', repeats')
    BY <1>1, <1>3, <1>8, <2>3
  <2>5. filling' # <<>> /\ packed' # 0
    <3>1. filling' = Append(filling, atom)
      BY <1>1, <1>8
    <3> HIDE DEF atom
    <3>2. QED
      BY <1>1, <1>5, <2>1, <3>1
  <2>6. QED
    BY <1>2, <1>3, <2>4, <2>5 DEF ChunkInv, PackInv
<1>9. QED
  BY <1>7, <1>8

LEMMA PackLast ==
  ASSUME ChunkInv, LastChunk
  PROVE  ChunkInv'
<1>1. /\ packed = Len(atoms) /\ filling # <<>> /\ chunks' = Append(chunks, filling)
      /\ repeats' = Append(repeats, carried) /\ filling' = <<>> /\ carried' = 0
      /\ UNCHANGED cutting /\ packed' = packed
  BY DEF LastChunk
<1>2. CutInv'
  BY <1>1, CutSame DEF ChunkInv
<1>3. Packing(atoms, packed, filling, carried, chunks, repeats) /\ packed # 0
        /\ cursor = Len(text) + 1
  BY <1>1 DEF ChunkInv, PackInv
<1>4. <<>> \in Seq(Atoms) /\ Len(<<>>) = 0
  OBVIOUS
<1>5. Packing(atoms, packed, <<>>, Len(<<>>), Append(chunks, filling),
        Append(repeats, carried))
  BY <1>3, <1>4, WithinNone, PackingClosed
<1>6. Packing(atoms', packed', filling', carried', chunks', repeats')
  BY <1>1, <1>4, <1>5 DEF cutting
<1>7. cursor' = Len(text') + 1 /\ packed' = Len(atoms') /\ packed' # 0
  BY <1>1, <1>3 DEF cutting
<1>8. QED
  BY <1>2, <1>6, <1>7 DEF ChunkInv, PackInv

LEMMA ChunkInitInv ==
  ASSUME ChunkInit
  PROVE  ChunkInv
<1>1. /\ text = <<>> /\ cursor = 1 /\ limit = 0 /\ atoms = <<>>
      /\ packed = 0 /\ filling = <<>> /\ carried = 0 /\ chunks = <<>> /\ repeats = <<>>
  BY DEF ChunkInit
<1>2. <<>> \in Seq([size : Nat \ {0}, end : EndKinds]) /\ Len(<<>>) = 0
        /\ <<>> \in Seq(Atoms)
  OBVIOUS
<1>3. Run(<<>>, 1, 1 - 1)
  BY RunNone
<1>4. Run(FlattenSeq(atoms), 1, cursor - 1)
  BY <1>1, <1>3, FlattenNone
<1>5. NonEmpty(atoms) /\ TextTyped
  BY <1>1, <1>2 DEF NonEmpty, TextTyped
<1>6. CutInv
  BY <1>1, <1>2, <1>4, <1>5 DEF CutInv
<1>7. Packing(<<>>, 0, <<>>, 0, <<>>, <<>>)
  BY <1>2, PackingNone
<1>8. Packing(atoms, packed, filling, carried, chunks, repeats)
  BY <1>1, <1>7
<1>9. QED
  BY <1>1, <1>6, <1>8 DEF ChunkInv, PackInv

LEMMA ChunkStep ==
  ASSUME ChunkInv, [ChunkNext]_chunkVars
  PROVE  ChunkInv'
<1>1. CASE TextArrives
  <2>1. CutInv'
    BY <1>1, CutTextArrives DEF ChunkInv
  <2>2. text = <<>> /\ UNCHANGED packing
    BY <1>1 DEF TextArrives
  <2>3. QED
    BY <2>1, <2>2, PackIdle
<1>2. CASE PartWhole
  <2>1. CutInv'
    BY <1>2, CutPartWhole DEF ChunkInv
  <2>2. cursor <= Len(text) /\ UNCHANGED packing
    BY <1>2 DEF PartWhole
  <2>3. QED
    BY <2>1, <2>2, PackIdle
<1>3. CASE PartSplit
  <2>1. CutInv'
    BY <1>3, CutPartSplit DEF ChunkInv
  <2>2. cursor <= Len(text) /\ UNCHANGED packing
    BY <1>3 DEF PartSplit
  <2>3. QED
    BY <2>1, <2>2, PackIdle
<1>4. CASE NextSentence
  <2>1. CutInv'
    BY <1>4, CutNextSentence DEF ChunkInv
  <2>2. limit # 0 /\ UNCHANGED packing
    BY <1>4 DEF NextSentence
  <2>3. cursor <= Len(text)
    <3>1. cursor <= limit /\ limit \in 0..Len(text) /\ Len(text) \in Nat
            /\ cursor \in 1..Len(text) + 1
      BY <2>2 DEF ChunkInv, CutInv, TextTyped
    <3>2. QED
      BY <3>1
  <2>4. QED
    BY <2>1, <2>2, <2>3, PackIdle
<1>5. CASE Pack
  BY <1>5, PackStep
<1>6. CASE LastChunk
  BY <1>6, PackLast
<1>7. CASE UNCHANGED chunkVars
  <2>1. UNCHANGED cutting /\ UNCHANGED packing
    BY <1>7 DEF chunkVars, cutting, packing
  <2>2. CutInv'
    BY <2>1, CutSame DEF ChunkInv
  <2>3. Packing(atoms', packed', filling', carried', chunks', repeats')
    BY <2>1 DEF ChunkInv, PackInv, cutting, packing
  <2>4. QED
    BY <2>1, <2>2, <2>3 DEF ChunkInv, PackInv, cutting, packing
<1>8. QED
  BY <1>1, <1>2, <1>3, <1>4, <1>5, <1>6, <1>7 DEF ChunkNext

-----------------------------------------------------------------------------
(* When all is packed, the chunks without what they repeat are the atoms.  *)
LEMMA ChunksAreAtoms ==
  ASSUME ChunkInv, ChunkDone
  PROVE  /\ TextTyped /\ Len(text) \in 1..Len(text) /\ atoms \in Seq(Atoms)
         /\ chunks \in Seq(Seq(Atoms)) /\ repeats \in Seq(Nat) /\ Len(repeats) = Len(chunks)
         /\ \A k \in 1..Len(chunks) : repeats[k] \in 0..Len(chunks[k])
              /\ Within(chunks[k], repeats[k])
         /\ FlattenSeq(Unrepeated(chunks, repeats)) = atoms
         /\ Run(FlattenSeq(atoms), 1, Len(text))
         /\ chunks # <<>> /\ repeats[1] = 0
<1>1. packed > 0 /\ filling = <<>>
  BY DEF ChunkDone
<1>2. Packing(atoms, packed, filling, carried, chunks, repeats) /\ CutInv
  BY DEF ChunkInv, PackInv
<1>3. packed \in 0..Len(atoms) /\ carried \in 0..Len(filling) /\ atoms \in Seq(Atoms)
  BY <1>2 DEF Packing
<1>4. packed # 0
  BY <1>1, <1>3
<1>5. cursor = Len(text) + 1 /\ packed = Len(atoms)
  BY <1>1, <1>4 DEF ChunkInv, PackInv
<1>6. carried = 0
  BY <1>1, <1>3
<1>7. /\ chunks \in Seq(Seq(Atoms)) /\ repeats \in Seq(Nat) /\ Len(repeats) = Len(chunks)
      /\ \A k \in 1..Len(chunks) : repeats[k] \in 0..Len(chunks[k])
           /\ Within(chunks[k], repeats[k])
      /\ FlattenSeq(Unrepeated(chunks, repeats))
           \o SubSeq(filling, carried + 1, Len(filling)) = SubSeq(atoms, 1, packed)
      /\ chunks # <<>> => repeats[1] = 0
  BY <1>2 DEF Packing
<1>8. FlattenSeq(Unrepeated(chunks, repeats)) \in Seq(Atoms)
  <2>1. Unrepeated(chunks, repeats) \in Seq(Seq(Atoms))
    BY <1>7, FreshType
  <2>2. QED
    BY <2>1, FlattenType
<1>9. FlattenSeq(Unrepeated(chunks, repeats)) = atoms
  <2>1. SubSeq(filling, carried + 1, Len(filling)) = <<>>
    BY <1>1, <1>6
  <2>2. SubSeq(atoms, 1, packed) = atoms
    <3>1. SubSeq(atoms, 1, Len(atoms)) \in Seq(Atoms)
            /\ Len(SubSeq(atoms, 1, Len(atoms))) = Len(atoms)
            /\ \A i \in 1..Len(atoms) : SubSeq(atoms, 1, Len(atoms))[i] = atoms[i]
      BY <1>3
    <3>2. SubSeq(atoms, 1, Len(atoms)) = atoms
      BY <1>3, <3>1, SeqEqual
    <3>3. QED
      BY <1>5, <3>2
  <2> DEFINE fl == FlattenSeq(Unrepeated(chunks, repeats))
  <2> HIDE DEF fl
  <2>3. fl \o <<>> = fl
    BY <1>8 DEF fl
  <2>4. fl \o <<>> = atoms
    BY <1>7, <2>1, <2>2 DEF fl
  <2>5. QED
    BY <2>3, <2>4 DEF fl
<1>10. chunks # <<>>
  <2>1. SUFFICES ASSUME chunks = <<>> PROVE FALSE
    OBVIOUS
  <2>2. Unrepeated(chunks, repeats) = <<>>
    BY <2>1 DEF Unrepeated
  <2>3. atoms = <<>>
    BY <1>9, <2>2, FlattenNone
  <2>4. QED
    BY <1>4, <1>5, <2>3
<1>11. TextTyped /\ Run(FlattenSeq(atoms), 1, Len(text)) /\ Len(text) \in Nat
  <2>1. TextTyped /\ Len(text) \in Nat /\ Run(FlattenSeq(atoms), 1, cursor - 1)
    BY <1>2 DEF CutInv, TextTyped
  <2>2. cursor - 1 = Len(text)
    BY <1>5, <2>1
  <2>3. QED
    BY <2>1, <2>2
<1>12. Len(text) \in 1..Len(text)
  <2>1. Len(text) # 0
    <3>1. cursor = 1 => atoms = <<>>
      BY <1>2 DEF CutInv
    <3>2. Len(atoms) # 0
      BY <1>4, <1>5
    <3>3. QED
      BY <1>5, <3>1, <3>2
  <2>2. QED
    BY <1>11, <2>1
<1>13. QED
  BY <1>3, <1>7, <1>9, <1>10, <1>11, <1>12

(* A piece of an atom that a chunk holds is in what is encoded of it, and  *)
(* within the window if the chunk is within the target.                    *)
LEMMA PieceSeen ==
  ASSUME NEW c \in Atoms, c \in ToSet(Encoded), Count(c) <= Target, NEW i, NEW n \in Nat,
    Holds(c, i, n)
  PROVE  Seen(i, n)
<1>1. PICK k \in 1..Len(c) : c[k].word = i /\ n \in c[k].from..c[k].to
  BY DEF Holds
<1>2. DOMAIN c = 1..Len(c)
  BY DEF Atoms
<1>3. c[k] \in Pieces /\ Count(SubSeq(c, 1, k - 1)) \in Nat /\ Tokens(c[k]) \in Nat
        /\ Count(SubSeq(c, 1, k - 1)) + Tokens(c[k]) <= Count(c)
  BY CountUpTo
<1>4. c[k].from \in Nat /\ c[k].to \in Nat /\ n <= c[k].to
  BY <1>1, <1>3 DEF Pieces
<1>5. Count(c) \in Nat
  BY CountType
<1>6. Count(SubSeq(c, 1, k - 1)) + (c[k].to - c[k].from + 1) <= Count(c)
  BY <1>3 DEF Tokens
<1>7. Count(SubSeq(c, 1, k - 1)) + n - c[k].from + 1 <= Width
  <2> DEFINE x == Count(SubSeq(c, 1, k - 1))
             f == c[k].from
             t == c[k].to
             w == Count(c)
  <2>1. x \in Nat /\ f \in Nat /\ t \in Nat /\ w \in Nat /\ n <= t /\ x + (t - f + 1) <= w
          /\ w <= Target
    BY <1>3, <1>4, <1>5, <1>6
  <2> HIDE DEF x, f, t, w
  <2>2. x + n - f + 1 <= Width
    BY <2>1, ChunkBounds
  <2>3. QED
    BY <2>2 DEF x, f
<1>8. QED
  BY <1>1, <1>2, <1>7 DEF Seen

LEMMA OneChunkSeen ==
  ASSUME ChunkInv, ChunkDone, Len(chunks) <= 1,
    \A k \in DOMAIN chunks : ~(Weigh(chunks[k]) > Target),
         NEW i \in DOMAIN text, NEW n \in 1..text[i].size
  PROVE  Seen(i, n)
<1> DEFINE L == Len(text)
           w == Words(1, L)
<1>1. /\ TextTyped /\ L \in 1..L /\ atoms \in Seq(Atoms)
      /\ chunks \in Seq(Seq(Atoms)) /\ repeats \in Seq(Nat) /\ Len(repeats) = Len(chunks)
      /\ \A k \in 1..Len(chunks) : repeats[k] \in 0..Len(chunks[k])
      /\ FlattenSeq(Unrepeated(chunks, repeats)) = atoms /\ Run(FlattenSeq(atoms), 1, L)
      /\ chunks # <<>> /\ repeats[1] = 0
  BY ChunksAreAtoms
<1>2. L \in Nat /\ DOMAIN text = 1..L /\ L >= 1
  BY <1>1 DEF TextTyped
<1>3. Len(chunks) = 1 /\ DOMAIN chunks = 1..1 /\ chunks[1] \in Seq(Atoms)
  BY <1>1
<1>4. atoms = chunks[1]
  <2> DEFINE d == chunks[1]
             fr == Unrepeated(chunks, repeats)
  <2>1. fr \in Seq(Seq(Atoms)) /\ Len(fr) = 1 /\ fr[1] = SubSeq(d, repeats[1] + 1, Len(d))
    <3>1. /\ fr \in Seq(Seq(Atoms)) /\ Len(fr) = Len(chunks)
          /\ \A k \in 1..Len(chunks) : fr[k]
               = SubSeq(chunks[k], repeats[k] + 1, Len(chunks[k]))
      BY <1>1, FreshType
    <3>2. 1 \in 1..Len(chunks)
      BY <1>3
    <3> HIDE DEF fr
    <3>3. QED
      BY <1>3, <3>1, <3>2
  <2>2. d \in Seq(Atoms)
    BY <1>3
  <2> HIDE DEF d
  <2>3. SubSeq(d, 1, Len(d)) = d
    <3>1. SubSeq(d, 1, Len(d)) \in Seq(Atoms) /\ Len(SubSeq(d, 1, Len(d))) = Len(d)
            /\ \A x \in 1..Len(d) : SubSeq(d, 1, Len(d))[x] = d[x]
      BY <2>2
    <3>2. QED
      BY <2>2, <3>1, SeqEqual
  <2>4. repeats[1] + 1 = 1
    BY <1>1
  <2>5. fr[1] = d
    BY <2>1, <2>3, <2>4
  <2> HIDE DEF fr
  <2>6. fr = Append(<<>>, d) /\ <<>> \in Seq(Seq(Atoms))
    BY <2>1, <2>2, <2>5
  <2>7. FlattenSeq(Append(<<>>, d)) = FlattenSeq(<<>>) \o d
    BY <2>2, <2>6, FlattenMore
  <2>8. <<>> \o d = d
    BY <2>2
  <2>9. FlattenSeq(fr) = d
    BY <2>6, <2>7, <2>8, FlattenNone
  <2>10. QED
    BY <1>1, <2>9 DEF d, fr
<1>5. Count(FlattenSeq(atoms)) = Count(w)
  BY <1>1, RunCovers
<1>6. Count(FlattenSeq(atoms)) = Weigh(atoms) /\ Weigh(atoms) \in Nat
  BY <1>1, CountFlat, WeighType
<1>7. Count(w) <= Target
  <2>1. ~(Weigh(atoms) > Target)
    BY <1>3, <1>4
  <2>2. QED
    BY <1>5, <1>6, <2>1, ChunkBounds
<1>8. w \in Atoms /\ Run(w, 1, L)
  <2>1. 1 \in 1..L + 1 /\ L \in (1 - 1)..L
    BY <1>2
  <2>2. QED
    BY <1>1, <2>1, WordsAre, RunWords
<1>9. Holds(w, i, n)
  <2>1. \A x \in 1..L : \A m \in 1..text[x].size : Holds(w, x, m)
    BY <1>1, <1>8, RunCovers
  <2>2. QED
    BY <1>2, <2>1
<1>10. w \in ToSet(Encoded)
  <2>1. Encoded = <<w>>
    BY DEF Encoded
  <2> HIDE DEF w
  <2>2. 1 \in DOMAIN <<w>> /\ <<w>>[1] = w
    OBVIOUS
  <2>3. QED
    BY <2>1, <2>2 DEF ToSet
<1> HIDE DEF w
<1>11. n \in Nat
  <2>1. text[i].size \in Nat
    BY <1>1, <1>2, WordIs
  <2>2. QED
    BY <2>1
<1>12. QED
  BY <1>7, <1>8, <1>9, <1>10, <1>11, PieceSeen

LEMMA ManyChunksSeen ==
  ASSUME ChunkInv, ChunkDone, ~(Len(chunks) <= 1), Len(chunks) <= MaxChunks,
         \A k \in DOMAIN chunks : ~(Weigh(chunks[k]) > Target),
         NEW i \in DOMAIN text, NEW n \in 1..text[i].size
  PROVE  Seen(i, n)
<1> DEFINE L == Len(text)
           fr == Unrepeated(chunks, repeats)
<1>1. /\ TextTyped /\ L \in 1..L /\ atoms \in Seq(Atoms)
      /\ chunks \in Seq(Seq(Atoms)) /\ repeats \in Seq(Nat) /\ Len(repeats) = Len(chunks)
      /\ \A k \in 1..Len(chunks) : repeats[k] \in 0..Len(chunks[k])
      /\ FlattenSeq(fr) = atoms /\ Run(FlattenSeq(atoms), 1, L)
  BY ChunksAreAtoms
<1>2. DOMAIN text = 1..L /\ DOMAIN chunks = 1..Len(chunks) /\ Len(chunks) \in Nat
  BY <1>1 DEF TextTyped
<1>3. Holds(FlattenSeq(atoms), i, n)
  BY <1>1, <1>2, RunCovers
<1>4. FlattenSeq(atoms) \in Atoms
  BY <1>1, CountFlat
<1>5. PICK x \in 1..Len(FlattenSeq(atoms)) :
        FlattenSeq(atoms)[x].word = i
          /\ n \in FlattenSeq(atoms)[x].from..FlattenSeq(atoms)[x].to
  BY <1>3 DEF Holds
<1> DEFINE p == FlattenSeq(atoms)[x]
<1>6. p \in ToSet(FlattenSeq(atoms)) /\ p.word = i /\ n \in p.from..p.to
  <2>1. DOMAIN FlattenSeq(atoms) = 1..Len(FlattenSeq(atoms))
    BY <1>4 DEF Atoms
  <2>2. QED
    BY <1>5, <2>1 DEF ToSet
<1> HIDE DEF p
<1>7. PICK y \in DOMAIN atoms : p \in ToSet(atoms[y])
  BY <1>1, <1>6, FlattenHas DEF Atoms
<1>8. fr \in Seq(Seq(Atoms)) /\ Len(fr) = Len(chunks)
        /\ \A k \in 1..Len(chunks) : fr[k]
             = SubSeq(chunks[k], repeats[k] + 1, Len(chunks[k]))
  BY <1>1, FreshType
<1> HIDE DEF fr
<1>9. atoms[y] \in ToSet(FlattenSeq(fr))
  BY <1>1, <1>7 DEF ToSet
<1>10. PICK k \in DOMAIN fr : atoms[y] \in ToSet(fr[k])
  BY <1>8, <1>9, FlattenHas
<1> DEFINE d == chunks[k]
           c == FlattenSeq(d)
<1>11. k \in 1..Len(chunks) /\ d \in Seq(Atoms) /\ repeats[k] \in 0..Len(d)
         /\ fr[k] = SubSeq(d, repeats[k] + 1, Len(d))
  <2>1. DOMAIN fr = 1..Len(fr)
    BY <1>8
  <2>2. k \in 1..Len(chunks)
    BY <1>8, <2>1
  <2>3. d \in Seq(Atoms)
    BY <1>1, <2>2
  <2>4. QED
    BY <1>1, <1>8, <2>2, <2>3
<1>12. PICK z \in DOMAIN d : d[z] = atoms[y]
  <2> DEFINE r == repeats[k]
             s == SubSeq(d, r + 1, Len(d))
  <2> HIDE DEF d, r
  <2>1. r \in Nat /\ r <= Len(d) /\ Len(d) \in Nat /\ d \in Seq(Atoms)
          /\ DOMAIN d = 1..Len(d)
    BY <1>11 DEF r
  <2>2. s \in Seq(Atoms) /\ Len(s) = Len(d) - r
          /\ \A v \in 1..(Len(d) - r) : s[v] = d[r + v] /\ r + v \in 1..Len(d)
    <3>1. r \in 0..Len(d)
      BY <2>1
    <3>2. QED
      BY <2>1, <3>1, TailIs
  <2>3. PICK v \in DOMAIN s : s[v] = atoms[y]
    BY <1>10, <1>11 DEF ToSet, r
  <2> HIDE DEF s
  <2>4. v \in 1..(Len(d) - r)
    BY <2>2
  <2>5. r + v \in 1..Len(d) /\ s[v] = d[r + v]
    BY <2>2, <2>4
  <2>6. QED
    BY <2>1, <2>3, <2>4, <2>5
<1>13. p \in ToSet(c)
  <2>1. d \in Seq(Seq(Pieces)) /\ p \in ToSet(d[z])
    BY <1>7, <1>11, <1>12 DEF Atoms
  <2> HIDE DEF d
  <2>2. QED
    BY <1>12, <2>1, FlattenHas
<1>14. c \in Atoms /\ Count(c) = Weigh(d) /\ Weigh(d) \in Nat
  BY <1>11, CountFlat, WeighType
<1>15. Count(c) <= Target
  <2>1. ~(Weigh(d) > Target)
    BY <1>2, <1>11
  <2>2. QED
    BY <1>14, <2>1, ChunkBounds
<1> HIDE DEF c
<1>16. Holds(c, i, n)
  BY <1>6, <1>13, <1>14 DEF Holds, ToSet, Atoms
<1>17. c \in ToSet(Encoded)
  <2> DEFINE m == IF Len(chunks) < MaxChunks THEN Len(chunks) ELSE MaxChunks
             es == [q \in 1..m |-> FlattenSeq(chunks[q])]
  <2>1. m = Len(chunks)
    <3>1. Len(chunks) \in Nat /\ MaxChunks \in Nat /\ Len(chunks) <= MaxChunks
      BY <1>2, ChunkBounds
    <3>2. QED
      BY <3>1
  <2>2. Encoded = es
    BY DEF Encoded
  <2> HIDE DEF m, d
  <2>3. k \in DOMAIN es /\ es[k] = c
    BY <1>11, <2>1 DEF c, d
  <2> HIDE DEF es
  <2>4. QED
    BY <2>2, <2>3 DEF ToSet
<1>18. n \in Nat
  <2>1. text[i].size \in Nat
    BY <1>1, <1>2, WordIs
  <2>2. QED
    BY <2>1
<1>19. QED
  BY <1>14, <1>15, <1>16, <1>17, <1>18, PieceSeen

LEMMA ChunksSoundIs == ChunkInv => ChunksSound
<1> DEFINE fresh == [k \in DOMAIN chunks |-> SubSeq(chunks[k], repeats[k] + 1,
      Len(chunks[k]))]
           pieces == FlattenSeq(FlattenSeq(fresh))
           over == {k \in DOMAIN chunks : Weigh(chunks[k]) > Target}
<1>1. SUFFICES ASSUME ChunkInv, ChunkDone
      PROVE  /\ \A k \in 1..Len(pieces) - 1 : Follows(pieces[k], pieces[k + 1])
             /\ pieces[1].word = 1 /\ Last(pieces).word = Len(text)
                  /\ Last(pieces).to = Last(text).size
             /\ \A k \in over : repeats[k] > 0 \/ Long(chunks[k])
             /\ \A k \in over : ~Long(chunks[k]) => Weigh(chunks[k]) <= 2 * Target
             /\ over = {} /\ Len(chunks) <= MaxChunks =>
                  \A i \in DOMAIN text : \A n \in 1..text[i].size : Seen(i, n)
  BY DEF ChunksSound, Follows, Long
<1>2. /\ TextTyped /\ Len(text) \in 1..Len(text) /\ atoms \in Seq(Atoms)
      /\ chunks \in Seq(Seq(Atoms))
      /\ \A k \in 1..Len(chunks) : repeats[k] \in 0..Len(chunks[k])
           /\ Within(chunks[k], repeats[k])
      /\ FlattenSeq(Unrepeated(chunks, repeats)) = atoms
      /\ Run(FlattenSeq(atoms), 1, Len(text))
  BY <1>1, ChunksAreAtoms
<1>3. pieces = FlattenSeq(atoms)
  BY <1>2 DEF Unrepeated
<1> HIDE DEF pieces
<1>4. Run(pieces, 1, Len(text)) /\ pieces # <<>>
  <2>1. Run(pieces, 1, Len(text))
    BY <1>2, <1>3
  <2>2. QED
    BY <1>2, <2>1, RunCovers
<1>5. \A k \in 1..Len(pieces) - 1 : Follows(pieces[k], pieces[k + 1])
  BY <1>4 DEF Run, Ordered
<1>6. pieces[1].word = 1 /\ pieces[Len(pieces)].word = Len(text)
        /\ pieces[Len(pieces)].to = text[Len(text)].size
  BY <1>4 DEF Run
<1>7. Last(pieces) = pieces[Len(pieces)] /\ Last(text) = text[Len(text)]
  BY DEF Last
<1>8. ASSUME NEW k \in over
      PROVE  (repeats[k] > 0 \/ Long(chunks[k]))
        /\ (~Long(chunks[k]) => Weigh(chunks[k]) <= 2 * Target)
  <2>1. k \in 1..Len(chunks) /\ Weigh(chunks[k]) > Target
    BY <1>2
  <2>2. Within(chunks[k], repeats[k])
    BY <1>2, <2>1
  <2>3. QED
    BY <2>1, <2>2 DEF Within
<1>9. ASSUME over = {}, Len(chunks) <= MaxChunks, NEW i \in DOMAIN text,
        NEW n \in 1..text[i].size
      PROVE  Seen(i, n)
  <2>1. \A k \in DOMAIN chunks : ~(Weigh(chunks[k]) > Target)
    BY <1>9
  <2>2. CASE Len(chunks) <= 1
    BY <1>1, <2>1, <2>2, OneChunkSeen
  <2>3. CASE ~(Len(chunks) <= 1)
    BY <1>1, <1>9, <2>1, <2>3, ManyChunksSeen
  <2>4. QED
    BY <2>2, <2>3
<1> HIDE DEF over
<1>10. QED
  BY <1>5, <1>6, <1>7, <1>8, <1>9

LEMMA ChunkTypeIs == ChunkInv => ChunkTypeOK
<1>1. SUFFICES ASSUME ChunkInv PROVE ChunkTypeOK
  OBVIOUS
<1>2. CutInv /\ Packing(atoms, packed, filling, carried, chunks, repeats)
  BY <1>1 DEF ChunkInv, PackInv
<1>3. cursor \in 1..Len(text) + 1 /\ limit \in 0..Len(text) /\ atoms \in Seq(Atoms)
        /\ NonEmpty(atoms)
        /\ TextTyped
  BY <1>2 DEF CutInv
<1>4. packed \in 0..Len(atoms) /\ carried \in 0..Len(filling) /\ Len(repeats) = Len(chunks)
  BY <1>2 DEF Packing
<1>5. ASSUME NEW a \in ToSet(atoms)
      PROVE  a # <<>> /\ \A p \in ToSet(a) : p.word \in DOMAIN text /\ 1 <= p.from
        /\ p.from <= p.to /\ p.to <= text[p.word].size
  <2>1. PICK k \in DOMAIN atoms : a = atoms[k]
    BY DEF ToSet
  <2>2. k \in 1..Len(atoms)
    BY <1>3
  <2>3. a # <<>>
    BY <1>3, <2>1, <2>2 DEF NonEmpty
  <2>4. ASSUME NEW p \in ToSet(a) PROVE Place(p)
    <3> DEFINE f == FlattenSeq(atoms)
    <3>1. atoms \in Seq(Seq(Pieces)) /\ p \in ToSet(atoms[k])
      BY <1>3, <2>1 DEF Atoms
    <3>2. p \in ToSet(f)
      BY <3>1, FlattenHas
    <3>3. f \in Atoms /\ \A x \in 1..Len(f) : Place(f[x])
      BY <1>2 DEF CutInv, Run, Ordered
    <3> HIDE DEF f
    <3>4. DOMAIN f = 1..Len(f)
      BY <3>3 DEF Atoms
    <3>5. QED
      BY <3>2, <3>3, <3>4 DEF ToSet
  <2>5. DOMAIN text = 1..Len(text)
    BY <1>3 DEF TextTyped
  <2>6. QED
    BY <2>3, <2>4, <2>5 DEF Place
<1>6. QED
  BY <1>3, <1>4, <1>5 DEF ChunkTypeOK

ChunkSpec == ChunkInit /\ [][ChunkNext]_chunkVars

(* What holds of the atoms up to the cursor and of the chunks made of them *)
(* (models/embedding_utils.py).                                            *)
THEOREM ChunkInvariant == ChunkSpec => []ChunkInv
BY ChunkInitInv, ChunkStep, PTL DEF ChunkSpec

(* Without what they repeat, the chunks are the text, every token once and *)
(* in its order; none is larger than it may be; and if none is above the   *)
(* target and there are not too many, the vectors stand for every token,   *)
(* for any text and any sizes of words, target, overlap and window         *)
(* (models/embedding_utils.py, observer/steps/embed_step.py).              *)
THEOREM ChunksAreSound == ChunkSpec => []ChunksSound
BY ChunkInvariant, ChunksSoundIs, PTL

(* The atoms are pieces of the words of the text, none of them empty, and  *)
(* no more of them are packed than there are (models/embedding_utils.py).  *)
THEOREM ChunksTyped == ChunkSpec => []ChunkTypeOK
BY ChunkInvariant, ChunkTypeIs, PTL
=============================================================================
