----------------------------- MODULE OrderLemmas -----------------------------
(* Facts about numbers and sequences that the proofs share.                 *)
EXTENDS Selection, Naturals, Sequences, SequenceTheorems, WellFoundedInduction, TLAPS

\* A set of numbers that is not empty has a least member.
LEMMA LeastNatural ==
    ASSUME NEW T, T \subseteq Nat, T # {}
    PROVE  \E x \in T : \A y \in T : x <= y
<1>1. \E x \in T : \A y \in T : ~(<<y, x>> \in OpToRel(<, Nat))
  BY NatLessThanWellFounded, WFMin, Zenon
<1>2. PICK x \in T : \A y \in T : ~(<<y, x>> \in OpToRel(<, Nat))
  BY <1>1
<1>3. \A y \in T : ~(y < x)
  <2>1. TAKE y \in T
  <2>2. <<y, x>> \in Nat \X Nat
    BY SMT
  <2>3. ~(<<y, x>> \in {ss \in Nat \X Nat : ss[1] < ss[2]})
    BY <1>2, Zenon DEF OpToRel
  <2> QED BY <2>2, <2>3
<1> QED BY <1>3, SMT

\* ... and one all of whose members lie below a bound has a greatest.
LEMMA GreatestNatural ==
    ASSUME NEW b \in Nat, NEW T, T \subseteq 0..b, T # {}
    PROVE  \E x \in T : \A y \in T : y <= x
<1> DEFINE D == {b - y : y \in T}
<1>1. D \subseteq Nat
  OBVIOUS
<1>2. D # {}
  <2>1. PICK y \in T : TRUE
    OBVIOUS
  <2>2. b - y \in D
    OBVIOUS
  <2> QED BY <2>2
<1>3. PICK d \in D : \A e \in D : d <= e
  BY <1>1, <1>2, LeastNatural
<1>4. PICK x \in T : d = b - x
  OBVIOUS
<1>5. \A y \in T : y <= x
  <2>1. TAKE y \in T
  <2>2. b - y \in D
    OBVIOUS
  <2> QED BY <2>2, <1>3, <1>4
<1> QED BY <1>5

\* A function on the numbers up to n is a sequence of length n.
LEMMA FunctionIsSeq ==
    ASSUME NEW n \in Nat, NEW S, NEW f \in [1..n -> S]
    PROVE  f \in Seq(S) /\ Len(f) = n
<1>1. f \in Seq(S)
  BY SeqDef
<1>2. Len(f) \in Nat /\ 1..Len(f) = 1..n
  BY <1>1, LenProperties
<1>3. Len(f) = n
  <2>1. CASE n = 0
    BY <1>2, <2>1
  <2>2. CASE n > 0
    <3>1. n \in 1..Len(f)
      BY <1>2, <2>2
    <3>2. Len(f) \in 1..n
      BY <1>2, <3>1
    <3> QED BY <1>2, <3>1, <3>2
  <2> QED BY <2>1, <2>2
<1> QED BY <1>1, <1>3

-----------------------------------------------------------------------------
(* What is selected from a sequence.                                       *)

\* g reads the sequence from its front: after i elements it has selected g[i].
Reads(g, T, log, n) ==
    /\ g \in [0 .. n -> Seq(T)]
    /\ g[0] = <<>>
    /\ \A i \in 1 .. n :
        g[i] = IF log[i] \in T THEN Append(g[i - 1], log[i]) ELSE g[i - 1]

\* There is such a function for every sequence ...
LEMMA ReadsExist ==
    ASSUME NEW S, NEW T, NEW log \in Seq(S)
    PROVE  \E g : Reads(g, T, log, Len(log))
<1> DEFINE Bad == {n \in Nat : n <= Len(log) /\ ~ \E g : Reads(g, T, log, n)}
<1>0. Len(log) \in Nat
  OBVIOUS
<1>1. SUFFICES ASSUME Bad # {} PROVE FALSE
  BY <1>0
<1>2. PICK n \in Bad : \A m \in Bad : n <= m
  BY <1>1, LeastNatural
<1>3. CASE n = 0
  <2>1. Reads([i \in 0 .. 0 |-> <<>>], T, log, 0)
    BY DEF Reads
  <2> QED BY <1>2, <1>3, <2>1
<1>4. CASE n # 0
  <2>1. n - 1 \in Nat /\ n - 1 \notin Bad /\ n <= Len(log)
    <3>1. n \in Nat /\ n <= Len(log)
      OBVIOUS
    <3>2. n - 1 \in Nat /\ n - 1 < n
      BY <1>4, <3>1
    <3>3. n - 1 \notin Bad
      <4> HIDE DEF Bad
      <4> QED BY <1>2, <3>1, <3>2
    <3> QED BY <3>1, <3>2, <3>3
  <2>2. PICK g : Reads(g, T, log, n - 1)
    BY <2>1
  <2> DEFINE last == IF log[n] \in T THEN Append(g[n - 1], log[n]) ELSE g[n - 1]
             h == [i \in 0 .. n |-> IF i = n THEN last ELSE g[i]]
  <2>3. g \in [0 .. n - 1 -> Seq(T)] /\ g[n - 1] \in Seq(T)
    BY <1>4, <2>1, <2>2 DEF Reads
  <2>4. last \in Seq(T)
    BY <2>3
  <2> HIDE DEF last
  <2>5. h \in [0 .. n -> Seq(T)] /\ h[0] = <<>>
    BY <2>1, <2>2, <2>3, <2>4, <1>4 DEF Reads
  <2>6. ASSUME NEW i \in 1 .. n
        PROVE  h[i] = IF log[i] \in T THEN Append(h[i - 1], log[i]) ELSE h[i - 1]
    <3>1. h[i - 1] = g[i - 1]
      BY <2>1
    <3>2. CASE i = n
      BY <3>1, <3>2, <2>1 DEF last
    <3>3. CASE i # n
      <4>1. i \in 1 .. n - 1 /\ h[i] = g[i]
        BY <3>3, <2>1
      <4> QED BY <3>1, <4>1, <2>2 DEF Reads
    <3> QED BY <3>2, <3>3
  <2>7. Reads(h, T, log, n)
    BY <2>5, <2>6 DEF Reads
  <2> QED BY <1>2, <2>7
<1> QED BY <1>3, <1>4

\* ... and what is selected is what it ends with.
LEMMA SelectedReads ==
    ASSUME NEW S, NEW T, NEW log \in Seq(S)
    PROVE  \E g : Reads(g, T, log, Len(log)) /\ Selected(log, T) = g[Len(log)]
<1> DEFINE U(g) == [i \in 0 .. Len(log) |->
                      IF i = 0 THEN <<>>
                      ELSE IF log[i] \in T THEN Append(g[i - 1], log[i]) ELSE g[i - 1]]
<1>1. PICK g : Reads(g, T, log, Len(log))
  BY ReadsExist
<1>2. g = U(g)
  <2>0. Len(log) \in Nat
    OBVIOUS
  <2>1. g = [i \in 0 .. Len(log) |-> g[i]]
    BY <1>1 DEF Reads
  <2>2. ASSUME NEW i \in 0 .. Len(log) PROVE g[i] = U(g)[i]
    <3>1. CASE i = 0
      BY <1>1, <3>1 DEF Reads
    <3>2. CASE i # 0
      <4>1. i \in 1 .. Len(log)
        BY <2>0, <3>2
      <4>2. g[i] = IF log[i] \in T THEN Append(g[i - 1], log[i]) ELSE g[i - 1]
        BY <1>1, <4>1 DEF Reads
      <4> QED BY <3>2, <4>2
    <3> QED BY <3>1, <3>2
  <2> QED BY <2>1, <2>2
<1>3. PICK f : f = U(f) /\ Selected(log, T) = f[Len(log)]
  <2> DEFINE x == CHOOSE y : y = U(y)
  <2>1. x = U(x)
    BY <1>2
  <2>2. Selected(log, T) = x[Len(log)]
    BY DEF Selected
  <2> HIDE DEF x
  <2> QED BY <2>1, <2>2
<1>5. f[0] = <<>> /\ \A i \in 1 .. Len(log) :
        f[i] = IF log[i] \in T THEN Append(f[i - 1], log[i]) ELSE f[i - 1]
  <2>1. \A i \in 0 .. Len(log) : f[i] = U(f)[i]
    BY <1>3
  <2>2. Len(log) \in Nat
    OBVIOUS
  <2> QED BY <2>1, <2>2
<1>7. f = [i \in 0 .. Len(log) |-> f[i]]
  BY <1>3
<1> HIDE DEF U
<1>6. ASSUME NEW i \in 0 .. Len(log) PROVE f[i] \in Seq(T)
  <2> DEFINE Bad == {n \in 0 .. Len(log) : f[n] \notin Seq(T)}
  <2>1. SUFFICES ASSUME Bad # {} PROVE FALSE
    OBVIOUS
  <2>0. Bad \subseteq Nat
    OBVIOUS
  <2>2. PICK n \in Bad : \A m \in Bad : n <= m
    <3> HIDE DEF Bad
    <3> QED BY <2>0, <2>1, LeastNatural
  <2>3. n # 0
    <3>1. f[0] \in Seq(T)
      <4>1. <<>> \in Seq(T)
        OBVIOUS
      <4> QED BY <1>5, <4>1, Zenon
    <3> QED BY <3>1
  <2>4. n \in 1 .. Len(log) /\ n - 1 \in 0 .. Len(log) /\ n - 1 \notin Bad
    BY <2>2, <2>3
  <2>5. f[n - 1] \in Seq(T)
    BY <2>4
  <2>6. f[n] \in Seq(T)
    <3>1. f[n] = IF log[n] \in T THEN Append(f[n - 1], log[n]) ELSE f[n - 1]
      BY <1>5, <2>4
    <3>2. log[n] \in T => Append(f[n - 1], log[n]) \in Seq(T)
      BY <2>5
    <3> QED BY <2>5, <3>1, <3>2, Zenon
  <2> QED BY <2>6
<1>8. f \in [0 .. Len(log) -> Seq(T)]
  BY <1>6, <1>7
<1> QED BY <1>3, <1>5, <1>8 DEF Reads

\* Two sequences that agree up to some place select the same up to there.
LEMMA ReadsAgree ==
    ASSUME NEW T, NEW a, NEW b, NEW g, NEW h, NEW m \in Nat, NEW n \in Nat, m <= n,
           Reads(g, T, a, m), Reads(h, T, b, n), \A i \in 1 .. m : a[i] = b[i]
    PROVE  g[m] = h[m]
<1> DEFINE Bad == {i \in 0 .. m : g[i] # h[i]}
<1>1. SUFFICES ASSUME Bad # {} PROVE FALSE
  OBVIOUS
<1>2. PICK i \in Bad : \A j \in Bad : i <= j
  <2>1. Bad \subseteq Nat
    OBVIOUS
  <2> HIDE DEF Bad
  <2> QED BY <1>1, <2>1, LeastNatural
<1>3. i # 0
  BY DEF Reads
<1>4. i \in 1 .. m /\ i \in 1 .. n /\ i - 1 \in 0 .. m /\ i - 1 \notin Bad
  BY <1>2, <1>3
<1>5. g[i - 1] = h[i - 1]
  BY <1>4
<1>6. /\ g[i] = IF a[i] \in T THEN Append(g[i - 1], a[i]) ELSE g[i - 1]
      /\ h[i] = IF b[i] \in T THEN Append(h[i - 1], b[i]) ELSE h[i - 1]
  BY <1>4 DEF Reads
<1> QED BY <1>4, <1>5, <1>6

\* Any function that reads the sequence tells what is selected.
LEMMA SelectedIs ==
    ASSUME NEW S, NEW T, NEW log \in Seq(S), NEW g, Reads(g, T, log, Len(log))
    PROVE  Selected(log, T) = g[Len(log)] /\ Selected(log, T) \in Seq(T)
<1>1. PICK h : Reads(h, T, log, Len(log)) /\ Selected(log, T) = h[Len(log)]
  BY SelectedReads
<1>2. Len(log) \in Nat
  OBVIOUS
<1>3. h[Len(log)] = g[Len(log)]
  BY <1>1, <1>2, ReadsAgree
<1>4. g[Len(log)] \in Seq(T)
  BY <1>2 DEF Reads
<1> QED BY <1>1, <1>3, <1>4

\* Nothing that is to be selected is passed over.
LEMMA SelectedHas ==
    ASSUME NEW S, NEW T, NEW log \in Seq(S), NEW p \in DOMAIN log, log[p] \in T
    PROVE  \E i \in DOMAIN Selected(log, T) : Selected(log, T)[i] = log[p]
<1>1. PICK g : Reads(g, T, log, Len(log)) /\ Selected(log, T) = g[Len(log)]
  BY SelectedReads
<1> DEFINE Has(n) == \E i \in DOMAIN g[n] : g[n][i] = log[p]
           Bad == {n \in 0 .. Len(log) : n >= p /\ ~ Has(n)}
<1>2. Len(log) \in Nat /\ p \in 1 .. Len(log)
  OBVIOUS
<1>3. SUFFICES ASSUME Bad # {} PROVE FALSE
  BY <1>1, <1>2
<1>4. PICK n \in Bad : \A m \in Bad : n <= m
  <2>1. Bad \subseteq Nat
    OBVIOUS
  <2> HIDE DEF Bad
  <2> QED BY <1>3, <2>1, LeastNatural
<1>5. n \in 1 .. Len(log) /\ n - 1 \in 0 .. Len(log) /\ n >= p /\ ~ Has(n)
  BY <1>2
<1>6. g[n - 1] \in Seq(T)
  BY <1>1, <1>5 DEF Reads
<1>7. g[n] = IF log[n] \in T THEN Append(g[n - 1], log[n]) ELSE g[n - 1]
  BY <1>1, <1>5 DEF Reads
<1>8. CASE n = p
  <2>1. g[n] = Append(g[n - 1], log[p])
    BY <1>7, <1>8
  <2>2. Len(g[n - 1]) + 1 \in DOMAIN g[n] /\ g[n][Len(g[n - 1]) + 1] = log[p]
    BY <1>6, <2>1
  <2> QED BY <1>5, <2>2
<1>9. CASE n # p
  <2>1. n - 1 \notin Bad /\ n - 1 >= p
    <3>1. n - 1 >= p /\ n - 1 < n
      BY <1>2, <1>5, <1>9
    <3>2. n - 1 \in Nat /\ n \in Nat
      BY <1>5
    <3> HIDE DEF Bad
    <3> QED BY <1>4, <3>1, <3>2
  <2>2. PICK i \in DOMAIN g[n - 1] : g[n - 1][i] = log[p]
    BY <1>5, <2>1
  <2>3. i \in DOMAIN g[n] /\ g[n][i] = log[p]
    BY <1>6, <1>7, <2>2
  <2> QED BY <1>5, <2>3
<1> QED BY <1>8, <1>9

\* One more element is selected or passed over ...
LEMMA SelectedAppend ==
    ASSUME NEW S, NEW T, NEW r \in Seq(S), NEW x \in S
    PROVE  Selected(r \o <<x>>, T) = IF x \in T THEN Selected(r, T) \o <<x>> ELSE Selected(r, T)
<1>1. PICK f : Reads(f, T, r, Len(r)) /\ Selected(r, T) = f[Len(r)]
  BY SelectedReads
<1>2. Len(r) \in Nat /\ f[Len(r)] \in Seq(T)
  BY <1>1 DEF Reads
<1>3. /\ r \o <<x>> \in Seq(S)
      /\ Len(r \o <<x>>) = Len(r) + 1
      /\ (r \o <<x>>)[Len(r) + 1] = x
      /\ \A i \in 1 .. Len(r) : (r \o <<x>>)[i] = r[i]
  OBVIOUS
<1>4. PICK log \in Seq(S) : log = r \o <<x>>
  BY <1>3
<1>5. PICK last \in Seq(T) : last = IF x \in T THEN Append(f[Len(r)], x) ELSE f[Len(r)]
  <2>1. x \in T => Append(f[Len(r)], x) \in Seq(T)
    BY <1>2
  <2>2. (IF x \in T THEN Append(f[Len(r)], x) ELSE f[Len(r)]) \in Seq(T)
    BY <1>2, <2>1, Zenon
  <2> QED BY <2>2
<1> DEFINE h == [i \in 0 .. (Len(r) + 1) |-> IF i = Len(r) + 1 THEN last ELSE f[i]]
<1>6. h \in [0 .. (Len(r) + 1) -> Seq(T)]
  BY <1>1, <1>2 DEF Reads
<1>7. /\ h[0] = <<>>
      /\ h[Len(r) + 1] = last
      /\ \A i \in 0 .. Len(r) : h[i] = f[i]
  BY <1>1, <1>2 DEF Reads
<1> HIDE DEF h
<1>8. ASSUME NEW i \in 1 .. (Len(r) + 1)
      PROVE  h[i] = IF log[i] \in T THEN Append(h[i - 1], log[i]) ELSE h[i - 1]
  <2>1. CASE i = Len(r) + 1
    <3>1. log[i] = x /\ h[i] = last /\ h[i - 1] = f[Len(r)]
      BY <1>2, <1>3, <1>4, <1>7, <2>1
    <3> QED BY <1>5, <3>1
  <2>2. CASE i # Len(r) + 1
    <3>1. i \in 1 .. Len(r) /\ i \in 0 .. Len(r) /\ i - 1 \in 0 .. Len(r)
      BY <1>2, <2>2
    <3>2. log[i] = r[i] /\ h[i] = f[i] /\ h[i - 1] = f[i - 1]
      BY <1>3, <1>4, <1>7, <3>1
    <3>3. f[i] = IF r[i] \in T THEN Append(f[i - 1], r[i]) ELSE f[i - 1]
      BY <1>1, <3>1 DEF Reads
    <3> QED BY <3>2, <3>3
  <2> QED BY <2>1, <2>2
<1>9. Reads(h, T, log, Len(log))
  <2>1. Len(log) = Len(r) + 1
    BY <1>3, <1>4
  <2> QED BY <1>6, <1>7, <1>8, <2>1 DEF Reads
<1>10. Selected(log, T) = last
  <2>1. Selected(log, T) = h[Len(log)]
    BY <1>9, SelectedIs, Zenon
  <2> QED BY <1>3, <1>4, <1>7, <2>1
<1>11. x \in T => Append(f[Len(r)], x) = f[Len(r)] \o <<x>>
  BY <1>2, AppendIsConcat
<1> QED BY <1>1, <1>4, <1>5, <1>10, <1>11

\* ... and members of the set are selected as they come.
LEMMA SelectedConcat ==
    ASSUME NEW S, NEW T, T \subseteq S, NEW r \in Seq(S), NEW s \in Seq(T)
    PROVE  Selected(r \o s, T) = Selected(r, T) \o s
<1>0. Len(s) \in Nat /\ s \in Seq(S)
  OBVIOUS
<1>1. PICK h \in Seq(T) : h = Selected(r, T)
  BY SelectedReads, SelectedIs
<1> DEFINE P(j) == Selected(r \o SubSeq(s, 1, j), T) = h \o SubSeq(s, 1, j)
           Bad == {j \in 0 .. Len(s) : ~ P(j)}
<1>2. P(0)
  <2>1. SubSeq(s, 1, 0) = <<>>
    BY SubSeqEmpty
  <2>2. r \o <<>> = r /\ h \o <<>> = h
    OBVIOUS
  <2> QED BY <1>1, <2>1, <2>2
<1>3. ASSUME NEW j \in 1 .. Len(s), P(j - 1) PROVE P(j)
  <2>1. SubSeq(s, 1, j) = SubSeq(s, 1, j - 1) \o <<s[j]>>
    BY <1>0, SubSeqRecursiveSecond
  <2>2. PICK t \in Seq(T) : t = SubSeq(s, 1, j - 1)
    <3>1. SubSeq(s, 1, j - 1) \in Seq(T)
      BY <1>0
    <3> QED BY <3>1
  <2>3. s[j] \in T /\ <<s[j]>> \in Seq(T) /\ <<s[j]>> \in Seq(S) /\ t \in Seq(S)
    BY <1>0
  <2>4. r \o (t \o <<s[j]>>) = (r \o t) \o <<s[j]>>
    BY <2>3, ConcatAssociative
  <2>5. h \o (t \o <<s[j]>>) = (h \o t) \o <<s[j]>>
    BY <2>3, ConcatAssociative
  <2>6. r \o t \in Seq(S)
    BY <2>3, ConcatProperties
  <2>7. Selected((r \o t) \o <<s[j]>>, T) = Selected(r \o t, T) \o <<s[j]>>
    <3>1. PICK x \in S : x = s[j] /\ x \in T
      BY <2>3
    <3>2. PICK w \in Seq(S) : w = r \o t
      BY <2>6
    <3>3. Selected(w \o <<x>>, T) = IF x \in T THEN Selected(w, T) \o <<x>> ELSE Selected(w, T)
      BY SelectedAppend
    <3> QED BY <3>1, <3>2, <3>3, Zenon
  <2> QED BY <1>3, <2>1, <2>2, <2>4, <2>5, <2>7
<1> HIDE DEF P
<1>4. Bad = {}
  <2> SUFFICES ASSUME Bad # {} PROVE FALSE
    OBVIOUS
  <2>1. PICK j \in Bad : \A i \in Bad : j <= i
    <3>1. Bad \subseteq Nat
      OBVIOUS
    <3> HIDE DEF Bad
    <3> QED BY <3>1, LeastNatural
  <2>2. j \in 1 .. Len(s) /\ j - 1 \in 0 .. Len(s) /\ j - 1 \notin Bad
    BY <1>0, <1>2, <2>1
  <2> QED BY <1>3, <2>1, <2>2
<1>5. P(Len(s))
  BY <1>0, <1>4
<1> QED BY <1>1, <1>5, SubSeqFull DEF P

\* Nothing is selected from an empty sequence.
LEMMA SelectedEmpty ==
    ASSUME NEW T
    PROVE  Selected(<<>>, T) = <<>>
<1>1. <<>> \in Seq(T) /\ Len(<<>>) = 0
  OBVIOUS
<1>2. PICK g : Reads(g, T, <<>>, Len(<<>>)) /\ Selected(<<>>, T) = g[Len(<<>>)]
  BY <1>1, SelectedReads
<1> QED BY <1>1, <1>2 DEF Reads

\* What is selected comes from the sequence.
LEMMA SelectedFrom ==
    ASSUME NEW S, NEW T, NEW R, NEW s \in Seq(S), \A i \in 1 .. Len(s) : s[i] \in R
    PROVE  Selected(s, T) \in Seq(T \cap R)
<1>1. PICK g : Reads(g, T \cap R, s, Len(s))
  BY ReadsExist
<1>2. Len(s) \in Nat /\ g \in [0 .. Len(s) -> Seq(T \cap R)] /\ g[0] = <<>>
  BY <1>1 DEF Reads
<1>3. g \in [0 .. Len(s) -> Seq(T)]
  <2>1. \A i \in 0 .. Len(s) : g[i] \in Seq(T \cap R)
    BY <1>2
  <2>2. \A t \in Seq(T \cap R) : t \in Seq(T)
    OBVIOUS
  <2> QED BY <1>2, <2>1, <2>2, Zenon
<1>4. \A i \in 1 .. Len(s) :
        g[i] = IF s[i] \in T THEN Append(g[i - 1], s[i]) ELSE g[i - 1]
  BY <1>1 DEF Reads
<1>5. Reads(g, T, s, Len(s))
  BY <1>2, <1>3, <1>4 DEF Reads
<1>6. Selected(s, T) = g[Len(s)]
  BY <1>5, SelectedIs
<1>7. Len(s) \in 0 .. Len(s)
  BY <1>2
<1> QED BY <1>2, <1>6, <1>7

\* The first element is selected first, or passed over.
LEMMA SelectedPrepend ==
    ASSUME NEW S, NEW T, NEW s \in Seq(S), NEW x \in S
    PROVE  Selected(<<x>> \o s, T) =
             (IF x \in T THEN <<x>> ELSE <<>>) \o Selected(s, T)
<1>0. Len(s) \in Nat /\ <<x>> \in Seq(S)
  OBVIOUS
<1>1. PICK h \in Seq(T) : h = IF x \in T THEN <<x>> ELSE <<>>
  <2>1. (IF x \in T THEN <<x>> ELSE <<>>) \in Seq(T)
    OBVIOUS
  <2> QED BY <2>1
<1> DEFINE P(j) == Selected(<<x>> \o SubSeq(s, 1, j), T) = h \o Selected(SubSeq(s, 1, j), T)
           Bad == {j \in 0 .. Len(s) : ~ P(j)}
<1>2. P(0)
  <2>1. SubSeq(s, 1, 0) = <<>>
    BY SubSeqEmpty
  <2>2. <<x>> \o <<>> = <<x>> /\ <<>> \o <<x>> = <<x>> /\ h \o <<>> = h
    OBVIOUS
  <2>3. PICK r \in Seq(S) : r = <<>>
    <3>1. <<>> \in Seq(S)
      OBVIOUS
    <3> QED BY <3>1, Zenon
  <2>4. Selected(r \o <<x>>, T) = IF x \in T THEN Selected(r, T) \o <<x>> ELSE Selected(r, T)
    BY SelectedAppend
  <2>5. Selected(<<x>>, T) = h
    BY <1>1, <2>2, <2>3, <2>4, SelectedEmpty, Zenon
  <2>6. Selected(<<x>> \o <<>>, T) = h \o Selected(<<>>, T)
    <3>1. Selected(<<>>, T) = <<>>
      BY SelectedEmpty
    <3> QED BY <2>2, <2>5, <3>1, Zenon
  <2> QED BY <2>1, <2>6
<1>3. ASSUME NEW j \in 1 .. Len(s), P(j - 1) PROVE P(j)
  <2>1. SubSeq(s, 1, j) = SubSeq(s, 1, j - 1) \o <<s[j]>>
    BY <1>0, SubSeqRecursiveSecond
  <2>2. PICK t \in Seq(S) : t = SubSeq(s, 1, j - 1)
    <3>1. SubSeq(s, 1, j - 1) \in Seq(S)
      BY <1>0
    <3> QED BY <3>1
  <2>3. PICK y \in S : y = s[j] /\ <<y>> \in Seq(S)
    BY <1>0
  <2>4. <<x>> \o (t \o <<y>>) = (<<x>> \o t) \o <<y>>
    BY <1>0, <2>3, ConcatAssociative
  <2>5. PICK w \in Seq(S) : w = <<x>> \o t
    BY <1>0, ConcatProperties
  <2>6. Selected(w \o <<y>>, T) = IF y \in T THEN Selected(w, T) \o <<y>> ELSE Selected(w, T)
    BY SelectedAppend
  <2>7. Selected(t \o <<y>>, T) = IF y \in T THEN Selected(t, T) \o <<y>> ELSE Selected(t, T)
    BY SelectedAppend
  <2>8. PICK g \in Seq(T) : g = Selected(t, T)
    BY SelectedReads, SelectedIs
  <2>9. y \in T => h \o (g \o <<y>>) = (h \o g) \o <<y>>
    <3>1. y \in T => <<y>> \in Seq(T)
      OBVIOUS
    <3> QED BY <3>1, ConcatAssociative
  <2>10. Selected(w, T) = h \o g
    BY <1>3, <2>2, <2>5, <2>8
  <2>11. Selected(w \o <<y>>, T) = h \o Selected(t \o <<y>>, T)
    BY <2>6, <2>7, <2>8, <2>9, <2>10, Zenon
  <2> QED BY <2>1, <2>2, <2>3, <2>4, <2>5, <2>11
<1> HIDE DEF P
<1>4. Bad = {}
  <2> SUFFICES ASSUME Bad # {} PROVE FALSE
    OBVIOUS
  <2>1. PICK j \in Bad : \A i \in Bad : j <= i
    <3>1. Bad \subseteq Nat
      OBVIOUS
    <3> HIDE DEF Bad
    <3> QED BY <3>1, LeastNatural
  <2>2. j \in 1 .. Len(s) /\ j - 1 \in 0 .. Len(s) /\ j - 1 \notin Bad
    BY <1>0, <1>2, <2>1
  <2> QED BY <1>3, <2>1, <2>2
<1>5. P(Len(s))
  BY <1>0, <1>4
<1> QED BY <1>1, <1>5, SubSeqFull DEF P
==============================================================================
