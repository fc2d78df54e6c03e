------------------------------- MODULE OracleProofs -------------------------------
(***************************************************************************)
(* The report of oracle.py for every trace and every set of pool sizes.    *)
(*                                                                         *)
(* The inductive invariant follows what the loops of main() keep: the trie *)
(* holds the prefixes of the requests walked so far and nothing else, u is *)
(* the size the trie had, and last_index the group's last request.  What   *)
(* the report says then rests on facts about sums over finite sets and     *)
(* about the order the groups are fitted in, proved first.                 *)
(***************************************************************************)
EXTENDS Oracle, SequenceTheorems, FiniteSetTheorems, WellFoundedInduction, TLAPS

(* Every non-empty set of naturals has a least element.                    *)
LEMMA Least ==
  ASSUME NEW T, T \subseteq Nat, T # {}
  PROVE  \E x \in T : \A y \in T : x <= y
<1>1. \E x \in T : \A y \in T : ~ (<<y, x>> \in OpToRel(<, Nat))
  BY NatLessThanWellFounded, WFMin
<1>2. PICK x \in T : \A y \in T : ~ (<<y, x>> \in OpToRel(<, Nat))
  BY <1>1
<1>3. \A y \in T : ~ (y < x)
  <2> TAKE y \in T
  <2>1. y \in Nat /\ x \in Nat
    OBVIOUS
  <2>2. y < x => <<y, x>> \in OpToRel(<, Nat)
    BY <2>1 DEF OpToRel
  <2> QED
    BY <1>2, <2>2
<1>4. \A y \in T : x <= y
  <2> TAKE y \in T
  <2>1. y \in Nat /\ x \in Nat /\ ~ (y < x)
    BY <1>3
  <2> QED
    BY <2>1
<1> QED
  BY <1>4

(* Walk stops where a child is missing: the CHOOSE has a value.            *)
LEMMA WalkStops ==
  ASSUME NEW trie_, NEW seq \in Seq(Nat)
  PROVE  /\ Walk(trie_, seq) \in 0..Len(seq)
         /\ \A m \in 1..Walk(trie_, seq) : SubSeq(seq, 1, m) \in trie_
         /\ Walk(trie_, seq) < Len(seq) => SubSeq(seq, 1, Walk(trie_, seq) + 1) \notin trie_
<1> DEFINE T == {n \in 0..Len(seq) : n < Len(seq) => SubSeq(seq, 1, n + 1) \notin trie_}
<1>1. Len(seq) \in Nat
  OBVIOUS
<1>2. T \subseteq Nat /\ Len(seq) \in T
  BY <1>1
<1>3. PICK x \in T : \A y \in T : x <= y
  <2> HIDE DEF T
  <2> QED
    BY <1>2, Least
<1>4. \A m \in 1..x : SubSeq(seq, 1, m) \in trie_
  <2> SUFFICES ASSUME NEW m \in 1..x PROVE SubSeq(seq, 1, m) \in trie_
    OBVIOUS
  <2>1. x \in Nat /\ x <= Len(seq) /\ m \in Nat /\ m - 1 \in 0..Len(seq) /\ m - 1 < Len(seq) /\ m - 1 < x
    BY <1>1
  <2>2. m - 1 \notin T
    <3> HIDE DEF T
    <3>1. m - 1 \in T => x <= m - 1
      BY <1>3
    <3> QED
      BY <3>1, <2>1
  <2>3. SubSeq(seq, 1, (m - 1) + 1) \in trie_
    BY <2>1, <2>2
  <2>4. (m - 1) + 1 = m
    BY <2>1
  <2> QED
    BY <2>3, <2>4
<1>5. \E n \in 0..Len(seq) :
        /\ \A m \in 1..n : SubSeq(seq, 1, m) \in trie_
        /\ n < Len(seq) => SubSeq(seq, 1, n + 1) \notin trie_
  BY <1>4
<1> QED
  BY <1>5 DEF Walk

(* Two sequences agree on the first LCP of their elements and not on the   *)
(* next one.                                                               *)
LEMMA LCPStops ==
  ASSUME NEW a \in Seq(Nat), NEW b \in Seq(Nat)
  PROVE  /\ LCP(a, b) \in Nat /\ LCP(a, b) <= Len(a) /\ LCP(a, b) <= Len(b)
         /\ \A m \in 1..LCP(a, b) : a[m] = b[m]
         /\ LCP(a, b) < Len(a) /\ LCP(a, b) < Len(b) => a[LCP(a, b) + 1] # b[LCP(a, b) + 1]
<1> DEFINE D == {n \in 0..Len(a) : n <= Len(b)}
           T == {n \in D : n < Len(a) /\ n < Len(b) => a[n + 1] # b[n + 1]}
<1>1. Len(a) \in Nat /\ Len(b) \in Nat
  OBVIOUS
<1>2. T \subseteq Nat /\ T # {}
  <2>1. CASE Len(a) <= Len(b)
    <3>1. Len(a) \in T
      BY <1>1, <2>1
    <3> QED
      BY <3>1
  <2>2. CASE Len(b) <= Len(a)
    <3>1. Len(b) \in T
      BY <1>1, <2>2
    <3> QED
      BY <3>1
  <2> QED
    BY <1>1, <2>1, <2>2
<1>3. PICK x \in T : \A y \in T : x <= y
  <2> HIDE DEF T
  <2> QED
    BY <1>2, Least
<1>4. \A m \in 1..x : a[m] = b[m]
  <2> SUFFICES ASSUME NEW m \in 1..x PROVE a[m] = b[m]
    OBVIOUS
  <2>1. x \in Nat /\ x <= Len(a) /\ x <= Len(b) /\ m \in Nat /\ m - 1 \in D
        /\ m - 1 < Len(a) /\ m - 1 < Len(b) /\ m - 1 < x /\ (m - 1) + 1 = m
    BY <1>1
  <2>2. m - 1 \notin T
    <3> HIDE DEF T
    <3>1. m - 1 \in T => x <= m - 1
      BY <1>3
    <3> QED
      BY <3>1, <2>1
  <2>3. a[(m - 1) + 1] = b[(m - 1) + 1]
    BY <2>1, <2>2
  <2> QED
    BY <2>1, <2>3
<1>5. \E n \in D :
        /\ \A m \in 1..n : a[m] = b[m]
        /\ n < Len(a) /\ n < Len(b) => a[n + 1] # b[n + 1]
  BY <1>4
<1> DEFINE L == LCP(a, b)
<1>6. /\ L \in D
      /\ \A m \in 1..L : a[m] = b[m]
      /\ L < Len(a) /\ L < Len(b) => a[L + 1] # b[L + 1]
  BY <1>5 DEF LCP
<1> QED
  BY <1>1, <1>6

LEMMA PrefixLen ==
  ASSUME NEW c \in Seq(Nat), NEW n \in Nat, n <= Len(c)
  PROVE  Len(SubSeq(c, 1, n)) = n
<1>1. \A m \in 1..n : c[m] \in Nat
  OBVIOUS
<1>2. Len(SubSeq(c, 1, n)) = IF 1 <= n THEN n - 1 + 1 ELSE 0
  BY <1>1, SubSeqProperties
<1> QED
  BY <1>2

(* The same n elements are the same prefix.                                *)
LEMMA SamePrefix ==
  ASSUME NEW a \in Seq(Nat), NEW b \in Seq(Nat), NEW n \in Nat, n <= Len(a), n <= Len(b)
  PROVE  SubSeq(a, 1, n) = SubSeq(b, 1, n) <=> \A m \in 1..n : a[m] = b[m]
<1>1. ASSUME NEW c \in Seq(Nat), n <= Len(c)
      PROVE  /\ SubSeq(c, 1, n) \in Seq(Nat)
             /\ Len(SubSeq(c, 1, n)) = n
             /\ \A m \in 1..n : SubSeq(c, 1, n)[m] = c[m]
  <2>1. \A m \in 1..n : c[m] \in Nat
    BY <1>1
  <2>2. /\ SubSeq(c, 1, n) \in Seq(Nat)
        /\ Len(SubSeq(c, 1, n)) = IF 1 <= n THEN n - 1 + 1 ELSE 0
        /\ \A m \in 1..n - 1 + 1 : SubSeq(c, 1, n)[m] = c[1 + m - 1]
    BY <2>1, SubSeqProperties
  <2>3. n - 1 + 1 = n /\ (1 <= n \/ n = 0)
    OBVIOUS
  <2>4. \A m \in 1..n : 1 + m - 1 = m
    OBVIOUS
  <2> QED
    BY <2>2, <2>3, <2>4
<1>2. SubSeq(a, 1, n) \in Seq(Nat) /\ Len(SubSeq(a, 1, n)) = n
      /\ \A m \in 1..n : SubSeq(a, 1, n)[m] = a[m]
  BY <1>1
<1>3. SubSeq(b, 1, n) \in Seq(Nat) /\ Len(SubSeq(b, 1, n)) = n
      /\ \A m \in 1..n : SubSeq(b, 1, n)[m] = b[m]
  BY <1>1
<1>4. ASSUME \A m \in 1..n : a[m] = b[m] PROVE SubSeq(a, 1, n) = SubSeq(b, 1, n)
  BY <1>2, <1>3, <1>4, SeqEqual
<1> QED
  BY <1>2, <1>3, <1>4

-----------------------------------------------------------------------------
(* What Walk finds in the trie of the first k - 1 sequences is what the    *)
(* best of them shares with sequence k.                                    *)
LEMMA WalkIsLongest ==
  ASSUME NEW seqs \in Seq(Seq(Nat)), NEW k \in 1..Len(seqs)
  PROVE  LET h == Walk(TrieAfter(seqs, k - 1), seqs[k])
         IN  /\ \A j \in 1..k - 1 : LCP(seqs[j], seqs[k]) <= h
             /\ h > 0 => \E j \in 1..k - 1 : LCP(seqs[j], seqs[k]) = h
<1> DEFINE t == TrieAfter(seqs, k - 1)
           s == seqs[k]
           h == Walk(t, s)
<1>1. s \in Seq(Nat) /\ Len(s) \in Nat /\ k - 1 \in Nat
  OBVIOUS
<1>2. \A j \in 1..k - 1 : seqs[j] \in Seq(Nat) /\ Len(seqs[j]) \in Nat
  OBVIOUS
<1>3. /\ h \in Nat /\ h <= Len(s)
      /\ \A m \in 1..h : SubSeq(s, 1, m) \in t
      /\ h < Len(s) => SubSeq(s, 1, h + 1) \notin t
  BY <1>1, WalkStops
<1> HIDE DEF h
<1>4. ASSUME NEW j \in 1..k - 1 PROVE LCP(seqs[j], s) <= h
  <2> DEFINE a == seqs[j]
             L == LCP(a, s)
  <2>1. a \in Seq(Nat) /\ Len(a) \in Nat /\ L \in Nat /\ L <= Len(a) /\ L <= Len(s)
        /\ \A m \in 1..L : a[m] = s[m]
    BY <1>1, <1>2, LCPStops
  <2>0. SUFFICES L <= h
    OBVIOUS
  <2> HIDE DEF L, a
  <2>2. SUFFICES ASSUME h < L PROVE FALSE
    BY <1>3, <2>1
  <2>3. h + 1 \in Nat /\ h + 1 <= Len(a) /\ h + 1 <= Len(s) /\ h < Len(s) /\ h + 1 \in 1..Len(a)
    <3>1. L \in Nat /\ L <= Len(a) /\ L <= Len(s) /\ Len(a) \in Nat /\ Len(s) \in Nat
      BY <1>1, <2>1
    <3>2. h \in Nat /\ h + 1 \in Nat /\ h + 1 <= L
      BY <1>3, <2>2, <3>1
    <3> QED
      BY <3>1, <3>2
  <2>4. \A m \in 1..h + 1 : a[m] = s[m]
    <3>1. \A m \in 1..h + 1 : m \in 1..L
      BY <1>3, <2>1, <2>2
    <3> QED
      BY <2>1, <3>1
  <2>5. SubSeq(a, 1, h + 1) = SubSeq(s, 1, h + 1)
    BY <1>1, <2>1, <2>3, <2>4, SamePrefix
  <2>6. SubSeq(a, 1, h + 1) \in Nodes(a)
    BY <2>3 DEF Nodes
  <2>7. SubSeq(s, 1, h + 1) \in t
    BY <2>5, <2>6 DEF TrieAfter, a
  <2> QED
    BY <1>3, <2>3, <2>7
<1>5. ASSUME h > 0 PROVE \E j \in 1..k - 1 : LCP(seqs[j], s) = h
  <2>1. SubSeq(s, 1, h) \in t
    BY <1>3, <1>5
  <2>2. PICK j \in 1..k - 1 : SubSeq(s, 1, h) \in Nodes(seqs[j])
    BY <2>1 DEF TrieAfter
  <2> DEFINE a == seqs[j]
             L == LCP(a, s)
  <2>3. a \in Seq(Nat) /\ Len(a) \in Nat
    BY <1>2
  <2>4. PICK n \in 1..Len(a) : SubSeq(s, 1, h) = SubSeq(a, 1, n)
    BY <2>2 DEF Nodes
  <2>5. n = h
    <3>1. Len(SubSeq(s, 1, h)) = h
      BY <1>1, <1>3, <1>5, PrefixLen
    <3>2. Len(SubSeq(a, 1, n)) = n
      BY <2>3, PrefixLen
    <3> QED
      BY <2>4, <3>1, <3>2
  <2>6. \A m \in 1..h : a[m] = s[m]
    BY <1>1, <1>3, <2>3, <2>4, <2>5, SamePrefix
  <2>7. /\ L \in Nat /\ L <= Len(a) /\ L <= Len(s)
        /\ L < Len(a) /\ L < Len(s) => a[L + 1] # s[L + 1]
    BY <1>1, <2>3, LCPStops
  <2>8. L <= h
    BY <1>4
  <2> HIDE DEF L
  <2>9. ~(L < h)
    <3> SUFFICES ASSUME L < h PROVE FALSE
      OBVIOUS
    <3>1. h \in Nat /\ h <= Len(a) /\ h <= Len(s)
      BY <1>3, <2>3, <2>5
    <3> HIDE DEF a, s
    <3>2. L + 1 \in 1..h
      BY <2>7, <3>1
    <3>3. L < Len(a) /\ L < Len(s)
      <4>1. L \in Nat /\ Len(a) \in Nat /\ Len(s) \in Nat
        BY <1>1, <2>3, <2>7
      <4> QED
        BY <3>1, <4>1
    <3> QED
      BY <2>6, <2>7, <3>2, <3>3
  <2>10. L = h
    BY <1>3, <2>7, <2>8, <2>9
  <2> QED
    BY <2>10 DEF L
<1> QED
  BY <1>4, <1>5 DEF h

-----------------------------------------------------------------------------
LEMMA TrieGrows ==
  ASSUME NEW seqs \in Seq(Seq(Nat)), NEW k \in 1..Len(seqs)
  PROVE  TrieAfter(seqs, k) = TrieAfter(seqs, k - 1) \cup Nodes(seqs[k])
<1>1. 1..k = (1..k - 1) \cup {k}
  OBVIOUS
<1> QED
  BY <1>1 DEF TrieAfter

LEMMA SmallestSet ==
  ASSUME NEW S, IsFiniteSet(S), NEW T, T \subseteq SUBSET S, T # {}
  PROVE  \E x \in T : \A y \in T : y \subseteq x => y = x
<1>1. IsWellFoundedOn(StrictSubsetOrdering(S), FiniteSubsetsOf(S))
  BY FS_StrictSubsetOrderingWellFounded
<1>2. T \subseteq FiniteSubsetsOf(S)
  BY FS_Subset DEF FiniteSubsetsOf
<1>3. PICK x \in T : \A y \in T : ~ (<<y, x>> \in StrictSubsetOrdering(S))
  BY <1>1, <1>2, WFMin
<1> QED
  BY <1>3 DEF StrictSubsetOrdering

Pick(s) == CHOOSE x \in s : TRUE

\* it is the recursive function of MapThenFoldSet on the subsets of S.
Adds(it, f, S) ==
  it = [s \in SUBSET S |-> IF s = {} THEN 0 ELSE f[Pick(s)] + it[s \ {Pick(s)}]]

LEMMA AddsOnce ==
  ASSUME NEW f, NEW D, NEW E, IsFiniteSet(D), NEW g, NEW h, Adds(g, f, D), Adds(h, f, E),
         NEW s, s \subseteq D, s \subseteq E
  PROVE  g[s] = h[s]
<1> DEFINE T == {t \in SUBSET s : g[t] # h[t]}
<1> SUFFICES ASSUME T # {} PROVE FALSE
  OBVIOUS
<1>1. IsFiniteSet(s)
  BY FS_Subset
<1>2. PICK t \in T : \A y \in T : y \subseteq t => y = t
  <2> HIDE DEF T
  <2>1. T \subseteq SUBSET s
    BY DEF T
  <2> QED
    BY <1>1, <2>1, SmallestSet
<1>3. g[t] = (IF t = {} THEN 0 ELSE f[Pick(t)] + g[t \ {Pick(t)}])
  BY DEF Adds
<1>4. h[t] = (IF t = {} THEN 0 ELSE f[Pick(t)] + h[t \ {Pick(t)}])
  BY DEF Adds
<1>5. t # {}
  BY <1>3, <1>4
<1>6. Pick(t) \in t
  BY <1>5 DEF Pick
<1>7. g[t \ {Pick(t)}] = h[t \ {Pick(t)}]
  BY <1>2, <1>6
<1> QED
  BY <1>3, <1>4, <1>7

LEMMA AddsExists ==
  ASSUME NEW f, NEW S, IsFiniteSet(S)
  PROVE  \E it : Adds(it, f, S)
<1> DEFINE T == {D \in SUBSET S : ~ \E it : Adds(it, f, D)}
<1> SUFFICES ASSUME T # {} PROVE FALSE
  OBVIOUS
<1>1. PICK D \in T : \A E \in T : E \subseteq D => E = D
  <2> HIDE DEF T
  <2>1. T \subseteq SUBSET S
    BY DEF T
  <2> QED
    BY <2>1, SmallestSet
<1> DEFINE G(E) == CHOOSE it : Adds(it, f, E)
<1>2. \A E \in SUBSET D : E # D => Adds(G(E), f, E)
  BY <1>1
<1> DEFINE it == [s \in SUBSET D |->
                    IF s = {} THEN 0
                    ELSE f[Pick(s)] + G(s \ {Pick(s)})[s \ {Pick(s)}]]
<1>3. ASSUME NEW s \in SUBSET D, s # {}
      PROVE  it[s \ {Pick(s)}] = G(s \ {Pick(s)})[s \ {Pick(s)}]
  <2> DEFINE t == s \ {Pick(s)}
  <2>1. t \in SUBSET D /\ t # D
    BY <1>3 DEF Pick
  <2>2. Adds(G(t), f, t)
    BY <1>2, <2>1
  <2> HIDE DEF G
  <2>3. G(t)[t] = (IF t = {} THEN 0 ELSE f[Pick(t)] + G(t)[t \ {Pick(t)}])
    BY <2>2 DEF Adds
  <2>4. it[t] = IF t = {} THEN 0 ELSE f[Pick(t)] + G(t \ {Pick(t)})[t \ {Pick(t)}]
    BY <2>1
  <2>5. t # {} => G(t)[t \ {Pick(t)}] = G(t \ {Pick(t)})[t \ {Pick(t)}]
    <3> DEFINE w == t \ {Pick(t)}
    <3>1. w \in SUBSET D /\ w # D
      BY <2>1
    <3>2. Adds(G(w), f, w)
      BY <1>2, <3>1
    <3>3. IsFiniteSet(t)
      BY <2>1, FS_Subset
    <3>4. w \subseteq t
      OBVIOUS
    <3> HIDE DEF w, t
    <3>5. G(t)[w] = G(w)[w]
      BY <2>2, <3>2, <3>3, <3>4, AddsOnce
    <3> QED
      BY <3>5 DEF w
  <2> QED
    BY <2>3, <2>4, <2>5
<1>4. Adds(it, f, D)
  <2> HIDE DEF G
  <2>1. it = [s \in SUBSET D |-> IF s = {} THEN 0 ELSE f[Pick(s)] + it[s \ {Pick(s)}]]
    BY <1>3
  <2> HIDE DEF it
  <2> QED
    BY <2>1 DEF Adds
<1> QED
  BY <1>1, <1>4

LEMMA SumIsAdds ==
  ASSUME NEW f, NEW S, IsFiniteSet(S)
  PROVE  \E it : Adds(it, f, S) /\ SumFunctionOnSet(f, S) = it[S]
<1> DEFINE it == CHOOSE it : Adds(it, f, S)
<1>1. SumFunctionOnSet(f, S) = it[S]
  BY DEF SumFunctionOnSet, FoldFunctionOnSet, MapThenFoldSet, Adds, Pick
<1>2. Adds(it, f, S)
  BY AddsExists
<1> QED
  BY <1>1, <1>2

LEMMA SumEmpty == \A f : SumFunctionOnSet(f, {}) = 0
<1> TAKE f
<1>1. IsFiniteSet({})
  BY FS_EmptySet
<1>2. PICK it : Adds(it, f, {}) /\ SumFunctionOnSet(f, {}) = it[{}]
  BY <1>1, SumIsAdds
<1> QED
  BY <1>2 DEF Adds

LEMMA SumPick ==
  ASSUME NEW f, NEW S, IsFiniteSet(S), S # {}
  PROVE  /\ Pick(S) \in S
         /\ SumFunctionOnSet(f, S) = f[Pick(S)] + SumFunctionOnSet(f, S \ {Pick(S)})
<1> DEFINE R == S \ {Pick(S)}
<1>1. PICK it : Adds(it, f, S) /\ SumFunctionOnSet(f, S) = it[S]
  BY SumIsAdds
<1>2. IsFiniteSet(R)
  BY FS_Subset
<1>3. PICK g : Adds(g, f, R) /\ SumFunctionOnSet(f, R) = g[R]
  <2> HIDE DEF R
  <2> QED BY <1>2, SumIsAdds
<1>4. it[R] = g[R]
  <2>1. R \subseteq S
    OBVIOUS
  <2> HIDE DEF R
  <2> QED BY <1>1, <1>2, <1>3, <2>1, AddsOnce
<1>5. it[S] = f[Pick(S)] + it[R]
  BY <1>1 DEF Adds
<1> QED
  BY <1>1, <1>3, <1>4, <1>5 DEF Pick

LEMMA SumNat ==
  ASSUME NEW f, NEW S, IsFiniteSet(S), \A x \in S : f[x] \in Nat
  PROVE  SumFunctionOnSet(f, S) \in Nat
<1> DEFINE T == {D \in SUBSET S : SumFunctionOnSet(f, D) \notin Nat}
<1> SUFFICES ASSUME T # {} PROVE FALSE
  OBVIOUS
<1>1. PICK D \in T : \A E \in T : E \subseteq D => E = D
  <2> HIDE DEF T
  <2>1. T \subseteq SUBSET S
    BY DEF T
  <2> QED
    BY <2>1, SmallestSet
<1>2. D # {}
  BY SumEmpty
<1>3. IsFiniteSet(D)
  BY FS_Subset
<1>4. Pick(D) \in D /\ SumFunctionOnSet(f, D) = f[Pick(D)] + SumFunctionOnSet(f, D \ {Pick(D)})
  BY <1>2, <1>3, SumPick
<1>5. SumFunctionOnSet(f, D \ {Pick(D)}) \in Nat
  BY <1>1, <1>4
<1> QED
  BY <1>4, <1>5

LEMMA SumAdd ==
  ASSUME NEW f, NEW S, IsFiniteSet(S), \A x \in S : f[x] \in Nat, NEW y \in S
  PROVE  SumFunctionOnSet(f, S) = f[y] + SumFunctionOnSet(f, S \ {y})
<1> DEFINE T == {D \in SUBSET S : \E z \in D :
                   SumFunctionOnSet(f, D) # f[z] + SumFunctionOnSet(f, D \ {z})}
<1> SUFFICES ASSUME T # {} PROVE FALSE
  OBVIOUS
<1>1. PICK D \in T : \A E \in T : E \subseteq D => E = D
  <2> HIDE DEF T
  <2>1. T \subseteq SUBSET S
    BY DEF T
  <2> QED
    BY <2>1, SmallestSet
<1>2. PICK z \in D : SumFunctionOnSet(f, D) # f[z] + SumFunctionOnSet(f, D \ {z})
  OBVIOUS
<1> DEFINE c == Pick(D)
           Dc == D \ {c}
           Dz == D \ {z}
           Dcz == D \ {c, z}
<1>3. IsFiniteSet(D)
  BY FS_Subset
<1>4. c \in D /\ SumFunctionOnSet(f, D) = f[c] + SumFunctionOnSet(f, Dc)
  BY <1>3, SumPick
<1>5. c # z
  BY <1>2, <1>4
<1>6. ASSUME NEW E \in SUBSET D, E # D, NEW w \in E
       PROVE  SumFunctionOnSet(f, E) = f[w] + SumFunctionOnSet(f, E \ {w})
  <2>1. E \notin T /\ E \in SUBSET S
    <3> HIDE DEF T
    <3>1. D \in SUBSET S
      BY DEF T
    <3> QED
      BY <1>1, <1>6, <3>1
  <2> QED
    BY <2>1
<1>7. SumFunctionOnSet(f, Dc) = f[z] + SumFunctionOnSet(f, Dc \ {z})
  <2>1. Dc \in SUBSET D /\ Dc # D /\ z \in Dc
    BY <1>4, <1>5
  <2> HIDE DEF Dc, c, T
  <2> QED
    BY <1>6, <2>1
<1>8. SumFunctionOnSet(f, Dz) = f[c] + SumFunctionOnSet(f, Dz \ {c})
  <2>1. Dz \in SUBSET D /\ Dz # D /\ c \in Dz
    BY <1>4, <1>5
  <2> HIDE DEF Dz, c, T
  <2> QED
    BY <1>6, <2>1
<1>9. Dc \ {z} = Dcz /\ Dz \ {c} = Dcz
  OBVIOUS
<1>10. SumFunctionOnSet(f, Dcz) \in Nat /\ f[c] \in Nat /\ f[z] \in Nat
  <2>1. IsFiniteSet(Dcz) /\ \A x \in Dcz : f[x] \in Nat
    BY <1>3, FS_Subset
  <2> QED
    BY <1>4, <2>1, SumNat
<1>11. SumFunctionOnSet(f, D) # f[z] + SumFunctionOnSet(f, Dz)
  BY <1>2
<1> HIDE DEF Dc, Dz, Dcz, c, T
<1>12. PICK rest \in Nat : rest = SumFunctionOnSet(f, Dcz)
  BY <1>10
<1>13. PICK p \in Nat, q \in Nat : p = f[c] /\ q = f[z]
  BY <1>10
<1>14. SumFunctionOnSet(f, D) = p + (q + rest)
  BY <1>4, <1>7, <1>9, <1>12, <1>13
<1>15. SumFunctionOnSet(f, Dz) = p + rest
  BY <1>8, <1>9, <1>12, <1>13
<1>16. p + (q + rest) = q + (p + rest)
  OBVIOUS
<1> QED
  BY <1>11, <1>13, <1>14, <1>15, <1>16

\* Named, so that the sum over S can be taken apart where S and R are sets
\* with names of their own.
IsRest(R, S, y) == R = S \ {y}

LEMMA SumRest ==
  ASSUME NEW f, NEW S, IsFiniteSet(S), \A x \in S : f[x] \in Nat, NEW y \in S,
         NEW R, IsRest(R, S, y)
  PROVE  SumFunctionOnSet(f, S) = f[y] + SumFunctionOnSet(f, R)
<1>1. R = S \ {y}
  BY DEF IsRest
<1>2. SumFunctionOnSet(f, S) = f[y] + SumFunctionOnSet(f, S \ {y})
  BY SumAdd
<1> QED
  BY <1>1, <1>2

(* Each term of the first sum is covered by one of the second, or is 0.    *)
LEMMA SumBound ==
  ASSUME NEW f, NEW g, NEW S, NEW R, IsFiniteSet(S), IsFiniteSet(R),
         \A x \in S : f[x] \in Nat, \A x \in R : g[x] \in Nat,
         \A x \in S : IF x \in R THEN f[x] <= g[x] ELSE f[x] = 0
  PROVE  SumFunctionOnSet(f, S) <= SumFunctionOnSet(g, R)
<1> DEFINE T == {D \in SUBSET S : \E Q \in SUBSET R :
                   /\ D \cap R \subseteq Q
                   /\ ~ (SumFunctionOnSet(f, D) <= SumFunctionOnSet(g, Q))}
<1> SUFFICES ASSUME T # {} PROVE FALSE
  <2> S \in SUBSET S /\ R \in SUBSET R /\ S \cap R \subseteq R
    OBVIOUS
  <2> QED
    OBVIOUS
<1>1. PICK D \in T : \A E \in T : E \subseteq D => E = D
  <2> HIDE DEF T
  <2>1. T \subseteq SUBSET S
    BY DEF T
  <2> QED
    BY <2>1, SmallestSet
<1>2. PICK Q \in SUBSET R :
        D \cap R \subseteq Q /\ ~ (SumFunctionOnSet(f, D) <= SumFunctionOnSet(g, Q))
  OBVIOUS
<1>3. IsFiniteSet(D) /\ IsFiniteSet(Q)
  BY FS_Subset
<1>4. \A x \in D : f[x] \in Nat
  OBVIOUS
<1>5. \A x \in Q : g[x] \in Nat
  OBVIOUS
<1>6. SumFunctionOnSet(g, Q) \in Nat
  BY <1>3, <1>5, SumNat
<1>7. D # {}
  BY <1>2, <1>6, SumEmpty
<1>8. PICK y \in D : TRUE
  BY <1>7
<1> DEFINE Dy == D \ {y}
           Qy == Q \ {y}
<1>9. SumFunctionOnSet(f, D) = f[y] + SumFunctionOnSet(f, Dy)
  BY <1>3, <1>4, SumAdd
<1>10. IsFiniteSet(Dy) /\ (\A x \in Dy : f[x] \in Nat) /\ IsFiniteSet(Qy) /\ (\A x \in Qy : g[x] \in Nat)
  BY <1>3, <1>4, <1>5, FS_Subset
<1>11. Dy \notin T /\ Dy \in SUBSET S
  BY <1>1
<1>12. CASE y \in R
  <2>1. Qy \in SUBSET R /\ Dy \cap R \subseteq Qy
    BY <1>2
  <2>2. SumFunctionOnSet(f, Dy) <= SumFunctionOnSet(g, Qy)
    BY <1>11, <2>1
  <2>3. y \in Q
    BY <1>2, <1>12
  <2>4. SumFunctionOnSet(g, Q) = g[y] + SumFunctionOnSet(g, Qy)
    BY <1>3, <1>5, <2>3, SumAdd
  <2>5. f[y] <= g[y] /\ f[y] \in Nat /\ g[y] \in Nat
    BY <1>12
  <2>6. SumFunctionOnSet(f, Dy) \in Nat /\ SumFunctionOnSet(g, Qy) \in Nat
    BY <1>10, SumNat
  <2> HIDE DEF Dy, Qy, T
  <2> QED
    BY <1>2, <1>9, <2>2, <2>4, <2>5, <2>6
<1>13. CASE y \notin R
  <2>1. Q \in SUBSET R /\ Dy \cap R \subseteq Q
    BY <1>2
  <2>2. SumFunctionOnSet(f, Dy) <= SumFunctionOnSet(g, Q)
    BY <1>11, <2>1
  <2>3. f[y] = 0
    BY <1>13
  <2>4. SumFunctionOnSet(f, Dy) \in Nat
    BY <1>10, SumNat
  <2> HIDE DEF Dy, Qy, T
  <2> QED
    BY <1>2, <1>9, <2>2, <2>3, <2>4
<1> QED
  BY <1>12, <1>13

LEMMA SumPlus ==
  ASSUME NEW f, NEW g, NEW h, NEW S, IsFiniteSet(S),
         \A x \in S : f[x] \in Nat /\ g[x] \in Nat /\ h[x] = f[x] + g[x]
  PROVE  SumFunctionOnSet(h, S) = SumFunctionOnSet(f, S) + SumFunctionOnSet(g, S)
<1> DEFINE T == {D \in SUBSET S :
                   SumFunctionOnSet(h, D) # SumFunctionOnSet(f, D) + SumFunctionOnSet(g, D)}
<1> SUFFICES ASSUME T # {} PROVE FALSE
  OBVIOUS
<1>1. PICK D \in T : \A E \in T : E \subseteq D => E = D
  <2> HIDE DEF T
  <2>1. T \subseteq SUBSET S
    BY DEF T
  <2> QED
    BY <2>1, SmallestSet
<1>2. IsFiniteSet(D)
  BY FS_Subset
<1>3. D # {}
  BY SumEmpty
<1>4. PICK y \in D : TRUE
  BY <1>3
<1> DEFINE Dy == D \ {y}
<1>5. /\ SumFunctionOnSet(f, D) = f[y] + SumFunctionOnSet(f, Dy)
      /\ SumFunctionOnSet(g, D) = g[y] + SumFunctionOnSet(g, Dy)
      /\ SumFunctionOnSet(h, D) = h[y] + SumFunctionOnSet(h, Dy)
  <2>1. \A x \in D : f[x] \in Nat /\ g[x] \in Nat /\ h[x] \in Nat
    OBVIOUS
  <2> QED
    BY <1>2, <2>1, SumAdd
<1>6. SumFunctionOnSet(h, Dy) = SumFunctionOnSet(f, Dy) + SumFunctionOnSet(g, Dy)
  BY <1>1
<1>7. f[y] \in Nat /\ g[y] \in Nat /\ h[y] = f[y] + g[y]
  OBVIOUS
<1>8. SumFunctionOnSet(f, Dy) \in Nat /\ SumFunctionOnSet(g, Dy) \in Nat
  <2>1. IsFiniteSet(Dy) /\ \A x \in Dy : f[x] \in Nat /\ g[x] \in Nat
    BY <1>2, FS_Subset
  <2> QED
    BY <2>1, SumNat
<1>9. SumFunctionOnSet(h, D) # SumFunctionOnSet(f, D) + SumFunctionOnSet(g, D)
  OBVIOUS
<1> HIDE DEF Dy, T
<1> QED
  BY <1>5, <1>6, <1>7, <1>8, <1>9

LEMMA SumSame ==
  ASSUME NEW f, NEW g, NEW S, IsFiniteSet(S), \A x \in S : f[x] \in Nat /\ g[x] = f[x]
  PROVE  SumFunctionOnSet(f, S) = SumFunctionOnSet(g, S)
<1>1. SumFunctionOnSet(f, S) \in Nat /\ SumFunctionOnSet(g, S) \in Nat
  BY SumNat
<1>2. SumFunctionOnSet(f, S) <= SumFunctionOnSet(g, S)
  BY SumBound
<1>3. SumFunctionOnSet(g, S) <= SumFunctionOnSet(f, S)
  BY SumBound
<1> QED
  BY <1>1, <1>2, <1>3

LEMMA SumSplit ==
  ASSUME NEW f, NEW S, IsFiniteSet(S), \A x \in S : f[x] \in Nat, NEW A, A \subseteq S
  PROVE  SumFunctionOnSet(f, S) = SumFunctionOnSet(f, A) + SumFunctionOnSet(f, S \ A)
<1> DEFINE a == [x \in S |-> IF x \in A THEN f[x] ELSE 0]
           b == [x \in S |-> IF x \in A THEN 0 ELSE f[x]]
           B == S \ A
<1>1. SumFunctionOnSet(f, S) = SumFunctionOnSet(a, S) + SumFunctionOnSet(b, S)
  <2>1. \A x \in S : a[x] \in Nat /\ b[x] \in Nat /\ f[x] = a[x] + b[x]
    OBVIOUS
  <2> HIDE DEF a, b
  <2> QED
    BY <2>1, SumPlus
<1>2. ASSUME NEW c, NEW C, C \subseteq S,
             \A x \in S : c[x] \in Nat /\ c[x] = IF x \in C THEN f[x] ELSE 0
      PROVE  SumFunctionOnSet(c, S) = SumFunctionOnSet(f, C)
  <2>1. IsFiniteSet(C)
    BY <1>2, FS_Subset
  <2>2. (\A x \in C : f[x] \in Nat /\ c[x] = f[x]) /\ \A x \in S \ C : c[x] = 0
    BY <1>2
  <2>3. SumFunctionOnSet(c, S) \in Nat /\ SumFunctionOnSet(f, C) \in Nat
    BY <1>2, <2>1, <2>2, SumNat
  <2>4. SumFunctionOnSet(c, S) <= SumFunctionOnSet(f, C)
    <3>1. \A x \in S : IF x \in C THEN c[x] <= f[x] ELSE c[x] = 0
      BY <1>2, <2>2
    <3> QED
      BY <1>2, <2>1, <2>2, <3>1, SumBound
  <2>5. SumFunctionOnSet(f, C) <= SumFunctionOnSet(c, S)
    <3>1. \A x \in C : IF x \in S THEN f[x] <= c[x] ELSE f[x] = 0
      BY <1>2, <2>2
    <3> QED
      BY <1>2, <2>1, <2>2, <3>1, SumBound
  <2> QED
    BY <2>3, <2>4, <2>5
<1>3. SumFunctionOnSet(a, S) = SumFunctionOnSet(f, A)
  <2>1. \A x \in S : a[x] \in Nat /\ a[x] = IF x \in A THEN f[x] ELSE 0
    OBVIOUS
  <2> HIDE DEF a
  <2> QED
    BY <1>2, <2>1
<1>4. SumFunctionOnSet(b, S) = SumFunctionOnSet(f, B)
  <2>1. B \subseteq S /\ \A x \in S : b[x] \in Nat /\ b[x] = IF x \in B THEN f[x] ELSE 0
    OBVIOUS
  <2> HIDE DEF b, B
  <2> QED
    BY <1>2, <2>1
<1> QED
  BY <1>1, <1>3, <1>4
(* What the first m prefixes of a sequence already in a set leave for the  *)
(* others to add.                                                          *)
LEMMA NodesAdd ==
  ASSUME NEW A, IsFiniteSet(A), NEW seq \in Seq(Nat), NEW m \in 0..Len(seq),
         \A n \in 1..m : SubSeq(seq, 1, n) \in A
  PROVE  /\ IsFiniteSet(A \cup Nodes(seq))
         /\ Cardinality(A \cup Nodes(seq)) <= Cardinality(A) + Len(seq) - m
         /\ Cardinality(A) \in Nat /\ Cardinality(A \cup Nodes(seq)) \in Nat
<1> DEFINE R == m + 1..Len(seq)
           N == {SubSeq(seq, 1, n) : n \in R}
           f == [n \in R |-> SubSeq(seq, 1, n)]
<1>1. Len(seq) \in Nat /\ m \in Nat /\ m <= Len(seq)
  OBVIOUS
<1>2. IsFiniteSet(R) /\ Cardinality(R) = Len(seq) - m
  <2> DEFINE a == m + 1
             b == Len(seq)
  <2>1. a \in Int /\ b \in Int /\ (IF a > b THEN 0 ELSE b - a + 1) = b - m
    BY <1>1
  <2>2. IsFiniteSet(a..b) /\ Cardinality(a..b) = IF a > b THEN 0 ELSE b - a + 1
    <3> HIDE DEF a, b
    <3> QED
      BY <2>1, FS_Interval
  <2> QED
    BY <2>1, <2>2
<1>3. IsFiniteSet(N) /\ Cardinality(N) <= Cardinality(R)
  <2>1. f \in Surjection(R, N)
    BY DEF Surjection
  <2> HIDE DEF f, R, N
  <2> QED
    BY <1>2, <2>1, FS_Surjection
<1>4. A \cup Nodes(seq) = A \cup N
  <2>1. 1..Len(seq) = (1..m) \cup R
    BY <1>1
  <2>2. Nodes(seq) = {SubSeq(seq, 1, n) : n \in 1..m} \cup N
    <3> HIDE DEF R
    <3> QED
      BY <2>1 DEF Nodes
  <2> HIDE DEF R, N
  <2> QED
    BY <2>2
<1>5. IsFiniteSet(A \cup N)
      /\ Cardinality(A \cup N) = Cardinality(A) + Cardinality(N) - Cardinality(A \cap N)
  <2> HIDE DEF N
  <2> QED
    BY <1>3, FS_Union
<1>6. Cardinality(A \cap N) \in Nat /\ Cardinality(A) \in Nat /\ Cardinality(N) \in Nat
      /\ Cardinality(A \cup N) \in Nat
  <2> HIDE DEF N
  <2> QED
    BY <1>3, <1>5, FS_Intersection, FS_CardinalityType
<1>7. Cardinality(A \cup N) <= Cardinality(A) + Len(seq) - m
  <2> HIDE DEF N, R, f
  <2> QED
    BY <1>1, <1>2, <1>3, <1>5, <1>6
<1> HIDE DEF N, R, f
<1> QED
  BY <1>4, <1>5, <1>6, <1>7

(* A set that holds no further prefix of the sequence grows by all of them. *)
LEMMA NodesNew ==
  ASSUME NEW A, IsFiniteSet(A), NEW seq \in Seq(Nat), NEW m \in 0..Len(seq),
         \A n \in 1..m : SubSeq(seq, 1, n) \in A,
         \A n \in m + 1..Len(seq) : SubSeq(seq, 1, n) \notin A
  PROVE  Cardinality(A \cup Nodes(seq)) = Cardinality(A) + Len(seq) - m
<1> DEFINE R == m + 1..Len(seq)
           N == {SubSeq(seq, 1, n) : n \in R}
           f == [n \in R |-> SubSeq(seq, 1, n)]
<1>1. Len(seq) \in Nat /\ m \in Nat /\ m <= Len(seq)
  OBVIOUS
<1>2. IsFiniteSet(R) /\ Cardinality(R) = Len(seq) - m
  <2> DEFINE a == m + 1
             b == Len(seq)
  <2>1. a \in Int /\ b \in Int /\ (IF a > b THEN 0 ELSE b - a + 1) = b - m
    BY <1>1
  <2>2. IsFiniteSet(a..b) /\ Cardinality(a..b) = IF a > b THEN 0 ELSE b - a + 1
    <3> HIDE DEF a, b
    <3> QED
      BY <2>1, FS_Interval
  <2> QED
    BY <2>1, <2>2
<1>3. f \in Bijection(R, N)
  <2>1. \A n, k \in R : f[n] = f[k] => n = k
    <3> SUFFICES ASSUME NEW n \in R, NEW k \in R, SubSeq(seq, 1, n) = SubSeq(seq, 1, k)
                 PROVE  n = k
      OBVIOUS
    <3>1. n \in Nat /\ k \in Nat /\ n <= Len(seq) /\ k <= Len(seq)
      BY <1>1
    <3> QED
      BY <3>1, PrefixLen
  <2> QED
    BY <2>1 DEF Bijection, Injection, Surjection, IsInjective
<1>4. IsFiniteSet(N) /\ Cardinality(N) = Cardinality(R)
  <2>1. ExistsBijection(R, N)
    BY <1>3 DEF ExistsBijection
  <2> HIDE DEF R, N
  <2> QED
    BY <1>2, <2>1, FS_Bijection
<1>5. A \cup Nodes(seq) = A \cup N /\ A \cap N = {}
  <2>1. 1..Len(seq) = (1..m) \cup R
    BY <1>1
  <2>2. Nodes(seq) = {SubSeq(seq, 1, n) : n \in 1..m} \cup N
    <3> HIDE DEF R
    <3> QED
      BY <2>1 DEF Nodes
  <2>3. A \cap N = {}
    OBVIOUS
  <2> HIDE DEF R, N
  <2> QED
    BY <2>2, <2>3
<1>6. Cardinality(A \cup N) = Cardinality(A) + Cardinality(N) - Cardinality(A \cap N)
  <2> HIDE DEF N
  <2> QED
    BY <1>4, FS_Union
<1>7. Cardinality(A \cap N) = 0 /\ Cardinality(A) \in Nat
  BY <1>5, FS_EmptySet, FS_CardinalityType
<1>8. Cardinality(A \cup N) = Cardinality(A) + Len(seq) - m
  <2> HIDE DEF N, R, f
  <2> QED
    BY <1>1, <1>2, <1>4, <1>6, <1>7
<1> HIDE DEF N, R, f
<1> QED
  BY <1>5, <1>8

(* A trie holds the prefixes of what it holds.                             *)
LEMMA TrieClosed ==
  ASSUME NEW seqs \in Seq(Seq(Nat)), NEW k \in 0..Len(seqs), NEW s \in Seq(Nat),
         NEW n \in 1..Len(s), SubSeq(s, 1, n) \in TrieAfter(seqs, k), NEW m \in 1..n
  PROVE  SubSeq(s, 1, m) \in TrieAfter(seqs, k)
<1>1. PICK j \in 1..k : SubSeq(s, 1, n) \in Nodes(seqs[j])
  BY DEF TrieAfter
<1> DEFINE a == seqs[j]
<1>2. a \in Seq(Nat) /\ Len(a) \in Nat /\ Len(s) \in Nat
  OBVIOUS
<1>3. PICK l \in 1..Len(a) : SubSeq(s, 1, n) = SubSeq(a, 1, l)
  BY <1>1 DEF Nodes
<1>4. l = n
  <2>1. Len(SubSeq(s, 1, n)) = n
    BY <1>2, PrefixLen
  <2>2. Len(SubSeq(a, 1, l)) = l
    BY <1>2, PrefixLen
  <2> QED
    BY <1>3, <2>1, <2>2
<1>5. \A e \in 1..n : s[e] = a[e]
  BY <1>2, <1>3, <1>4, SamePrefix
<1>6. m \in 1..Len(a) /\ m \in Nat /\ m <= Len(s) /\ m <= Len(a) /\ \A e \in 1..m : s[e] = a[e]
  <2> HIDE DEF a
  <2>1. m \in Nat /\ n \in Nat /\ 1 <= m /\ m <= n /\ n <= Len(s) /\ n <= Len(a)
    BY <1>2, <1>4, SMTT(30)
  <2>2. m \in 1..Len(a) /\ m <= Len(s) /\ m <= Len(a)
    BY <1>2, <2>1, SMTT(30)
  <2>3. \A e \in 1..m : e \in 1..n
    BY <2>1
  <2> QED
    BY <1>5, <2>1, <2>2, <2>3
<1>7. SubSeq(s, 1, m) = SubSeq(a, 1, m)
  BY <1>2, <1>6, SamePrefix
<1>8. SubSeq(a, 1, m) \in Nodes(a)
  BY <1>6 DEF Nodes
<1> QED
  BY <1>7, <1>8 DEF TrieAfter

LEMMA TrieFinite ==
  ASSUME NEW seqs \in Seq(Seq(Nat)), NEW k \in 0..Len(seqs)
  PROVE  IsFiniteSet(TrieAfter(seqs, k)) /\ Cardinality(TrieAfter(seqs, k)) \in Nat
<1> DEFINE T == {Nodes(seqs[j]) : j \in 1..k}
           g == [j \in 1..k |-> Nodes(seqs[j])]
<1>1. IsFiniteSet(1..k)
  BY FS_Interval
<1>2. IsFiniteSet(T)
  <2>1. g \in Surjection(1..k, T)
    BY DEF Surjection
  <2> HIDE DEF g, T
  <2> QED
    BY <1>1, <2>1, FS_Surjection
<1>3. ASSUME NEW t \in T PROVE IsFiniteSet(t)
  <2>1. PICK j \in 1..k : t = Nodes(seqs[j])
    OBVIOUS
  <2>2. seqs[j] \in Seq(Nat)
    OBVIOUS
  <2> DEFINE s == seqs[j]
  <2> HIDE DEF s
  <2>3. 0 \in 0..Len(s) /\ \A n \in 1..0 : SubSeq(s, 1, n) \in {}
    BY <2>2 DEF s
  <2>4. IsFiniteSet({} \cup Nodes(s))
    BY <2>2, <2>3, FS_EmptySet, NodesAdd DEF s
  <2>5. {} \cup Nodes(s) = Nodes(s)
    OBVIOUS
  <2> QED
    BY <2>1, <2>4, <2>5 DEF s
<1>4. IsFiniteSet(UNION T)
  <2> HIDE DEF T
  <2> QED
    BY <1>2, <1>3, FS_UNION
<1> QED
  BY <1>4, FS_CardinalityType DEF TrieAfter

(* A request adds as many nodes to the trie as it does not hit.            *)
LEMMA TrieStep ==
  ASSUME NEW seqs \in Seq(Seq(Nat)), NEW k \in 1..Len(seqs)
  PROVE  LET h == Walk(TrieAfter(seqs, k - 1), seqs[k])
         IN  /\ h \in 0..Len(seqs[k])
             /\ Cardinality(TrieAfter(seqs, k)) = Cardinality(TrieAfter(seqs, k - 1)) + Len(seqs[k]) - h
<1> DEFINE t == TrieAfter(seqs, k - 1)
           s == seqs[k]
           h == Walk(t, s)
<1>1. s \in Seq(Nat) /\ Len(s) \in Nat /\ k - 1 \in 0..Len(seqs)
  OBVIOUS
<1>2. IsFiniteSet(t)
  BY <1>1, TrieFinite
<1>3. /\ h \in 0..Len(s)
      /\ \A m \in 1..h : SubSeq(s, 1, m) \in t
      /\ h < Len(s) => SubSeq(s, 1, h + 1) \notin t
  BY <1>1, WalkStops
<1> HIDE DEF h
<1>4. ASSUME NEW n \in h + 1..Len(s) PROVE SubSeq(s, 1, n) \notin t
  <2>1. h + 1 \in 1..n /\ n \in 1..Len(s) /\ h < Len(s)
    BY <1>1, <1>3
  <2>2. SubSeq(s, 1, n) \in TrieAfter(seqs, k - 1) => SubSeq(s, 1, h + 1) \in TrieAfter(seqs, k - 1)
    <3> HIDE DEF s, t
    <3> QED
      BY <1>1, <2>1, TrieClosed
  <2> QED
    BY <1>3, <2>1, <2>2
<1>5. TrieAfter(seqs, k) = t \cup Nodes(s)
  BY TrieGrows
<1>6. Cardinality(t \cup Nodes(s)) = Cardinality(t) + Len(s) - h
  <2> HIDE DEF t, s
  <2> QED
    BY <1>1, <1>2, <1>3, <1>4, NodesNew
<1> QED
  BY <1>3, <1>5, <1>6 DEF h

-----------------------------------------------------------------------------
LEMMA MinIsLeast ==
  ASSUME NEW T, T \subseteq Nat, T # {}
  PROVE  Min(T) \in T /\ \A y \in T : Min(T) <= y
<1>1. \E x \in T : \A y \in T : x <= y
  BY Least
<1> QED
  BY <1>1 DEF Min

(* The groups of a trace are numbers, whatever the length of the key.      *)
LEMMA GroupsAreNumbers ==
  ASSUME NEW seqs \in Seq(Seq(Nat)), NEW key_len \in Nat
  PROVE  DeriveGroups(seqs, key_len) \in [DOMAIN seqs -> Nat]
<1> DEFINE K(j) == Key(seqs[j], key_len)
           F(k) == {j \in 1..k : K(j) = K(k)}
           first(k) == Min(F(k))
<1>1. ASSUME NEW k \in DOMAIN seqs
      PROVE  Cardinality({K(j) : j \in 1..first(k) - 1}) \in Nat
  <2> DEFINE n == first(k) - 1
             I == {K(j) : j \in 1..n}
             h == [j \in 1..n |-> K(j)]
  <2>1. k \in Nat \ {0}
    OBVIOUS
  <2>2. F(k) \subseteq Nat /\ k \in F(k)
    BY <2>1
  <2>3. first(k) \in F(k)
    <3> HIDE DEF F
    <3> QED
      BY <2>2, MinIsLeast
  <2>4. n \in Int
    BY <2>3, <2>1
  <2>5. IsFiniteSet(1..n)
    <3> HIDE DEF n
    <3> QED
      BY <2>4, FS_Interval
  <2>6. h \in Surjection(1..n, I)
    BY DEF Surjection
  <2>7. IsFiniteSet(I)
    <3> HIDE DEF n, h, I
    <3> QED
      BY <2>5, <2>6, FS_Surjection
  <2>8. Cardinality(I) \in Nat
    <3> HIDE DEF I
    <3> QED
      BY <2>7, FS_CardinalityType
  <2> QED
    BY <2>8
<1>2. DeriveGroups(seqs, key_len) = [k \in DOMAIN seqs |-> Cardinality({K(j) : j \in 1..first(k) - 1})]
  BY DEF DeriveGroups
<1> HIDE DEF first
<1> QED
  BY <1>1, <1>2

-----------------------------------------------------------------------------
(* The inductive invariant.                                                *)

\* hits are walks of the tries that grew before them.
Walked ==
  /\ sequences \in Seq(Seq(Nat))
  /\ Len(hits) <= Len(sequences)
  /\ \A k \in DOMAIN hits : hits[k] = Walk(TrieAfter(sequences, k - 1), sequences[k])
  /\ hits \in Seq(Nat)

TrieIsPrefixes ==
  pc \in {"export", "hits"} =>
    /\ i \in 1..Len(sequences) + 1
    /\ Len(hits) = i - 1
    /\ trie = TrieAfter(sequences, i - 1)

Grouped == pc \notin {"export", "raised"} => groups \in [DOMAIN sequences -> Nat]

\* The report's numbers are those of the finished walk.
PerGroupOf ==
  pc \in {"gaps", "written"} =>
    /\ Len(hits) = Len(sequences)
    /\ prefix_lens = GroupPrefixLengths(sequences, groups)
    /\ group_hits = GroupHits

Earlier(n, g) == {j \in 1..n : groups[j] = g}

\* u is what the unlimited cache holds, and last_index the group's last request.
Distance ==
  pc = "gaps" =>
    /\ i \in 1..Len(sequences) + 1
    /\ Len(unique_after) = i - 1 /\ Len(per_request) = i - 1
    /\ u = Cardinality(TrieAfter(sequences, i - 1))
    /\ \A k \in 1..i - 1 : unique_after[k] = Cardinality(TrieAfter(sequences, k))
    /\ DOMAIN last_index = Range(groups)
    /\ \A g \in Range(groups) :
         IF Earlier(i - 1, g) = {} THEN last_index[g] = None
         ELSE last_index[g] \in Earlier(i - 1, g) /\ last_index[g] = Max(Earlier(i - 1, g))

Requests == [group : Nat, ideal_hit_tokens : Nat, unique_tokens_after : Nat,
             reuse_gap_tokens : Int, reuse_gap_requests : Int]

Distances ==
  /\ per_request \in Seq(Requests) /\ unique_after \in Seq(Nat)
  /\ pc \in {"export", "hits"} => per_request = <<>> /\ unique_after = <<>> /\ u = 0
  /\ \A k \in DOMAIN per_request :
       /\ k \in DOMAIN groups
       /\ IF Earlier(k - 1, groups[k]) = {} THEN per_request[k].reuse_gap_tokens = None
          ELSE per_request[k].reuse_gap_tokens =
                 Cardinality(TrieAfter(sequences, k))
                   - Cardinality(TrieAfter(sequences, Max(Earlier(k - 1, groups[k]))))

Reported ==
  report # NoReport =>
    /\ pc = "written"
    /\ report.sweep = [b \in HostBytes |->
         [bf16 |-> CapacityModel(CapacityTokens(b, BF16_BYTES_PER_TOKEN)),
          int8 |-> CapacityModel(CapacityTokens(b, INT8_BYTES_PER_TOKEN))]]

IInv == Walked /\ TrieIsPrefixes /\ Grouped /\ PerGroupOf /\ Distance /\ Distances /\ Reported

LEMMA IInvInit == Init => IInv
<1> SUFFICES ASSUME Init PROVE IInv
  OBVIOUS
<1>1. sequences \in Seq(Seq(Nat)) /\ Len(sequences) \in Nat
  BY WorkloadsAssumption DEF Init
<1>2. /\ hits = <<>> /\ trie = {} /\ i = 1 /\ pc = "export"
      /\ u = 0 /\ unique_after = <<>> /\ per_request = <<>> /\ report = NoReport
  BY DEF Init
<1>3. hits \in Seq(Nat) /\ Len(hits) = 0 /\ DOMAIN hits = {}
  BY <1>2
<1>4. TrieAfter(sequences, 0) = {}
  BY DEF TrieAfter
<1>5. Walked /\ TrieIsPrefixes
  BY <1>1, <1>2, <1>3, <1>4 DEF Walked, TrieIsPrefixes
<1>6. Grouped /\ PerGroupOf /\ Distance /\ Reported
  BY <1>2 DEF Grouped, PerGroupOf, Distance, Reported
<1>7. Distances
  <2>1. per_request \in Seq(Requests) /\ unique_after \in Seq(Nat) /\ DOMAIN per_request = {}
    BY <1>2
  <2> QED
    BY <1>2, <2>1 DEF Distances
<1> QED
  BY <1>5, <1>6, <1>7 DEF IInv

LEMMA HitStep == IInv /\ Hit => IInv'
<1> SUFFICES ASSUME IInv, Hit PROVE IInv'
  OBVIOUS
<1>1. /\ sequences \in Seq(Seq(Nat)) /\ i \in 1..Len(sequences) /\ i \in Nat
      /\ hits \in Seq(Nat) /\ Len(hits) = i - 1 /\ pc = "hits" /\ pc' = "hits"
      /\ trie = TrieAfter(sequences, i - 1)
      /\ sequences' = sequences /\ i' = i + 1
      /\ trie' = trie \cup Nodes(sequences[i])
      /\ hits' = Append(hits, Walk(trie, sequences[i]))
  BY DEF Hit, IInv, Walked, TrieIsPrefixes, trace
<1>2. Walk(trie, sequences[i]) \in Nat
  <2>1. sequences[i] \in Seq(Nat)
    BY <1>1
  <2> QED
    BY <2>1, WalkStops
<1>3. /\ hits' \in Seq(Nat) /\ Len(hits') = i
      /\ \A k \in 1..i - 1 : hits'[k] = hits[k]
      /\ hits'[i] = Walk(trie, sequences[i])
  BY <1>1, <1>2
<1>4. trie' = TrieAfter(sequences, i)
  BY <1>1, TrieGrows
<1>5. \A k \in DOMAIN hits' : hits'[k] = Walk(TrieAfter(sequences, k - 1), sequences[k])
  <2> SUFFICES ASSUME NEW k \in 1..i
               PROVE  hits'[k] = Walk(TrieAfter(sequences, k - 1), sequences[k])
    BY <1>3
  <2>1. CASE k = i
    BY <1>1, <1>3, <2>1
  <2>2. CASE k # i
    <3>1. k \in 1..i - 1 /\ k \in DOMAIN hits
      BY <1>1, <2>2
    <3> QED
      BY <1>3, <3>1 DEF IInv, Walked
  <2> QED
    BY <2>1, <2>2
<1>6. (Walked /\ TrieIsPrefixes)'
  <2>1. i' - 1 = i /\ i' \in 1..Len(sequences) + 1 /\ DOMAIN hits' = 1..i
    BY <1>1, <1>3
  <2>2. Walked'
    BY <1>1, <1>3, <1>5, <2>1 DEF Walked
  <2>3. TrieIsPrefixes'
    BY <1>1, <1>4, <2>1 DEF TrieIsPrefixes
  <2> QED
    BY <2>2, <2>3
<1>7. (Grouped /\ PerGroupOf /\ Distance)'
  BY <1>1 DEF Hit, IInv, trace, Grouped, PerGroupOf, Distance
<1>8. Distances'
  BY <1>1 DEF Hit, IInv, trace, distance, Distances, Earlier
<1>9. Reported'
  BY <1>1 DEF Hit, IInv, Reported
<1> QED
  BY <1>6, <1>7, <1>8, <1>9 DEF IInv

LEMMA ExportStep == IInv /\ Export => IInv'
<1> SUFFICES ASSUME IInv, Export PROVE IInv'
  OBVIOUS
<1>1. PICK key_len \in KeyLens : groups' = DeriveGroups(sequences, key_len)
  BY DEF Export
<1>2. groups' \in [DOMAIN sequences -> Nat]
  <2>1. sequences \in Seq(Seq(Nat)) /\ key_len \in Nat
    BY OracleAssumption DEF IInv, Walked
  <2> QED
    BY <1>1, <2>1, GroupsAreNumbers
<1>3. /\ pc = "export" /\ pc' = "hits" /\ sequences' = sequences /\ i' = i /\ hits' = hits
      /\ trie' = trie /\ UNCHANGED <<per_request, unique_after, u, report>>
  BY DEF Export, walk, distance
<1>4. (Walked /\ TrieIsPrefixes)'
  BY <1>3 DEF IInv, Walked, TrieIsPrefixes
<1>5. (Grouped /\ PerGroupOf /\ Distance /\ Reported)'
  BY <1>2, <1>3 DEF IInv, Grouped, PerGroupOf, Distance, Reported
<1>6. Distances'
  <2>1. per_request' = <<>> /\ unique_after' = <<>> /\ u' = 0
    BY <1>3 DEF IInv, Distances
  <2>2. per_request' \in Seq(Requests) /\ unique_after' \in Seq(Nat) /\ DOMAIN per_request' = {}
    BY <2>1
  <2> QED
    BY <2>1, <2>2 DEF Distances
<1> QED
  BY <1>4, <1>5, <1>6 DEF IInv

LEMMA RaiseStep == IInv /\ (ExportRefuses \/ NoTokens \/ NoGaps) => IInv'
<1> SUFFICES ASSUME IInv, ExportRefuses \/ NoTokens \/ NoGaps PROVE IInv'
  OBVIOUS
<1>1. pc \in {"export", "hits", "gaps"} /\ pc' = "raised"
      /\ UNCHANGED <<trace, walk, perGroup, distance, report>>
  BY DEF ExportRefuses, NoTokens, NoGaps
<1>2. UNCHANGED <<sequences, groups, hits, trie, per_request, unique_after, u>>
  BY <1>1 DEF trace, walk, distance
<1>3. (Walked /\ TrieIsPrefixes /\ Grouped /\ PerGroupOf /\ Distance)'
  BY <1>1, <1>2 DEF IInv, Walked, TrieIsPrefixes, Grouped, PerGroupOf, Distance
<1>4. Distances'
  BY <1>1, <1>2 DEF IInv, Distances, Earlier
<1>5. Reported'
  BY <1>1 DEF IInv, Reported
<1> QED
  BY <1>3, <1>4, <1>5 DEF IInv

LEMMA WriteStep == IInv /\ Write => IInv'
<1> SUFFICES ASSUME IInv, Write PROVE IInv'
  OBVIOUS
<1>1. pc = "gaps" /\ pc' = "written" /\ UNCHANGED <<trace, i, walk, perGroup, distance>>
  BY DEF Write
<1>2. UNCHANGED <<sequences, groups, hits, trie, per_request, unique_after, u, prefix_lens, group_hits>>
  BY <1>1 DEF trace, walk, distance, perGroup
<1>3. (Walked /\ TrieIsPrefixes /\ Grouped /\ Distance)'
  BY <1>1, <1>2 DEF IInv, Walked, TrieIsPrefixes, Grouped, Distance
<1>4. PerGroupOf'
  BY <1>1, <1>2 DEF IInv, PerGroupOf, GroupHits
<1>5. Distances'
  BY <1>1, <1>2 DEF IInv, Distances, Earlier
<1>6. Reported'
  BY <1>1, <1>2 DEF Write, Reported, CapacityModel
<1> QED
  BY <1>3, <1>4, <1>5, <1>6 DEF IInv

LEMMA StutterStep == IInv /\ UNCHANGED vars => IInv'
<1> SUFFICES ASSUME IInv, UNCHANGED vars PROVE IInv'
  OBVIOUS
<1>1. UNCHANGED <<sequences, groups, pc, i, trie, hits, prefix_lens, group_hits,
                  last_index, u, unique_after, per_request, report>>
  BY DEF vars, trace, walk, perGroup, distance
<1>2. (Walked /\ TrieIsPrefixes /\ Grouped)'
  BY <1>1 DEF IInv, Walked, TrieIsPrefixes, Grouped
<1>3. PerGroupOf'
  BY <1>1 DEF IInv, PerGroupOf, GroupHits
<1>4. Distance'
  <2>1. \A g : Earlier(i - 1, g)' = Earlier(i - 1, g)
    BY <1>1 DEF Earlier
  <2>2. Distance
    BY DEF IInv
  <2> QED
    BY <1>1, <2>1, <2>2 DEF Distance
<1>5. Distances'
  BY <1>1 DEF IInv, Distances, Earlier
<1>6. Reported'
  BY <1>1 DEF IInv, Reported, CapacityModel
<1> QED
  BY <1>2, <1>3, <1>4, <1>5, <1>6 DEF IInv

LEMMA PerGroupStep == IInv /\ PerGroup => IInv'
<1> SUFFICES ASSUME IInv, PerGroup PROVE IInv'
  OBVIOUS
<1>1. /\ pc = "hits" /\ pc' = "gaps" /\ i' = 1 /\ i > Len(sequences)
      /\ prefix_lens' = GroupPrefixLengths(sequences, groups)
      /\ group_hits' = GroupHits
      /\ last_index' = [g \in Range(groups) |-> None]
      /\ UNCHANGED <<sequences, groups, hits, trie, u, unique_after, per_request, report>>
  BY DEF PerGroup, trace, walk
<1>2. Len(sequences) \in Nat /\ Len(hits) = Len(sequences)
  BY <1>1 DEF IInv, Walked, TrieIsPrefixes
<1>3. (Walked /\ TrieIsPrefixes /\ Grouped)'
  BY <1>1 DEF IInv, Walked, TrieIsPrefixes, Grouped
<1>4. PerGroupOf'
  BY <1>1, <1>2 DEF PerGroupOf, GroupHits
<1>5. Distance'
  <2>1. per_request = <<>> /\ unique_after = <<>> /\ u = 0
    BY <1>1 DEF IInv, Distances
  <2>2. \A g : Earlier(0, g)' = {}
    BY DEF Earlier
  <2>3. Cardinality(TrieAfter(sequences, 0)) = 0
    <3>1. TrieAfter(sequences, 0) = {}
      BY DEF TrieAfter
    <3> QED
      BY <3>1, FS_EmptySet
  <2>4. i' - 1 = 0 /\ i' \in 1..Len(sequences) + 1 /\ 1..(i' - 1) = {}
    BY <1>1, <1>2
  <2>5. Len(unique_after') = 0 /\ Len(per_request') = 0
    BY <1>1, <2>1
  <2>6. DOMAIN last_index' = Range(groups') /\ \A g \in Range(groups') : last_index'[g] = None
    BY <1>1
  <2>7. u' = Cardinality(TrieAfter(sequences', i' - 1))
    BY <1>1, <2>1, <2>3, <2>4
  <2>8. \A g : Earlier(i - 1, g)' = {}
    BY <2>4 DEF Earlier
  <2> QED
    BY <1>1, <2>4, <2>5, <2>6, <2>7, <2>8 DEF Distance
<1>6. Distances'
  BY <1>1 DEF IInv, Distances, Earlier
<1>7. Reported'
  BY <1>1 DEF IInv, Reported
<1> QED
  BY <1>3, <1>4, <1>5, <1>6, <1>7 DEF IInv

(* The gap of a request: u grows by what the trie grows by.                *)
LEMMA GapStep == IInv /\ Gap => IInv'
<1> SUFFICES ASSUME IInv, Gap PROVE IInv'
  OBVIOUS
<1> DEFINE g == groups[i]
           j == last_index[g]
           E == Earlier(i - 1, g)
           C(k) == Cardinality(TrieAfter(sequences, k))
<1>1. /\ pc = "gaps" /\ pc' = "gaps" /\ i' = i + 1 /\ i <= Len(sequences)
      /\ UNCHANGED <<sequences, groups, hits, trie, prefix_lens, group_hits, report>>
  BY DEF Gap, trace, walk, perGroup
<1>2. i \in 1..Len(sequences) /\ i \in Nat /\ Len(sequences) \in Nat /\ i - 1 \in 0..Len(sequences)
  BY <1>1 DEF IInv, Walked, Distance
<1>3. /\ sequences \in Seq(Seq(Nat)) /\ groups \in [1..Len(sequences) -> Nat]
      /\ hits \in Seq(Nat) /\ Len(hits) = Len(sequences)
      /\ hits[i] = Walk(TrieAfter(sequences, i - 1), sequences[i])
  <2>1. /\ sequences \in Seq(Seq(Nat)) /\ hits \in Seq(Nat) /\ Len(hits) = Len(sequences)
        /\ groups \in [DOMAIN sequences -> Nat]
        /\ \A k \in DOMAIN hits : hits[k] = Walk(TrieAfter(sequences, k - 1), sequences[k])
    BY <1>1 DEF IInv, Walked, Grouped, PerGroupOf
  <2>2. i \in DOMAIN hits /\ DOMAIN sequences = 1..Len(sequences)
    BY <1>2, <2>1
  <2> QED
    BY <2>1, <2>2
<1>4. /\ u = C(i - 1) /\ C(i) = C(i - 1) + Len(sequences[i]) - hits[i]
      /\ hits[i] \in Nat /\ Len(sequences[i]) \in Nat
  <2>1. sequences[i] \in Seq(Nat)
    BY <1>2, <1>3
  <2> QED
    BY <1>1, <1>2, <1>3, <2>1, TrieStep DEF IInv, Distance
<1>5. \A k \in 0..Len(sequences) : C(k) \in Nat
  BY <1>3, TrieFinite
<1>6. u' = C(i)
  BY <1>1, <1>2, <1>4, <1>5 DEF Gap
<1>7. /\ unique_after' = Append(unique_after, u')
      /\ per_request' = Append(per_request,
           [group |-> g,
            ideal_hit_tokens |-> hits[i],
            unique_tokens_after |-> u',
            reuse_gap_tokens |-> IF j = None THEN None ELSE GapTokens(j),
            reuse_gap_requests |-> IF j = None THEN None ELSE i - j - 1])
      /\ last_index' = [last_index EXCEPT ![g] = i]
  BY DEF Gap
<1>8. /\ unique_after \in Seq(Nat) /\ per_request \in Seq(Requests)
      /\ Len(unique_after) = i - 1 /\ Len(per_request) = i - 1
      /\ \A k \in 1..i - 1 : unique_after[k] = C(k)
      /\ DOMAIN last_index = Range(groups)
      /\ \A h \in Range(groups) :
           IF Earlier(i - 1, h) = {} THEN last_index[h] = None
           ELSE last_index[h] \in Earlier(i - 1, h) /\ last_index[h] = Max(Earlier(i - 1, h))
  BY <1>1 DEF IInv, Distance, Distances
<1>9. g \in Range(groups) /\ g \in Nat
  BY <1>2, <1>3 DEF Range
<1>10. IF E = {} THEN j = None ELSE j \in 1..i - 1 /\ j = Max(E)
  BY <1>8, <1>9 DEF Earlier
<1>11. E # {} => j # None /\ j \in 0..Len(sequences) /\ GapTokens(j) = C(i) - C(j)
  <2> SUFFICES ASSUME E # {} PROVE j # None /\ j \in 0..Len(sequences) /\ GapTokens(j) = C(i) - C(j)
    OBVIOUS
  <2>1. j \in 1..i - 1
    BY <1>10
  <2> HIDE DEF j, C
  <2>2. j # None /\ j \in 0..Len(sequences) /\ unique_after[j] = C(j)
    BY <1>2, <1>8, <2>1 DEF None
  <2>3. C(i) \in Nat /\ C(j) \in Nat /\ C(i - 1) \in Nat
    BY <1>2, <1>5, <2>2
  <2> QED
    BY <1>4, <2>2, <2>3 DEF GapTokens
<1> DEFINE r == [group |-> g,
                 ideal_hit_tokens |-> hits[i],
                 unique_tokens_after |-> C(i),
                 reuse_gap_tokens |-> IF E = {} THEN None ELSE C(i) - C(Max(E)),
                 reuse_gap_requests |-> IF E = {} THEN None ELSE i - j - 1]
<1>12. per_request' = Append(per_request, r)
  <2>1. E = {} <=> j = None
    BY <1>10, <1>11
  <2>2. CASE E = {}
    BY <1>6, <1>7, <1>10, <2>2
  <2>3. CASE E # {}
    <3>1. j # None /\ j = Max(E) /\ GapTokens(j) = C(i) - C(Max(E))
      BY <1>10, <1>11, <2>3
    <3> HIDE DEF j, E, C, g
    <3> QED
      BY <1>6, <1>7, <3>1, <2>3 DEF r
  <2> QED
    BY <2>2, <2>3
<1>13. r \in Requests
  <2>1. C(i) \in Nat
    BY <1>2, <1>5
  <2>2. CASE E = {}
    BY <1>4, <1>9, <2>1, <2>2 DEF Requests, None
  <2>3. CASE E # {}
    <3>1. j = Max(E) /\ j \in 1..i - 1 /\ j \in 0..Len(sequences)
      BY <1>10, <1>11, <2>3
    <3>2. C(Max(E)) \in Nat /\ j \in Int
      BY <1>5, <3>1
    <3> HIDE DEF j, E, C, g
    <3>3. C(i) - C(Max(E)) \in Int /\ i - j - 1 \in Int
      BY <1>2, <2>1, <3>2
    <3> QED
      BY <1>4, <1>9, <2>1, <2>3, <3>3 DEF r, Requests
  <2> QED
    BY <2>2, <2>3
<1>14. /\ per_request' \in Seq(Requests) /\ Len(per_request') = i
       /\ \A k \in 1..i - 1 : per_request'[k] = per_request[k]
       /\ per_request'[i] = r
  <2> HIDE DEF r
  <2> QED
    BY <1>2, <1>8, <1>12, <1>13
<1>15. /\ unique_after' \in Seq(Nat) /\ Len(unique_after') = i
       /\ \A k \in 1..i : unique_after'[k] = C(k)
  <2>1. C(i) \in Nat
    BY <1>2, <1>5
  <2> HIDE DEF C
  <2> QED
    BY <1>2, <1>6, <1>7, <1>8, <2>1
<1>16. (Walked /\ TrieIsPrefixes /\ Grouped)'
  BY <1>1 DEF IInv, Walked, TrieIsPrefixes, Grouped
<1>17. PerGroupOf'
  BY <1>1 DEF IInv, PerGroupOf, GroupHits
<1>18. Distance'
  <2>1. i' - 1 = i /\ i' \in 1..Len(sequences) + 1
    BY <1>1, <1>2
  <2>2. ASSUME NEW h \in Range(groups)
        PROVE  Earlier(i, h) # {} => last_index'[h] \in Earlier(i, h) /\ last_index'[h] = Max(Earlier(i, h))
    <3>1. CASE h = g
      <4>1. last_index'[h] = i
        BY <1>7, <1>8, <1>9, <3>1
      <4>2. i \in Earlier(i, h) /\ \A k \in Earlier(i, h) : k \in Nat /\ i >= k
        BY <1>2, <3>1 DEF Earlier
      <4>3. Max(Earlier(i, h)) = i
        BY <1>2, <4>2 DEF Max
      <4> QED
        BY <4>1, <4>2, <4>3
    <3>2. CASE h # g
      <4>1. Earlier(i, h) = Earlier(i - 1, h)
        BY <1>2, <3>2 DEF Earlier
      <4>2. last_index'[h] = last_index[h]
        BY <1>7, <1>8, <3>2
      <4> QED
        BY <1>8, <4>1, <4>2
    <3> QED
      BY <3>1, <3>2
  <2>3. ASSUME NEW h \in Range(groups), Earlier(i, h) = {} PROVE last_index'[h] = None
    <3>1. h # g
      BY <1>2, <2>3 DEF Earlier
    <3>2. Earlier(i - 1, h) = {}
      BY <1>2, <2>3 DEF Earlier
    <3>3. last_index'[h] = last_index[h]
      BY <1>7, <1>8, <3>1
    <3> QED
      BY <1>8, <3>2, <3>3
  <2>4. DOMAIN last_index' = Range(groups)
    BY <1>7, <1>8
  <2>5. \A h \in Range(groups) :
          IF Earlier(i, h) = {} THEN last_index'[h] = None
          ELSE last_index'[h] \in Earlier(i, h) /\ last_index'[h] = Max(Earlier(i, h))
    BY <2>2, <2>3
  <2>6. \A h : Earlier(i - 1, h)' = Earlier(i, h)
    BY <1>1, <2>1 DEF Earlier
  <2>7. u' = Cardinality(TrieAfter(sequences', i' - 1))
    BY <1>1, <1>6, <2>1
  <2>8. Range(groups') = Range(groups)
    BY <1>1
  <2>9. \A k \in 1..i : unique_after'[k] = Cardinality(TrieAfter(sequences', k))
    BY <1>1, <1>15
  <2> HIDE DEF g, j, E, C, r
  <2>10. \A h \in Range(groups') :
           IF Earlier(i - 1, h)' = {} THEN last_index'[h] = None
           ELSE last_index'[h] \in Earlier(i - 1, h)' /\ last_index'[h] = Max(Earlier(i - 1, h)')
    BY <2>5, <2>6, <2>8
  <2> QED
    BY <1>1, <1>14, <1>15, <2>1, <2>4, <2>7, <2>8, <2>9, <2>10 DEF Distance
<1>19. Distances'
  <2>1. ASSUME NEW k \in DOMAIN per_request'
        PROVE  /\ k \in DOMAIN groups
               /\ IF Earlier(k - 1, groups[k]) = {} THEN per_request'[k].reuse_gap_tokens = None
                  ELSE per_request'[k].reuse_gap_tokens = C(k) - C(Max(Earlier(k - 1, groups[k])))
    <3>1. k \in 1..i
      BY <1>14, <2>1
    <3>2. CASE k = i
      <4>1. per_request'[k].reuse_gap_tokens = IF E = {} THEN None ELSE C(i) - C(Max(E))
        BY <1>14, <3>2
      <4> QED
        BY <1>2, <1>3, <3>2, <4>1
    <3>3. CASE k # i
      <4>1. k \in 1..i - 1
        BY <1>2, <3>1, <3>3
      <4>2. k \in DOMAIN per_request /\ per_request'[k] = per_request[k]
        BY <1>8, <1>14, <4>1
      <4> QED
        BY <4>2 DEF IInv, Distances
    <3> QED
      BY <3>2, <3>3
  <2>2. \A k, h : Earlier(k, h)' = Earlier(k, h)
    BY <1>1 DEF Earlier
  <2> HIDE DEF g, j, E, r
  <2> QED
    BY <1>1, <1>14, <1>15, <2>1, <2>2 DEF Distances
<1>20. Reported'
  BY <1>1 DEF IInv, Reported
<1> QED
  BY <1>16, <1>17, <1>18, <1>19, <1>20 DEF IInv

LEMMA IInvStep == IInv /\ [Next]_vars => IInv'
  BY HitStep, ExportStep, RaiseStep, WriteStep, StutterStep, PerGroupStep, GapStep DEF Next

LEMMA IInvGaps == IInv => GapIsGrowth
<1> SUFFICES ASSUME IInv, NEW k \in DOMAIN per_request
             PROVE  LET earlier == {j \in 1..k - 1 : groups[j] = groups[k]}
                        growth(j) == Cardinality(TrieAfter(sequences, k)) - Cardinality(TrieAfter(sequences, j))
                    IN  per_request[k].reuse_gap_tokens = IF earlier = {} THEN None ELSE growth(Max(earlier))
  BY DEF GapIsGrowth
<1> QED
  BY DEF IInv, Distances, Earlier

-----------------------------------------------------------------------------
LEMMA SumAtLeast ==
  ASSUME NEW f, NEW S, IsFiniteSet(S), NEW c \in Nat, \A x \in S : f[x] \in Nat /\ f[x] >= c
  PROVE  SumFunctionOnSet(f, S) >= Cardinality(S) * c
<1> DEFINE T == {D \in SUBSET S : ~ (SumFunctionOnSet(f, D) >= Cardinality(D) * c)}
<1> SUFFICES ASSUME T # {} PROVE FALSE
  OBVIOUS
<1>1. PICK D \in T : \A E \in T : E \subseteq D => E = D
  <2> HIDE DEF T
  <2>1. T \subseteq SUBSET S
    BY DEF T
  <2> QED
    BY <2>1, SmallestSet
<1>2. IsFiniteSet(D) /\ \A x \in D : f[x] \in Nat
  BY FS_Subset
<1>3. D # {}
  <2> SUFFICES ASSUME D = {} PROVE FALSE
    OBVIOUS
  <2>1. SumFunctionOnSet(f, D) = 0
    BY SumEmpty
  <2>2. Cardinality(D) = 0
    BY FS_EmptySet
  <2>3. ~ (SumFunctionOnSet(f, D) >= Cardinality(D) * c)
    OBVIOUS
  <2> HIDE DEF T
  <2>4. 0 * c = 0
    OBVIOUS
  <2> QED
    BY <2>1, <2>2, <2>3, <2>4
<1>4. PICK y \in D : TRUE
  BY <1>3
<1> DEFINE Dy == D \ {y}
           n == Cardinality(Dy)
           s == SumFunctionOnSet(f, Dy)
<1>5. SumFunctionOnSet(f, D) = f[y] + s
  BY <1>2, SumAdd
<1>6. s >= n * c
  BY <1>1
<1>7. IsFiniteSet(Dy) /\ Cardinality(D) = n + 1 /\ n \in Nat /\ s \in Nat
  <2>1. IsFiniteSet(Dy) /\ n = Cardinality(D) - 1 /\ Cardinality(D) \in Nat
    BY <1>2, FS_RemoveElement, FS_CardinalityType
  <2>2. n \in Nat
    <3> HIDE DEF Dy
    <3> QED
      BY <2>1, FS_CardinalityType
  <2>3. s \in Nat
    BY <1>2, <2>1, SumNat
  <2> HIDE DEF n, s, Dy
  <2> QED
    BY <2>1, <2>2, <2>3
<1>8. f[y] \in Nat /\ f[y] >= c
  OBVIOUS
<1>9. ~ (SumFunctionOnSet(f, D) >= Cardinality(D) * c)
  OBVIOUS
<1> HIDE DEF n, s, T
<1>10. (n + 1) * c = n * c + c /\ n * c \in Nat
  BY <1>7
<1> QED
  BY <1>5, <1>6, <1>7, <1>8, <1>9, <1>10

LEMMA PrefixElems ==
  ASSUME NEW c \in Seq(Nat), NEW n \in Nat, n <= Len(c)
  PROVE  /\ SubSeq(c, 1, n) \in Seq(Nat)
         /\ Len(SubSeq(c, 1, n)) = n
         /\ \A m \in 1..n : SubSeq(c, 1, n)[m] = c[m]
<1>1. \A m \in 1..n : c[m] \in Nat
  OBVIOUS
<1>2. /\ SubSeq(c, 1, n) \in Seq(Nat)
      /\ Len(SubSeq(c, 1, n)) = IF 1 <= n THEN n - 1 + 1 ELSE 0
      /\ \A m \in 1..n - 1 + 1 : SubSeq(c, 1, n)[m] = c[1 + m - 1]
  BY <1>1, SubSeqProperties
<1>3. n - 1 + 1 = n /\ (1 <= n \/ n = 0)
  OBVIOUS
<1>4. \A m \in 1..n : 1 + m - 1 = m
  OBVIOUS
<1> QED
  BY <1>2, <1>3, <1>4

(* The prefix length of a group is the least of its pairs'.                *)
LEMMA LeastPair ==
  ASSUME NEW seqs \in Seq(Seq(Nat)), NEW grps \in [DOMAIN seqs -> Nat], NEW g \in Range(grps)
  PROVE  LET M == Members(grps, g)
             L == GroupPrefixLengths(seqs, grps)[g]
         IN  /\ L \in Nat
             /\ \A a, b \in M : a < b => L <= LCP(seqs[a], seqs[b])
             /\ (\E a, b \in M : a < b) => \E a, b \in M : a < b /\ L = LCP(seqs[a], seqs[b])
             /\ ~ (\E a, b \in M : a < b) => L = 0
<1> DEFINE M == Members(grps, g)
           pairs == {q \in M \X M : q[1] < q[2]}
           T == {LCP(seqs[p[1]], seqs[p[2]]) : p \in pairs}
           L == GroupPrefixLengths(seqs, grps)[g]
<1>1. L = IF pairs = {} THEN 0 ELSE Min(T)
  BY DEF GroupPrefixLengths
<1>2. \A a \in M : seqs[a] \in Seq(Nat)
  BY DEF Members
<1>3. T \subseteq Nat
  <2> SUFFICES ASSUME NEW p \in pairs PROVE LCP(seqs[p[1]], seqs[p[2]]) \in Nat
    OBVIOUS
  <2>1. seqs[p[1]] \in Seq(Nat) /\ seqs[p[2]] \in Seq(Nat)
    BY <1>2
  <2> QED
    BY <2>1, LCPStops
<1>4. ASSUME NEW a \in M, NEW b \in M, a < b PROVE <<a, b>> \in pairs
  BY <1>4
<1>5. CASE pairs = {}
  <2>1. \A a, b \in M : ~ (a < b)
    BY <1>4, <1>5
  <2>2. L = 0
    BY <1>1, <1>5
  <2> HIDE DEF L, M, T, pairs
  <2>3. L \in Nat
    BY <2>2
  <2> QED
    BY <2>1, <2>2, <2>3 DEF L, M
<1>6. CASE pairs # {}
  <2>1. T # {}
    BY <1>6
  <2>2. L \in T /\ \A y \in T : L <= y
    <3> HIDE DEF T, L
    <3> QED
      BY <1>1, <1>3, <1>6, <2>1, MinIsLeast
  <2>3. L \in Nat
    BY <1>3, <2>2
  <2>4. \A a, b \in M : a < b => L <= LCP(seqs[a], seqs[b])
    <3> SUFFICES ASSUME NEW a \in M, NEW b \in M, a < b PROVE L <= LCP(seqs[a], seqs[b])
      OBVIOUS
    <3>1. LCP(seqs[<<a, b>>[1]], seqs[<<a, b>>[2]]) \in T
      BY <1>4
    <3> HIDE DEF L, T
    <3> QED
      BY <2>2, <3>1
  <2>5. \E a, b \in M : a < b /\ L = LCP(seqs[a], seqs[b])
    <3>1. PICK p \in pairs : L = LCP(seqs[p[1]], seqs[p[2]])
      BY <2>2
    <3>2. p[1] \in M /\ p[2] \in M /\ p[1] < p[2]
      OBVIOUS
    <3> HIDE DEF L, M
    <3> QED
      BY <3>1, <3>2
  <2> HIDE DEF L, M, T
  <2> QED
    BY <2>3, <2>4, <2>5 DEF L, M
<1> QED
  BY <1>5, <1>6

LEMMA MembersAreFinite ==
  ASSUME NEW seqs \in Seq(Seq(Nat)), NEW grps \in [DOMAIN seqs -> Nat], NEW g
  PROVE  /\ IsFiniteSet(Members(grps, g)) /\ Cardinality(Members(grps, g)) \in Nat
         /\ Members(grps, g) \subseteq 1..Len(seqs)
<1>1. Members(grps, g) \in SUBSET (1..Len(seqs)) /\ Len(seqs) \in Int
  BY DEF Members
<1>2. IsFiniteSet(1..Len(seqs))
  BY <1>1, FS_Interval
<1>3. IsFiniteSet(Members(grps, g))
  BY <1>1, <1>2, FS_Subset
<1> QED
  BY <1>1, <1>3, FS_CardinalityType

(* It is the length of what all members share.                             *)
LEMMA PrefixIsCommon ==
  ASSUME NEW seqs \in Seq(Seq(Nat)), NEW grps \in [DOMAIN seqs -> Nat], NEW g \in Range(grps),
         Cardinality(Members(grps, g)) > 1
  PROVE  GroupPrefixLengths(seqs, grps)[g]
           = Len(LongestCommonPrefix({seqs[k] : k \in Members(grps, g)}))
<1> DEFINE M == Members(grps, g)
           L == GroupPrefixLengths(seqs, grps)[g]
           S == {seqs[k] : k \in M}
<1>1. IsFiniteSet(M) /\ M \subseteq 1..Len(seqs)
  BY MembersAreFinite
<1>2. \A k \in M : seqs[k] \in Seq(Nat) /\ Len(seqs[k]) \in Nat /\ k \in Nat
  BY <1>1
<1>3. \A a \in M : \E b \in M : b # a
  <2> SUFFICES ASSUME NEW a \in M, \A b \in M : b = a PROVE FALSE
    OBVIOUS
  <2>1. M = {a}
    OBVIOUS
  <2>2. Cardinality({a}) = 1
    BY FS_Singleton
  <2>3. Cardinality(M) > 1
    OBVIOUS
  <2> QED
    BY <2>1, <2>2, <2>3
<1>4. PICK a0 \in M : TRUE
  BY DEF Members, Range
<1>5. \E a, b \in M : a < b
  <2>1. PICK b0 \in M : b0 # a0
    BY <1>3
  <2>2. a0 \in Nat /\ b0 \in Nat
    BY <1>2
  <2> QED
    BY <2>1, <2>2
<1>6. /\ L \in Nat
      /\ \A a, b \in M : a < b => L <= LCP(seqs[a], seqs[b])
      /\ \E a, b \in M : a < b /\ L = LCP(seqs[a], seqs[b])
  BY <1>5, LeastPair
<1> HIDE DEF L, M
<1>7. ASSUME NEW a \in M, NEW b \in M
      PROVE  /\ L <= Len(seqs[a]) /\ L <= Len(seqs[b])
             /\ \A m \in 1..L : seqs[a][m] = seqs[b][m]
  <2>1. ASSUME NEW c \in M, NEW d \in M, c < d
        PROVE  /\ L <= Len(seqs[c]) /\ L <= Len(seqs[d])
               /\ \A m \in 1..L : seqs[c][m] = seqs[d][m]
    <3> DEFINE C == seqs[c]
               D == seqs[d]
               P == LCP(C, D)
    <3>1. /\ C \in Seq(Nat) /\ D \in Seq(Nat) /\ Len(C) \in Nat /\ Len(D) \in Nat
      BY <1>2
    <3>2. /\ P \in Nat /\ P <= Len(C) /\ P <= Len(D) /\ \A m \in 1..P : C[m] = D[m]
      BY <3>1, LCPStops
    <3>3. L <= P
      BY <1>6, <2>1
    <3> HIDE DEF C, D, P
    <3>4. L <= Len(C) /\ L <= Len(D) /\ \A m \in 1..L : m \in 1..P
      BY <1>6, <3>1, <3>2, <3>3
    <3> QED
      BY <3>2, <3>4 DEF C, D
  <2>2. a \in Nat /\ b \in Nat
    BY <1>2
  <2>3. CASE a < b
    BY <2>1, <2>3
  <2>4. CASE b < a
    BY <2>1, <2>4
  <2>5. CASE a = b
    <3>1. PICK c \in M : c # a
      BY <1>3
    <3>2. c \in Nat
      BY <1>2
    <3>3. L <= Len(seqs[a])
      BY <2>1, <2>2, <3>1, <3>2
    <3> QED
      BY <2>5, <3>3
  <2>6. a < b \/ b < a \/ a = b
    BY <2>2
  <2> QED
    BY <2>3, <2>4, <2>5, <2>6
<1> DEFINE p == SubSeq(seqs[a0], 1, L)
<1>8. p \in Seq(Nat) /\ Len(p) = L /\ \A m \in 1..L : p[m] = seqs[a0][m]
  BY <1>2, <1>6, <1>7, PrefixElems
<1>9. p \in CommonPrefixes(S)
  <2>1. p \in Prefixes(seqs[a0])
    <3>1. L \in 0..Len(seqs[a0])
      BY <1>2, <1>6, <1>7
    <3> QED
      BY <3>1 DEF Prefixes
  <2>2. ASSUME NEW t \in S PROVE IsPrefix(p, t)
    <3>1. PICK k \in M : t = seqs[k]
      OBVIOUS
    <3>2. t \in Seq(Nat) /\ L <= Len(t) /\ \A m \in 1..L : seqs[a0][m] = t[m]
      BY <1>2, <1>7, <3>1
    <3> HIDE DEF p
    <3>3. \A m \in 1..L : p[m] = t[m]
      BY <1>8, <3>2
    <3>4. L <= Len(p)
      BY <1>6, <1>8
    <3>5. SubSeq(p, 1, L) = SubSeq(t, 1, L)
      BY <1>6, <1>8, <3>2, <3>3, <3>4, SamePrefix
    <3> QED
      BY <1>8, <3>2, <3>5 DEF IsPrefix
  <2> HIDE DEF p
  <2> QED
    BY <2>1, <2>2 DEF CommonPrefixes
<1>10. ASSUME NEW q \in CommonPrefixes(S) PROVE Len(q) <= L
  <2>1. PICK k \in M : q \in Prefixes(seqs[k])
    BY DEF CommonPrefixes
  <2>2. PICK n \in 0..Len(seqs[k]) : q = SubSeq(seqs[k], 1, n)
    BY <2>1 DEF Prefixes
  <2>3. q \in Seq(Nat) /\ Len(q) = n /\ n \in Nat
    BY <1>2, <2>2, PrefixElems
  <2>4. PICK a \in M, b \in M : a < b /\ L = LCP(seqs[a], seqs[b])
    BY <1>6
  <2> DEFINE A == seqs[a]
             B == seqs[b]
  <2>5. A \in Seq(Nat) /\ B \in Seq(Nat) /\ Len(A) \in Nat /\ Len(B) \in Nat
    BY <1>2
  <2>6. IsPrefix(q, A) /\ IsPrefix(q, B)
    BY DEF CommonPrefixes
  <2>7. n <= Len(A) /\ n <= Len(B) /\ SubSeq(A, 1, n) = SubSeq(B, 1, n)
    BY <2>3, <2>6 DEF IsPrefix
  <2>8. /\ L <= Len(A) /\ L <= Len(B)
        /\ L < Len(A) /\ L < Len(B) => A[L + 1] # B[L + 1]
    BY <2>4, <2>5, LCPStops
  <2> HIDE DEF A, B
  <2>9. \A m \in 1..n : A[m] = B[m]
    BY <2>3, <2>5, <2>7, SamePrefix
  <2>0. L \in Nat
    BY <1>6
  <2>10. ~ (L < n)
    <3> SUFFICES ASSUME L < n PROVE FALSE
      OBVIOUS
    <3>1. L + 1 \in 1..n /\ L < Len(A) /\ L < Len(B)
      <4>1. n <= Len(A) /\ n <= Len(B)
        BY <2>7
      <4>2. n \in Nat /\ Len(A) \in Nat /\ Len(B) \in Nat
        BY <2>3, <2>5
      <4> DEFINE la == Len(A)
                 lb == Len(B)
      <4>3. n <= la /\ n <= lb /\ la \in Nat /\ lb \in Nat
        BY <4>1, <4>2
      <4> HIDE DEF la, lb
      <4>4. L + 1 \in 1..n /\ L < la /\ L < lb
        BY <2>0, <4>2, <4>3
      <4> QED
        BY <4>4 DEF la, lb
    <3> QED
      BY <2>8, <2>9, <3>1
  <2> QED
    BY <2>0, <2>3, <2>10
<1> DEFINE longest == LongestCommonPrefix(S)
<1>11. longest \in CommonPrefixes(S) /\ \A other \in CommonPrefixes(S) : Len(other) <= Len(longest)
  <2>1. \E q \in CommonPrefixes(S) : \A other \in CommonPrefixes(S) : Len(other) <= Len(q)
    BY <1>8, <1>9, <1>10
  <2> QED
    BY <2>1 DEF LongestCommonPrefix
<1>12. L <= Len(longest) /\ Len(longest) <= L
  BY <1>8, <1>9, <1>10, <1>11
<1>13. Len(longest) \in Nat
  <2>1. PICK k \in M : longest \in Prefixes(seqs[k])
    BY <1>11 DEF CommonPrefixes
  <2>2. PICK n \in 0..Len(seqs[k]) : longest = SubSeq(seqs[k], 1, n)
    BY <2>1 DEF Prefixes
  <2> HIDE DEF longest
  <2> QED
    BY <1>2, <2>2, PrefixElems
<1> HIDE DEF longest
<1> QED
  BY <1>6, <1>12, <1>13 DEF longest, L, M

(* All but the first member of a group hit the whole prefix.               *)
LEMMA GroupHitsThePrefix ==
  ASSUME NEW seqs \in Seq(Seq(Nat)), NEW grps \in [DOMAIN seqs -> Nat], NEW g \in Range(grps),
         NEW H \in Seq(Nat), Len(H) = Len(seqs),
         \A k \in DOMAIN H : H[k] = Walk(TrieAfter(seqs, k - 1), seqs[k])
  PROVE  SumFunctionOnSet(H, Members(grps, g))
           >= (Cardinality(Members(grps, g)) - 1) * GroupPrefixLengths(seqs, grps)[g]
<1> DEFINE M == Members(grps, g)
           L == GroupPrefixLengths(seqs, grps)[g]
<1>1. IsFiniteSet(M) /\ M \subseteq 1..Len(seqs) /\ Cardinality(M) \in Nat
  BY MembersAreFinite
<1>2. M # {}
  BY DEF Members, Range
<1>3. L \in Nat /\ \A a, b \in M : a < b => L <= LCP(seqs[a], seqs[b])
  BY LeastPair
<1>4. \A k \in M : k \in DOMAIN H /\ H[k] \in Nat /\ k \in Nat
  BY <1>1
<1> HIDE DEF L, M
<1>5. PICK first \in M : \A k \in M : first <= k
  <2>1. M \subseteq Nat
    BY <1>4
  <2> QED
    BY <1>2, <2>1, Least
<1> DEFINE R == M \ {first}
           s == SumFunctionOnSet(H, R)
           n == Cardinality(R)
<1>6. SumFunctionOnSet(H, M) = H[first] + s
  <2>1. \A x \in M : H[x] \in Nat
    BY <1>4
  <2>2. IsFiniteSet(M)
    BY <1>1
  <2>3. first \in M
    BY <1>5
  <2>4. IsRest(R, M, first)
    BY DEF IsRest
  <2> HIDE DEF R
  <2> QED
    BY <2>1, <2>2, <2>3, <2>4, SumRest
<1>7. IsFiniteSet(R) /\ n = Cardinality(M) - 1
  BY <1>1, FS_RemoveElement
<1>8. \A k \in R : H[k] \in Nat /\ H[k] >= L
  <2> SUFFICES ASSUME NEW k \in R PROVE H[k] \in Nat /\ H[k] >= L
    OBVIOUS
  <2>1. k \in M /\ first \in M /\ k \in Nat /\ first \in Nat /\ H[k] \in Nat /\ first < k
    BY <1>4, <1>5
  <2>2. k \in 1..Len(seqs) /\ first \in 1..k - 1
    BY <1>1, <2>1
  <2>3. H[k] = Walk(TrieAfter(seqs, k - 1), seqs[k])
    BY <1>4
  <2>4. LCP(seqs[first], seqs[k]) <= H[k]
    BY <2>2, <2>3, WalkIsLongest
  <2>5. L <= LCP(seqs[first], seqs[k])
    BY <1>3, <2>1
  <2>6. LCP(seqs[first], seqs[k]) \in Nat
    <3>1. seqs[first] \in Seq(Nat) /\ seqs[k] \in Seq(Nat)
      BY <1>1, <2>1
    <3> QED
      BY <3>1, LCPStops
  <2> QED
    BY <1>3, <2>1, <2>4, <2>5, <2>6
<1>9. s >= n * L
  <2> HIDE DEF R
  <2> QED
    BY <1>3, <1>7, <1>8, SumAtLeast
<1>10. s \in Nat /\ n \in Nat
  <2> HIDE DEF R
  <2> QED
    BY <1>7, <1>8, SumNat, FS_CardinalityType
<1>11. H[first] \in Nat
  BY <1>4
<1> HIDE DEF s, n, R
<1>12. SumFunctionOnSet(H, M) >= n * L
  <2>1. n * L \in Nat
    BY <1>3, <1>10
  <2> QED
    BY <1>6, <1>9, <1>10, <1>11, <2>1
<1> QED
  BY <1>7, <1>12 DEF M, L

LEMMA IInvPrefix == IInv => SharedPrefixIsCommon
<1> SUFFICES ASSUME IInv, pc = "gaps", NEW g \in DOMAIN prefix_lens
             PROVE  LET members == Members(groups, g)
                    IN  /\ Cardinality(members) > 1 =>
                             prefix_lens[g] = Len(LongestCommonPrefix({sequences[k] : k \in members}))
                        /\ group_hits[g] >= (Cardinality(members) - 1) * prefix_lens[g]
  BY DEF SharedPrefixIsCommon
<1>1. /\ sequences \in Seq(Seq(Nat)) /\ groups \in [DOMAIN sequences -> Nat]
      /\ hits \in Seq(Nat) /\ Len(hits) = Len(sequences)
      /\ prefix_lens = GroupPrefixLengths(sequences, groups)
      /\ group_hits = GroupHits
  BY DEF IInv, Walked, Grouped, PerGroupOf
<1>2. \A k \in DOMAIN hits : hits[k] = Walk(TrieAfter(sequences, k - 1), sequences[k])
  BY DEF IInv, Walked
<1>3. g \in Range(groups)
  BY <1>1 DEF GroupPrefixLengths
<1>4. group_hits[g] = SumFunctionOnSet(hits, Members(groups, g))
  BY <1>1, <1>3 DEF GroupHits
<1>5. SumFunctionOnSet(hits, Members(groups, g))
        >= (Cardinality(Members(groups, g)) - 1) * GroupPrefixLengths(sequences, groups)[g]
  BY <1>1, <1>2, <1>3, GroupHitsThePrefix
<1>6. Cardinality(Members(groups, g)) > 1 =>
        GroupPrefixLengths(sequences, groups)[g]
          = Len(LongestCommonPrefix({sequences[k] : k \in Members(groups, g)}))
  BY <1>1, <1>3, PrefixIsCommon
<1> QED
  BY <1>1, <1>4, <1>5, <1>6

-----------------------------------------------------------------------------
LEMMA SumAtMost ==
  ASSUME NEW f, NEW S, IsFiniteSet(S), NEW c \in Nat, \A x \in S : f[x] \in Nat /\ f[x] <= c
  PROVE  SumFunctionOnSet(f, S) <= Cardinality(S) * c
<1> DEFINE T == {D \in SUBSET S : ~ (SumFunctionOnSet(f, D) <= Cardinality(D) * c)}
<1> SUFFICES ASSUME T # {} PROVE FALSE
  OBVIOUS
<1>1. PICK D \in T : \A E \in T : E \subseteq D => E = D
  <2> HIDE DEF T
  <2>1. T \subseteq SUBSET S
    BY DEF T
  <2> QED
    BY <2>1, SmallestSet
<1>2. IsFiniteSet(D) /\ \A x \in D : f[x] \in Nat
  BY FS_Subset
<1>3. D # {}
  <2> SUFFICES ASSUME D = {} PROVE FALSE
    OBVIOUS
  <2>1. SumFunctionOnSet(f, D) = 0
    BY SumEmpty
  <2>2. Cardinality(D) = 0
    BY FS_EmptySet
  <2>3. ~ (SumFunctionOnSet(f, D) <= Cardinality(D) * c)
    OBVIOUS
  <2> HIDE DEF T
  <2>4. 0 * c = 0
    OBVIOUS
  <2> QED
    BY <2>1, <2>2, <2>3, <2>4
<1>4. PICK y \in D : TRUE
  BY <1>3
<1> DEFINE Dy == D \ {y}
           n == Cardinality(Dy)
           s == SumFunctionOnSet(f, Dy)
<1>5. SumFunctionOnSet(f, D) = f[y] + s
  BY <1>2, SumAdd
<1>6. s <= n * c
  BY <1>1
<1>7. IsFiniteSet(Dy) /\ Cardinality(D) = n + 1 /\ n \in Nat /\ s \in Nat
  <2>1. IsFiniteSet(Dy) /\ n = Cardinality(D) - 1 /\ Cardinality(D) \in Nat
    BY <1>2, FS_RemoveElement, FS_CardinalityType
  <2>2. n \in Nat
    <3> HIDE DEF Dy
    <3> QED
      BY <2>1, FS_CardinalityType
  <2>3. s \in Nat
    BY <1>2, <2>1, SumNat
  <2> HIDE DEF n, s, Dy
  <2> QED
    BY <2>1, <2>2, <2>3
<1>8. f[y] \in Nat /\ f[y] <= c
  OBVIOUS
<1>9. ~ (SumFunctionOnSet(f, D) <= Cardinality(D) * c)
  OBVIOUS
<1> HIDE DEF n, s, T
<1>10. (n + 1) * c = n * c + c /\ n * c \in Nat
  BY <1>7
<1> QED
  BY <1>5, <1>6, <1>7, <1>8, <1>9, <1>10

\* R orders the elements of S one after the other.
Orders(R, S) ==
  /\ \A x \in S : <<x, x>> \notin R
  /\ \A x, y \in S : x # y => <<x, y>> \in R \/ <<y, x>> \in R
  /\ \A x, y, z \in S : <<x, y>> \in R /\ <<y, z>> \in R => <<x, z>> \in R

IsOrder(order, D, R) ==
  /\ order \in [1..Cardinality(D) -> D]
  /\ \A j, k \in 1..Cardinality(D) : j < k => <<order[j], order[k]>> \in R

LEMMA FirstExists ==
  ASSUME NEW D, IsFiniteSet(D), D # {}, NEW R, Orders(R, D)
  PROVE  \E x \in D : \A y \in D \ {x} : <<x, y>> \in R
<1> DEFINE Down(x) == {y \in D : <<y, x>> \in R}
           T == {Down(x) : x \in D}
<1>1. PICK d \in T : \A e \in T : e \subseteq d => e = d
  <2> HIDE DEF T
  <2>1. T \subseteq SUBSET D /\ T # {}
    BY DEF T
  <2> QED
    BY <2>1, SmallestSet
<1>2. PICK x \in D : d = Down(x)
  OBVIOUS
<1>3. Down(x) = {}
  <2> SUFFICES ASSUME NEW y \in Down(x) PROVE FALSE
    OBVIOUS
  <2>1. y \in D /\ <<y, x>> \in R
    OBVIOUS
  <2>2. Down(y) \subseteq Down(x)
    BY <2>1 DEF Orders
  <2>3. Down(y) = Down(x)
    <3>1. Down(y) \in T
      BY <2>1
    <3> HIDE DEF T, Down
    <3> QED
      BY <1>1, <1>2, <2>2, <3>1
  <2>4. y \notin Down(y)
    BY <2>1 DEF Orders
  <2> QED
    BY <2>3, <2>4
<1> QED
  BY <1>2, <1>3 DEF Orders

LEMMA OrderExists ==
  ASSUME NEW S, IsFiniteSet(S), NEW R, Orders(R, S)
  PROVE  IsOrder(InOrder(S, R), S, R)
<1> DEFINE T == {D \in SUBSET S : ~ \E order : IsOrder(order, D, R)}
<1>1. T = {}
  <2> SUFFICES ASSUME T # {} PROVE FALSE
    OBVIOUS
  <2>1. PICK D \in T : \A E \in T : E \subseteq D => E = D
    <3> HIDE DEF T
    <3>1. T \subseteq SUBSET S
      BY DEF T
    <3> QED
      BY <3>1, SmallestSet
  <2>2. IsFiniteSet(D) /\ Orders(R, D) /\ D \subseteq S /\ ~ \E order : IsOrder(order, D, R)
    BY FS_Subset DEF Orders
  <2>3. CASE D = {}
    <3> DEFINE e == [k \in 1..0 |-> 0]
    <3>1. Cardinality(D) = 0
      BY <2>3, FS_EmptySet
    <3>2. e \in [1..0 -> D] /\ 1..0 = {}
      BY <2>3
    <3> HIDE DEF e
    <3>3. IsOrder(e, D, R)
      BY <3>1, <3>2 DEF IsOrder
    <3> QED
      BY <2>2, <3>3
  <2>4. CASE D # {}
    <3>1. PICK x \in D : \A y \in D \ {x} : <<x, y>> \in R
      BY <2>2, <2>4, FirstExists
    <3> DEFINE E == D \ {x}
               n == Cardinality(E)
    <3>2. n \in Nat /\ Cardinality(D) = n + 1
      <4>1. IsFiniteSet(E) /\ n = Cardinality(D) - 1 /\ Cardinality(D) \in Nat
        BY <2>2, FS_RemoveElement, FS_CardinalityType
      <4>2. n \in Nat
        <5> HIDE DEF E
        <5> QED
          BY <4>1, FS_CardinalityType
      <4> HIDE DEF n
      <4> QED
        BY <4>1, <4>2
    <3>3. E \notin T /\ E \in SUBSET S
      BY <2>1, <2>2
    <3>4. PICK old : IsOrder(old, E, R)
      BY <3>3
    <3>5. /\ old \in [1..n -> E]
          /\ \A j, k \in 1..n : j < k => <<old[j], old[k]>> \in R
      BY <3>4 DEF IsOrder
    <3> DEFINE new == [k \in 1..n + 1 |-> IF k = 1 THEN x ELSE old[k - 1]]
    <3> HIDE DEF n, T
    <3>6. \A k \in 1..n + 1 : k # 1 => k - 1 \in 1..n /\ old[k - 1] \in E
      BY <3>2, <3>5
    <3>7. new \in [1..n + 1 -> D]
      BY <3>1, <3>6
    <3>8. ASSUME NEW j \in 1..n + 1, NEW k \in 1..n + 1, j < k PROVE <<new[j], new[k]>> \in R
      <4>1. k # 1 /\ k - 1 \in 1..n /\ new[k] = old[k - 1] /\ new[k] \in E
        BY <3>2, <3>6, <3>8
      <4>2. CASE j = 1
        BY <3>1, <4>1, <4>2
      <4>3. CASE j # 1
        <5>1. j - 1 \in 1..n /\ new[j] = old[j - 1] /\ j - 1 < k - 1
          BY <3>2, <3>6, <3>8, <4>3
        <5> HIDE DEF new
        <5> QED
          BY <3>5, <4>1, <5>1
      <4> QED
        BY <4>2, <4>3
    <3> HIDE DEF new
    <3>9. IsOrder(new, D, R)
      BY <3>2, <3>7, <3>8 DEF IsOrder
    <3> QED
      BY <2>2, <3>9
  <2> QED
    BY <2>3, <2>4
<1>2. \E order : IsOrder(order, S, R)
  BY <1>1
<1>3. \E order \in [1..Cardinality(S) -> S] :
        \A j, k \in 1..Cardinality(S) : j < k => <<order[j], order[k]>> \in R
  BY <1>2 DEF IsOrder
<1> QED
  BY <1>3 DEF InOrder, IsOrder

LEMMA OrderIsOneToOne ==
  ASSUME NEW S, NEW R, Orders(R, S), NEW order, IsOrder(order, S, R),
         Cardinality(S) \in Nat, NEW j \in 1..Cardinality(S), NEW k \in 1..Cardinality(S),
         order[j] = order[k]
  PROVE  j = k
<1> SUFFICES ASSUME j # k PROVE FALSE
  OBVIOUS
<1>1. order[j] \in S /\ <<order[j], order[j]>> \notin R
  BY DEF Orders, IsOrder
<1>2. j < k \/ k < j
  OBVIOUS
<1> QED
  BY <1>1, <1>2 DEF IsOrder

LEMMA FirstMany ==
  ASSUME NEW S, IsFiniteSet(S), NEW R, Orders(R, S), NEW order, IsOrder(order, S, R),
         NEW n \in 0..Cardinality(S), NEW A, A = {order[k] : k \in 1..n}
  PROVE  A \subseteq S /\ IsFiniteSet(A) /\ Cardinality(A) = n
<1> DEFINE h == [k \in 1..n |-> order[k]]
<1>1. n \in Nat /\ Cardinality(S) \in Nat /\ \A k \in 1..n : k \in 1..Cardinality(S)
  BY FS_CardinalityType
<1>2. A \subseteq S
  BY <1>1 DEF IsOrder
<1>3. h \in Bijection(1..n, A)
  <2>1. h \in [1..n -> A]
    OBVIOUS
  <2>2. \A j, k \in 1..n : h[j] = h[k] => j = k
    BY <1>1, OrderIsOneToOne
  <2>3. \A y \in A : \E k \in 1..n : h[k] = y
    OBVIOUS
  <2> HIDE DEF h
  <2> QED
    BY <2>1, <2>2, <2>3 DEF Bijection, Injection, Surjection, IsInjective
<1>4. IsFiniteSet(1..n) /\ Cardinality(1..n) = n
  <2>1. IsFiniteSet(1..n) /\ Cardinality(1..n) = IF 1 > n THEN 0 ELSE n - 1 + 1
    BY <1>1, FS_Interval
  <2> QED
    BY <1>1, <2>1
<1>5. IsFiniteSet(A) /\ Cardinality(A) = n
  <2>1. ExistsBijection(1..n, A)
    BY <1>3 DEF ExistsBijection
  <2> QED
    BY <1>4, <2>1, FS_Bijection
<1> QED
  BY <1>2, <1>5

LEMMA OrderCovers ==
  ASSUME NEW S, IsFiniteSet(S), NEW R, Orders(R, S), NEW order, IsOrder(order, S, R)
  PROVE  /\ Len(order) = Cardinality(S)
         /\ \A x \in S : \E k \in 1..Cardinality(S) : x = order[k]
<1> DEFINE N == Cardinality(S)
           A == {order[k] : k \in 1..N}
<1>1. N \in Nat /\ order \in [1..N -> S] /\ N \in 0..N
  BY FS_CardinalityType DEF IsOrder
<1>2. Len(order) = N
  <2> HIDE DEF N
  <2>1. order \in Seq(S)
    BY <1>1, SeqDef
  <2> QED
    BY <1>1, <2>1, LenProperties
<1>3. A \in SUBSET S /\ Cardinality(A) = N
  <2>1. A = {order[k] : k \in 1..N}
    OBVIOUS
  <2> HIDE DEF A
  <2> QED
    BY <1>1, <2>1, FirstMany
<1>4. A = S
  <2> HIDE DEF A
  <2> QED
    BY <1>3, FS_Subset DEF N
<1> QED
  BY <1>2, <1>4

LEMMA GroupsAreOrdered ==
  ASSUME NEW D \in SUBSET Nat, IsFiniteSet(D), NEW f \in [D -> Nat]
  PROVE  Orders(Smaller(f), D) /\ Orders(Larger(f), D)
<1>1. \A x, y \in D : <<x, y>> \in Smaller(f) <=> f[x] < f[y] \/ (f[x] = f[y] /\ x < y)
  BY DEF Smaller
<1>2. \A x, y \in D : <<x, y>> \in Larger(f) <=> f[x] > f[y] \/ (f[x] = f[y] /\ x < y)
  BY DEF Larger
<1>3. \A x \in D : x \in Nat /\ f[x] \in Nat
  OBVIOUS
<1>4. Orders(Smaller(f), D)
  <2> SUFFICES ASSUME NEW x \in D, NEW y \in D, NEW z \in D
               PROVE  /\ <<x, x>> \notin Smaller(f)
                      /\ x # y => <<x, y>> \in Smaller(f) \/ <<y, x>> \in Smaller(f)
                      /\ <<x, y>> \in Smaller(f) /\ <<y, z>> \in Smaller(f) => <<x, z>> \in Smaller(f)
    BY DEF Orders
  <2> QED
    BY <1>1, <1>3
<1>5. Orders(Larger(f), D)
  <2> SUFFICES ASSUME NEW x \in D, NEW y \in D, NEW z \in D
               PROVE  /\ <<x, x>> \notin Larger(f)
                      /\ x # y => <<x, y>> \in Larger(f) \/ <<y, x>> \in Larger(f)
                      /\ <<x, y>> \in Larger(f) /\ <<y, z>> \in Larger(f) => <<x, z>> \in Larger(f)
    BY DEF Orders
  <2> QED
    BY <1>2, <1>3
<1> QED
  BY <1>4, <1>5

(* The first groups of an order have the sum of any set as large.          *)
LEMMA MoreSumsToMore ==
  ASSUME NEW D, IsFiniteSet(D), NEW R, Orders(R, D), NEW order, IsOrder(order, D, R),
         NEW h, \A x \in D : h[x] \in Nat,
         NEW m \in 0..Cardinality(D), NEW n \in 0..Cardinality(D), m <= n
  PROVE  /\ SumOver(h, order, m) \in Nat /\ SumOver(h, order, n) \in Nat
         /\ SumOver(h, order, m) <= SumOver(h, order, n)
<1> DEFINE A(k) == {order[j] : j \in 1..k}
           Am == A(m)
           An == A(n)
<1>1. /\ Am \subseteq D /\ IsFiniteSet(Am) /\ An \subseteq D /\ IsFiniteSet(An)
  <2>1. Am = {order[j] : j \in 1..m} /\ An = {order[j] : j \in 1..n}
    OBVIOUS
  <2> HIDE DEF Am, An
  <2>2. Am \subseteq D /\ IsFiniteSet(Am)
    BY <2>1, FirstMany
  <2>3. An \subseteq D /\ IsFiniteSet(An)
    BY <2>1, FirstMany
  <2> QED
    BY <2>2, <2>3
<1>2. Am \subseteq An
  <2>1. Cardinality(D) \in Nat
    BY FS_CardinalityType
  <2>2. \A j \in 1..m : j \in 1..n
    BY <2>1
  <2> QED
    BY <2>2
<1>3. SumOver(h, order, m) = SumFunctionOnSet(h, Am) /\ SumOver(h, order, n) = SumFunctionOnSet(h, An)
  BY DEF SumOver
<1> HIDE DEF Am, An
<1>4. (\A x \in Am : h[x] \in Nat) /\ (\A x \in An : h[x] \in Nat)
  BY <1>1
<1>5. \A x \in Am : IF x \in An THEN h[x] <= h[x] ELSE h[x] = 0
  BY <1>2, <1>4
<1>6. SumFunctionOnSet(h, Am) <= SumFunctionOnSet(h, An)
  BY <1>1, <1>4, <1>5, SumBound
<1>7. SumFunctionOnSet(h, Am) \in Nat /\ SumFunctionOnSet(h, An) \in Nat
  BY <1>1, <1>4, SumNat
<1> QED
  BY <1>3, <1>6, <1>7

(* No set of n groups is smaller than the n smallest groups.               *)
LEMMA SmallestAreLeast ==
  ASSUME NEW D, IsFiniteSet(D), NEW f \in [D -> Nat], Orders(Smaller(f), D), NEW S \in SUBSET D
  PROVE  SumOver(f, SmallestFirst(f), Cardinality(S)) <= SumFunctionOnSet(f, S)
<1> DEFINE order == SmallestFirst(f)
           N == Cardinality(D)
           n == Cardinality(S)
           A == {order[k] : k \in 1..n}
<1>1. Orders(Smaller(f), D)
  OBVIOUS
<1>2. IsOrder(order, D, Smaller(f))
  <2>1. DOMAIN f = D
    OBVIOUS
  <2> QED
    BY <1>1, <2>1, OrderExists DEF SmallestFirst
<1> HIDE DEF order
<1>3. IsFiniteSet(S) /\ n \in Nat /\ N \in Nat /\ n <= N /\ n \in 0..N
  <2>1. IsFiniteSet(S) /\ n <= N
    BY FS_Subset
  <2>2. n \in Nat /\ N \in Nat
    BY <2>1, FS_CardinalityType
  <2> HIDE DEF n, N
  <2> QED
    BY <2>1, <2>2
<1>4. /\ order \in [1..N -> D]
      /\ A \subseteq D /\ IsFiniteSet(A) /\ Cardinality(A) = n
      /\ \A x \in D : \E k \in 1..N : x = order[k]
  <2>1. order \in [1..N -> D]
    BY <1>2 DEF IsOrder
  <2>2. \A x \in D : \E k \in 1..N : x = order[k]
    BY <1>1, <1>2, OrderCovers
  <2>3. A \subseteq D /\ IsFiniteSet(A) /\ Cardinality(A) = n
    <3>1. n \in 0..Cardinality(D)
      BY <1>3
    <3>2. A = {order[k] : k \in 1..n}
      OBVIOUS
    <3> HIDE DEF A, n
    <3> QED
      BY <1>1, <1>2, <3>1, <3>2, FirstMany
  <2> QED
    BY <2>1, <2>2, <2>3
<1>5. \A x \in D : f[x] \in Nat
  OBVIOUS
<1>6. CASE n = 0
  <2>1. S = {}
    BY <1>3, <1>6, FS_EmptySet
  <2>2. A = {}
    BY <1>6
  <2>3. SumFunctionOnSet(f, {}) = 0
    BY SumEmpty
  <2>4. SumOver(f, order, n) = SumFunctionOnSet(f, A)
    BY DEF SumOver
  <2>5. SumOver(f, order, n) = 0 /\ SumFunctionOnSet(f, S) = 0
    <3> HIDE DEF n
    <3> QED
      BY <2>1, <2>2, <2>3, <2>4
  <2> QED
    BY <2>5 DEF order
<1>7. CASE n # 0
  <2> DEFINE t == f[order[n]]
             I == A \cap S
             O == A \ S
             P == S \ A
  <2>1. n \in 1..N /\ order[n] \in D /\ t \in Nat
    <3>1. n \in 1..N
      <4> HIDE DEF n, N
      <4> QED
        BY <1>3, <1>7
    <3> HIDE DEF n, N
    <3> QED
      BY <1>4, <1>5, <3>1
  <2>2. \A j, k \in 1..N : j < k => f[order[j]] <= f[order[k]]
    <3> SUFFICES ASSUME NEW j \in 1..N, NEW k \in 1..N, j < k PROVE f[order[j]] <= f[order[k]]
      OBVIOUS
    <3>1. <<order[j], order[k]>> \in Smaller(f)
      BY <1>2 DEF IsOrder
    <3>2. order[j] \in D /\ order[k] \in D /\ f[order[j]] \in Nat /\ f[order[k]] \in Nat
      BY <1>4, <1>5
    <3> QED
      BY <3>1, <3>2 DEF Smaller
  <2> HIDE DEF N, n
  <2>3. \A x \in O : f[x] \in Nat /\ f[x] <= t
    <3> SUFFICES ASSUME NEW x \in O PROVE f[x] \in Nat /\ f[x] <= t
      OBVIOUS
    <3>1. PICK k \in 1..n : x = order[k]
      OBVIOUS
    <3>2. k \in 1..N /\ (k < n \/ k = n)
      BY <1>3, <3>1
    <3>3. f[x] \in Nat
      BY <1>4, <1>5
    <3> QED
      BY <2>1, <2>2, <3>1, <3>2, <3>3
  <2>4. \A x \in P : f[x] \in Nat /\ f[x] >= t
    <3> SUFFICES ASSUME NEW x \in P PROVE f[x] \in Nat /\ f[x] >= t
      OBVIOUS
    <3>1. PICK k \in 1..N : x = order[k]
      BY <1>4
    <3>2. ~ (k \in 1..n)
      BY <3>1
    <3>3. n < k
      BY <1>3, <3>2
    <3>4. f[x] \in Nat
      BY <1>5
    <3>5. t <= f[order[k]]
      BY <2>1, <2>2, <3>3
    <3> HIDE DEF t, P, A
    <3> QED
      BY <2>1, <3>1, <3>4, <3>5
  <2> DEFINE c == Cardinality(O)
             d == Cardinality(P)
  <2>5. IsFiniteSet(O) /\ IsFiniteSet(P) /\ IsFiniteSet(I) /\ c = d /\ c \in Nat
    <3> HIDE DEF A
    <3>1. IsFiniteSet(O) /\ c = Cardinality(A) - Cardinality(A \cap S)
      BY <1>4, FS_Difference
    <3>2. IsFiniteSet(P) /\ d = Cardinality(S) - Cardinality(S \cap A)
      BY <1>3, FS_Difference
    <3>3. A \cap S = S \cap A
      OBVIOUS
    <3>4. Cardinality(A) = Cardinality(S)
      BY <1>4 DEF n
    <3>5. IsFiniteSet(I)
      BY <1>4, FS_Intersection
    <3>6. c \in Nat
      <4> HIDE DEF O
      <4> QED
        BY <3>1, FS_CardinalityType
    <3> QED
      BY <3>1, <3>2, <3>3, <3>4, <3>5, <3>6
  <2> DEFINE so == SumFunctionOnSet(f, O)
             sp == SumFunctionOnSet(f, P)
             si == SumFunctionOnSet(f, I)
  <2>6. so <= c * t
    <3> HIDE DEF O, t
    <3> QED
      BY <2>1, <2>3, <2>5, SumAtMost
  <2>7. sp >= d * t
    <3> HIDE DEF P, t
    <3> QED
      BY <2>1, <2>4, <2>5, SumAtLeast
  <2>8. SumFunctionOnSet(f, A) = si + so
    <3> HIDE DEF A
    <3>1. \A x \in A : f[x] \in Nat
      BY <1>4, <1>5
    <3>2. I \subseteq A /\ A \ I = O
      OBVIOUS
    <3> HIDE DEF I, O
    <3>3. SumFunctionOnSet(f, A) = SumFunctionOnSet(f, I) + SumFunctionOnSet(f, A \ I)
      <4>1. IsFiniteSet(A)
        BY <1>4
      <4> HIDE DEF so, sp, si, c, d, t, O, P, n, N
      <4> QED
        BY <3>1, <3>2, <4>1, SumSplit
    <3> QED
      BY <3>2, <3>3
  <2>9. SumFunctionOnSet(f, S) = si + sp
    <3> HIDE DEF A
    <3>1. \A x \in S : f[x] \in Nat
      BY <1>5
    <3>2. I \subseteq S /\ S \ I = P
      OBVIOUS
    <3> HIDE DEF I, P
    <3>3. SumFunctionOnSet(f, S) = SumFunctionOnSet(f, I) + SumFunctionOnSet(f, S \ I)
      <4>1. IsFiniteSet(S)
        BY <1>3
      <4> HIDE DEF so, sp, si, c, d, t, O, P, n, N
      <4> QED
        BY <3>1, <3>2, <4>1, SumSplit
    <3> QED
      BY <3>2, <3>3
  <2>10. si \in Nat /\ so \in Nat /\ sp \in Nat
    <3>1. (\A x \in I : f[x] \in Nat) /\ (\A x \in O : f[x] \in Nat) /\ (\A x \in P : f[x] \in Nat)
      BY <1>5, <2>3, <2>4
    <3> HIDE DEF I, O, P
    <3> QED
      BY <2>5, <3>1, SumNat
  <2>11. SumOver(f, order, n) = SumFunctionOnSet(f, A)
    BY DEF SumOver
  <2>12. c * t \in Nat /\ c * t = d * t
    <3> HIDE DEF c, d, t
    <3> QED
      BY <2>1, <2>5
  <2>13. SumOver(f, order, n) <= SumFunctionOnSet(f, S)
    <3> HIDE DEF A, so, sp, si, c, d, t
    <3> QED
      BY <2>6, <2>7, <2>8, <2>9, <2>10, <2>11, <2>12
  <2> QED
    BY <2>13 DEF n, order
<1> QED
  BY <1>6, <1>7

(* The greedy fit fits, nothing larger does, and more fits in more.        *)
LEMMA GreedyFit ==
  ASSUME NEW D \in SUBSET Nat, IsFiniteSet(D), NEW f \in [D -> Nat], NEW capacity \in Nat
  PROVE  LET n == FitGroups(capacity, f)
             N == Cardinality(D)
             order == SmallestFirst(f)
         IN  /\ n \in 0..N
             /\ SumOver(f, order, n) <= capacity
             /\ n # N => SumOver(f, order, n + 1) > capacity
             /\ \A k \in 0..N - 1 : SumOver(f, order, k + 1) > capacity => n <= k
<1> DEFINE order == SmallestFirst(f)
           N == Cardinality(D)
           T == {N} \cup {k \in 0..N - 1 : SumOver(f, order, k + 1) > capacity}
           n == Min(T)
<1>1. Orders(Smaller(f), D)
  BY GroupsAreOrdered
<1>2. IsOrder(order, D, Smaller(f))
  <2>1. DOMAIN f = D
    OBVIOUS
  <2> QED
    BY <1>1, <2>1, OrderExists DEF SmallestFirst
<1>3. Len(order) = N /\ N \in Nat
  <2> HIDE DEF order
  <2> QED
    BY <1>1, <1>2, OrderCovers
<1>4. FitGroups(capacity, f) = n
  BY <1>3 DEF FitGroups
<1> HIDE DEF order, N
<1>5. T \subseteq Nat /\ T # {}
  BY <1>3
<1>6. n \in T /\ \A k \in T : n <= k
  <2> HIDE DEF T
  <2> QED
    BY <1>5, MinIsLeast
<1> HIDE DEF n
<1>7. n \in 0..N
  BY <1>3, <1>6
<1>8. n # N => SumOver(f, order, n + 1) > capacity
  BY <1>6
<1>9. \A k \in 0..N - 1 : SumOver(f, order, k + 1) > capacity => n <= k
  BY <1>6
<1>10. SumOver(f, order, n) <= capacity
  <2>1. CASE n = 0
    <3>1. {order[k] : k \in 1..n} = {}
      BY <2>1
    <3>2. SumOver(f, order, n) = 0
      BY <3>1, SumEmpty DEF SumOver
    <3> QED
      BY <3>2
  <2>2. CASE n # 0
    <3> DEFINE m == n - 1
    <3>1. m \in 0..N - 1 /\ ~ (n <= m) /\ m + 1 = n
      BY <1>3, <1>7, <2>2
    <3>2. ~ (SumOver(f, order, n) > capacity)
      <4> HIDE DEF m
      <4> QED
        BY <1>9, <3>1
    <3>3. SumOver(f, order, n) \in Nat
      <4>1. n \in 0..Cardinality(D) /\ n <= n
        BY <1>3, <1>7 DEF N
      <4>2. \A x \in D : f[x] \in Nat
        OBVIOUS
      <4> QED
        BY <1>1, <1>2, <4>1, <4>2, MoreSumsToMore
    <3> QED
      BY <3>2, <3>3
  <2> QED
    BY <2>1, <2>2
<1> QED
  BY <1>4, <1>7, <1>8, <1>9, <1>10 DEF order, N

(* The groups of a trace, with what the report needs of them.              *)
LEMMA GroupNumbers ==
  ASSUME NEW seqs \in Seq(Seq(Nat)), NEW grps \in [DOMAIN seqs -> Nat],
         NEW H \in Seq(Nat), Len(H) = Len(seqs)
  PROVE  /\ Range(grps) \in SUBSET Nat /\ IsFiniteSet(Range(grps))
         /\ GroupPrefixLengths(seqs, grps) \in [Range(grps) -> Nat]
         /\ \A g \in Range(grps) : SumFunctionOnSet(H, Members(grps, g)) \in Nat
<1> DEFINE D == Range(grps)
<1>1. D \in SUBSET Nat
  BY DEF Range
<1>2. IsFiniteSet(D)
  <2>1. IsFiniteSet(1..Len(seqs)) /\ DOMAIN grps = 1..Len(seqs)
    <3>1. Len(seqs) \in Int
      OBVIOUS
    <3> QED
      BY <3>1, FS_Interval
  <2>2. grps \in Surjection(1..Len(seqs), D)
    BY <2>1 DEF Surjection, Range
  <2> HIDE DEF D
  <2> QED
    BY <2>1, <2>2, FS_Surjection
<1>3. GroupPrefixLengths(seqs, grps) \in [D -> Nat]
  <2>1. \A g \in D : GroupPrefixLengths(seqs, grps)[g] \in Nat
    BY LeastPair
  <2>2. GroupPrefixLengths(seqs, grps) = [g \in D |-> GroupPrefixLengths(seqs, grps)[g]]
    BY DEF GroupPrefixLengths
  <2> DEFINE P == GroupPrefixLengths(seqs, grps)
  <2> HIDE DEF P, D
  <2>3. \A g \in D : P[g] \in Nat
    BY <2>1 DEF P
  <2>4. P = [g \in D |-> P[g]]
    BY <2>2 DEF P
  <2>5. P \in [D -> Nat]
    BY <2>3, <2>4
  <2> QED
    BY <2>5 DEF P
<1>4. ASSUME NEW g \in D PROVE SumFunctionOnSet(H, Members(grps, g)) \in Nat
  <2> DEFINE M == Members(grps, g)
  <2>1. IsFiniteSet(M) /\ M \subseteq 1..Len(seqs)
    BY MembersAreFinite
  <2> HIDE DEF M
  <2>2. \A k \in M : H[k] \in Nat
    BY <2>1
  <2>3. SumFunctionOnSet(H, M) \in Nat
    BY <2>1, <2>2, SumNat
  <2> QED
    BY <2>3 DEF M
<1> QED
  BY <1>1, <1>2, <1>3, <1>4

LEMMA IInvFit == IInv => FitIsBestCase
<1> SUFFICES ASSUME IInv, report # NoReport PROVE FitIsBestCase
  BY DEF FitIsBestCase
<1> DEFINE D == DOMAIN prefix_lens
           N == Cardinality(D)
           small == SmallestFirst(prefix_lens)
           large == LargestFirst(prefix_lens)
           models == UNION {Range(report.sweep[b]) : b \in HostBytes}
<1>1. /\ sequences \in Seq(Seq(Nat)) /\ groups \in [DOMAIN sequences -> Nat]
      /\ hits \in Seq(Nat) /\ Len(hits) = Len(sequences)
      /\ prefix_lens = GroupPrefixLengths(sequences, groups)
      /\ group_hits = GroupHits
      /\ report.sweep = [b \in HostBytes |->
           [bf16 |-> CapacityModel(CapacityTokens(b, BF16_BYTES_PER_TOKEN)),
            int8 |-> CapacityModel(CapacityTokens(b, INT8_BYTES_PER_TOKEN))]]
  BY DEF IInv, Walked, Grouped, PerGroupOf, Reported
<1>2. /\ D = Range(groups) /\ D \in SUBSET Nat /\ IsFiniteSet(D)
      /\ prefix_lens \in [D -> Nat]
      /\ DOMAIN group_hits = D
  <2>1. D = Range(groups) /\ DOMAIN group_hits = Range(groups)
    BY <1>1 DEF GroupPrefixLengths, GroupHits
  <2>2. Range(groups) \in SUBSET Nat /\ IsFiniteSet(Range(groups))
        /\ GroupPrefixLengths(sequences, groups) \in [Range(groups) -> Nat]
    BY <1>1, GroupNumbers
  <2> QED
    BY <1>1, <2>1, <2>2
<1>3. \A g \in D : group_hits[g] \in Nat
  <2> SUFFICES ASSUME NEW g \in D PROVE group_hits[g] \in Nat
    OBVIOUS
  <2>1. SumFunctionOnSet(hits, Members(groups, g)) \in Nat
    BY <1>1, <1>2, GroupNumbers
  <2>2. group_hits[g] = SumFunctionOnSet(hits, Members(groups, g))
    BY <1>1, <1>2 DEF GroupHits
  <2> QED
    BY <2>1, <2>2
<1>4. \A m \in models : \E c \in Nat : m = CapacityModel(c)
  <2> SUFFICES ASSUME NEW b \in HostBytes, NEW m \in Range(report.sweep[b])
               PROVE  \E c \in Nat : m = CapacityModel(c)
    OBVIOUS
  <2> DEFINE c1 == CapacityTokens(b, BF16_BYTES_PER_TOKEN)
             c2 == CapacityTokens(b, INT8_BYTES_PER_TOKEN)
  <2>1. c1 \in Nat /\ c2 \in Nat
    <3>1. /\ b \in Nat
          /\ BF16_BYTES_PER_TOKEN \in Nat /\ BF16_BYTES_PER_TOKEN > 0
          /\ INT8_BYTES_PER_TOKEN \in Nat /\ INT8_BYTES_PER_TOKEN > 0
      BY OracleAssumption
    <3>2. ASSUME NEW p \in Nat, p > 0 PROVE b \div p \in Nat
      BY <3>1, <3>2
    <3>3. b \div BF16_BYTES_PER_TOKEN \in Nat /\ b \div INT8_BYTES_PER_TOKEN \in Nat
      BY <3>1, <3>2
    <3> QED
      BY <3>3 DEF CapacityTokens
  <2>2. report.sweep[b] = [bf16 |-> CapacityModel(c1), int8 |-> CapacityModel(c2)]
    BY <1>1
  <2> HIDE DEF c1, c2
  <2>3. m = CapacityModel(c1) \/ m = CapacityModel(c2)
    BY <2>2 DEF Range
  <2> QED
    BY <2>1, <2>3
<1>5. /\ Orders(Smaller(prefix_lens), D) /\ IsOrder(small, D, Smaller(prefix_lens))
      /\ Orders(Larger(prefix_lens), D) /\ IsOrder(large, D, Larger(prefix_lens))
  <2>1. Orders(Smaller(prefix_lens), D) /\ Orders(Larger(prefix_lens), D)
    <3> HIDE DEF D
    <3> QED
      BY <1>2, GroupsAreOrdered
  <2>2. IsOrder(small, D, Smaller(prefix_lens)) /\ IsOrder(large, D, Larger(prefix_lens))
    BY <1>2, <2>1, OrderExists DEF SmallestFirst, LargestFirst
  <2> QED
    BY <2>1, <2>2
<1> DEFINE fits(c) == FitGroups(c, prefix_lens)
<1>6. ASSUME NEW c \in Nat
      PROVE  /\ fits(c) \in 0..N
             /\ SumOver(prefix_lens, small, fits(c)) <= c
             /\ fits(c) # N => SumOver(prefix_lens, small, fits(c) + 1) > c
             /\ \A k \in 0..N - 1 : SumOver(prefix_lens, small, k + 1) > c => fits(c) <= k
  <2> HIDE DEF D
  <2> QED
    BY <1>2, GreedyFit
<1>7. N \in Nat
  BY <1>2, FS_CardinalityType
<1>8. ASSUME NEW c \in Nat
      PROVE  /\ CapacityModel(c).prefix_bytes_used = SumOver(prefix_lens, small, fits(c))
             /\ CapacityModel(c).capacity_tokens = c
             /\ CapacityModel(c).groups_fit = fits(c)
             /\ CapacityModel(c).smallest_hits = SumOver(group_hits, small, fits(c))
             /\ CapacityModel(c).largest_hits = SumOver(group_hits, large, fits(c))
  BY DEF CapacityModel
<1> HIDE DEF D, N, small, large, fits, models
<1>9. ASSUME NEW h, \A x \in D : h[x] \in Nat, NEW m \in 0..N, NEW n \in 0..N, m <= n
      PROVE  /\ SumOver(h, small, m) \in Nat /\ SumOver(h, small, n) \in Nat
             /\ SumOver(h, small, m) <= SumOver(h, small, n)
             /\ SumOver(h, large, m) <= SumOver(h, large, n)
  <2>1. m \in 0..Cardinality(D) /\ n \in 0..Cardinality(D)
    BY DEF N
  <2>2. SumOver(h, small, m) \in Nat /\ SumOver(h, small, n) \in Nat
        /\ SumOver(h, small, m) <= SumOver(h, small, n)
    BY <1>2, <1>5, <1>9, <2>1, MoreSumsToMore
  <2>3. SumOver(h, large, m) <= SumOver(h, large, n)
    BY <1>2, <1>5, <1>9, <2>1, MoreSumsToMore
  <2> QED
    BY <2>2, <2>3
<1>10. ASSUME NEW c \in Nat, NEW S \in SUBSET D, SumFunctionOnSet(prefix_lens, S) <= c
       PROVE  Cardinality(S) <= fits(c)
  <2> DEFINE n == Cardinality(S)
             k == fits(c)
  <2> SUFFICES ASSUME ~ (n <= k) PROVE FALSE
    OBVIOUS
  <2>1. n \in Nat /\ n <= N
    <3>1. IsFiniteSet(S) /\ Cardinality(S) <= Cardinality(D)
      BY <1>2, FS_Subset
    <3> QED
      BY <3>1, FS_CardinalityType DEF N
  <2>2. SumOver(prefix_lens, small, n) <= SumFunctionOnSet(prefix_lens, S)
    BY <1>2, <1>5, SmallestAreLeast DEF small
  <2>3. IsFiniteSet(S) /\ \A x \in S : prefix_lens[x] \in Nat
    BY <1>2, FS_Subset
  <2>4. SumFunctionOnSet(prefix_lens, S) \in Nat
    BY <2>3, SumNat
  <2> HIDE DEF n
  <2>5. k \in 0..N /\ k # N /\ k + 1 \in 0..N /\ n \in 0..N /\ k + 1 <= n
    BY <1>6, <1>7, <2>1
  <2>6. SumOver(prefix_lens, small, k + 1) > c
    BY <1>6, <2>5
  <2>7. \A x \in D : prefix_lens[x] \in Nat
    BY <1>2
  <2>8. SumOver(prefix_lens, small, k + 1) <= SumOver(prefix_lens, small, n)
        /\ SumOver(prefix_lens, small, n) \in Nat /\ SumOver(prefix_lens, small, k + 1) \in Nat
    <3> HIDE DEF k
    <3> QED
      BY <1>9, <2>5, <2>7
  <2> DEFINE a == SumOver(prefix_lens, small, k + 1)
             b == SumOver(prefix_lens, small, n)
             e == SumFunctionOnSet(prefix_lens, S)
  <2>9. a > c /\ a <= b /\ b <= e /\ e <= c /\ a \in Nat /\ b \in Nat /\ e \in Nat
    BY <1>10, <2>2, <2>4, <2>6, <2>8
  <2> HIDE DEF a, b, e
  <2> QED
    BY <2>9
<1>11. ASSUME NEW c \in Nat, NEW d \in Nat, c <= d PROVE fits(c) <= fits(d)
  <2>1. fits(c) \in 0..N /\ fits(d) \in 0..N
    BY <1>6
  <2>2. CASE fits(d) = N
    BY <1>7, <2>1, <2>2
  <2>3. CASE fits(d) # N
    <3> DEFINE k == fits(d)
               s == SumOver(prefix_lens, small, k + 1)
    <3>1. k \in 0..N - 1 /\ k + 1 \in 0..N /\ k + 1 <= k + 1
      BY <1>7, <2>1, <2>3
    <3>2. s > d
      BY <1>6, <2>3
    <3>3. s \in Nat
      <4>1. \A x \in D : prefix_lens[x] \in Nat
        BY <1>2
      <4> HIDE DEF k
      <4> QED
        BY <1>9, <3>1, <4>1
    <3>4. s > c
      <4> HIDE DEF s
      <4> QED
        BY <1>11, <3>2, <3>3
    <3> HIDE DEF k
    <3>5. fits(c) <= k
      BY <1>6, <3>1, <3>4
    <3> QED
      BY <3>5 DEF k
  <2> QED
    BY <2>2, <2>3
<1>12. \A m \in models :
         /\ m.prefix_bytes_used <= m.capacity_tokens
         /\ \A S \in SUBSET D :
              SumFunctionOnSet(prefix_lens, S) <= m.capacity_tokens => Cardinality(S) <= m.groups_fit
  <2> SUFFICES ASSUME NEW m \in models
               PROVE  /\ m.prefix_bytes_used <= m.capacity_tokens
                      /\ \A S \in SUBSET D :
                           SumFunctionOnSet(prefix_lens, S) <= m.capacity_tokens
                             => Cardinality(S) <= m.groups_fit
    OBVIOUS
  <2>1. PICK c \in Nat : m = CapacityModel(c)
    BY <1>4
  <2>2. /\ m.prefix_bytes_used = SumOver(prefix_lens, small, fits(c))
        /\ m.capacity_tokens = c /\ m.groups_fit = fits(c)
    BY <1>8, <2>1
  <2> QED
    BY <1>6, <1>10, <2>2
<1>13. \A m, n \in models :
         m.capacity_tokens <= n.capacity_tokens =>
           m.smallest_hits <= n.smallest_hits /\ m.largest_hits <= n.largest_hits
  <2> SUFFICES ASSUME NEW m \in models, NEW n \in models, m.capacity_tokens <= n.capacity_tokens
               PROVE  m.smallest_hits <= n.smallest_hits /\ m.largest_hits <= n.largest_hits
    OBVIOUS
  <2>1. PICK c \in Nat : m = CapacityModel(c)
    BY <1>4
  <2>2. PICK d \in Nat : n = CapacityModel(d)
    BY <1>4
  <2>3. /\ m.capacity_tokens = c
        /\ m.smallest_hits = SumOver(group_hits, small, fits(c))
        /\ m.largest_hits = SumOver(group_hits, large, fits(c))
    BY <1>8, <2>1
  <2>4. /\ n.capacity_tokens = d
        /\ n.smallest_hits = SumOver(group_hits, small, fits(d))
        /\ n.largest_hits = SumOver(group_hits, large, fits(d))
    BY <1>8, <2>2
  <2>5. fits(c) <= fits(d) /\ fits(c) \in 0..N /\ fits(d) \in 0..N
    BY <1>6, <1>11, <2>3, <2>4
  <2> QED
    BY <1>3, <1>9, <2>3, <2>4, <2>5
<1> QED
  BY <1>12, <1>13 DEF FitIsBestCase, models, D

-----------------------------------------------------------------------------
(* The theorems.                                                           *)

LEMMA IInvHolds == Spec => []IInv
<1>1. Init => IInv
  BY IInvInit
<1>2. IInv /\ [Next]_vars => IInv'
  BY IInvStep
<1> QED
  BY <1>1, <1>2, PTL DEF Spec

LEMMA IInvHits == IInv => HitIsLongestPrefix
<1> SUFFICES ASSUME IInv, NEW k \in DOMAIN hits
             PROVE  /\ \A j \in 1..k - 1 : LCP(sequences[j], sequences[k]) <= hits[k]
                    /\ hits[k] > 0 => \E j \in 1..k - 1 : LCP(sequences[j], sequences[k]) = hits[k]
  BY DEF HitIsLongestPrefix
<1>1. sequences \in Seq(Seq(Nat)) /\ k \in 1..Len(sequences)
      /\ hits[k] = Walk(TrieAfter(sequences, k - 1), sequences[k])
  BY DEF IInv, Walked
<1> QED
  BY <1>1, WalkIsLongest

(* trie_hits, for every trace: the hits of a request are the longest       *)
(* prefix it shares with a request before it.                              *)
THEOREM LongestPrefix == Spec => []HitIsLongestPrefix
<1>1. IInv => HitIsLongestPrefix
  BY IInvHits
<1> QED
  BY <1>1, IInvHolds, PTL

(* group_prefix_lengths, for every trace and key length: a group's prefix  *)
(* is what all of its members share, and all but the first of them hit it. *)
THEOREM SharedPrefix == Spec => []SharedPrefixIsCommon
<1>1. IInv => SharedPrefixIsCommon
  BY IInvPrefix
<1> QED
  BY <1>1, IInvHolds, PTL

(* gap_tokens, for every trace: a reuse gap is how much the unlimited      *)
(* cache grew since the group's last request.                              *)
THEOREM GapGrowth == Spec => []GapIsGrowth
<1>1. IInv => GapIsGrowth
  BY IInvGaps
<1> QED
  BY <1>1, IInvHolds, PTL

(* fit_groups and capacity_model, for every trace and pool size: what is   *)
(* fitted fits, no larger set of groups does, and a larger pool or a       *)
(* smaller encoding never predicts fewer hits.                             *)
THEOREM BestCase == Spec => []FitIsBestCase
<1>1. IInv => FitIsBestCase
  BY IInvFit
<1> QED
  BY <1>1, IInvHolds, PTL
=============================================================================
