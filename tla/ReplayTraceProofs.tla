---------------------------- MODULE ReplayTraceProofs ----------------------------
(***************************************************************************)
(* The replay for every trace and any number of threads.                   *)
(*                                                                         *)
(* Three things are followed through every interleaving: the pool of       *)
(* threads is empty whenever main() is not in its with block; the client   *)
(* and the server agree on how far each request is; and what the served    *)
(* requests did not find in the cache is at least what the cache holds of  *)
(* the prompts, from which the oracle's bound follows, because every token *)
(* of a trace is either a hit or a node of its trie.  What the cache holds *)
(* of the answers lies beyond the end of a prompt, and is left out.        *)
(***************************************************************************)
EXTENDS ReplayTrace, SequenceTheorems, FiniteSetTheorems, WellFoundedInduction, TLAPS

(* Every non-empty set of naturals has a least element.                    *)
LEMMA Least ==
  ASSUME NEW T, T \subseteq Nat, T # {}
  PROVE  \E x \in T : \A y \in T : x <= y
<1>1. \E x \in T : \A y \in T : ~ (<<y, x>> \in OpToRel(<, Nat))
  BY NatLessThanWellFounded, WFMin
<1>2. PICK x \in T : \A y \in T : ~ (<<y, x>> \in OpToRel(<, Nat))
  BY <1>1
<1>3. \A y \in T : ~ (y < x)
  <2> TAKE y \in T
  <2>1. y \in Nat /\ x \in Nat
    OBVIOUS
  <2>2. y < x => <<y, x>> \in OpToRel(<, Nat)
    BY <2>1 DEF OpToRel
  <2> QED
    BY <1>2, <2>2
<1>4. \A y \in T : x <= y
  <2> TAKE y \in T
  <2>1. y \in Nat /\ x \in Nat /\ ~ (y < x)
    BY <1>3
  <2> QED
    BY <2>1
<1> QED
  BY <1>4

(* Walk stops where a child is missing: the CHOOSE has a value.            *)
LEMMA WalkStops ==
  ASSUME NEW trie_, NEW seq \in Seq(Nat)
  PROVE  /\ Walk(trie_, seq) \in 0..Len(seq)
         /\ \A m \in 1..Walk(trie_, seq) : SubSeq(seq, 1, m) \in trie_
         /\ Walk(trie_, seq) < Len(seq) => SubSeq(seq, 1, Walk(trie_, seq) + 1) \notin trie_
<1> DEFINE T == {n \in 0..Len(seq) : n < Len(seq) => SubSeq(seq, 1, n + 1) \notin trie_}
<1>1. Len(seq) \in Nat
  OBVIOUS
<1>2. T \subseteq Nat /\ Len(seq) \in T
  BY <1>1
<1>3. PICK x \in T : \A y \in T : x <= y
  <2> HIDE DEF T
  <2> QED
    BY <1>2, Least
<1>4. \A m \in 1..x : SubSeq(seq, 1, m) \in trie_
  <2> SUFFICES ASSUME NEW m \in 1..x PROVE SubSeq(seq, 1, m) \in trie_
    OBVIOUS
  <2>1. x \in Nat /\ x <= Len(seq) /\ m \in Nat /\ m - 1 \in 0..Len(seq) /\ m - 1 < Len(seq) /\ m - 1 < x
    BY <1>1
  <2>2. m - 1 \notin T
    <3> HIDE DEF T
    <3>1. m - 1 \in T => x <= m - 1
      BY <1>3
    <3> QED
      BY <3>1, <2>1
  <2>3. SubSeq(seq, 1, (m - 1) + 1) \in trie_
    BY <2>1, <2>2
  <2>4. (m - 1) + 1 = m
    BY <2>1
  <2> QED
    BY <2>3, <2>4
<1>5. \E n \in 0..Len(seq) :
        /\ \A m \in 1..n : SubSeq(seq, 1, m) \in trie_
        /\ n < Len(seq) => SubSeq(seq, 1, n + 1) \notin trie_
  BY <1>4
<1> QED
  BY <1>5 DEF Walk

LEMMA PrefixLen ==
  ASSUME NEW c \in Seq(Nat), NEW n \in Nat, n <= Len(c)
  PROVE  Len(SubSeq(c, 1, n)) = n
<1>1. \A m \in 1..n : c[m] \in Nat
  OBVIOUS
<1>2. Len(SubSeq(c, 1, n)) = IF 1 <= n THEN n - 1 + 1 ELSE 0
  BY <1>1, SubSeqProperties
<1> QED
  BY <1>2

(* The same n elements are the same prefix.                                *)
LEMMA SamePrefix ==
  ASSUME NEW a \in Seq(Nat), NEW b \in Seq(Nat), NEW n \in Nat, n <= Len(a), n <= Len(b)
  PROVE  SubSeq(a, 1, n) = SubSeq(b, 1, n) <=> \A m \in 1..n : a[m] = b[m]
<1>1. ASSUME NEW c \in Seq(Nat), n <= Len(c)
      PROVE  /\ SubSeq(c, 1, n) \in Seq(Nat)
             /\ Len(SubSeq(c, 1, n)) = n
             /\ \A m \in 1..n : SubSeq(c, 1, n)[m] = c[m]
  <2>1. \A m \in 1..n : c[m] \in Nat
    BY <1>1
  <2>2. /\ SubSeq(c, 1, n) \in Seq(Nat)
        /\ Len(SubSeq(c, 1, n)) = IF 1 <= n THEN n - 1 + 1 ELSE 0
        /\ \A m \in 1..n - 1 + 1 : SubSeq(c, 1, n)[m] = c[1 + m - 1]
    BY <2>1, SubSeqProperties
  <2>3. n - 1 + 1 = n /\ (1 <= n \/ n = 0)
    OBVIOUS
  <2>4. \A m \in 1..n : 1 + m - 1 = m
    OBVIOUS
  <2> QED
    BY <2>2, <2>3, <2>4
<1>2. SubSeq(a, 1, n) \in Seq(Nat) /\ Len(SubSeq(a, 1, n)) = n
      /\ \A m \in 1..n : SubSeq(a, 1, n)[m] = a[m]
  BY <1>1
<1>3. SubSeq(b, 1, n) \in Seq(Nat) /\ Len(SubSeq(b, 1, n)) = n
      /\ \A m \in 1..n : SubSeq(b, 1, n)[m] = b[m]
  BY <1>1
<1>4. ASSUME \A m \in 1..n : a[m] = b[m] PROVE SubSeq(a, 1, n) = SubSeq(b, 1, n)
  BY <1>2, <1>3, <1>4, SeqEqual
<1> QED
  BY <1>2, <1>3, <1>4

LEMMA TrieGrows ==
  ASSUME NEW seqs \in Seq(Seq(Nat)), NEW k \in 1..Len(seqs)
  PROVE  TrieAfter(seqs, k) = TrieAfter(seqs, k - 1) \cup Nodes(seqs[k])
<1>1. 1..k = (1..k - 1) \cup {k}
  OBVIOUS
<1> QED
  BY <1>1 DEF TrieAfter

LEMMA SmallestSet ==
  ASSUME NEW S, IsFiniteSet(S), NEW T, T \subseteq SUBSET S, T # {}
  PROVE  \E x \in T : \A y \in T : y \subseteq x => y = x
<1>1. IsWellFoundedOn(StrictSubsetOrdering(S), FiniteSubsetsOf(S))
  BY FS_StrictSubsetOrderingWellFounded
<1>2. T \subseteq FiniteSubsetsOf(S)
  BY FS_Subset DEF FiniteSubsetsOf
<1>3. PICK x \in T : \A y \in T : ~ (<<y, x>> \in StrictSubsetOrdering(S))
  BY <1>1, <1>2, WFMin
<1> QED
  BY <1>3 DEF StrictSubsetOrdering

Pick(s) == CHOOSE x \in s : TRUE

\* it is the recursive function of MapThenFoldSet on the subsets of S.
Adds(it, f, S) ==
  it = [s \in SUBSET S |-> IF s = {} THEN 0 ELSE f[Pick(s)] + it[s \ {Pick(s)}]]

LEMMA AddsOnce ==
  ASSUME NEW f, NEW D, NEW E, IsFiniteSet(D), NEW g, NEW h, Adds(g, f, D), Adds(h, f, E),
         NEW s, s \subseteq D, s \subseteq E
  PROVE  g[s] = h[s]
<1> DEFINE T == {t \in SUBSET s : g[t] # h[t]}
<1> SUFFICES ASSUME T # {} PROVE FALSE
  OBVIOUS
<1>1. IsFiniteSet(s)
  BY FS_Subset
<1>2. PICK t \in T : \A y \in T : y \subseteq t => y = t
  <2> HIDE DEF T
  <2>1. T \subseteq SUBSET s
    BY DEF T
  <2> QED
    BY <1>1, <2>1, SmallestSet
<1>3. g[t] = (IF t = {} THEN 0 ELSE f[Pick(t)] + g[t \ {Pick(t)}])
  BY DEF Adds
<1>4. h[t] = (IF t = {} THEN 0 ELSE f[Pick(t)] + h[t \ {Pick(t)}])
  BY DEF Adds
<1>5. t # {}
  BY <1>3, <1>4
<1>6. Pick(t) \in t
  BY <1>5 DEF Pick
<1>7. g[t \ {Pick(t)}] = h[t \ {Pick(t)}]
  BY <1>2, <1>6
<1> QED
  BY <1>3, <1>4, <1>7

LEMMA AddsExists ==
  ASSUME NEW f, NEW S, IsFiniteSet(S)
  PROVE  \E it : Adds(it, f, S)
<1> DEFINE T == {D \in SUBSET S : ~ \E it : Adds(it, f, D)}
<1> SUFFICES ASSUME T # {} PROVE FALSE
  OBVIOUS
<1>1. PICK D \in T : \A E \in T : E \subseteq D => E = D
  <2> HIDE DEF T
  <2>1. T \subseteq SUBSET S
    BY DEF T
  <2> QED
    BY <2>1, SmallestSet
<1> DEFINE G(E) == CHOOSE it : Adds(it, f, E)
<1>2. \A E \in SUBSET D : E # D => Adds(G(E), f, E)
  BY <1>1
<1> DEFINE it == [s \in SUBSET D |->
                    IF s = {} THEN 0
                    ELSE f[Pick(s)] + G(s \ {Pick(s)})[s \ {Pick(s)}]]
<1>3. ASSUME NEW s \in SUBSET D, s # {}
      PROVE  it[s \ {Pick(s)}] = G(s \ {Pick(s)})[s \ {Pick(s)}]
  <2> DEFINE t == s \ {Pick(s)}
  <2>1. t \in SUBSET D /\ t # D
    BY <1>3 DEF Pick
  <2>2. Adds(G(t), f, t)
    BY <1>2, <2>1
  <2> HIDE DEF G
  <2>3. G(t)[t] = (IF t = {} THEN 0 ELSE f[Pick(t)] + G(t)[t \ {Pick(t)}])
    BY <2>2 DEF Adds
  <2>4. it[t] = IF t = {} THEN 0 ELSE f[Pick(t)] + G(t \ {Pick(t)})[t \ {Pick(t)}]
    BY <2>1
  <2>5. t # {} => G(t)[t \ {Pick(t)}] = G(t \ {Pick(t)})[t \ {Pick(t)}]
    <3> DEFINE w == t \ {Pick(t)}
    <3>1. w \in SUBSET D /\ w # D
      BY <2>1
    <3>2. Adds(G(w), f, w)
      BY <1>2, <3>1
    <3>3. IsFiniteSet(t)
      BY <2>1, FS_Subset
    <3>4. w \subseteq t
      OBVIOUS
    <3> HIDE DEF w, t
    <3>5. G(t)[w] = G(w)[w]
      BY <2>2, <3>2, <3>3, <3>4, AddsOnce
    <3> QED
      BY <3>5 DEF w
  <2> QED
    BY <2>3, <2>4, <2>5
<1>4. Adds(it, f, D)
  <2> HIDE DEF G
  <2>1. it = [s \in SUBSET D |-> IF s = {} THEN 0 ELSE f[Pick(s)] + it[s \ {Pick(s)}]]
    BY <1>3
  <2> HIDE DEF it
  <2> QED
    BY <2>1 DEF Adds
<1> QED
  BY <1>1, <1>4

LEMMA SumIsAdds ==
  ASSUME NEW f, NEW S, IsFiniteSet(S)
  PROVE  \E it : Adds(it, f, S) /\ SumFunctionOnSet(f, S) = it[S]
<1> DEFINE it == CHOOSE it : Adds(it, f, S)
<1>1. SumFunctionOnSet(f, S) = it[S]
  BY DEF SumFunctionOnSet, FoldFunctionOnSet, MapThenFoldSet, Adds, Pick
<1>2. Adds(it, f, S)
  BY AddsExists
<1> QED
  BY <1>1, <1>2

LEMMA SumEmpty == \A f : SumFunctionOnSet(f, {}) = 0
<1> TAKE f
<1>1. IsFiniteSet({})
  BY FS_EmptySet
<1>2. PICK it : Adds(it, f, {}) /\ SumFunctionOnSet(f, {}) = it[{}]
  BY <1>1, SumIsAdds
<1> QED
  BY <1>2 DEF Adds

LEMMA SumPick ==
  ASSUME NEW f, NEW S, IsFiniteSet(S), S # {}
  PROVE  /\ Pick(S) \in S
         /\ SumFunctionOnSet(f, S) = f[Pick(S)] + SumFunctionOnSet(f, S \ {Pick(S)})
<1> DEFINE R == S \ {Pick(S)}
<1>1. PICK it : Adds(it, f, S) /\ SumFunctionOnSet(f, S) = it[S]
  BY SumIsAdds
<1>2. IsFiniteSet(R)
  BY FS_Subset
<1>3. PICK g : Adds(g, f, R) /\ SumFunctionOnSet(f, R) = g[R]
  <2> HIDE DEF R
  <2> QED BY <1>2, SumIsAdds
<1>4. it[R] = g[R]
  <2>1. R \subseteq S
    OBVIOUS
  <2> HIDE DEF R
  <2> QED BY <1>1, <1>2, <1>3, <2>1, AddsOnce
<1>5. it[S] = f[Pick(S)] + it[R]
  BY <1>1 DEF Adds
<1> QED
  BY <1>1, <1>3, <1>4, <1>5 DEF Pick

LEMMA SumNat ==
  ASSUME NEW f, NEW S, IsFiniteSet(S), \A x \in S : f[x] \in Nat
  PROVE  SumFunctionOnSet(f, S) \in Nat
<1> DEFINE T == {D \in SUBSET S : SumFunctionOnSet(f, D) \notin Nat}
<1> SUFFICES ASSUME T # {} PROVE FALSE
  OBVIOUS
<1>1. PICK D \in T : \A E \in T : E \subseteq D => E = D
  <2> HIDE DEF T
  <2>1. T \subseteq SUBSET S
    BY DEF T
  <2> QED
    BY <2>1, SmallestSet
<1>2. D # {}
  BY SumEmpty
<1>3. IsFiniteSet(D)
  BY FS_Subset
<1>4. Pick(D) \in D /\ SumFunctionOnSet(f, D) = f[Pick(D)] + SumFunctionOnSet(f, D \ {Pick(D)})
  BY <1>2, <1>3, SumPick
<1>5. SumFunctionOnSet(f, D \ {Pick(D)}) \in Nat
  BY <1>1, <1>4
<1> QED
  BY <1>4, <1>5

LEMMA SumAdd ==
  ASSUME NEW f, NEW S, IsFiniteSet(S), \A x \in S : f[x] \in Nat, NEW y \in S
  PROVE  SumFunctionOnSet(f, S) = f[y] + SumFunctionOnSet(f, S \ {y})
<1> DEFINE T == {D \in SUBSET S : \E z \in D :
                   SumFunctionOnSet(f, D) # f[z] + SumFunctionOnSet(f, D \ {z})}
<1> SUFFICES ASSUME T # {} PROVE FALSE
  OBVIOUS
<1>1. PICK D \in T : \A E \in T : E \subseteq D => E = D
  <2> HIDE DEF T
  <2>1. T \subseteq SUBSET S
    BY DEF T
  <2> QED
    BY <2>1, SmallestSet
<1>2. PICK z \in D : SumFunctionOnSet(f, D) # f[z] + SumFunctionOnSet(f, D \ {z})
  OBVIOUS
<1> DEFINE c == Pick(D)
           Dc == D \ {c}
           Dz == D \ {z}
           Dcz == D \ {c, z}
<1>3. IsFiniteSet(D)
  BY FS_Subset
<1>4. c \in D /\ SumFunctionOnSet(f, D) = f[c] + SumFunctionOnSet(f, Dc)
  BY <1>3, SumPick
<1>5. c # z
  BY <1>2, <1>4
<1>6. ASSUME NEW E \in SUBSET D, E # D, NEW w \in E
       PROVE  SumFunctionOnSet(f, E) = f[w] + SumFunctionOnSet(f, E \ {w})
  <2>1. E \notin T /\ E \in SUBSET S
    <3> HIDE DEF T
    <3>1. D \in SUBSET S
      BY DEF T
    <3> QED
      BY <1>1, <1>6, <3>1
  <2> QED
    BY <2>1
<1>7. SumFunctionOnSet(f, Dc) = f[z] + SumFunctionOnSet(f, Dc \ {z})
  <2>1. Dc \in SUBSET D /\ Dc # D /\ z \in Dc
    BY <1>4, <1>5
  <2> HIDE DEF Dc, c, T
  <2> QED
    BY <1>6, <2>1
<1>8. SumFunctionOnSet(f, Dz) = f[c] + SumFunctionOnSet(f, Dz \ {c})
  <2>1. Dz \in SUBSET D /\ Dz # D /\ c \in Dz
    BY <1>4, <1>5
  <2> HIDE DEF Dz, c, T
  <2> QED
    BY <1>6, <2>1
<1>9. Dc \ {z} = Dcz /\ Dz \ {c} = Dcz
  OBVIOUS
<1>10. SumFunctionOnSet(f, Dcz) \in Nat /\ f[c] \in Nat /\ f[z] \in Nat
  <2>1. IsFiniteSet(Dcz) /\ \A x \in Dcz : f[x] \in Nat
    BY <1>3, FS_Subset
  <2> QED
    BY <1>4, <2>1, SumNat
<1>11. SumFunctionOnSet(f, D) # f[z] + SumFunctionOnSet(f, Dz)
  BY <1>2
<1> HIDE DEF Dc, Dz, Dcz, c, T
<1>12. PICK rest \in Nat : rest = SumFunctionOnSet(f, Dcz)
  BY <1>10
<1>13. PICK p \in Nat, q \in Nat : p = f[c] /\ q = f[z]
  BY <1>10
<1>14. SumFunctionOnSet(f, D) = p + (q + rest)
  BY <1>4, <1>7, <1>9, <1>12, <1>13
<1>15. SumFunctionOnSet(f, Dz) = p + rest
  BY <1>8, <1>9, <1>12, <1>13
<1>16. p + (q + rest) = q + (p + rest)
  OBVIOUS
<1> QED
  BY <1>11, <1>13, <1>14, <1>15, <1>16

\* Named, so that the sum over S can be taken apart where S and R are sets
\* with names of their own.
IsRest(R, S, y) == R = S \ {y}

LEMMA SumRest ==
  ASSUME NEW f, NEW S, IsFiniteSet(S), \A x \in S : f[x] \in Nat, NEW y \in S,
         NEW R, IsRest(R, S, y)
  PROVE  SumFunctionOnSet(f, S) = f[y] + SumFunctionOnSet(f, R)
<1>1. R = S \ {y}
  BY DEF IsRest
<1>2. SumFunctionOnSet(f, S) = f[y] + SumFunctionOnSet(f, S \ {y})
  BY SumAdd
<1> QED
  BY <1>1, <1>2

(* Each term of the first sum is covered by one of the second, or is 0.    *)
LEMMA SumBound ==
  ASSUME NEW f, NEW g, NEW S, NEW R, IsFiniteSet(S), IsFiniteSet(R),
         \A x \in S : f[x] \in Nat, \A x \in R : g[x] \in Nat,
         \A x \in S : IF x \in R THEN f[x] <= g[x] ELSE f[x] = 0
  PROVE  SumFunctionOnSet(f, S) <= SumFunctionOnSet(g, R)
<1> DEFINE T == {D \in SUBSET S : \E Q \in SUBSET R :
                   /\ D \cap R \subseteq Q
                   /\ ~ (SumFunctionOnSet(f, D) <= SumFunctionOnSet(g, Q))}
<1> SUFFICES ASSUME T # {} PROVE FALSE
  <2> S \in SUBSET S /\ R \in SUBSET R /\ S \cap R \subseteq R
    OBVIOUS
  <2> QED
    OBVIOUS
<1>1. PICK D \in T : \A E \in T : E \subseteq D => E = D
  <2> HIDE DEF T
  <2>1. T \subseteq SUBSET S
    BY DEF T
  <2> QED
    BY <2>1, SmallestSet
<1>2. PICK Q \in SUBSET R :
        D \cap R \subseteq Q /\ ~ (SumFunctionOnSet(f, D) <= SumFunctionOnSet(g, Q))
  OBVIOUS
<1>3. IsFiniteSet(D) /\ IsFiniteSet(Q)
  BY FS_Subset
<1>4. \A x \in D : f[x] \in Nat
  OBVIOUS
<1>5. \A x \in Q : g[x] \in Nat
  OBVIOUS
<1>6. SumFunctionOnSet(g, Q) \in Nat
  BY <1>3, <1>5, SumNat
<1>7. D # {}
  BY <1>2, <1>6, SumEmpty
<1>8. PICK y \in D : TRUE
  BY <1>7
<1> DEFINE Dy == D \ {y}
           Qy == Q \ {y}
<1>9. SumFunctionOnSet(f, D) = f[y] + SumFunctionOnSet(f, Dy)
  BY <1>3, <1>4, SumAdd
<1>10. IsFiniteSet(Dy) /\ (\A x \in Dy : f[x] \in Nat) /\ IsFiniteSet(Qy) /\ (\A x \in Qy : g[x] \in Nat)
  BY <1>3, <1>4, <1>5, FS_Subset
<1>11. Dy \notin T /\ Dy \in SUBSET S
  BY <1>1
<1>12. CASE y \in R
  <2>1. Qy \in SUBSET R /\ Dy \cap R \subseteq Qy
    BY <1>2
  <2>2. SumFunctionOnSet(f, Dy) <= SumFunctionOnSet(g, Qy)
    BY <1>11, <2>1
  <2>3. y \in Q
    BY <1>2, <1>12
  <2>4. SumFunctionOnSet(g, Q) = g[y] + SumFunctionOnSet(g, Qy)
    BY <1>3, <1>5, <2>3, SumAdd
  <2>5. f[y] <= g[y] /\ f[y] \in Nat /\ g[y] \in Nat
    BY <1>12
  <2>6. SumFunctionOnSet(f, Dy) \in Nat /\ SumFunctionOnSet(g, Qy) \in Nat
    BY <1>10, SumNat
  <2> HIDE DEF Dy, Qy, T
  <2> QED
    BY <1>2, <1>9, <2>2, <2>4, <2>5, <2>6
<1>13. CASE y \notin R
  <2>1. Q \in SUBSET R /\ Dy \cap R \subseteq Q
    BY <1>2
  <2>2. SumFunctionOnSet(f, Dy) <= SumFunctionOnSet(g, Q)
    BY <1>11, <2>1
  <2>3. f[y] = 0
    BY <1>13
  <2>4. SumFunctionOnSet(f, Dy) \in Nat
    BY <1>10, SumNat
  <2> HIDE DEF Dy, Qy, T
  <2> QED
    BY <1>2, <1>9, <2>2, <2>3, <2>4
<1> QED
  BY <1>12, <1>13

LEMMA SumPlus ==
  ASSUME NEW f, NEW g, NEW h, NEW S, IsFiniteSet(S),
         \A x \in S : f[x] \in Nat /\ g[x] \in Nat /\ h[x] = f[x] + g[x]
  PROVE  SumFunctionOnSet(h, S) = SumFunctionOnSet(f, S) + SumFunctionOnSet(g, S)
<1> DEFINE T == {D \in SUBSET S :
                   SumFunctionOnSet(h, D) # SumFunctionOnSet(f, D) + SumFunctionOnSet(g, D)}
<1> SUFFICES ASSUME T # {} PROVE FALSE
  OBVIOUS
<1>1. PICK D \in T : \A E \in T : E \subseteq D => E = D
  <2> HIDE DEF T
  <2>1. T \subseteq SUBSET S
    BY DEF T
  <2> QED
    BY <2>1, SmallestSet
<1>2. IsFiniteSet(D)
  BY FS_Subset
<1>3. D # {}
  BY SumEmpty
<1>4. PICK y \in D : TRUE
  BY <1>3
<1> DEFINE Dy == D \ {y}
<1>5. /\ SumFunctionOnSet(f, D) = f[y] + SumFunctionOnSet(f, Dy)
      /\ SumFunctionOnSet(g, D) = g[y] + SumFunctionOnSet(g, Dy)
      /\ SumFunctionOnSet(h, D) = h[y] + SumFunctionOnSet(h, Dy)
  <2>1. \A x \in D : f[x] \in Nat /\ g[x] \in Nat /\ h[x] \in Nat
    OBVIOUS
  <2> QED
    BY <1>2, <2>1, SumAdd
<1>6. SumFunctionOnSet(h, Dy) = SumFunctionOnSet(f, Dy) + SumFunctionOnSet(g, Dy)
  BY <1>1
<1>7. f[y] \in Nat /\ g[y] \in Nat /\ h[y] = f[y] + g[y]
  OBVIOUS
<1>8. SumFunctionOnSet(f, Dy) \in Nat /\ SumFunctionOnSet(g, Dy) \in Nat
  <2>1. IsFiniteSet(Dy) /\ \A x \in Dy : f[x] \in Nat /\ g[x] \in Nat
    BY <1>2, FS_Subset
  <2> QED
    BY <2>1, SumNat
<1>9. SumFunctionOnSet(h, D) # SumFunctionOnSet(f, D) + SumFunctionOnSet(g, D)
  OBVIOUS
<1> HIDE DEF Dy, T
<1> QED
  BY <1>5, <1>6, <1>7, <1>8, <1>9

LEMMA SumSame ==
  ASSUME NEW f, NEW g, NEW S, IsFiniteSet(S), \A x \in S : f[x] \in Nat /\ g[x] = f[x]
  PROVE  SumFunctionOnSet(f, S) = SumFunctionOnSet(g, S)
<1>1. SumFunctionOnSet(f, S) \in Nat /\ SumFunctionOnSet(g, S) \in Nat
  BY SumNat
<1>2. SumFunctionOnSet(f, S) <= SumFunctionOnSet(g, S)
  BY SumBound
<1>3. SumFunctionOnSet(g, S) <= SumFunctionOnSet(f, S)
  BY SumBound
<1> QED
  BY <1>1, <1>2, <1>3

LEMMA SumSplit ==
  ASSUME NEW f, NEW S, IsFiniteSet(S), \A x \in S : f[x] \in Nat, NEW A, A \subseteq S
  PROVE  SumFunctionOnSet(f, S) = SumFunctionOnSet(f, A) + SumFunctionOnSet(f, S \ A)
<1> DEFINE a == [x \in S |-> IF x \in A THEN f[x] ELSE 0]
           b == [x \in S |-> IF x \in A THEN 0 ELSE f[x]]
           B == S \ A
<1>1. SumFunctionOnSet(f, S) = SumFunctionOnSet(a, S) + SumFunctionOnSet(b, S)
  <2>1. \A x \in S : a[x] \in Nat /\ b[x] \in Nat /\ f[x] = a[x] + b[x]
    OBVIOUS
  <2> HIDE DEF a, b
  <2> QED
    BY <2>1, SumPlus
<1>2. ASSUME NEW c, NEW C, C \subseteq S,
             \A x \in S : c[x] \in Nat /\ c[x] = IF x \in C THEN f[x] ELSE 0
      PROVE  SumFunctionOnSet(c, S) = SumFunctionOnSet(f, C)
  <2>1. IsFiniteSet(C)
    BY <1>2, FS_Subset
  <2>2. (\A x \in C : f[x] \in Nat /\ c[x] = f[x]) /\ \A x \in S \ C : c[x] = 0
    BY <1>2
  <2>3. SumFunctionOnSet(c, S) \in Nat /\ SumFunctionOnSet(f, C) \in Nat
    BY <1>2, <2>1, <2>2, SumNat
  <2>4. SumFunctionOnSet(c, S) <= SumFunctionOnSet(f, C)
    <3>1. \A x \in S : IF x \in C THEN c[x] <= f[x] ELSE c[x] = 0
      BY <1>2, <2>2
    <3> QED
      BY <1>2, <2>1, <2>2, <3>1, SumBound
  <2>5. SumFunctionOnSet(f, C) <= SumFunctionOnSet(c, S)
    <3>1. \A x \in C : IF x \in S THEN f[x] <= c[x] ELSE f[x] = 0
      BY <1>2, <2>2
    <3> QED
      BY <1>2, <2>1, <2>2, <3>1, SumBound
  <2> QED
    BY <2>3, <2>4, <2>5
<1>3. SumFunctionOnSet(a, S) = SumFunctionOnSet(f, A)
  <2>1. \A x \in S : a[x] \in Nat /\ a[x] = IF x \in A THEN f[x] ELSE 0
    OBVIOUS
  <2> HIDE DEF a
  <2> QED
    BY <1>2, <2>1
<1>4. SumFunctionOnSet(b, S) = SumFunctionOnSet(f, B)
  <2>1. B \subseteq S /\ \A x \in S : b[x] \in Nat /\ b[x] = IF x \in B THEN f[x] ELSE 0
    OBVIOUS
  <2> HIDE DEF b, B
  <2> QED
    BY <1>2, <2>1
<1> QED
  BY <1>1, <1>3, <1>4
(* A set to which at most the prefixes of a sequence from the m-th on are   *)
(* added.                                                                  *)
LEMMA GrowsBy ==
  ASSUME NEW A, IsFiniteSet(A), NEW seq \in Seq(Nat), NEW m \in 0..Len(seq),
         NEW B, A \subseteq B,
         B \subseteq A \cup {SubSeq(seq, 1, n) : n \in m + 1..Len(seq)}
  PROVE  /\ IsFiniteSet(B)
         /\ Cardinality(B) <= Cardinality(A) + Len(seq) - m
         /\ Cardinality(A) \in Nat /\ Cardinality(B) \in Nat
<1> DEFINE R == m + 1..Len(seq)
           N == {SubSeq(seq, 1, n) : n \in R}
           f == [n \in R |-> SubSeq(seq, 1, n)]
<1>1. Len(seq) \in Nat /\ m \in Nat /\ m <= Len(seq)
  OBVIOUS
<1>2. IsFiniteSet(R) /\ Cardinality(R) = Len(seq) - m
  <2> DEFINE a == m + 1
             b == Len(seq)
  <2>1. a \in Int /\ b \in Int /\ (IF a > b THEN 0 ELSE b - a + 1) = b - m
    BY <1>1
  <2>2. IsFiniteSet(a..b) /\ Cardinality(a..b) = IF a > b THEN 0 ELSE b - a + 1
    <3> HIDE DEF a, b
    <3> QED
      BY <2>1, FS_Interval
  <2> QED
    BY <2>1, <2>2
<1>3. IsFiniteSet(N) /\ Cardinality(N) <= Cardinality(R)
  <2>1. f \in Surjection(R, N)
    BY DEF Surjection
  <2> HIDE DEF f, R, N
  <2> QED
    BY <1>2, <2>1, FS_Surjection
<1>4. B \subseteq A \cup N
  OBVIOUS
<1>5. IsFiniteSet(A \cup N)
      /\ Cardinality(A \cup N) = Cardinality(A) + Cardinality(N) - Cardinality(A \cap N)
  <2> HIDE DEF N
  <2> QED
    BY <1>3, FS_Union
<1>6. IsFiniteSet(B) /\ Cardinality(B) <= Cardinality(A \cup N)
  <2> HIDE DEF N
  <2> QED
    BY <1>4, <1>5, FS_Subset
<1>7. Cardinality(A \cap N) \in Nat /\ Cardinality(A) \in Nat /\ Cardinality(N) \in Nat
      /\ Cardinality(A \cup N) \in Nat /\ Cardinality(B) \in Nat
  <2> HIDE DEF N
  <2> QED
    BY <1>3, <1>5, <1>6, FS_Intersection, FS_CardinalityType
<1>8. Cardinality(B) <= Cardinality(A) + Len(seq) - m
  <2> HIDE DEF N, R, f
  <2> QED
    BY <1>1, <1>2, <1>3, <1>5, <1>6, <1>7
<1> HIDE DEF N, R, f
<1> QED
  BY <1>6, <1>7, <1>8

(* What the first m prefixes of a sequence already in a set leave for the  *)
(* others to add.                                                          *)
LEMMA NodesAdd ==
  ASSUME NEW A, IsFiniteSet(A), NEW seq \in Seq(Nat), NEW m \in 0..Len(seq),
         \A n \in 1..m : SubSeq(seq, 1, n) \in A
  PROVE  /\ IsFiniteSet(A \cup Nodes(seq))
         /\ Cardinality(A \cup Nodes(seq)) <= Cardinality(A) + Len(seq) - m
         /\ Cardinality(A) \in Nat /\ Cardinality(A \cup Nodes(seq)) \in Nat
<1> DEFINE B == A \cup Nodes(seq)
<1>1. B \subseteq A \cup {SubSeq(seq, 1, n) : n \in m + 1..Len(seq)}
  <2>1. Len(seq) \in Nat /\ m \in Nat /\ m <= Len(seq)
    OBVIOUS
  <2>2. \A n \in 1..Len(seq) : n \in 1..m \/ n \in m + 1..Len(seq)
    BY <2>1
  <2> QED
    BY <2>2 DEF Nodes
<1>2. A \subseteq B
  OBVIOUS
<1> HIDE DEF B
<1>3. /\ IsFiniteSet(B) /\ Cardinality(B) <= Cardinality(A) + Len(seq) - m
      /\ Cardinality(A) \in Nat /\ Cardinality(B) \in Nat
  BY <1>1, <1>2, GrowsBy
<1> QED
  BY <1>3 DEF B

(* A set that holds no further prefix of the sequence grows by all of them. *)
LEMMA NodesNew ==
  ASSUME NEW A, IsFiniteSet(A), NEW seq \in Seq(Nat), NEW m \in 0..Len(seq),
         \A n \in 1..m : SubSeq(seq, 1, n) \in A,
         \A n \in m + 1..Len(seq) : SubSeq(seq, 1, n) \notin A
  PROVE  Cardinality(A \cup Nodes(seq)) = Cardinality(A) + Len(seq) - m
<1> DEFINE R == m + 1..Len(seq)
           N == {SubSeq(seq, 1, n) : n \in R}
           f == [n \in R |-> SubSeq(seq, 1, n)]
<1>1. Len(seq) \in Nat /\ m \in Nat /\ m <= Len(seq)
  OBVIOUS
<1>2. IsFiniteSet(R) /\ Cardinality(R) = Len(seq) - m
  <2> DEFINE a == m + 1
             b == Len(seq)
  <2>1. a \in Int /\ b \in Int /\ (IF a > b THEN 0 ELSE b - a + 1) = b - m
    BY <1>1
  <2>2. IsFiniteSet(a..b) /\ Cardinality(a..b) = IF a > b THEN 0 ELSE b - a + 1
    <3> HIDE DEF a, b
    <3> QED
      BY <2>1, FS_Interval
  <2> QED
    BY <2>1, <2>2
<1>3. f \in Bijection(R, N)
  <2>1. \A n, k \in R : f[n] = f[k] => n = k
    <3> SUFFICES ASSUME NEW n \in R, NEW k \in R, SubSeq(seq, 1, n) = SubSeq(seq, 1, k)
                 PROVE  n = k
      OBVIOUS
    <3>1. n \in Nat /\ k \in Nat /\ n <= Len(seq) /\ k <= Len(seq)
      BY <1>1
    <3> QED
      BY <3>1, PrefixLen
  <2> QED
    BY <2>1 DEF Bijection, Injection, Surjection, IsInjective
<1>4. IsFiniteSet(N) /\ Cardinality(N) = Cardinality(R)
  <2>1. ExistsBijection(R, N)
    BY <1>3 DEF ExistsBijection
  <2> HIDE DEF R, N
  <2> QED
    BY <1>2, <2>1, FS_Bijection
<1>5. A \cup Nodes(seq) = A \cup N /\ A \cap N = {}
  <2>1. 1..Len(seq) = (1..m) \cup R
    BY <1>1
  <2>2. Nodes(seq) = {SubSeq(seq, 1, n) : n \in 1..m} \cup N
    <3> HIDE DEF R
    <3> QED
      BY <2>1 DEF Nodes
  <2>3. A \cap N = {}
    OBVIOUS
  <2> HIDE DEF R, N
  <2> QED
    BY <2>2, <2>3
<1>6. Cardinality(A \cup N) = Cardinality(A) + Cardinality(N) - Cardinality(A \cap N)
  <2> HIDE DEF N
  <2> QED
    BY <1>4, FS_Union
<1>7. Cardinality(A \cap N) = 0 /\ Cardinality(A) \in Nat
  BY <1>5, FS_EmptySet, FS_CardinalityType
<1>8. Cardinality(A \cup N) = Cardinality(A) + Len(seq) - m
  <2> HIDE DEF N, R, f
  <2> QED
    BY <1>1, <1>2, <1>4, <1>6, <1>7
<1> HIDE DEF N, R, f
<1> QED
  BY <1>5, <1>8

(* A trie holds the prefixes of what it holds.                             *)
LEMMA TrieClosed ==
  ASSUME NEW seqs \in Seq(Seq(Nat)), NEW k \in 0..Len(seqs), NEW s \in Seq(Nat),
         NEW n \in 1..Len(s), SubSeq(s, 1, n) \in TrieAfter(seqs, k), NEW m \in 1..n
  PROVE  SubSeq(s, 1, m) \in TrieAfter(seqs, k)
<1>1. PICK j \in 1..k : SubSeq(s, 1, n) \in Nodes(seqs[j])
  BY DEF TrieAfter
<1> DEFINE a == seqs[j]
<1>2. a \in Seq(Nat) /\ Len(a) \in Nat /\ Len(s) \in Nat
  OBVIOUS
<1>3. PICK l \in 1..Len(a) : SubSeq(s, 1, n) = SubSeq(a, 1, l)
  BY <1>1 DEF Nodes
<1>4. l = n
  <2>1. Len(SubSeq(s, 1, n)) = n
    BY <1>2, PrefixLen
  <2>2. Len(SubSeq(a, 1, l)) = l
    BY <1>2, PrefixLen
  <2> QED
    BY <1>3, <2>1, <2>2
<1>5. \A e \in 1..n : s[e] = a[e]
  BY <1>2, <1>3, <1>4, SamePrefix
<1>6. m \in 1..Len(a) /\ m \in Nat /\ m <= Len(s) /\ m <= Len(a) /\ \A e \in 1..m : s[e] = a[e]
  <2> HIDE DEF a
  <2>1. m \in Nat /\ n \in Nat /\ 1 <= m /\ m <= n /\ n <= Len(s) /\ n <= Len(a)
    BY <1>2, <1>4, SMTT(30)
  <2>2. m \in 1..Len(a) /\ m <= Len(s) /\ m <= Len(a)
    BY <1>2, <2>1, SMTT(30)
  <2>3. \A e \in 1..m : e \in 1..n
    BY <2>1
  <2> QED
    BY <1>5, <2>1, <2>2, <2>3
<1>7. SubSeq(s, 1, m) = SubSeq(a, 1, m)
  BY <1>2, <1>6, SamePrefix
<1>8. SubSeq(a, 1, m) \in Nodes(a)
  BY <1>6 DEF Nodes
<1> QED
  BY <1>7, <1>8 DEF TrieAfter

LEMMA TrieFinite ==
  ASSUME NEW seqs \in Seq(Seq(Nat)), NEW k \in 0..Len(seqs)
  PROVE  IsFiniteSet(TrieAfter(seqs, k)) /\ Cardinality(TrieAfter(seqs, k)) \in Nat
<1> DEFINE T == {Nodes(seqs[j]) : j \in 1..k}
           g == [j \in 1..k |-> Nodes(seqs[j])]
<1>1. IsFiniteSet(1..k)
  BY FS_Interval
<1>2. IsFiniteSet(T)
  <2>1. g \in Surjection(1..k, T)
    BY DEF Surjection
  <2> HIDE DEF g, T
  <2> QED
    BY <1>1, <2>1, FS_Surjection
<1>3. ASSUME NEW t \in T PROVE IsFiniteSet(t)
  <2>1. PICK j \in 1..k : t = Nodes(seqs[j])
    OBVIOUS
  <2>2. seqs[j] \in Seq(Nat)
    OBVIOUS
  <2> DEFINE s == seqs[j]
  <2> HIDE DEF s
  <2>3. 0 \in 0..Len(s) /\ \A n \in 1..0 : SubSeq(s, 1, n) \in {}
    BY <2>2 DEF s
  <2>4. IsFiniteSet({} \cup Nodes(s))
    BY <2>2, <2>3, FS_EmptySet, NodesAdd DEF s
  <2>5. {} \cup Nodes(s) = Nodes(s)
    OBVIOUS
  <2> QED
    BY <2>1, <2>4, <2>5 DEF s
<1>4. IsFiniteSet(UNION T)
  <2> HIDE DEF T
  <2> QED
    BY <1>2, <1>3, FS_UNION
<1> QED
  BY <1>4, FS_CardinalityType DEF TrieAfter

(* A request adds as many nodes to the trie as it does not hit.            *)
LEMMA TrieStep ==
  ASSUME NEW seqs \in Seq(Seq(Nat)), NEW k \in 1..Len(seqs)
  PROVE  LET h == Walk(TrieAfter(seqs, k - 1), seqs[k])
         IN  /\ h \in 0..Len(seqs[k])
             /\ Cardinality(TrieAfter(seqs, k)) = Cardinality(TrieAfter(seqs, k - 1)) + Len(seqs[k]) - h
<1> DEFINE t == TrieAfter(seqs, k - 1)
           s == seqs[k]
           h == Walk(t, s)
<1>1. s \in Seq(Nat) /\ Len(s) \in Nat /\ k - 1 \in 0..Len(seqs)
  OBVIOUS
<1>2. IsFiniteSet(t)
  BY <1>1, TrieFinite
<1>3. /\ h \in 0..Len(s)
      /\ \A m \in 1..h : SubSeq(s, 1, m) \in t
      /\ h < Len(s) => SubSeq(s, 1, h + 1) \notin t
  BY <1>1, WalkStops
<1> HIDE DEF h
<1>4. ASSUME NEW n \in h + 1..Len(s) PROVE SubSeq(s, 1, n) \notin t
  <2>1. h + 1 \in 1..n /\ n \in 1..Len(s) /\ h < Len(s)
    BY <1>1, <1>3
  <2>2. SubSeq(s, 1, n) \in TrieAfter(seqs, k - 1) => SubSeq(s, 1, h + 1) \in TrieAfter(seqs, k - 1)
    <3> HIDE DEF s, t
    <3> QED
      BY <1>1, <2>1, TrieClosed
  <2> QED
    BY <1>3, <2>1, <2>2
<1>5. TrieAfter(seqs, k) = t \cup Nodes(s)
  BY TrieGrows
<1>6. Cardinality(t \cup Nodes(s)) = Cardinality(t) + Len(s) - h
  <2> HIDE DEF t, s
  <2> QED
    BY <1>1, <1>2, <1>3, <1>4, NodesNew
<1> QED
  BY <1>3, <1>5, <1>6 DEF h

(* Every token of a trace is a hit or a node of its trie.                  *)
LEMMA HitsAndNodes ==
  ASSUME NEW seqs \in Seq(Seq(Nat))
  PROVE  LET L == [j \in DOMAIN seqs |-> Len(seqs[j])]
         IN  SumFunctionOnSet(L, DOMAIN seqs) =
               SumFunction(TrieHits(seqs)) + Cardinality(TrieAfter(seqs, Len(seqs)))
<1> DEFINE L == [j \in DOMAIN seqs |-> Len(seqs[j])]
           H == TrieHits(seqs)
           Bad == {n \in 0..Len(seqs) :
                     SumFunctionOnSet(L, 1..n) # SumFunctionOnSet(H, 1..n) + Cardinality(TrieAfter(seqs, n))}
<1>0. Len(seqs) \in Nat /\ DOMAIN seqs = 1..Len(seqs)
  OBVIOUS
<1>1. ASSUME NEW n \in 1..Len(seqs)
      PROVE  /\ L[n] \in Nat /\ H[n] \in Nat
             /\ Cardinality(TrieAfter(seqs, n)) = Cardinality(TrieAfter(seqs, n - 1)) + L[n] - H[n]
  <2>1. H[n] = Walk(TrieAfter(seqs, n - 1), seqs[n]) /\ L[n] = Len(seqs[n]) /\ Len(seqs[n]) \in Nat
    BY <1>0 DEF TrieHits
  <2>2. /\ Walk(TrieAfter(seqs, n - 1), seqs[n]) \in 0..Len(seqs[n])
        /\ Cardinality(TrieAfter(seqs, n)) = Cardinality(TrieAfter(seqs, n - 1)) + Len(seqs[n])
                                               - Walk(TrieAfter(seqs, n - 1), seqs[n])
    BY TrieStep
  <2> HIDE DEF L, H
  <2> QED
    BY <2>1, <2>2
<1> HIDE DEF L, H
<1>2. Bad = {}
  <2> SUFFICES ASSUME Bad # {} PROVE FALSE
    OBVIOUS
  <2>1. PICK n \in Bad : \A k \in Bad : n <= k
    <3>1. Bad \subseteq Nat
      BY <1>0
    <3> HIDE DEF Bad
    <3> QED
      BY <3>1, Least
  <2>2. n # 0
    <3>1. 1..0 = {} /\ TrieAfter(seqs, 0) = {}
      BY DEF TrieAfter
    <3>2. SumFunctionOnSet(L, 1..0) = 0 /\ SumFunctionOnSet(H, 1..0) = 0
          /\ Cardinality(TrieAfter(seqs, 0)) = 0
      BY <3>1, SumEmpty, FS_EmptySet
    <3> QED
      BY <3>2
  <2>3. n \in 1..Len(seqs) /\ n \in Nat /\ n - 1 \in 0..Len(seqs) /\ ~(n <= n - 1)
    BY <1>0, <2>2
  <2>4. SumFunctionOnSet(L, 1..n - 1) =
          SumFunctionOnSet(H, 1..n - 1) + Cardinality(TrieAfter(seqs, n - 1))
    BY <2>1, <2>3
  <2>5. IsFiniteSet(1..n) /\ n \in 1..n /\ (1..n) \ {n} = 1..n - 1 /\ IsFiniteSet(1..n - 1)
        /\ (\A k \in 1..n : L[k] \in Nat /\ H[k] \in Nat)
        /\ (\A k \in 1..n - 1 : L[k] \in Nat /\ H[k] \in Nat)
    <3>1. IsFiniteSet(1..n) /\ IsFiniteSet(1..n - 1)
      BY <2>3, FS_Interval
    <3>2. n \in 1..n /\ (1..n) \ {n} = 1..n - 1
      BY <2>3
    <3>3. \A k \in 1..n : k \in 1..Len(seqs)
      BY <1>0, <2>3
    <3>4. \A k \in 1..n - 1 : k \in 1..Len(seqs)
      BY <1>0, <2>3
    <3> QED
      BY <1>1, <3>1, <3>2, <3>3, <3>4
  <2> DEFINE S == 1..n
             R == 1..n - 1
  <2>6. SumFunctionOnSet(L, S) = L[n] + SumFunctionOnSet(L, R)
        /\ SumFunctionOnSet(H, S) = H[n] + SumFunctionOnSet(H, R)
        /\ SumFunctionOnSet(L, R) \in Nat /\ SumFunctionOnSet(H, R) \in Nat
    <3>1. IsFiniteSet(S) /\ n \in S /\ S \ {n} = R /\ IsFiniteSet(R)
          /\ (\A k \in S : L[k] \in Nat /\ H[k] \in Nat)
          /\ (\A k \in R : L[k] \in Nat /\ H[k] \in Nat)
      BY <2>5
    <3> HIDE DEF S, R, Bad
    <3>2. SumFunctionOnSet(L, S) = L[n] + SumFunctionOnSet(L, R)
          /\ SumFunctionOnSet(H, S) = H[n] + SumFunctionOnSet(H, R)
      <4>1. IsRest(R, S, n) /\ IsFiniteSet(S) /\ n \in S
        BY <3>1 DEF IsRest
      <4>2. \A k \in S : L[k] \in Nat
        BY <3>1
      <4>3. \A k \in S : H[k] \in Nat
        BY <3>1
      <4>4. SumFunctionOnSet(L, S) = L[n] + SumFunctionOnSet(L, R)
        BY ONLY <4>1, <4>2, SumRest
      <4>5. SumFunctionOnSet(H, S) = H[n] + SumFunctionOnSet(H, R)
        BY ONLY <4>1, <4>3, SumRest
      <4> QED
        BY <4>4, <4>5
    <3>3. SumFunctionOnSet(L, R) \in Nat /\ SumFunctionOnSet(H, R) \in Nat
      BY <3>1, SumNat
    <3> QED
      BY <3>2, <3>3
  <2>7. Cardinality(TrieAfter(seqs, n - 1)) \in Nat
    BY <2>3, TrieFinite
  <2>8. SumFunctionOnSet(L, 1..n) # SumFunctionOnSet(H, 1..n) + Cardinality(TrieAfter(seqs, n))
    BY <2>1
  <2>9. L[n] \in Nat /\ H[n] \in Nat
        /\ Cardinality(TrieAfter(seqs, n)) = Cardinality(TrieAfter(seqs, n - 1)) + L[n] - H[n]
    BY <1>1, <2>3
  <2> DEFINE c == Cardinality(TrieAfter(seqs, n))
             d == Cardinality(TrieAfter(seqs, n - 1))
             ls == SumFunctionOnSet(L, S)
             lr == SumFunctionOnSet(L, R)
             hs == SumFunctionOnSet(H, S)
             hr == SumFunctionOnSet(H, R)
  <2>10. /\ ls # hs + c /\ lr = hr + d /\ ls = L[n] + lr /\ hs = H[n] + hr
         /\ lr \in Nat /\ hr \in Nat /\ d \in Nat /\ c = d + L[n] - H[n]
    BY <2>4, <2>6, <2>7, <2>8, <2>9
  <2>11. PICK new \in Nat, old \in Nat : new = L[n] /\ old = H[n]
    BY <2>9
  <2> HIDE DEF c, d, ls, lr, hs, hr, S, R, Bad
  <2>12. ls = new + (hr + d) /\ hs = old + hr /\ c = d + new - old
    BY <2>10, <2>11
  <2>13. new + (hr + d) = (old + hr) + (d + new - old)
    BY <2>10
  <2> QED
    BY <2>10, <2>12, <2>13
<1>3. SumFunctionOnSet(L, 1..Len(seqs)) =
        SumFunctionOnSet(H, 1..Len(seqs)) + Cardinality(TrieAfter(seqs, Len(seqs)))
  <2>1. Len(seqs) \in 0..Len(seqs)
    BY <1>0
  <2> QED
    BY <1>2, <2>1
<1>4. SumFunction(H) = SumFunctionOnSet(H, 1..Len(seqs))
  BY <1>0 DEF H, TrieHits, SumFunction, SumFunctionOnSet, FoldFunction
<1> QED
  BY <1>0, <1>3, <1>4 DEF L, H

(* What a set of requests can add to a set of nodes.                       *)
LEMMA NodesOfMany ==
  ASSUME NEW seqs \in Seq(Seq(Nat)), NEW A, IsFiniteSet(A), NEW E \in SUBSET DOMAIN seqs
  PROVE  LET L == [j \in DOMAIN seqs |-> Len(seqs[j])]
             B == A \cup UNION {Nodes(seqs[j]) : j \in E}
         IN  /\ IsFiniteSet(B)
             /\ Cardinality(B) \in Nat
             /\ Cardinality(B) <= Cardinality(A) + SumFunctionOnSet(L, E)
<1> DEFINE L == [j \in DOMAIN seqs |-> Len(seqs[j])]
           B(D) == A \cup UNION {Nodes(seqs[j]) : j \in D}
           Fits(D) == /\ IsFiniteSet(B(D))
                      /\ Cardinality(B(D)) <= Cardinality(A) + SumFunctionOnSet(L, D)
           Bad == {D \in SUBSET E : ~Fits(D)}
<1>1. IsFiniteSet(E) /\ \A x \in E : L[x] \in Nat
  <2>1. DOMAIN seqs = 1..Len(seqs) /\ Len(seqs) \in Nat
    OBVIOUS
  <2>2. IsFiniteSet(DOMAIN seqs)
    BY <2>1, FS_Interval
  <2>3. \A x \in E : L[x] \in Nat
    BY <2>1
  <2> QED
    BY <2>2, <2>3, FS_Subset
<1>2. Cardinality(A) \in Nat
  BY FS_CardinalityType
<1>3. Bad = {}
  <2> SUFFICES ASSUME Bad # {} PROVE FALSE
    OBVIOUS
  <2>1. PICK D \in Bad : \A Q \in Bad : Q \subseteq D => Q = D
    <3>1. Bad \subseteq SUBSET E
      OBVIOUS
    <3> HIDE DEF Bad
    <3> QED
      BY <1>1, <3>1, SmallestSet
  <2>2. D # {}
    <3>1. B({}) = A
      OBVIOUS
    <3>2. SumFunctionOnSet(L, {}) = 0
      BY SumEmpty
    <3> HIDE DEF B, L
    <3>3. Fits({})
      BY <1>2, <3>1, <3>2
    <3> QED
      BY <3>3
  <2>3. PICK y \in D : TRUE
    BY <2>2
  <2> DEFINE R == D \ {y}
             s == seqs[y]
  <2>4. Fits(R)
    <3>1. R \in SUBSET E /\ R \subseteq D /\ R # D
      BY <2>3
    <3> HIDE DEF Fits, R, s
    <3> QED
      BY <2>1, <3>1
  <2>5. s \in Seq(Nat) /\ L[y] = Len(s) /\ Len(s) \in Nat
    OBVIOUS
  <2>6. B(D) = B(R) \cup Nodes(s)
    OBVIOUS
  <2> HIDE DEF s
  <2>7. IsFiniteSet(B(R) \cup Nodes(s))
        /\ Cardinality(B(R) \cup Nodes(s)) <= Cardinality(B(R)) + Len(s)
        /\ Cardinality(B(R)) \in Nat /\ Cardinality(B(R) \cup Nodes(s)) \in Nat
    <3> DEFINE b == B(R)
               m == 0
    <3>1. IsFiniteSet(b)
      BY <2>4
    <3>2. m \in 0..Len(s) /\ \A n \in 1..m : SubSeq(s, 1, n) \in b
      BY <2>5
    <3> HIDE DEF b, m
    <3>3. IsFiniteSet(b \cup Nodes(s))
          /\ Cardinality(b \cup Nodes(s)) <= Cardinality(b) + Len(s) - m
          /\ Cardinality(b) \in Nat /\ Cardinality(b \cup Nodes(s)) \in Nat
      BY <2>5, <3>1, <3>2, NodesAdd
    <3>4. Cardinality(b) + Len(s) - m = Cardinality(b) + Len(s)
      BY <2>5, <3>3 DEF m
    <3> QED
      BY <3>3, <3>4 DEF b
  <2>8. /\ SumFunctionOnSet(L, D) = L[y] + SumFunctionOnSet(L, R)
        /\ SumFunctionOnSet(L, R) \in Nat
    <3>1. IsFiniteSet(D) /\ IsFiniteSet(R)
      BY <1>1, FS_Subset
    <3>2. (\A x \in D : L[x] \in Nat) /\ (\A x \in R : L[x] \in Nat)
      BY <1>1
    <3>3. SumFunctionOnSet(L, R) \in Nat
      <4> HIDE DEF R, L
      <4> QED
        BY <3>1, <3>2, SumNat
    <3>4. y \in D
      OBVIOUS
    <3>5. SumFunctionOnSet(L, D) = L[y] + SumFunctionOnSet(L, R)
      <4>1. IsRest(R, D, y) /\ IsFiniteSet(D) /\ \A x \in D : L[x] \in Nat
        BY <3>1, <3>2 DEF IsRest
      <4> HIDE DEF L, Bad, B, Fits, R
      <4> QED
        BY ONLY <3>4, <4>1, SumRest
    <3> QED
      BY <3>3, <3>5
  <2>9. Cardinality(B(R)) <= Cardinality(A) + SumFunctionOnSet(L, R)
    BY <2>4
  <2>10. Fits(D)
    <3> HIDE DEF B, L, R
    <3> QED
      BY <1>2, <2>5, <2>6, <2>7, <2>8, <2>9
  <2> QED
    BY <2>10
<1>4. Fits(E)
  <2>1. E \in SUBSET E
    OBVIOUS
  <2> HIDE DEF Fits
  <2> QED
    BY <1>3, <2>1
<1>5. Cardinality(B(E)) \in Nat
  <2> HIDE DEF B
  <2> QED
    BY <1>4, FS_CardinalityType
<1> QED
  BY <1>4, <1>5

-----------------------------------------------------------------------------
(* What is known of one row: the thread that sends it and the server agree *)
(* on how far it is.                                                       *)
JobState == {"none", "waiting", "prefilling", "decoding", "finished"}
Stream == [meta : BOOLEAN, first : Nat, last : Nat, itls : Int]
Emitting == {"decoding", "finished"}

TypeOK ==
  /\ sequences \in Seq(Seq(Nat) \ {<<>>})
  /\ job \in [Rows -> JobState]
  /\ matched \in [Rows -> Nat]
  /\ generated \in [Rows -> Nat]
  /\ stream \in [Rows -> Stream]

Progress(i) ==
  /\ status[i] \in {"queued", "cancelled"} => job[i] = "none"
  /\ status[i] = "ok" => job[i] \in {"none", "finished"}
  /\ status[i] # "error" /\ job[i] \notin Emitting => stream[i] = NothingRead
  /\ job[i] = "finished" => generated[i] = MaxNewTokens

Gaps(i) ==
  stream[i].first # 0 =>
    /\ status[i] = "open" =>
         stream[i].last = generated[i] /\ stream[i].itls = generated[i] - stream[i].first
    /\ status[i] = "ok" => stream[i].itls = MaxNewTokens - stream[i].first

Matches(i) ==
  /\ matched[i] <= Len(sequences[i])
  /\ job[i] \in {"none", "waiting"} \/ status[i] = "error" => matched[i] = 0
  /\ status[i] # "error" /\ job[i] = "prefilling" =>
       \A m \in 1..matched[i] : SubSeq(sequences[i], 1, m) \in cache
  /\ status[i] # "error" /\ job[i] \in Emitting => Nodes(sequences[i]) \subseteq cache

RowsOK == \A i \in Rows : Progress(i) /\ Gaps(i) /\ Matches(i)

Lens == [i \in Rows |-> Len(sequences[i])]
Missed == [i \in Rows |-> Len(sequences[i]) - matched[i]]
Hit == [i \in Rows |-> CachedTokens(i)]
Prompts == [i \in Rows |-> PromptTokens(i)]
Finished == {i \in Rows : job[i] = "finished"}
Served == {i \in Rows : status[i] = "error" \/ job[i] \in Emitting}
Failed == {i \in Rows : status[i] = "error"}

\* A node behind the end of a prompt, where the answers are.
Beyond(u) == \E i \in Rows : Extends(u, sequences[i])

\* The nodes of a set that are not.
Within(S) == {u \in S : ~Beyond(u)}

Held == Within(cache) \cup Within(UNION {Nodes(sequences[i]) : i \in Failed})

Counted == promptTokens = SumFunctionOnSet(Lens, Finished)

Bounded ==
  flushed => IsFiniteSet(Held) /\ Cardinality(Held) <= SumFunctionOnSet(Missed, Served)

Early == {"launch", "starting", "flush", "before"}

(* Nothing was sent before the pool is entered, so that a flush leaves     *)
(* nothing to account for.                                                 *)
Unsent == pc \in Early => \A i \in Rows : status[i] = "queued"

Phases ==
  /\ pc \in Early \cup {"pool", "after"} => after = NoScrape
  /\ pc \in Early \cup {"pool", "after", "summarize"} => summary = NoSummary
  /\ pc \in {"pool", "after", "summarize"} => before = 0
  /\ pc \in {"after", "summarize"} => ~raising
  /\ pc = "summarize" => after # NoScrape

Covered ==
  after # NoScrape =>
    /\ before = 0 /\ after \in Nat
    /\ after >= SumFunctionOnSet(Prompts, Ok)
    /\ (\A i \in Rows : status[i] = "ok" /\ stream[i].meta) => after = SumFunctionOnSet(Prompts, Ok)

Reported ==
  summary # NoSummary =>
    /\ after # NoScrape
    /\ summary.prompt_tokens = SumFunctionOnSet(Prompts, Ok)
    /\ flushed => summary.cached_tokens <=
                    SumFunction(TrieHits(sequences)) + Cardinality(Continuations(sequences))

Blamed ==
  (raising \/ pc = "raised") /\ after # NoScrape /\ interrupted = "no" => \E i \in Ok : ~stream[i].meta

Following == TypeOK /\ RowsOK /\ Counted /\ Bounded

Accounting == Unsent /\ Phases /\ Covered /\ Reported /\ Blamed
-----------------------------------------------------------------------------
(* Facts about a single state.                                             *)

LEMMA RowFacts ==
  ASSUME TypeOK
  PROVE  /\ IsFiniteSet(Rows)
         /\ Rows = 1..Len(sequences) /\ Len(sequences) \in Nat
         /\ sequences \in Seq(Seq(Nat))
         /\ \A j \in Rows : sequences[j] \in Seq(Nat) /\ Len(sequences[j]) \in Nat \ {0}
<1>1. sequences \in Seq(Seq(Nat) \ {<<>>})
  BY DEF TypeOK
<1>2. Rows = 1..Len(sequences) /\ Len(sequences) \in Nat
  BY <1>1 DEF Rows
<1>3. IsFiniteSet(Rows)
  BY <1>2, FS_Interval
<1>4. \A j \in Rows : sequences[j] \in Seq(Nat) \ {<<>>}
  BY <1>1, <1>2
<1>5. sequences \in Seq(Seq(Nat))
  BY <1>1, <1>2, <1>4
<1>6. ASSUME NEW s \in Seq(Nat) \ {<<>>} PROVE Len(s) \in Nat \ {0}
  BY <1>6, EmptySeq
<1> QED
  BY <1>2, <1>3, <1>4, <1>5, <1>6

LEMMA Weights ==
  ASSUME TypeOK, RowsOK
  PROVE  \A j \in Rows :
           /\ Lens[j] \in Nat /\ Missed[j] \in Nat /\ Lens[j] = Missed[j] + matched[j]
           /\ matched[j] \in Nat
           /\ Prompts[j] \in Nat /\ Prompts[j] <= Lens[j]
           /\ Hit[j] \in Nat /\ Hit[j] <= matched[j]
<1> TAKE j \in Rows
<1>1. Len(sequences[j]) \in Nat /\ matched[j] \in Nat /\ matched[j] <= Len(sequences[j])
  BY RowFacts DEF TypeOK, RowsOK, Matches
<1>2. Lens[j] = Len(sequences[j]) /\ Missed[j] = Len(sequences[j]) - matched[j]
  BY DEF Lens, Missed
<1>3. Prompts[j] = IF stream[j].meta THEN Len(sequences[j]) ELSE 0
  BY DEF Prompts, PromptTokens
<1>4. Hit[j] = IF stream[j].meta THEN matched[j] ELSE 0
  BY DEF Hit, CachedTokens
<1> QED
  BY <1>1, <1>2, <1>3, <1>4

LEMMA WeightsHere == TypeOK /\ RowsOK => \A j \in Rows : Missed[j] \in Nat
BY Weights

(* The same, of the state a step leads to.                                 *)
LEMMA WeightsNext == (TypeOK /\ RowsOK)' => (\A j \in Rows : Missed[j] \in Nat)'
BY WeightsHere, PTL

LEMMA SetFacts ==
  ASSUME TypeOK
  PROVE  IsFiniteSet(Ok) /\ IsFiniteSet(Finished) /\ IsFiniteSet(Served)
         /\ Ok \subseteq Rows /\ Finished \subseteq Rows /\ Served \subseteq Rows
         /\ Finished \subseteq Served
<1>1. Ok \subseteq Rows /\ Finished \subseteq Rows /\ Served \subseteq Rows /\ Finished \subseteq Served
  BY DEF Ok, Finished, Served, Emitting
<1> QED
  BY <1>1, RowFacts, FS_Subset

(* What a request reports was served to it.                                *)
LEMMA OkIsFinished ==
  ASSUME RowsOK, NEW j \in Ok, stream[j].meta
  PROVE  j \in Finished
<1>1. j \in Rows /\ status[j] = "ok"
  BY DEF Ok
<1>2. job[j] \notin Emitting => stream[j] = NothingRead
  BY <1>1 DEF RowsOK, Progress
<1>3. NothingRead.meta = FALSE
  BY DEF NothingRead
<1>4. job[j] \in Emitting
  BY <1>2, <1>3
<1> QED
  BY <1>1, <1>4 DEF RowsOK, Progress, Emitting, Finished

(* The operators of summarize add up the functions.                        *)
LEMMA PromptSum ==
  ASSUME TypeOK
  PROVE  Sum(PromptTokens, Ok) = SumFunctionOnSet(Prompts, Ok)
<1> DEFINE AddsUp(it) == it = [s \in SUBSET Ok |->
                  IF s = {} THEN 0
                  ELSE LET x == CHOOSE x \in s : TRUE IN PromptTokens(x) + it[s \ {x}]]
           g == CHOOSE it : AddsUp(it)
<1>1. Sum(PromptTokens, Ok) = g[Ok]
  BY DEF Sum, MapThenSumSet, MapThenFoldSet
<1>2. ASSUME NEW it
      PROVE  Adds(it, Prompts, Ok) <=> AddsUp(it)
  <2>1. ASSUME NEW s \in SUBSET Ok, s # {} PROVE Prompts[Pick(s)] = PromptTokens(Pick(s))
    <3>1. Pick(s) \in s
      BY <2>1 DEF Pick
    <3>2. Pick(s) \in Rows
      BY <3>1 DEF Ok
    <3> QED
      BY <3>2 DEF Prompts
  <2>2. [s \in SUBSET Ok |-> IF s = {} THEN 0 ELSE Prompts[Pick(s)] + it[s \ {Pick(s)}]]
          = [s \in SUBSET Ok |-> IF s = {} THEN 0 ELSE PromptTokens(Pick(s)) + it[s \ {Pick(s)}]]
    BY <2>1
  <2> QED
    BY <2>2 DEF Adds, Pick
<1>3. IsFiniteSet(Ok)
  BY SetFacts
<1>4. PICK f : Adds(f, Prompts, Ok) /\ SumFunctionOnSet(Prompts, Ok) = f[Ok]
  BY <1>3, SumIsAdds
<1>5. Adds(g, Prompts, Ok)
  <2> HIDE DEF AddsUp
  <2>1. AddsUp(f)
    BY <1>2, <1>4
  <2>2. AddsUp(g)
    BY <2>1
  <2> HIDE DEF g
  <2> QED
    BY <1>2, <2>2
<1>6. g[Ok] = f[Ok]
  <2> HIDE DEF g
  <2> QED
    BY <1>3, <1>4, <1>5, AddsOnce
<1> QED
  BY <1>1, <1>4, <1>6

LEMMA HitSum ==
  ASSUME TypeOK
  PROVE  Sum(CachedTokens, Ok) = SumFunctionOnSet(Hit, Ok)
<1> DEFINE AddsUp(it) == it = [s \in SUBSET Ok |->
                  IF s = {} THEN 0
                  ELSE LET x == CHOOSE x \in s : TRUE IN CachedTokens(x) + it[s \ {x}]]
           g == CHOOSE it : AddsUp(it)
<1>1. Sum(CachedTokens, Ok) = g[Ok]
  BY DEF Sum, MapThenSumSet, MapThenFoldSet
<1>2. ASSUME NEW it
      PROVE  Adds(it, Hit, Ok) <=> AddsUp(it)
  <2>1. ASSUME NEW s \in SUBSET Ok, s # {} PROVE Hit[Pick(s)] = CachedTokens(Pick(s))
    <3>1. Pick(s) \in s
      BY <2>1 DEF Pick
    <3>2. Pick(s) \in Rows
      BY <3>1 DEF Ok
    <3> QED
      BY <3>2 DEF Hit
  <2>2. [s \in SUBSET Ok |-> IF s = {} THEN 0 ELSE Hit[Pick(s)] + it[s \ {Pick(s)}]]
          = [s \in SUBSET Ok |-> IF s = {} THEN 0 ELSE CachedTokens(Pick(s)) + it[s \ {Pick(s)}]]
    BY <2>1
  <2> QED
    BY <2>2 DEF Adds, Pick
<1>3. IsFiniteSet(Ok)
  BY SetFacts
<1>4. PICK f : Adds(f, Hit, Ok) /\ SumFunctionOnSet(Hit, Ok) = f[Ok]
  BY <1>3, SumIsAdds
<1>5. Adds(g, Hit, Ok)
  <2> HIDE DEF AddsUp
  <2>1. AddsUp(f)
    BY <1>2, <1>4
  <2>2. AddsUp(g)
    BY <2>1
  <2> HIDE DEF g
  <2> QED
    BY <1>2, <2>2
<1>6. g[Ok] = f[Ok]
  <2> HIDE DEF g
  <2> QED
    BY <1>3, <1>4, <1>5, AddsOnce
<1> QED
  BY <1>1, <1>4, <1>6

(* The oracle's bound: the tokens that were not found are at least those   *)
(* the cache holds, what was not sent can only add nodes, and the nodes    *)
(* that an answer may have put there are the continuations.                *)
LEMMA BoundIsIdeal ==
  ASSUME TypeOK, RowsOK, Bounded, flushed
  PROVE  SumFunctionOnSet(Hit, Ok) <=
           SumFunction(TrieHits(sequences)) + Cardinality(Continuations(sequences))
<1> DEFINE Rest == Rows \ Served
           C == Continuations(sequences)
           M == [j \in Rows |-> matched[j]]
           N == Len(sequences)
           trie == TrieAfter(sequences, N)
           all == Held \cup UNION {Nodes(sequences[j]) : j \in Rest}
<1>1. /\ IsFiniteSet(Rows) /\ Rows = 1..N /\ N \in Nat /\ Rows = DOMAIN sequences
      /\ sequences \in Seq(Seq(Nat))
  BY RowFacts DEF Rows
<1>2. /\ IsFiniteSet(Ok) /\ Ok \subseteq Rows /\ IsFiniteSet(Served) /\ Served \subseteq Rows
      /\ IsFiniteSet(Rest) /\ Rest \subseteq Rows
  BY <1>1, SetFacts, FS_Subset
<1>3. IsFiniteSet(Held) /\ Cardinality(Held) <= SumFunctionOnSet(Missed, Served)
      /\ Cardinality(Held) \in Nat
  BY FS_CardinalityType DEF Bounded
<1>4. \A j \in Rows : /\ Lens[j] \in Nat /\ Missed[j] \in Nat /\ M[j] \in Nat
                      /\ Lens[j] = Missed[j] + M[j]
                      /\ Hit[j] \in Nat /\ Hit[j] <= M[j]
  BY Weights
<1>5. SumFunctionOnSet(Hit, Ok) <= SumFunctionOnSet(M, Served)
  <2>1. ASSUME NEW j \in Ok PROVE IF j \in Served THEN Hit[j] <= M[j] ELSE Hit[j] = 0
    <3>1. j \in Rows
      BY <1>2
    <3>2. j \notin Served => ~stream[j].meta
      BY OkIsFinished, SetFacts
    <3>3. Hit[j] = IF stream[j].meta THEN matched[j] ELSE 0
      BY <3>1 DEF Hit, CachedTokens
    <3> QED
      BY <1>4, <3>1, <3>2, <3>3
  <2>2. (\A j \in Ok : Hit[j] \in Nat) /\ (\A j \in Served : M[j] \in Nat)
    BY <1>2, <1>4
  <2> HIDE DEF M
  <2> QED
    BY <1>2, <2>1, <2>2, SumBound
<1>6. SumFunctionOnSet(Lens, Served) = SumFunctionOnSet(Missed, Served) + SumFunctionOnSet(M, Served)
  <2>1. \A j \in Served : Missed[j] \in Nat /\ M[j] \in Nat /\ Lens[j] = Missed[j] + M[j]
    BY <1>2, <1>4
  <2> HIDE DEF M
  <2> QED
    BY <1>2, <2>1, SumPlus
<1>7. SumFunctionOnSet(Lens, Rows) = SumFunctionOnSet(Lens, Served) + SumFunctionOnSet(Lens, Rest)
  <2>1. \A j \in Rows : Lens[j] \in Nat
    BY <1>4
  <2> HIDE DEF trie, all, M, N
  <2>2. SumFunctionOnSet(Lens, Rows) =
          SumFunctionOnSet(Lens, Served) + SumFunctionOnSet(Lens, Rows \ Served)
    <3>1. IsFiniteSet(Rows) /\ Served \subseteq Rows
      BY <1>1, <1>2
    <3> HIDE DEF Rest
    <3> QED
      BY <2>1, <3>1, SumSplit
  <2> QED
    BY <2>2
<1>8. SumFunctionOnSet(Lens, Rows) = SumFunction(TrieHits(sequences)) + Cardinality(trie)
  BY <1>1, HitsAndNodes DEF Lens
<1>9. /\ IsFiniteSet(all) /\ Cardinality(all) \in Nat
      /\ Cardinality(all) <= Cardinality(Held) + SumFunctionOnSet(Lens, Rest)
  <2>1. Rest \in SUBSET DOMAIN sequences
    BY <1>1, <1>2
  <2> HIDE DEF Rest
  <2> QED
    BY <1>1, <1>3, <2>1, NodesOfMany DEF Lens
<1>10. trie \subseteq all \cup C
  <2> SUFFICES ASSUME NEW j \in 1..N, NEW u \in Nodes(sequences[j]), u \notin C
               PROVE  u \in all
    BY DEF TrieAfter
  <2>1. j \in Rows
    BY <1>1
  <2>2. ~Beyond(u)
    BY <1>1 DEF Beyond, Continuations, TrieAfter
  <2>3. CASE j \notin Served
    BY <2>1, <2>3
  <2>4. CASE status[j] = "error"
    BY <2>1, <2>2, <2>4 DEF Held, Failed, Within
  <2>5. CASE status[j] # "error" /\ job[j] \in Emitting
    BY <2>1, <2>2, <2>5 DEF RowsOK, Matches, Held, Within
  <2> QED
    BY <2>1, <2>3, <2>4, <2>5 DEF Served
<1>11. /\ Cardinality(trie) <= Cardinality(all) + Cardinality(C)
       /\ Cardinality(trie) \in Nat /\ Cardinality(C) \in Nat
  <2>1. IsFiniteSet(trie)
    BY <1>1, TrieFinite
  <2>2. C \subseteq trie
    BY DEF Continuations
  <2> HIDE DEF trie, all, C
  <2>3. IsFiniteSet(C) /\ Cardinality(C) \in Nat
    BY <2>1, <2>2, FS_Subset, FS_CardinalityType
  <2>4. /\ IsFiniteSet(all \cup C)
        /\ Cardinality(all \cup C) = Cardinality(all) + Cardinality(C) - Cardinality(all \cap C)
        /\ Cardinality(all \cap C) \in Nat
    BY <1>9, <2>3, FS_Union, FS_Intersection, FS_CardinalityType
  <2>5. Cardinality(trie) <= Cardinality(all \cup C)
    BY <1>10, <2>4, FS_Subset
  <2>6. Cardinality(trie) \in Nat /\ Cardinality(all \cup C) \in Nat
    BY <2>1, <2>4, FS_CardinalityType
  <2> QED
    BY <1>9, <2>3, <2>4, <2>5, <2>6
<1>12. SumFunctionOnSet(Missed, Served) \in Nat /\ SumFunctionOnSet(M, Served) \in Nat
       /\ SumFunctionOnSet(Lens, Rest) \in Nat /\ SumFunctionOnSet(Hit, Ok) \in Nat
       /\ SumFunction(TrieHits(sequences)) \in Nat
  <2>1. (\A j \in Served : Missed[j] \in Nat /\ M[j] \in Nat) /\ (\A j \in Rest : Lens[j] \in Nat)
        /\ (\A j \in Ok : Hit[j] \in Nat)
    BY <1>2, <1>4
  <2>2. /\ SumFunctionOnSet(Missed, Served) \in Nat /\ SumFunctionOnSet(M, Served) \in Nat
        /\ SumFunctionOnSet(Lens, Rest) \in Nat /\ SumFunctionOnSet(Hit, Ok) \in Nat
    <3> HIDE DEF M, Rest
    <3> QED
      BY <1>2, <2>1, SumNat
  <2> DEFINE H == TrieHits(sequences)
  <2>3. \A j \in Rows : H[j] \in Nat
    <3> SUFFICES ASSUME NEW j \in Rows PROVE Walk(TrieAfter(sequences, j - 1), sequences[j]) \in Nat
      BY DEF TrieHits, Rows
    <3>1. sequences[j] \in Seq(Nat)
      BY RowFacts
    <3> QED
      BY <3>1, WalkStops
  <2>4. DOMAIN H = Rows
    BY DEF TrieHits, Rows
  <2>5. SumFunction(H) = SumFunctionOnSet(H, Rows)
    <3> HIDE DEF H
    <3> QED
      BY <2>4 DEF SumFunction, SumFunctionOnSet, FoldFunction
  <2>6. SumFunctionOnSet(H, Rows) \in Nat
    <3> HIDE DEF H
    <3> QED
      BY <1>1, <2>3, SumNat
  <2> QED
    BY <2>2, <2>5, <2>6
<1> DEFINE h == SumFunctionOnSet(Hit, Ok)
           ms == SumFunctionOnSet(M, Served)
           mi == SumFunctionOnSet(Missed, Served)
           ls == SumFunctionOnSet(Lens, Served)
           lr == SumFunctionOnSet(Lens, Rest)
           la == SumFunctionOnSet(Lens, Rows)
           ideal == SumFunction(TrieHits(sequences))
           ct == Cardinality(trie)
           cc == Cardinality(C)
           ca == Cardinality(all)
           ch == Cardinality(Held)
<1>13. /\ h <= ms /\ ls = mi + ms /\ la = ls + lr /\ la = ideal + ct
       /\ ca <= ch + lr /\ ct <= ca + cc /\ ch <= mi /\ cc \in Nat
       /\ h \in Nat /\ ms \in Nat /\ mi \in Nat /\ lr \in Nat /\ ideal \in Nat
       /\ ct \in Nat /\ ca \in Nat /\ ch \in Nat
  BY <1>3, <1>5, <1>6, <1>7, <1>8, <1>9, <1>11, <1>12
<1> HIDE DEF h, ms, mi, ls, lr, la, ideal, ct, cc, ca, ch
<1>14. h <= ideal + cc
  BY <1>13
<1> QED
  BY <1>14 DEF h, ideal, cc
-----------------------------------------------------------------------------
(* The pool of threads.                                                    *)

StatusOK ==
  /\ status \in [Rows -> Status]
  /\ sig \in [Servers -> Signal]

\* Nothing is in flight before the pool is entered or after it was joined.
OpenInPool == pc # "pool" => Open = {}

\* Signals are sent on the way from the finally block to the end.
SignalledAtEnd == sig[Server] # "none" => pc \in {"wait", "written", "raised"}

IInv == StatusOK /\ OpenInPool /\ SignalledAtEnd

-----------------------------------------------------------------------------

LEMMA IInvInit == Init => IInv
<1> SUFFICES ASSUME Init PROVE IInv
  OBVIOUS
<1>1. StatusOK
  BY DEF Init, StatusOK, Rows, Status, Signal
<1>2. OpenInPool /\ SignalledAtEnd
  BY ReplayAssumption DEF Init, OpenInPool, SignalledAtEnd, Open, Rows
<1> QED
  BY <1>1, <1>2 DEF IInv

(* A step that leaves the requests and the signals alone may go anywhere   *)
(* but out of a pool that is not empty, or back from the end.              *)
LEMMA IInvMove ==
  ASSUME IInv, UNCHANGED <<sequences, status, sig>>,
         pc = "pool" /\ pc' # "pool" => Open = {},
         pc \in {"wait", "written", "raised"} => pc' \in {"wait", "written", "raised"}
  PROVE  IInv'
<1>1. StatusOK'
  BY DEF IInv, StatusOK, Rows
<1>2. OpenInPool'
  BY DEF IInv, OpenInPool, Open, Rows
<1>3. SignalledAtEnd'
  BY DEF IInv, SignalledAtEnd
<1> QED
  BY <1>1, <1>2, <1>3 DEF IInv

(* A request may only leave the set of the open ones, except in the pool.  *)
LEMMA IInvRequest ==
  ASSUME IInv, UNCHANGED <<sequences, pc, sig>>,
         NEW i \in Rows, NEW s \in Status, status' = [status EXCEPT ![i] = s],
         s = "open" => pc = "pool"
  PROVE  IInv'
<1>1. StatusOK'
  BY DEF IInv, StatusOK, Rows
<1>2. OpenInPool'
  <2> SUFFICES ASSUME pc # "pool", NEW j \in Rows, status'[j] = "open" PROVE FALSE
    BY DEF OpenInPool, Open, Rows
  <2>1. status[j] = "open" \/ s = "open"
    BY DEF IInv, StatusOK
  <2> QED
    BY <2>1 DEF IInv, OpenInPool, Open
<1>3. SignalledAtEnd'
  BY DEF IInv, SignalledAtEnd
<1> QED
  BY <1>1, <1>2, <1>3 DEF IInv

(* So it is with a signal, which is only sent from finally or wait.        *)
LEMMA IInvSignal ==
  ASSUME IInv, UNCHANGED <<sequences, status>>,
         NEW s \in Signal, Killpg(Server, s),
         pc \in {"finally", "wait"}, pc' \in {"wait", "written", "raised"}
  PROVE  IInv'
<1>1. StatusOK'
  BY DEF IInv, StatusOK, Rows, Killpg
<1>2. OpenInPool'
  BY DEF IInv, OpenInPool, Open, Rows
<1>3. SignalledAtEnd'
  BY DEF SignalledAtEnd
<1> QED
  BY <1>1, <1>2, <1>3 DEF IInv

LEMMA IInvMainStep == IInv /\ MainStep => IInv'
<1> SUFFICES ASSUME IInv, MainStep PROVE IInv'
  OBVIOUS
<1> USE DEF groupVars, trace, request, serverVars, scrapes
<1>1. CASE Launch
  BY <1>1, IInvMove DEF Launch, Popen
<1>2. CASE Healthy
  BY <1>2, IInvMove DEF Healthy, Go
<1>3. CASE StartupFails
  BY <1>3, IInvMove DEF StartupFails, Go
<1>4. CASE Flush
  BY <1>4, IInvMove DEF Flush
<1>5. CASE FlushFails
  BY <1>5, IInvMove DEF FlushFails, Go
<1>6. CASE ScrapeBefore
  BY <1>6, IInvMove DEF ScrapeBefore, Go
<1>7. CASE ScrapeFails
  BY <1>7, IInvMove DEF ScrapeFails, Go
<1>8. CASE Take
  <2> DEFINE i == Min(Queued)
  <2>1. status' = [status EXCEPT ![i] = "open"] /\ pc = "pool"
        /\ UNCHANGED <<sequences, pc, sig>>
    BY <1>8 DEF Take, ThreadVars, mainVars
  <2> HIDE DEF i
  <2>2. CASE i \in Rows
    BY <2>1, <2>2, IInvRequest DEF Status
  <2>3. CASE i \notin Rows
    <3>1. status' = status
      BY <2>1, <2>3 DEF IInv, StatusOK
    <3> QED
      BY <2>1, <3>1, IInvMove
  <2> QED
    BY <2>2, <2>3
<1>9. CASE Join
  BY <1>9, IInvMove DEF Join, Go
<1>10. CASE ScrapeAfter
  BY <1>10, IInvMove DEF ScrapeAfter, Go
<1>11. CASE SummarizeReturns
  BY <1>11, IInvMove DEF SummarizeReturns, Go
<1>12. CASE SummarizeRaises
  BY <1>12, IInvMove DEF SummarizeRaises, Go
<1>13. CASE Terminate
  BY <1>13, IInvSignal DEF Terminate, Signal
<1>14. CASE ServerGone
  BY <1>14, IInvMove DEF ServerGone, Go, Ended
<1>15. CASE Kill
  BY <1>15, IInvSignal DEF Kill, Signal, Ended
<1> QED
  BY <1>1, <1>2, <1>3, <1>4, <1>5, <1>6, <1>7, <1>8, <1>9, <1>10, <1>11, <1>12, <1>13,
     <1>14, <1>15 DEF MainStep

LEMMA IInvStep == IInv /\ [Next]_vars => IInv'
<1> SUFFICES ASSUME IInv, [Next]_vars PROVE IInv'
  OBVIOUS
<1> USE DEF groupVars, trace, request, serverVars, scrapes, mainVars, ThreadVars
<1>1. CASE MainStep
  BY <1>1, IInvMainStep
(* Ctrl-C: in the pool the queued requests are cancelled, and main() stays *)
(* to wait for the open ones.                                              *)
<1>2. CASE Interrupt
  <2>1. StatusOK'
    BY <1>2 DEF Interrupt, IInv, StatusOK, Rows, Status
  <2>2. OpenInPool'
    <3>1. CASE pc = "pool"
      BY <1>2, <3>1 DEF Interrupt, OpenInPool
    <3>2. CASE pc # "pool"
      <4>1. status' = status
        BY <1>2, <3>2 DEF Interrupt, IInv, StatusOK, Rows
      <4> QED
        BY <1>2, <3>2, <4>1 DEF Interrupt, IInv, OpenInPool, Open, Rows
    <3> QED
      BY <3>1, <3>2
  <2>3. SignalledAtEnd'
    BY <1>2 DEF Interrupt, IInv, SignalledAtEnd
  <2> QED
    BY <2>1, <2>2, <2>3 DEF IInv
<1>3. CASE InterruptTeardown
  BY <1>3, IInvMove DEF InterruptTeardown
<1>4. ASSUME NEW i \in Rows, RequestStep(i) PROVE IInv'
  <2>1. CASE Chunk(i)
    BY <2>1, IInvMove DEF Chunk
  <2>2. CASE Done(i)
    BY <2>2, IInvRequest DEF Done, Status
  <2>3. CASE Refused(i)
    BY <2>3, IInvRequest DEF Refused, Status
  <2>4. CASE GiveUp(i)
    BY <2>4, IInvRequest DEF GiveUp, Status
  <2> QED
    BY <1>4, <2>1, <2>2, <2>3, <2>4 DEF RequestStep
<1>5. ASSUME NEW i \in Rows, Prefill(i) \/ Insert(i) \/ Abort(i) PROVE IInv'
  BY <1>5, IInvMove DEF Prefill, Insert, Abort
<1>6. CASE ServerProcess
  BY <1>6, IInvMove DEF ServerProcess, Ready, LeaderExits
<1>7. CASE UNCHANGED vars
  BY <1>7, IInvMove DEF vars
<1> QED
  BY <1>1, <1>2, <1>3, <1>4, <1>5, <1>6, <1>7 DEF Next

-----------------------------------------------------------------------------
(* The rows, step by step.                                                 *)

LEMMA FollowingInit == Init => Following
<1> SUFFICES ASSUME Init PROVE Following
  OBVIOUS
<1>1. sequences \in Seq(Seq(Nat) \ {<<>>})
  BY TracesAssumption DEF Init
<1>2. /\ status = [i \in Rows |-> "queued"] /\ stream = [i \in Rows |-> NothingRead]
      /\ job = [i \in Rows |-> "none"] /\ matched = [i \in Rows |-> 0]
      /\ generated = [i \in Rows |-> 0] /\ promptTokens = 0 /\ flushed = FALSE
  BY DEF Init
<1>3. TypeOK
  BY <1>1, <1>2 DEF TypeOK, JobState, Stream, NothingRead
<1>4. RowsOK
  <2> SUFFICES ASSUME NEW i \in Rows PROVE Progress(i) /\ Gaps(i) /\ Matches(i)
    BY DEF RowsOK
  <2>1. Progress(i) /\ Gaps(i)
    BY <1>2 DEF Progress, Gaps, NothingRead
  <2>2. Matches(i)
    BY <1>2, <1>3, RowFacts DEF Matches, Emitting
  <2> QED
    BY <2>1, <2>2
<1>5. Counted
  <2>1. Finished = {}
    BY <1>2 DEF Finished
  <2> QED
    BY <1>2, <2>1, SumEmpty DEF Counted
<1>6. Bounded
  BY <1>2 DEF Bounded
<1> QED
  BY <1>3, <1>4, <1>5, <1>6 DEF Following

(* A step that does not touch a row, and takes nothing out of the cache,   *)
(* leaves what is known of it.                                             *)
LEMMA OtherRow ==
  ASSUME NEW j \in Rows, Progress(j), Gaps(j), Matches(j), sequences' = sequences,
         status'[j] = status[j], stream'[j] = stream[j], job'[j] = job[j],
         matched'[j] = matched[j], generated'[j] = generated[j], cache \subseteq cache'
  PROVE  Progress(j)' /\ Gaps(j)' /\ Matches(j)'
<1>1. Progress(j)'
  BY DEF Progress
<1>2. Gaps(j)'
  BY DEF Gaps
<1>3. Matches(j)'
  BY DEF Matches
<1> QED
  BY <1>1, <1>2, <1>3

(* The held nodes of the next state, in terms of this one.                 *)
LEMMA HeldNext ==
  ASSUME sequences' = sequences
  PROVE  Held' = Within(cache') \cup Within(UNION {Nodes(sequences[i]) : i \in Failed'})
<1>1. Rows' = Rows
  BY DEF Rows
<1>2. \A u : Beyond(u)' <=> Beyond(u)
  BY <1>1 DEF Beyond
<1>3. Held' = {u \in cache' : ~Beyond(u)} \cup {u \in UNION {Nodes(sequences[i]) : i \in Failed'} : ~Beyond(u)}
  BY <1>2 DEF Held, Within
<1> QED
  BY <1>3 DEF Within

rowVars == <<sequences, status, stream, job, matched, generated, cache, promptTokens>>

LEMMA FollowingMove ==
  ASSUME Following, UNCHANGED rowVars, flushed' => flushed
  PROVE  Following'
<1> USE DEF rowVars
<1>1. Rows' = Rows
  BY DEF Rows
<1>2. TypeOK'
  BY <1>1 DEF Following, TypeOK
<1>3. RowsOK'
  BY <1>1, OtherRow DEF Following, RowsOK
<1>4. Counted'
  BY <1>1 DEF Following, Counted, Lens, Finished
<1>5. Bounded'
  <2>1. Failed' = Failed /\ Missed' = Missed /\ Served' = Served
    BY <1>1 DEF Failed, Missed, Served
  <2>2. Held' = Held
    BY <2>1, HeldNext DEF Held
  <2> QED
    BY <2>1, <2>2 DEF Following, Bounded
<1> QED
  BY <1>2, <1>3, <1>4, <1>5 DEF Following

(* Nothing is counted twice: the prompts of the finished requests.         *)
LEMMA CountedSame ==
  ASSUME Following, sequences' = sequences, promptTokens' = promptTokens, Finished' = Finished
  PROVE  Counted'
BY DEF Following, Counted, Lens, Rows

LEMMA CountedMore ==
  ASSUME Following, sequences' = sequences, NEW i \in Rows, i \notin Finished,
         Finished' = Finished \cup {i}, promptTokens' = promptTokens + Len(sequences[i])
  PROVE  Counted'
<1> DEFINE F == Finished \cup {i}
<1>1. TypeOK /\ RowsOK
  BY DEF Following
<1>2. IsFiniteSet(F) /\ F \subseteq Rows /\ i \in F /\ F \ {i} = Finished
  BY <1>1, SetFacts, FS_AddElement
<1>3. \A j \in F : Lens[j] \in Nat
  BY <1>1, <1>2, Weights
<1>4. SumFunctionOnSet(Lens, F) = Lens[i] + SumFunctionOnSet(Lens, F \ {i})
  <2> HIDE DEF F
  <2> QED
    BY <1>2, <1>3, SumAdd
<1>5. Lens' = Lens /\ Lens[i] = Len(sequences[i]) /\ Lens[i] \in Nat
  BY <1>1, Weights DEF Lens, Rows
<1>6. SumFunctionOnSet(Lens, Finished) \in Nat
  <2>1. IsFiniteSet(Finished) /\ \A j \in Finished : Lens[j] \in Nat
    BY <1>1, <1>2, <1>3, SetFacts
  <2> QED
    BY <2>1, SumNat
<1>7. promptTokens = SumFunctionOnSet(Lens, Finished)
  BY DEF Following, Counted
<1>8. promptTokens + Len(sequences[i]) = SumFunctionOnSet(Lens, F)
  <2>1. SumFunctionOnSet(Lens, F) = Lens[i] + SumFunctionOnSet(Lens, Finished)
    BY <1>2, <1>4
  <2> QED
    BY <1>5, <1>6, <1>7, <2>1
<1> QED
  BY <1>5, <1>8 DEF Counted

LEMMA BoundedSame ==
  ASSUME Following, RowsOK', TypeOK', sequences' = sequences, flushed' => flushed,
         Held' = Held, Served' = Served, \A j \in Served : Missed[j] <= Missed'[j]
  PROVE  Bounded'
<1> SUFFICES ASSUME flushed'
             PROVE  IsFiniteSet(Held') /\ Cardinality(Held') <= SumFunctionOnSet(Missed', Served')
  BY DEF Bounded
<1>1. IsFiniteSet(Held) /\ Cardinality(Held) <= SumFunctionOnSet(Missed, Served)
      /\ Cardinality(Held) \in Nat
  BY FS_CardinalityType DEF Following, Bounded
<1> DEFINE M == Missed
           N == Missed'
<1>2. \A j \in Rows : M[j] \in Nat
  BY Weights DEF Following
<1>3. \A j \in Rows' : N[j] \in Nat
  BY WeightsNext
<1>4. Rows' = Rows /\ Served \subseteq Rows /\ IsFiniteSet(Served)
  BY SetFacts DEF Following, Rows
<1>5. (\A j \in Served : M[j] \in Nat) /\ (\A j \in Served : N[j] \in Nat)
      /\ (\A j \in Served : M[j] <= N[j])
  BY <1>2, <1>3, <1>4
<1> HIDE DEF M, N
<1>6. SumFunctionOnSet(M, Served) <= SumFunctionOnSet(N, Served)
  BY <1>4, <1>5, SumBound
<1>7. SumFunctionOnSet(M, Served) \in Nat /\ SumFunctionOnSet(N, Served) \in Nat
  BY <1>4, <1>5, SumNat
<1> QED
  BY <1>1, <1>6, <1>7 DEF M, N

(* A row is served: it adds at most what it did not find.                  *)
LEMMA BoundedMore ==
  ASSUME Following, RowsOK', TypeOK', sequences' = sequences, flushed' => flushed,
         NEW i \in Rows, i \notin Served, Served' = Served \cup {i},
         Held' = Held \cup Within(Nodes(sequences[i])),
         \A j \in Served : Missed'[j] = Missed[j],
         NEW m \in 0..Len(sequences[i]), Missed'[i] = Len(sequences[i]) - m,
         \A n \in 1..m : SubSeq(sequences[i], 1, n) \in cache
  PROVE  Bounded'
<1> SUFFICES ASSUME flushed'
             PROVE  IsFiniteSet(Held') /\ Cardinality(Held') <= SumFunctionOnSet(Missed', Served')
  BY DEF Bounded
<1> DEFINE M == Missed
           N == Missed'
           S == Served \cup {i}
           s == sequences[i]
           W == Within(Nodes(s))
<1>1. IsFiniteSet(Held) /\ Cardinality(Held) <= SumFunctionOnSet(M, Served)
  BY DEF Following, Bounded
<1>2. s \in Seq(Nat) /\ Len(s) \in Nat /\ m \in Nat /\ m <= Len(s)
  BY RowFacts DEF Following
<1>3. /\ IsFiniteSet(Held \cup W)
      /\ Cardinality(Held \cup W) <= Cardinality(Held) + Len(s) - m
      /\ Cardinality(Held) \in Nat /\ Cardinality(Held \cup W) \in Nat
  <2> DEFINE B == Held \cup W
  <2>1. m \in 0..Len(s) /\ \A n \in 1..m : SubSeq(s, 1, n) \in cache
    OBVIOUS
  <2>2. \A n \in 1..Len(s) : n \in 1..m \/ n \in m + 1..Len(s)
    BY <1>2
  <2>3. B \subseteq Held \cup {SubSeq(s, 1, n) : n \in m + 1..Len(s)}
    <3> SUFFICES ASSUME NEW u \in W
                 PROVE  u \in Held \/ \E n \in m + 1..Len(s) : u = SubSeq(s, 1, n)
      OBVIOUS
    <3>1. u \in Nodes(s) /\ Within(Nodes(s)) = W
      BY DEF Within
    <3>2. PICK n \in 1..Len(s) : u = SubSeq(s, 1, n)
      BY <3>1 DEF Nodes
    <3>3. CASE n \in 1..m
      BY <2>1, <3>2, <3>3 DEF Within, Held
    <3>4. CASE n \in m + 1..Len(s)
      BY <3>2, <3>4
    <3> QED BY <2>2, <3>3, <3>4
  <2>4. Held \subseteq B
    OBVIOUS
  <2> HIDE DEF s, B
  <2>5. /\ IsFiniteSet(B) /\ Cardinality(B) <= Cardinality(Held) + Len(s) - m
        /\ Cardinality(Held) \in Nat /\ Cardinality(B) \in Nat
    BY <1>1, <1>2, <2>1, <2>3, <2>4, GrowsBy
  <2> QED
    BY <2>5 DEF B
<1>4. IsFiniteSet(S) /\ S \subseteq Rows /\ IsFiniteSet(Served) /\ Served \subseteq Rows
      /\ i \in S /\ S \ {i} = Served
  BY SetFacts, FS_AddElement DEF Following
<1>5. \A j \in Rows : M[j] \in Nat
  BY Weights DEF Following
<1>6. \A j \in Rows' : N[j] \in Nat
  BY WeightsNext
<1>7. Rows' = Rows
  BY DEF Rows
<1>8. (\A j \in S : N[j] \in Nat) /\ (\A j \in Served : M[j] \in Nat /\ N[j] = M[j])
      /\ N[i] = Len(s) - m
  BY <1>4, <1>5, <1>6, <1>7
<1>9. Held' = Held \cup W /\ Served' = S
  OBVIOUS
<1> HIDE DEF M, N, S, s, W
<1>10. SumFunctionOnSet(N, S) = N[i] + SumFunctionOnSet(N, S \ {i})
  BY <1>4, <1>8, SumAdd
<1>11. SumFunctionOnSet(M, Served) = SumFunctionOnSet(N, Served)
  BY <1>4, <1>8, SumSame
<1>12. SumFunctionOnSet(M, Served) \in Nat
  BY <1>4, <1>8, SumNat
<1>13. Cardinality(Held \cup W) <= SumFunctionOnSet(N, S)
  <2>1. SumFunctionOnSet(N, S) = N[i] + SumFunctionOnSet(N, Served)
    BY <1>4, <1>10
  <2> DEFINE a == SumFunctionOnSet(M, Served)
             b == SumFunctionOnSet(N, S)
             c == Cardinality(Held)
             d == Cardinality(Held \cup W)
             l == Len(s)
  <2>2. b = (l - m) + a /\ c <= a /\ d <= c + l - m /\ a \in Nat /\ c \in Nat /\ d \in Nat
        /\ l \in Nat /\ m \in Nat
    BY <1>1, <1>2, <1>3, <1>8, <1>11, <1>12, <2>1
  <2> HIDE DEF a, b, c, d, l
  <2>3. d <= b
    BY <2>2
  <2> QED
    BY <2>3 DEF b, d
<1> QED
  BY <1>3, <1>9, <1>13 DEF N
(* What an answer adds to the cache lies behind the end of its prompt.     *)
LEMMA AnswerNodes ==
  ASSUME NEW seq \in Seq(Nat) \ {<<>>}, NEW answer \in Seq(Nat), NEW u \in Nodes(seq \o answer)
  PROVE  u \in Nodes(seq) \/ Extends(u, seq)
<1> DEFINE w == seq \o answer
<1>1. /\ w \in Seq(Nat) /\ Len(w) = Len(seq) + Len(answer)
      /\ Len(seq) \in Nat \ {0} /\ Len(answer) \in Nat
      /\ \A n \in 1..Len(seq) : w[n] = seq[n]
  BY EmptySeq
<1>2. PICK n \in 1..Len(w) : u = SubSeq(w, 1, n)
  BY DEF Nodes
<1> HIDE DEF w
<1>3. CASE n <= Len(seq)
  <2>1. n \in Nat /\ n <= Len(w) /\ \A m \in 1..n : w[m] = seq[m]
    BY <1>1, <1>3
  <2>2. SubSeq(w, 1, n) = SubSeq(seq, 1, n)
    BY <1>1, <1>3, <2>1, SamePrefix
  <2>3. n \in 1..Len(seq)
    BY <1>1, <1>3
  <2> QED
    BY <1>2, <2>2, <2>3 DEF Nodes
<1>4. CASE n > Len(seq)
  <2>1. n \in Nat /\ n <= Len(w) /\ Len(seq) <= Len(w)
    BY <1>1, <1>4
  <2>2. u \in Seq(Nat) /\ Len(u) = n /\ \A m \in 1..n : u[m] = w[m]
    <3>1. \A m \in 1..n : w[m] \in Nat
      BY <1>1, <2>1
    <3>2. /\ u \in Seq(Nat) /\ Len(u) = (IF 1 <= n THEN n - 1 + 1 ELSE 0)
          /\ \A m \in 1..n - 1 + 1 : u[m] = w[1 + m - 1]
      BY <1>1, <1>2, <2>1, <3>1, SubSeqProperties
    <3>3. \A m \in 1..n : 1 + m - 1 = m
      BY <2>1
    <3>4. n - 1 + 1 = n /\ 1 <= n
      BY <2>1
    <3> QED
      BY <3>2, <3>3, <3>4
  <2>3. SubSeq(u, 1, Len(seq)) = SubSeq(seq, 1, Len(seq))
    <3>1. \A m \in 1..Len(seq) : u[m] = seq[m]
      BY <1>1, <1>4, <2>1, <2>2
    <3>2. Len(seq) <= Len(u)
      BY <1>1, <1>4, <2>1, <2>2
    <3> QED
      BY <1>1, <2>2, <3>1, <3>2, SamePrefix
  <2>4. SubSeq(seq, 1, Len(seq)) = seq
    <3> DEFINE l == Len(seq)
               v == SubSeq(seq, 1, l)
    <3>1. l \in Nat \ {0} /\ \A m \in 1..l : seq[m] \in Nat
      BY <1>1
    <3>2. /\ v \in Seq(Nat) /\ Len(v) = (IF 1 <= l THEN l - 1 + 1 ELSE 0)
          /\ \A m \in 1..l - 1 + 1 : v[m] = seq[1 + m - 1]
      BY <3>1, SubSeqProperties
    <3>3. Len(v) = l /\ \A m \in 1..l : v[m] = seq[m]
      <4>1. l - 1 + 1 = l /\ 1 <= l /\ \A m \in 1..l : 1 + m - 1 = m
        BY <3>1
      <4> HIDE DEF l, v
      <4> QED
        BY <3>2, <4>1
    <3> HIDE DEF v
    <3> QED
      BY <3>2, <3>3, SeqEqual DEF l
  <2>5. Len(seq) \in 1..Len(u) /\ u # seq
    BY <1>1, <1>4, <2>1, <2>2
  <2> QED
    BY <2>3, <2>4, <2>5 DEF Extends, Nodes
<1> QED
  BY <1>1, <1>2, <1>3, <1>4

(* A request that ends leaves its answer in the cache, and nothing more    *)
(* that is within the prompts than its own.                                *)
LEMMA AnswerIsBeyond ==
  ASSUME Following, NEW i \in Rows, NEW n \in Nat, Keeps(i, n),
         Nodes(sequences[i]) \subseteq cache \/ i \in Failed,
         sequences' = sequences, Failed' = Failed
  PROVE  cache \subseteq cache' /\ Held' = Held
<1>1. PICK answer \in [1..n -> Vocabulary] : cache' = cache \cup Nodes(sequences[i] \o answer)
  BY DEF Keeps
<1>2. answer \in Seq(Nat)
  <2>1. answer \in [1..n -> Nat]
    BY ReplayAssumption
  <2> QED
    BY <2>1
<1>3. sequences[i] \in Seq(Nat) \ {<<>>}
  BY DEF Following, TypeOK, Rows
<1>4. \A u \in Nodes(sequences[i] \o answer) : u \in Nodes(sequences[i]) \/ Beyond(u)
  BY <1>2, <1>3, AnswerNodes DEF Beyond
<1>5. \A u : Beyond(u)' <=> Beyond(u)
  BY DEF Beyond, Rows
<1>6. \A S : Within(S)' = Within(S)
  BY <1>5 DEF Within
<1>7. Within(Nodes(sequences[i])) \subseteq Held
  BY DEF Held, Within
<1>8. Within(cache') \subseteq Held
  BY <1>1, <1>4, <1>7 DEF Within, Held
<1> QED
  BY <1>1, <1>5, <1>8 DEF Held, Within

-----------------------------------------------------------------------------
(* The requests, step by step.                                             *)

Others(i) ==
  \A j \in Rows \ {i} :
    /\ status'[j] = status[j] /\ stream'[j] = stream[j] /\ job'[j] = job[j]
    /\ matched'[j] = matched[j] /\ generated'[j] = generated[j]

LEMMA RowStep ==
  ASSUME Following, NEW i \in Rows, sequences' = sequences, cache \subseteq cache', Others(i),
         Progress(i)', Gaps(i)', Matches(i)'
  PROVE  RowsOK'
<1>1. Rows' = Rows
  BY DEF Rows
<1> SUFFICES ASSUME NEW j \in Rows PROVE Progress(j)' /\ Gaps(j)' /\ Matches(j)'
  BY <1>1 DEF RowsOK
<1>2. CASE j = i
  BY <1>2
<1>3. CASE j # i
  <2>1. Progress(j) /\ Gaps(j) /\ Matches(j)
    BY DEF Following, RowsOK
  <2> QED
    BY <1>3, <2>1, OtherRow DEF Others
<1> QED
  BY <1>2, <1>3

(* What the invariant says of the row a step is about.                     *)
LEMMA RowNow ==
  ASSUME Following, StatusOK, NEW i \in Rows
  PROVE  /\ status \in [Rows -> Status] /\ job \in [Rows -> JobState] /\ matched \in [Rows -> Nat]
         /\ generated \in [Rows -> Nat] /\ stream \in [Rows -> Stream]
         /\ sequences[i] \in Seq(Nat) /\ Len(sequences[i]) \in Nat \ {0}
         /\ Progress(i) /\ Gaps(i) /\ Matches(i)
         /\ MaxNewTokens \in Nat \ {0}
<1>1. TypeOK /\ RowsOK
  BY DEF Following
<1> QED
  BY <1>1, RowFacts, ReplayAssumption DEF TypeOK, RowsOK, StatusOK

LEMMA FollowingTake == Following /\ IInv /\ Take => Following'
<1> SUFFICES ASSUME Following, IInv, Take PROVE Following'
  OBVIOUS
<1>1. Min(Queued) \in Queued
  <2>1. Queued \subseteq Nat
    BY RowFacts DEF Following, Queued
  <2>2. Queued # {}
    BY DEF Take
  <2>3. \E x \in Queued : \A y \in Queued : x <= y
    BY <2>1, <2>2, Least
  <2> QED
    BY <2>3 DEF Min
<1>2. PICK i \in Rows : i = Min(Queued)
  BY <1>1 DEF Queued
<1>3. /\ status' = [status EXCEPT ![i] = "open"]
      /\ job' = [job EXCEPT ![i] = IF Answers(Server) THEN "waiting" ELSE "none"]
      /\ UNCHANGED <<sequences, stream, matched, generated, cache, promptTokens, flushed>>
      /\ status[i] = "queued"
  BY <1>1, <1>2 DEF Take, ThreadVars, trace, mainVars, Queued
<1>4. /\ status \in [Rows -> Status] /\ job \in [Rows -> JobState] /\ matched \in [Rows -> Nat]
      /\ generated \in [Rows -> Nat] /\ stream \in [Rows -> Stream]
      /\ Progress(i) /\ Gaps(i) /\ Matches(i)
  BY <1>2, RowNow DEF IInv
<1>5. job[i] = "none" /\ job'[i] \in {"none", "waiting"} /\ status'[i] = "open"
      /\ stream[i] = NothingRead /\ Others(i) /\ Rows' = Rows
  BY <1>3, <1>2, <1>4 DEF Progress, Emitting, Others, Rows
<1>6. TypeOK'
  BY <1>3, <1>2, <1>4, <1>5 DEF Following, TypeOK, JobState
<1>7. RowsOK'
  <2>1. Progress(i)'
    BY <1>3, <1>5 DEF Progress, Emitting
  <2>2. Gaps(i)'
    BY <1>3, <1>5 DEF Gaps, NothingRead
  <2>3. Matches(i)'
    BY <1>3, <1>2, <1>4, <1>5 DEF Matches, Emitting
  <2> QED
    BY <1>3, <1>2, <1>5, <2>1, <2>2, <2>3, RowStep
<1>8. Counted'
  <2>1. Finished' = Finished
    BY <1>3, <1>2, <1>5 DEF Finished, Others
  <2> QED
    BY <1>3, <2>1, CountedSame
<1>9. Bounded'
  <2>1. Failed' = Failed
    BY <1>3, <1>2, <1>5 DEF Failed, Others
  <2>2. Served' = Served
    BY <1>3, <1>2, <1>5 DEF Served, Others, Emitting
  <2>3. Held' = Held /\ Missed' = Missed
    BY <1>3, <1>5, <2>1, HeldNext DEF Held, Missed
  <2>4. \A j \in Served : Missed[j] <= Missed'[j]
    BY <2>3, Weights DEF Following, Served
  <2> QED
    BY <1>3, <1>6, <1>7, <2>2, <2>3, <2>4, BoundedSame
<1> QED
  BY <1>6, <1>7, <1>8, <1>9 DEF Following

(* A chunk: the gaps that are counted are the tokens since the last one.   *)
LEMMA FollowingChunk == Following /\ IInv => \A i \in Rows : Chunk(i) => Following'
<1> SUFFICES ASSUME Following, IInv, NEW i \in Rows, Chunk(i) PROVE Following'
  OBVIOUS
<1>1. /\ UNCHANGED <<sequences, status, matched, flushed>>
      /\ job[i] = "decoding"
  BY DEF Chunk, ThreadVars, trace, mainVars
<1>2. PICK n \in generated[i] + 1..MaxNewTokens, text \in BOOLEAN :
        /\ stream[i].first # 0 \/ status[i] # "open" => text
        /\ generated' = [generated EXCEPT ![i] = n]
        /\ IF n = MaxNewTokens
           THEN /\ job' = [job EXCEPT ![i] = "finished"]
                /\ promptTokens' = promptTokens + Len(sequences[i])
                /\ Keeps(i, n)
           ELSE UNCHANGED <<job, promptTokens, cache>>
        /\ stream' = IF status[i] # "open" THEN stream
                     ELSE [stream EXCEPT ![i] = IF text THEN Read(@, n)
                                                ELSE [@ EXCEPT !.meta = TRUE]]
  BY DEF Chunk
<1>3. /\ status \in [Rows -> Status] /\ job \in [Rows -> JobState] /\ matched \in [Rows -> Nat]
      /\ generated \in [Rows -> Nat] /\ stream \in [Rows -> Stream]
      /\ Progress(i) /\ Gaps(i) /\ Matches(i) /\ MaxNewTokens \in Nat \ {0}
      /\ Len(sequences[i]) \in Nat
  BY RowNow DEF IInv
<1>4. n \in Nat \ {0} /\ generated[i] < n /\ n <= MaxNewTokens /\ generated[i] \in Nat
  BY <1>2, <1>3
<1>5. status[i] \in {"open", "error"}
  BY <1>1, <1>3 DEF Progress, Status
<1>6. generated'[i] = n /\ job'[i] \in Emitting /\ (job'[i] = "finished" <=> n = MaxNewTokens)
      /\ job' \in [Rows -> JobState] /\ generated' \in [Rows -> Nat]
  BY <1>1, <1>2, <1>3, <1>4 DEF Emitting, JobState
<1> DEFINE s == stream[i]
           r == stream'[i]
<1>7. s \in Stream
  BY <1>3
<1>8. ASSUME status[i] = "open"
      PROVE  /\ r \in Stream /\ stream' \in [Rows -> Stream]
             /\ r.first # 0 => r.last = n /\ r.itls = n - r.first
  <2>1. r = (IF text THEN Read(s, n) ELSE [s EXCEPT !.meta = TRUE])
        /\ stream' = [stream EXCEPT ![i] = r]
    BY <1>2, <1>3, <1>8
  <2>2. s.first # 0 => s.last = generated[i] /\ s.itls = generated[i] - s.first
    BY <1>3, <1>8 DEF Gaps
  <2> HIDE DEF r, s
  <2>3. CASE s.first = 0 /\ text
    <3>1. r = [meta |-> TRUE, first |-> n, last |-> n, itls |-> 0]
      BY <2>1, <2>3 DEF Read
    <3>2. r \in Stream
      BY <1>4, <3>1 DEF Stream
    <3>3. r.first = n /\ r.last = n /\ r.itls = 0
      BY <3>1
    <3> QED
      BY <1>3, <1>4, <2>1, <3>2, <3>3
  <2>4. CASE s.first # 0
    <3>1. text
      BY <1>2, <2>4 DEF s
    <3>2. r = [s EXCEPT !.last = n, !.itls = @ + (IF n > s.last THEN n - s.last ELSE 0)]
      BY <2>1, <2>4, <3>1 DEF Read
    <3>3. r.first = s.first /\ r.last = n
          /\ r.itls = s.itls + (IF n > s.last THEN n - s.last ELSE 0)
      BY <1>7, <3>2 DEF Stream
    <3>4. s.first \in Nat /\ s.last \in Nat /\ s.itls \in Int
      BY <1>7 DEF Stream
    <3>5. r.itls = n - r.first
      BY <1>4, <2>2, <2>4, <3>3, <3>4
    <3>6. r \in Stream
      <4>1. r = [meta |-> s.meta, first |-> s.first, last |-> n, itls |-> r.itls]
        BY <1>7, <3>2 DEF Stream
      <4>2. s.meta \in BOOLEAN /\ r.itls \in Int
        BY <1>4, <1>7, <3>3, <3>4 DEF Stream
      <4> QED
        BY <1>4, <3>4, <4>1, <4>2 DEF Stream
    <3> QED
      BY <1>3, <2>1, <3>3, <3>5, <3>6
  <2>5. CASE s.first = 0 /\ ~text
    <3>1. r = [s EXCEPT !.meta = TRUE]
      BY <2>1, <2>5
    <3>2. r \in Stream /\ r.first = 0
      BY <1>7, <2>5, <3>1 DEF Stream
    <3> QED
      BY <1>3, <2>1, <3>2
  <2> QED
    BY <2>3, <2>4, <2>5
<1>9. stream' \in [Rows -> Stream]
  BY <1>2, <1>3, <1>8
<1>10. TypeOK' /\ Rows' = Rows
  BY <1>1, <1>6, <1>9 DEF Following, TypeOK, Rows
<1>11. Others(i)
  BY <1>1, <1>2, <1>3 DEF Others
<1>12. Failed' = Failed /\ cache \subseteq cache' /\ Held' = Held
  <2>1. Failed' = Failed
    BY <1>1, <1>10 DEF Failed
  <2>2. CASE n = MaxNewTokens
    <3>1. Keeps(i, n) /\ n \in Nat
      BY <1>2, <1>4, <2>2
    <3>2. Nodes(sequences[i]) \subseteq cache \/ i \in Failed
      BY <1>1, <1>3 DEF Matches, Emitting, Failed
    <3> QED
      BY <1>1, <2>1, <3>1, <3>2, AnswerIsBeyond
  <2>3. CASE n # MaxNewTokens
    BY <1>1, <1>2, <2>1, <2>3, HeldNext DEF Held
  <2> QED
    BY <2>1, <2>2, <2>3
<1>13. RowsOK'
  <2>1. Progress(i)'
    BY <1>1, <1>5, <1>6 DEF Progress
  <2>2. Gaps(i)'
    BY <1>1, <1>5, <1>6, <1>8 DEF Gaps
  <2>3. Matches(i)'
    BY <1>1, <1>3, <1>6, <1>12 DEF Matches, Emitting
  <2> QED
    BY <1>1, <1>11, <1>12, <2>1, <2>2, <2>3, RowStep
<1>14. Counted'
  <2>1. CASE n = MaxNewTokens
    <3>1. i \notin Finished /\ Finished' = Finished \cup {i}
      BY <1>1, <1>2, <1>3, <1>10, <2>1 DEF Finished
    <3> QED
      BY <1>1, <1>2, <2>1, <3>1, CountedMore
  <2>2. CASE n # MaxNewTokens
    <3>1. Finished' = Finished
      BY <1>2, <1>10, <2>2 DEF Finished
    <3> QED
      BY <1>1, <1>2, <2>2, <3>1, CountedSame
  <2> QED
    BY <2>1, <2>2
<1>15. Bounded'
  <2>1. Served' = Served
    BY <1>1, <1>6, <1>10, <1>11 DEF Served, Emitting, Others
  <2>2. Held' = Held /\ Missed' = Missed
    BY <1>1, <1>10, <1>12 DEF Missed
  <2>3. \A j \in Served : Missed[j] <= Missed'[j]
    BY <2>2, Weights DEF Following, Served
  <2> QED
    BY <1>1, <1>10, <1>13, <2>1, <2>2, <2>3, BoundedSame
<1> QED
  BY <1>10, <1>13, <1>14, <1>15 DEF Following

LEMMA FollowingDone == Following /\ IInv => \A i \in Rows : Done(i) => Following'
<1> SUFFICES ASSUME Following, IInv, NEW i \in Rows, Done(i) PROVE Following'
  OBVIOUS
<1>1. /\ status[i] = "open" /\ job[i] = "finished"
      /\ status' = [status EXCEPT ![i] = "ok"] /\ stream' = [stream EXCEPT ![i].last = 0]
      /\ UNCHANGED <<sequences, job, matched, generated, cache, promptTokens, flushed>>
  BY DEF Done, ThreadVars, trace, mainVars, serverVars
<1>2. /\ status \in [Rows -> Status] /\ job \in [Rows -> JobState] /\ matched \in [Rows -> Nat]
      /\ generated \in [Rows -> Nat] /\ stream \in [Rows -> Stream]
      /\ Progress(i) /\ Gaps(i) /\ Matches(i)
  BY RowNow DEF IInv
<1>3. status'[i] = "ok" /\ Others(i) /\ Rows' = Rows
  BY <1>1, <1>2 DEF Others, Rows
<1>4. stream'[i] = [stream[i] EXCEPT !.last = 0] /\ stream[i] \in Stream
  BY <1>1, <1>2
<1>5. /\ stream'[i].first = stream[i].first /\ stream'[i].itls = stream[i].itls
      /\ stream'[i] \in Stream
  BY <1>4 DEF Stream
<1>6. TypeOK'
  <2>1. stream' \in [Rows -> Stream]
    BY <1>1, <1>2, <1>5
  <2> QED
    BY <1>1, <1>3, <2>1 DEF Following, TypeOK
<1>7. RowsOK'
  <2>1. Progress(i)'
    BY <1>1, <1>2, <1>3 DEF Progress, Emitting
  <2>2. Gaps(i)'
    <3>1. stream[i].first # 0 => stream[i].itls = MaxNewTokens - stream[i].first
      BY <1>1, <1>2 DEF Gaps, Progress
    <3> QED
      BY <1>3, <1>5, <3>1 DEF Gaps
  <2>3. Matches(i)'
    BY <1>1, <1>2, <1>3 DEF Matches, Emitting
  <2> QED
    BY <1>1, <1>3, <2>1, <2>2, <2>3, RowStep
<1>8. Counted'
  <2>1. Finished' = Finished
    BY <1>1, <1>3 DEF Finished
  <2> QED
    BY <1>1, <2>1, CountedSame
<1>9. Bounded'
  <2>1. Served' = Served /\ Failed' = Failed
    BY <1>1, <1>3 DEF Served, Failed, Others, Emitting
  <2>2. Held' = Held /\ Missed' = Missed
    BY <1>1, <1>3, <2>1, HeldNext DEF Held, Missed
  <2>3. \A j \in Served : Missed[j] <= Missed'[j]
    BY <2>2, Weights DEF Following, Served
  <2> QED
    BY <1>1, <1>6, <1>7, <2>1, <2>2, <2>3, BoundedSame
<1> QED
  BY <1>6, <1>7, <1>8, <1>9 DEF Following

(* A request that fails: the nodes it has, or may still get, are counted   *)
(* from here on, and so are all of its tokens.                             *)
LEMMA BoundedFails ==
  ASSUME Following, StatusOK, RowsOK', TypeOK', NEW i \in Rows, Others(i),
         UNCHANGED <<sequences, cache, flushed>>,
         status[i] # "error", status'[i] = "error", matched'[i] = 0
  PROVE  Bounded'
<1>1. Rows' = Rows
  BY DEF Rows
<1>2. Failed' = Failed \cup {i}
  BY <1>1 DEF Failed, Others
<1>3. Held' = Held \cup Within(Nodes(sequences[i]))
  <2>1. Held' = Within(cache) \cup Within(UNION {Nodes(sequences[j]) : j \in Failed'})
    BY HeldNext
  <2>2. Within(UNION {Nodes(sequences[j]) : j \in Failed'}) =
          Within(UNION {Nodes(sequences[j]) : j \in Failed}) \cup Within(Nodes(sequences[i]))
    BY <1>2 DEF Within
  <2> QED
    BY <2>1, <2>2 DEF Held
<1>4. Served' = Served \cup {i}
  BY <1>1 DEF Served, Others
<1>5. Missed'[i] = Len(sequences[i]) /\ \A j \in Served \ {i} : Missed'[j] = Missed[j]
  BY <1>1, RowNow DEF Missed, Others, Served
<1>6. /\ \A j \in Served : Missed[j] \in Nat
      /\ Missed[i] = Len(sequences[i]) - matched[i] /\ Len(sequences[i]) \in Nat /\ matched[i] \in Nat
  <2>1. TypeOK /\ RowsOK
    BY DEF Following
  <2>2. Served \subseteq Rows
    BY DEF Served
  <2>3. \A j \in Rows : Missed[j] \in Nat /\ matched[j] \in Nat
    BY <2>1, Weights
  <2>4. Len(sequences[i]) \in Nat
    BY <2>1, RowFacts
  <2> QED
    BY <2>2, <2>3, <2>4 DEF Missed
<1>7. CASE i \in Served
  <2>1. Nodes(sequences[i]) \subseteq cache
    BY <1>7, RowNow DEF Matches, Served
  <2>2. Held' = Held
    BY <1>3, <2>1 DEF Held, Within
  <2>3. Served' = Served
    BY <1>4, <1>7
  <2>4. \A j \in Served : Missed[j] <= Missed'[j]
    <3> SUFFICES ASSUME NEW j \in Served PROVE Missed[j] <= Missed'[j]
      OBVIOUS
    <3>1. CASE j = i
      BY <1>5, <1>6, <3>1
    <3>2. CASE j # i
      BY <1>5, <1>6, <3>2
    <3> QED
      BY <3>1, <3>2
  <2> QED
    BY <2>2, <2>3, <2>4, BoundedSame
<1>8. CASE i \notin Served
  <2> DEFINE m == 0
  <2>1. m \in 0..Len(sequences[i]) /\ Missed'[i] = Len(sequences[i]) - m
        /\ (\A n \in 1..m : SubSeq(sequences[i], 1, n) \in cache)
        /\ \A j \in Served : Missed'[j] = Missed[j]
    BY <1>5, <1>6, <1>8
  <2> HIDE DEF m
  <2> QED
    BY <1>3, <1>4, <1>8, <2>1, BoundedMore
<1> QED
  BY <1>7, <1>8

LEMMA FollowingRefused == Following /\ IInv => \A i \in Rows : Refused(i) => Following'
<1> SUFFICES ASSUME Following, IInv, NEW i \in Rows, Refused(i) PROVE Following'
  OBVIOUS
<1>1. /\ status[i] = "open" /\ job[i] = "waiting" /\ job' = [job EXCEPT ![i] = "none"]
      /\ UNCHANGED <<sequences, stream, matched, generated, cache, promptTokens, flushed>>
  BY DEF Refused, ThreadVars, trace, mainVars
<1>2. PICK outcome \in {"error", "ok"} : status' = [status EXCEPT ![i] = outcome]
  BY DEF Refused
<1>3. /\ status \in [Rows -> Status] /\ job \in [Rows -> JobState] /\ matched \in [Rows -> Nat]
      /\ generated \in [Rows -> Nat] /\ stream \in [Rows -> Stream]
      /\ Progress(i) /\ Gaps(i) /\ Matches(i)
  BY RowNow DEF IInv
<1>4. status'[i] = outcome /\ job'[i] = "none" /\ stream[i] = NothingRead /\ matched[i] = 0
      /\ Others(i) /\ Rows' = Rows
  BY <1>1, <1>2, <1>3 DEF Progress, Matches, Emitting, Others, Rows
<1>5. TypeOK'
  BY <1>1, <1>3, <1>4 DEF Following, TypeOK, JobState
<1>6. RowsOK'
  <2>1. Progress(i)'
    BY <1>1, <1>4 DEF Progress, Emitting
  <2>2. Gaps(i)'
    BY <1>1, <1>4 DEF Gaps, NothingRead
  <2>3. Matches(i)'
    BY <1>1, <1>3, <1>4 DEF Matches, Emitting
  <2> QED
    BY <1>1, <1>4, <2>1, <2>2, <2>3, RowStep
<1>7. Counted'
  <2>1. Finished' = Finished
    BY <1>1, <1>4 DEF Finished, Others
  <2> QED
    BY <1>1, <2>1, CountedSame
<1>8. Bounded'
  <2>1. CASE outcome = "error"
    BY <1>1, <1>4, <1>5, <1>6, <2>1, BoundedFails DEF IInv
  <2>2. CASE outcome = "ok"
    <3>1. Served' = Served /\ Failed' = Failed
      BY <1>1, <1>4, <2>2 DEF Served, Failed, Others, Emitting
    <3>2. Held' = Held /\ Missed' = Missed
      BY <1>1, <1>4, <3>1, HeldNext DEF Held, Missed
    <3>3. \A j \in Served : Missed[j] <= Missed'[j]
      BY <3>2, Weights DEF Following, Served
    <3> QED
      BY <1>1, <1>5, <1>6, <3>1, <3>2, <3>3, BoundedSame
  <2> QED
    BY <2>1, <2>2
<1> QED
  BY <1>5, <1>6, <1>7, <1>8 DEF Following

LEMMA FollowingGiveUp == Following /\ IInv => \A i \in Rows : GiveUp(i) => Following'
<1> SUFFICES ASSUME Following, IInv, NEW i \in Rows, GiveUp(i) PROVE Following'
  OBVIOUS
<1>1. /\ status[i] = "open" /\ status' = [status EXCEPT ![i] = "error"]
      /\ stream' = [stream EXCEPT ![i] = NothingRead] /\ matched' = [matched EXCEPT ![i] = 0]
      /\ UNCHANGED <<sequences, job, generated, cache, promptTokens, flushed>>
  BY DEF GiveUp, ThreadVars, trace, mainVars
<1>2. /\ status \in [Rows -> Status] /\ job \in [Rows -> JobState] /\ matched \in [Rows -> Nat]
      /\ generated \in [Rows -> Nat] /\ stream \in [Rows -> Stream]
      /\ Progress(i) /\ Gaps(i) /\ Matches(i) /\ Len(sequences[i]) \in Nat
  BY RowNow DEF IInv
<1>3. status'[i] = "error" /\ stream'[i] = NothingRead /\ matched'[i] = 0
      /\ Others(i) /\ Rows' = Rows
  BY <1>1, <1>2 DEF Others, Rows
<1>4. TypeOK'
  <2>1. stream' \in [Rows -> Stream]
    <3>1. NothingRead \in Stream
      BY DEF NothingRead, Stream
    <3> QED
      BY <1>1, <1>2, <3>1
  <2> QED
    BY <1>1, <1>2, <1>3, <2>1 DEF Following, TypeOK
<1>5. RowsOK'
  <2>1. Progress(i)'
    BY <1>1, <1>2, <1>3 DEF Progress, Emitting
  <2>2. Gaps(i)'
    BY <1>3 DEF Gaps, NothingRead
  <2>3. Matches(i)'
    BY <1>1, <1>2, <1>3 DEF Matches
  <2> QED
    BY <1>1, <1>3, <2>1, <2>2, <2>3, RowStep
<1>6. Counted'
  <2>1. Finished' = Finished
    BY <1>1, <1>3 DEF Finished
  <2> QED
    BY <1>1, <2>1, CountedSame
<1>7. Bounded'
  BY <1>1, <1>3, <1>4, <1>5, BoundedFails DEF IInv
<1> QED
  BY <1>4, <1>5, <1>6, <1>7 DEF Following

-----------------------------------------------------------------------------
(* The server, step by step.                                               *)

LEMMA FollowingPrefill == Following /\ IInv => \A i \in Rows : Prefill(i) => Following'
<1> SUFFICES ASSUME Following, IInv, NEW i \in Rows, Prefill(i) PROVE Following'
  OBVIOUS
<1>1. /\ job[i] = "waiting" /\ job' = [job EXCEPT ![i] = "prefilling"]
      /\ UNCHANGED <<sequences, status, stream, generated, cache, promptTokens, flushed>>
  BY DEF Prefill, ThreadVars, trace, mainVars, request
<1>2. PICK n \in 0..(IF status[i] = "open" THEN Walk(cache, sequences[i]) ELSE 0) :
        matched' = [matched EXCEPT ![i] = n]
  BY DEF Prefill
<1>3. /\ status \in [Rows -> Status] /\ job \in [Rows -> JobState] /\ matched \in [Rows -> Nat]
      /\ generated \in [Rows -> Nat] /\ stream \in [Rows -> Stream] /\ sequences[i] \in Seq(Nat)
      /\ Progress(i) /\ Gaps(i) /\ Matches(i) /\ Len(sequences[i]) \in Nat
  BY RowNow DEF IInv
<1>4. /\ n \in Nat /\ n <= Len(sequences[i])
      /\ status[i] = "open" => \A m \in 1..n : SubSeq(sequences[i], 1, m) \in cache
      /\ status[i] # "open" => n = 0
  <2>1. CASE status[i] = "open"
    <3> DEFINE w == Walk(cache, sequences[i])
    <3>1. w \in 0..Len(sequences[i]) /\ \A m \in 1..w : SubSeq(sequences[i], 1, m) \in cache
      BY <1>3, WalkStops
    <3>2. n \in 0..w
      BY <1>2, <2>1
    <3> HIDE DEF w
    <3> QED
      BY <1>3, <2>1, <3>1, <3>2
  <2>2. CASE status[i] # "open"
    BY <1>2, <1>3, <2>2
  <2> QED
    BY <2>1, <2>2
<1>5. job'[i] = "prefilling" /\ matched'[i] = n /\ Others(i) /\ Rows' = Rows
      /\ status[i] \in {"open", "error"} /\ stream'[i] = stream[i] /\ status'[i] = status[i]
  BY <1>1, <1>2, <1>3 DEF Others, Rows, Progress, Status
<1>6. TypeOK'
  BY <1>1, <1>2, <1>3, <1>4, <1>5 DEF Following, TypeOK, JobState
<1>7. RowsOK'
  <2>1. Progress(i)'
    BY <1>1, <1>3, <1>5 DEF Progress, Emitting
  <2>2. Gaps(i)'
    BY <1>1, <1>3, <1>5 DEF Gaps
  <2>3. Matches(i)'
    BY <1>1, <1>4, <1>5 DEF Matches, Emitting
  <2> QED
    BY <1>1, <1>5, <2>1, <2>2, <2>3, RowStep
<1>8. Counted'
  <2>1. Finished' = Finished
    BY <1>1, <1>5 DEF Finished, Others
  <2> QED
    BY <1>1, <2>1, CountedSame
<1>9. Bounded'
  <2>1. Served' = Served
    BY <1>1, <1>5 DEF Served, Others, Emitting
  <2>2. Held' = Held
    <3>1. Failed' = Failed
      BY <1>1, <1>5 DEF Failed
    <3> QED
      BY <1>1, <3>1, HeldNext DEF Held
  <2>3. \A j \in Served : Missed[j] <= Missed'[j]
    <3> SUFFICES ASSUME NEW j \in Served PROVE Missed[j] <= Missed'[j]
      OBVIOUS
    <3>1. j \in Rows
      BY DEF Served
    <3>2. matched'[j] = matched[j]
      <4>1. CASE j = i
        <5>1. status[i] = "error"
          BY <1>1, <4>1 DEF Served, Emitting
        <5> QED
          BY <1>3, <1>4, <1>5, <4>1, <5>1 DEF Matches
      <4>2. CASE j # i
        BY <1>5, <3>1, <4>2 DEF Others
      <4> QED
        BY <4>1, <4>2
    <3>3. Missed'[j] = Missed[j] /\ Missed[j] \in Nat
      BY <1>1, <1>5, <3>1, <3>2, Weights DEF Missed, Following
    <3> QED
      BY <3>3
  <2> QED
    BY <1>1, <1>6, <1>7, <2>1, <2>2, <2>3, BoundedSame
<1> QED
  BY <1>6, <1>7, <1>8, <1>9 DEF Following

(* An insertion adds what the request did not find when it was prefilled,  *)
(* or less, for others may have inserted some of it since.                 *)
LEMMA FollowingInsert == Following /\ IInv => \A i \in Rows : Insert(i) => Following'
<1> SUFFICES ASSUME Following, IInv, NEW i \in Rows, Insert(i) PROVE Following'
  OBVIOUS
<1>1. /\ job[i] = "prefilling" /\ job' = [job EXCEPT ![i] = "decoding"]
      /\ cache' = cache \cup Nodes(sequences[i])
      /\ UNCHANGED <<sequences, status, stream, matched, generated, promptTokens, flushed>>
  BY DEF Insert, ThreadVars, trace, mainVars, request
<1>2. /\ status \in [Rows -> Status] /\ job \in [Rows -> JobState] /\ matched \in [Rows -> Nat]
      /\ generated \in [Rows -> Nat] /\ stream \in [Rows -> Stream]
      /\ Progress(i) /\ Gaps(i) /\ Matches(i) /\ Len(sequences[i]) \in Nat
  BY RowNow DEF IInv
<1>3. job'[i] = "decoding" /\ Others(i) /\ Rows' = Rows /\ cache \subseteq cache'
      /\ status[i] \in {"open", "error"}
  BY <1>1, <1>2 DEF Others, Rows, Progress, Status
<1>4. TypeOK'
  BY <1>1, <1>2, <1>3 DEF Following, TypeOK, JobState
<1>5. RowsOK'
  <2>1. Progress(i)'
    BY <1>1, <1>2, <1>3 DEF Progress, Emitting
  <2>2. Gaps(i)'
    BY <1>1, <1>2, <1>3 DEF Gaps
  <2>3. Matches(i)'
    BY <1>1, <1>2, <1>3 DEF Matches, Emitting
  <2> QED
    BY <1>1, <1>3, <2>1, <2>2, <2>3, RowStep
<1>6. Counted'
  <2>1. Finished' = Finished
    BY <1>1, <1>3 DEF Finished, Others
  <2> QED
    BY <1>1, <2>1, CountedSame
<1>7. Missed' = Missed /\ Failed' = Failed
      /\ Held' = Held \cup Within(Nodes(sequences[i]))
  <2>1. Missed' = Missed /\ Failed' = Failed
    BY <1>1, <1>3 DEF Missed, Failed
  <2>2. Within(cache') = Within(cache) \cup Within(Nodes(sequences[i]))
    BY <1>1 DEF Within
  <2> QED
    BY <1>1, <2>1, <2>2, HeldNext DEF Held
<1>8. Bounded'
  <2>1. CASE status[i] = "error"
    <3>1. Served' = Served
      BY <1>1, <1>3, <2>1 DEF Served, Others, Emitting
    <3>2. Held' = Held
      BY <1>7, <2>1 DEF Held, Failed, Within
    <3>3. \A j \in Served : Missed[j] <= Missed'[j]
      BY <1>7, Weights DEF Following, Served
    <3> QED
      BY <1>1, <1>4, <1>5, <3>1, <3>2, <3>3, BoundedSame
  <2>2. CASE status[i] = "open"
    <3> DEFINE m == matched[i]
    <3>1. i \notin Served /\ Served' = Served \cup {i}
      BY <1>1, <1>3, <2>2 DEF Served, Others, Emitting
    <3>2. m \in 0..Len(sequences[i])
      BY <1>2 DEF Matches
    <3>3. Missed'[i] = Len(sequences[i]) - m /\ \A j \in Served : Missed'[j] = Missed[j]
      BY <1>7 DEF Missed
    <3>4. \A n \in 1..m : SubSeq(sequences[i], 1, n) \in cache
      BY <1>1, <1>2, <2>2 DEF Matches
    <3>5. \E k \in 0..Len(sequences[i]) :
            Missed'[i] = Len(sequences[i]) - k /\ \A n \in 1..k : SubSeq(sequences[i], 1, n) \in cache
      BY <3>2, <3>3, <3>4
    <3>6. PICK k \in 0..Len(sequences[i]) :
            Missed'[i] = Len(sequences[i]) - k /\ \A n \in 1..k : SubSeq(sequences[i], 1, n) \in cache
      BY <3>5
    <3> HIDE DEF m
    <3> QED
      BY <1>1, <1>4, <1>5, <1>7, <3>1, <3>3, <3>6, BoundedMore
  <2> QED
    BY <1>3, <2>1, <2>2
<1> QED
  BY <1>4, <1>5, <1>6, <1>8 DEF Following

LEMMA FollowingAbort == Following /\ IInv => \A i \in Rows : Abort(i) => Following'
<1> SUFFICES ASSUME Following, IInv, NEW i \in Rows, Abort(i) PROVE Following'
  OBVIOUS
<1>1. /\ status[i] = "error" /\ job[i] \in {"waiting", "prefilling", "decoding"}
      /\ job' = [job EXCEPT ![i] = "none"] /\ generated' = [generated EXCEPT ![i] = 0]
      /\ UNCHANGED <<sequences, status, stream, matched, promptTokens, flushed>>
      /\ Keeps(i, generated[i]) \/ UNCHANGED cache
  BY DEF Abort, ThreadVars, trace, mainVars, request
<1>2. /\ status \in [Rows -> Status] /\ job \in [Rows -> JobState] /\ matched \in [Rows -> Nat]
      /\ generated \in [Rows -> Nat] /\ stream \in [Rows -> Stream]
      /\ Progress(i) /\ Gaps(i) /\ Matches(i) /\ Len(sequences[i]) \in Nat
  BY RowNow DEF IInv
<1>3. job'[i] = "none" /\ Others(i) /\ Rows' = Rows
  BY <1>1, <1>2 DEF Others, Rows
<1>4. Failed' = Failed /\ i \in Failed
  BY <1>1, <1>3 DEF Failed
<1>5. cache \subseteq cache' /\ Held' = Held
  <2>1. CASE Keeps(i, generated[i])
    <3>1. generated[i] \in Nat
      BY <1>2
    <3> QED
      BY <1>1, <1>4, <2>1, <3>1, AnswerIsBeyond
  <2>2. CASE UNCHANGED cache
    BY <1>1, <1>4, <2>2, HeldNext DEF Held
  <2> QED
    BY <1>1, <2>1, <2>2
<1>6. TypeOK'
  BY <1>1, <1>2, <1>3 DEF Following, TypeOK, JobState
<1>7. RowsOK'
  <2>1. Progress(i)'
    BY <1>1, <1>2, <1>3 DEF Progress, Emitting
  <2>2. Gaps(i)'
    BY <1>1, <1>2, <1>3 DEF Gaps
  <2>3. Matches(i)'
    BY <1>1, <1>2, <1>3 DEF Matches, Emitting
  <2> QED
    BY <1>1, <1>3, <1>5, <2>1, <2>2, <2>3, RowStep
<1>8. Counted'
  <2>1. Finished' = Finished
    BY <1>1, <1>3 DEF Finished, Others
  <2> QED
    BY <1>1, <2>1, CountedSame
<1>9. Bounded'
  <2>1. Served' = Served
    BY <1>1, <1>3 DEF Served, Others
  <2>2. Held' = Held /\ Missed' = Missed
    BY <1>1, <1>3, <1>5 DEF Missed
  <2>3. \A j \in Served : Missed[j] <= Missed'[j]
    BY <2>2, Weights DEF Following, Served
  <2> QED
    BY <1>1, <1>6, <1>7, <2>1, <2>2, <2>3, BoundedSame
<1> QED
  BY <1>6, <1>7, <1>8, <1>9 DEF Following

-----------------------------------------------------------------------------
(* main(), as far as the rows are concerned.                               *)

LEMMA FollowingFlush == Following /\ IInv /\ Unsent /\ Flush => Following'
<1> SUFFICES ASSUME Following, IInv, Unsent, Flush PROVE Following'
  OBVIOUS
<1>1. /\ pc = "flush" /\ cache' = {}
      /\ UNCHANGED <<sequences, status, stream, job, matched, generated, promptTokens>>
  BY DEF Flush, trace, request
<1>2. Rows' = Rows
  BY <1>1 DEF Rows
<1>3. TypeOK'
  BY <1>1, <1>2 DEF Following, TypeOK
<1>4. \A i \in Rows : status[i] = "queued" /\ job[i] = "none"
  BY <1>1, RowNow DEF Unsent, Early, Progress, IInv
<1>5. RowsOK'
  <2> SUFFICES ASSUME NEW i \in Rows PROVE Progress(i)' /\ Gaps(i)' /\ Matches(i)'
    BY <1>2 DEF RowsOK
  <2>1. Progress(i) /\ Gaps(i) /\ Matches(i)
    BY DEF Following, RowsOK
  <2>2. Progress(i)' /\ Gaps(i)'
    BY <1>1, <2>1 DEF Progress, Gaps
  <2>3. Matches(i)'
    BY <1>1, <1>4, <2>1 DEF Matches, Emitting
  <2> QED
    BY <2>2, <2>3
<1>6. Counted'
  <2>1. Finished' = Finished
    BY <1>1, <1>2 DEF Finished
  <2> QED
    BY <1>1, <2>1, CountedSame
<1>7. Bounded'
  <2>1. Failed' = {} /\ Served' = {}
    BY <1>1, <1>2, <1>4 DEF Failed, Served, Emitting
  <2>2. Held' = {}
    BY <1>1, <2>1, HeldNext DEF Within
  <2>3. \A f : SumFunctionOnSet(f, {}) = 0
    BY SumEmpty
  <2>4. SumFunctionOnSet(Missed', Served') = 0
    BY <2>1, <2>3
  <2>5. IsFiniteSet(Held') /\ Cardinality(Held') = 0
    BY <2>2, FS_EmptySet
  <2>6. IsFiniteSet(Held') /\ Cardinality(Held') <= SumFunctionOnSet(Missed', Served')
    BY <2>4, <2>5
  <2> QED
    BY <2>6 DEF Bounded
<1> QED
  BY <1>3, <1>5, <1>6, <1>7 DEF Following

LEMMA FollowingMainStep == Following /\ IInv /\ Unsent /\ MainStep => Following'
<1> SUFFICES ASSUME Following, IInv, Unsent, MainStep PROVE Following'
  OBVIOUS
<1> USE DEF trace, request, serverVars, scrapes, rowVars
<1>1. CASE Take
  BY <1>1, FollowingTake
<1>2. CASE Flush
  BY <1>2, FollowingFlush
<1>3. CASE FlushFails
  BY <1>3, FollowingMove DEF FlushFails, Go
<1>4. CASE Launch \/ Terminate \/ Kill
  BY <1>4, FollowingMove DEF Launch, Terminate, Kill
<1>5. CASE Healthy \/ StartupFails \/ ScrapeBefore \/ ScrapeFails \/ Join \/ ScrapeAfter
  BY <1>5, FollowingMove DEF Healthy, StartupFails, ScrapeBefore, ScrapeFails, Join, ScrapeAfter, Go
<1>6. CASE SummarizeReturns \/ SummarizeRaises \/ ServerGone
  BY <1>6, FollowingMove DEF SummarizeReturns, SummarizeRaises, ServerGone, Go
<1> QED
  BY <1>1, <1>2, <1>3, <1>4, <1>5, <1>6 DEF MainStep

(* Ctrl-C cancels requests nothing is known of.                            *)
LEMMA FollowingInterrupt == Following /\ IInv /\ Interrupt => Following'
<1> SUFFICES ASSUME Following, IInv, Interrupt PROVE Following'
  OBVIOUS
<1>1. /\ UNCHANGED <<sequences, stream, job, matched, generated, cache, promptTokens, flushed>>
      /\ status' = [i \in Rows |-> IF pc = "pool" /\ status[i] = "queued" THEN "cancelled" ELSE status[i]]
  BY DEF Interrupt, trace, serverVars
<1>2. Rows' = Rows
  BY <1>1 DEF Rows
<1>3. TypeOK'
  BY <1>1, <1>2 DEF Following, TypeOK
<1>4. \A i \in Rows : \/ status'[i] = status[i]
                      \/ status[i] = "queued" /\ status'[i] = "cancelled"
  BY <1>1
<1>5. RowsOK'
  <2> SUFFICES ASSUME NEW i \in Rows PROVE Progress(i)' /\ Gaps(i)' /\ Matches(i)'
    BY <1>2 DEF RowsOK
  <2>1. Progress(i) /\ Gaps(i) /\ Matches(i)
    BY DEF Following, RowsOK
  <2>2. Progress(i)'
    BY <1>1, <1>4, <2>1 DEF Progress
  <2>3. Gaps(i)'
    BY <1>1, <1>4, <2>1 DEF Gaps
  <2>4. Matches(i)'
    BY <1>1, <1>4, <2>1 DEF Matches
  <2> QED
    BY <2>2, <2>3, <2>4
<1>6. Counted'
  <2>1. Finished' = Finished
    BY <1>1, <1>2 DEF Finished
  <2> QED
    BY <1>1, <2>1, CountedSame
<1>7. Bounded'
  <2>1. Served' = Served /\ Failed' = Failed
    BY <1>1, <1>2, <1>4 DEF Served, Failed
  <2>2. Held' = Held /\ Missed' = Missed
    BY <1>1, <1>2, <2>1, HeldNext DEF Held, Missed
  <2>3. \A j \in Served : Missed[j] <= Missed'[j]
    BY <2>2, Weights DEF Following, Served
  <2> QED
    BY <1>1, <1>3, <1>5, <2>1, <2>2, <2>3, BoundedSame
<1> QED
  BY <1>3, <1>5, <1>6, <1>7 DEF Following

LEMMA FollowingStep == Following /\ IInv /\ Unsent /\ [Next]_vars => Following'
<1> SUFFICES ASSUME Following, IInv, Unsent, [Next]_vars PROVE Following'
  OBVIOUS
<1>1. CASE MainStep
  BY <1>1, FollowingMainStep
<1>2. CASE Interrupt
  BY <1>2, FollowingInterrupt
<1>3. CASE InterruptTeardown
  BY <1>3, FollowingMove DEF InterruptTeardown, trace, request, serverVars, rowVars
<1>4. ASSUME NEW i \in Rows, RequestStep(i) \/ Prefill(i) \/ Insert(i) \/ Abort(i) PROVE Following'
  BY <1>4, FollowingChunk, FollowingDone, FollowingRefused, FollowingGiveUp,
     FollowingPrefill, FollowingInsert, FollowingAbort DEF RequestStep
<1>5. CASE ServerProcess
  BY <1>5, FollowingMove DEF ServerProcess, trace, mainVars, request, serverVars, rowVars
<1>6. CASE UNCHANGED vars
  BY <1>6, FollowingMove DEF vars, trace, mainVars, request, serverVars, rowVars
<1> QED
  BY <1>1, <1>2, <1>3, <1>4, <1>5, <1>6 DEF Next
-----------------------------------------------------------------------------
(* What main() makes of the requests.                                      *)

LEMMA AccountingInit == Init => Accounting
<1> SUFFICES ASSUME Init PROVE Accounting
  OBVIOUS
<1>1. pc = "launch" /\ raising = FALSE /\ after = NoScrape /\ summary = NoSummary
      /\ \A i \in Rows : status[i] = "queued"
  BY DEF Init
<1>2. Unsent /\ Phases
  BY <1>1 DEF Unsent, Phases
<1>3. Covered /\ Reported /\ Blamed
  BY <1>1 DEF Covered, Reported, Blamed
<1> QED
  BY <1>2, <1>3 DEF Accounting

(* Once the counters were read again nothing of the requests changes.      *)
LEMMA LateRows ==
  ASSUME Accounting, Following, IInv, [Next]_vars, after # NoScrape
  PROVE  UNCHANGED <<sequences, status, stream, before, after, flushed>>
<1> USE DEF trace, request, serverVars, scrapes, mainVars, ThreadVars
<1>1. pc \notin Early \cup {"pool", "after"}
  BY DEF Accounting, Phases
<1>2. Open = {}
  BY <1>1 DEF IInv, OpenInPool
<1>3. CASE MainStep
  <2>1. ~Take /\ ~Flush /\ ~FlushFails /\ ~ScrapeBefore /\ ~ScrapeAfter
    BY <1>1 DEF Take, Flush, FlushFails, ScrapeBefore, ScrapeAfter, Go, Early
  <2>2. CASE Launch \/ Terminate \/ Kill
    BY <2>2 DEF Launch, Terminate, Kill
  <2>3. CASE Healthy \/ StartupFails \/ ScrapeFails \/ Join
    BY <2>3 DEF Healthy, StartupFails, ScrapeFails, Join, Go
  <2>4. CASE SummarizeReturns \/ SummarizeRaises \/ ServerGone
    BY <2>4 DEF SummarizeReturns, SummarizeRaises, ServerGone, Go
  <2> QED
    BY <1>3, <2>1, <2>2, <2>3, <2>4 DEF MainStep
<1>4. CASE Interrupt
  <2>1. status' = [i \in Rows |-> status[i]]
    BY <1>1, <1>4 DEF Interrupt
  <2>2. status' = status
    BY <2>1 DEF IInv, StatusOK
  <2> QED
    BY <1>4, <2>2 DEF Interrupt
<1>5. CASE InterruptTeardown
  BY <1>5 DEF InterruptTeardown
<1>6. ASSUME NEW i \in Rows, RequestStep(i)
      PROVE  UNCHANGED <<sequences, status, stream, before, after, flushed>>
  <2>1. status[i] # "open"
    BY <1>2 DEF Open
  <2>2. Chunk(i)
    BY <1>6, <2>1 DEF RequestStep, Done, Refused, GiveUp
  <2>3. stream' = stream
    BY <2>1, <2>2 DEF Chunk
  <2> QED
    BY <2>2, <2>3 DEF Chunk
<1>7. ASSUME NEW i \in Rows, Prefill(i) \/ Insert(i) \/ Abort(i)
      PROVE  UNCHANGED <<sequences, status, stream, before, after, flushed>>
  BY <1>7 DEF Prefill, Insert, Abort
<1>8. CASE ServerProcess
  BY <1>8 DEF ServerProcess
<1>9. CASE UNCHANGED vars
  BY <1>9 DEF vars
<1> QED
  BY <1>3, <1>4, <1>5, <1>6, <1>7, <1>8, <1>9 DEF Next

(* Until then only ScrapeAfter reads them, and nothing is summed up before. *)
LEMMA EarlySteps ==
  ASSUME [Next]_vars
  PROVE  /\ after' = after \/ ScrapeAfter
         /\ summary' = summary \/ SummarizeReturns
<1> USE DEF trace, request, serverVars, scrapes, mainVars, ThreadVars
<1>1. CASE MainStep
  <2>1. CASE Launch \/ Terminate \/ Kill \/ Flush \/ Take
    BY <2>1 DEF Launch, Terminate, Kill, Flush, Take
  <2>2. CASE Healthy \/ StartupFails \/ ScrapeFails \/ Join \/ FlushFails \/ ScrapeBefore
    BY <2>2 DEF Healthy, StartupFails, ScrapeFails, Join, FlushFails, ScrapeBefore, Go
  <2>3. CASE SummarizeReturns \/ SummarizeRaises \/ ServerGone \/ ScrapeAfter
    BY <2>3 DEF SummarizeReturns, SummarizeRaises, ServerGone, ScrapeAfter, Go
  <2> QED
    BY <1>1, <2>1, <2>2, <2>3 DEF MainStep
<1>2. CASE Interrupt \/ InterruptTeardown
  BY <1>2 DEF Interrupt, InterruptTeardown
<1>3. ASSUME NEW i \in Rows, RequestStep(i)
      PROVE  UNCHANGED <<after, summary>>
  BY <1>3 DEF RequestStep, Chunk, Done, Refused, GiveUp
<1>4. ASSUME NEW i \in Rows, Prefill(i) \/ Insert(i) \/ Abort(i)
      PROVE  UNCHANGED <<after, summary>>
  BY <1>4 DEF Prefill, Insert, Abort
<1>5. CASE ServerProcess
  BY <1>5 DEF ServerProcess
<1>6. CASE UNCHANGED vars
  BY <1>6 DEF vars
<1> QED
  BY <1>1, <1>2, <1>3, <1>4, <1>5, <1>6 DEF Next

(* The control state of main().                                            *)
LEMMA PhasesStep == Accounting /\ Following /\ IInv /\ [Next]_vars => (Unsent /\ Phases)'
<1> SUFFICES ASSUME Accounting, Following, IInv, [Next]_vars PROVE Unsent' /\ Phases'
  OBVIOUS
<1> USE DEF trace, request, serverVars, scrapes, mainVars, ThreadVars
<1>0. Unsent /\ Phases
  BY DEF Accounting
<1>1. ASSUME UNCHANGED <<sequences, status, pc, raising, before, after, summary>>
      PROVE  Unsent' /\ Phases'
  BY <1>0, <1>1 DEF Unsent, Phases, Rows
<1>2. CASE MainStep
  <2>1. CASE Launch
    BY <1>0, <2>1 DEF Launch, Unsent, Phases, Early, Rows
  <2>2. CASE Healthy
    BY <1>0, <2>2 DEF Healthy, Go, Unsent, Phases, Early, Rows
  <2>3. CASE StartupFails \/ ScrapeFails
    BY <2>3 DEF StartupFails, ScrapeFails, Go, Unsent, Phases, Early
  <2>4. CASE Flush
    BY <1>0, <2>4 DEF Flush, Unsent, Phases, Early, Rows
  <2>5. CASE FlushFails
    BY <1>0, <2>5 DEF FlushFails, Go, Unsent, Phases, Early, Rows
  <2>6. CASE ScrapeBefore
    <3>1. Finished = {}
      BY <1>0, <2>6, RowNow DEF ScrapeBefore, Go, Unsent, Early, Finished, Progress, IInv
    <3>2. promptTokens = 0
      BY <3>1, SumEmpty DEF Following, Counted
    <3>3. pc' = "pool" /\ before' = 0 /\ after' = after /\ summary' = summary /\ pc = "before"
      BY <2>6, <3>2 DEF ScrapeBefore, Go
    <3> QED
      BY <1>0, <3>3 DEF Unsent, Phases, Early
  <2>7. CASE Take
    BY <1>0, <2>7 DEF Take, Unsent, Phases, Early
  <2>8. CASE Join
    <3>1. pc = "pool" /\ pc' \in {"finally", "after"} /\ (pc' = "after" => ~raising)
          /\ UNCHANGED <<raising, before, after, summary>>
      BY <2>8 DEF Join, Go
    <3> QED
      BY <1>0, <3>1 DEF Unsent, Phases, Early
  <2>9. CASE ScrapeAfter
    <3>1. promptTokens \in Nat
      <4>1. TypeOK /\ RowsOK
        BY DEF Following
      <4>2. IsFiniteSet(Finished) /\ \A j \in Finished : Lens[j] \in Nat
        BY <4>1, SetFacts, Weights
      <4> QED
        BY <4>2, SumNat DEF Following, Counted
    <3>2. pc = "after" /\ pc' = "summarize" /\ after' = promptTokens
          /\ UNCHANGED <<raising, before, summary>>
      BY <2>9 DEF ScrapeAfter, Go
    <3>3. after' # NoScrape
      BY <3>1, <3>2 DEF NoScrape
    <3> QED
      BY <1>0, <3>2, <3>3 DEF Unsent, Phases, Early
  <2>10. CASE SummarizeReturns \/ SummarizeRaises
    BY <2>10 DEF SummarizeReturns, SummarizeRaises, Go, Unsent, Phases, Early
  <2>11. CASE Terminate \/ Kill
    BY <2>11 DEF Terminate, Kill, Ended, Unsent, Phases, Early
  <2>12. CASE ServerGone
    BY <2>12 DEF ServerGone, Go, Ended, Unsent, Phases, Early
  <2> QED
    BY <1>2, <2>1, <2>2, <2>3, <2>4, <2>5, <2>6, <2>7, <2>8, <2>9, <2>10, <2>11, <2>12
       DEF MainStep
(* Ctrl-C in the pool leaves main() there, on its way to the end.          *)
<1>3. CASE Interrupt
  BY <1>0, <1>3 DEF Interrupt, Unsent, Phases, Early
<1>4. CASE InterruptTeardown
  BY <1>4 DEF InterruptTeardown, Unsent, Phases, Early
<1>5. ASSUME NEW i \in Rows, RequestStep(i) PROVE Unsent' /\ Phases'
  <2>1. CASE status[i] = "open"
    <3>1. pc = "pool"
      BY <2>1 DEF IInv, OpenInPool, Open
    <3>2. UNCHANGED <<pc, raising, before, after, summary>>
      BY <1>5 DEF RequestStep, Chunk, Done, Refused, GiveUp
    <3> QED
      BY <1>0, <3>1, <3>2 DEF Unsent, Phases, Early
  <2>2. CASE status[i] # "open"
    <3>1. Chunk(i)
      BY <1>5, <2>2 DEF RequestStep, Done, Refused, GiveUp
    <3> QED
      BY <1>1, <3>1 DEF Chunk
  <2> QED
    BY <2>1, <2>2
<1>6. ASSUME NEW i \in Rows, Prefill(i) \/ Insert(i) \/ Abort(i) PROVE Unsent' /\ Phases'
  BY <1>1, <1>6 DEF Prefill, Insert, Abort
<1>7. CASE ServerProcess
  BY <1>1, <1>7 DEF ServerProcess
<1>8. CASE UNCHANGED vars
  BY <1>1, <1>8 DEF vars
<1> QED
  BY <1>2, <1>3, <1>4, <1>5, <1>6, <1>7, <1>8 DEF Next

(* The counter holds what the answered requests report, and no less when   *)
(* other requests were served as well.                                     *)
LEMMA CounterCovers ==
  ASSUME Following
  PROVE  /\ promptTokens \in Nat
         /\ promptTokens >= SumFunctionOnSet(Prompts, Ok)
         /\ (\A i \in Rows : status[i] = "ok" /\ stream[i].meta) =>
              promptTokens = SumFunctionOnSet(Prompts, Ok)
<1>1. TypeOK /\ RowsOK /\ promptTokens = SumFunctionOnSet(Lens, Finished)
  BY DEF Following, Counted
<1>2. IsFiniteSet(Ok) /\ IsFiniteSet(Finished) /\ Ok \subseteq Rows /\ Finished \subseteq Rows
  BY <1>1, SetFacts
<1>3. \A j \in Rows : Lens[j] \in Nat /\ Prompts[j] \in Nat /\ Prompts[j] <= Lens[j]
  BY <1>1, Weights
<1>4. \A j \in Rows : Prompts[j] = IF stream[j].meta THEN Lens[j] ELSE 0
  BY DEF Prompts, PromptTokens, Lens
<1>5. (\A j \in Ok : Prompts[j] \in Nat) /\ (\A j \in Finished : Lens[j] \in Nat)
  BY <1>2, <1>3
<1>6. SumFunctionOnSet(Lens, Finished) \in Nat /\ SumFunctionOnSet(Prompts, Ok) \in Nat
  BY <1>2, <1>5, SumNat
<1>7. SumFunctionOnSet(Prompts, Ok) <= SumFunctionOnSet(Lens, Finished)
  <2>1. ASSUME NEW j \in Ok PROVE IF j \in Finished THEN Prompts[j] <= Lens[j] ELSE Prompts[j] = 0
    <3>1. j \notin Finished => ~stream[j].meta
      BY <1>1, OkIsFinished
    <3> QED
      BY <1>2, <1>3, <1>4, <3>1
  <2> QED
    BY <1>2, <1>5, <2>1, SumBound
<1>8. ASSUME \A i \in Rows : status[i] = "ok" /\ stream[i].meta
      PROVE  SumFunctionOnSet(Lens, Finished) <= SumFunctionOnSet(Prompts, Ok)
  <2>1. \A j \in Finished : IF j \in Ok THEN Lens[j] <= Prompts[j] ELSE Lens[j] = 0
    BY <1>2, <1>3, <1>4, <1>8 DEF Ok
  <2> QED
    BY <1>2, <1>5, <2>1, SumBound
<1> QED
  BY <1>1, <1>6, <1>7, <1>8

LEMMA CoveredStep == Accounting /\ Following /\ IInv /\ [Next]_vars => Covered'
<1> SUFFICES ASSUME Accounting, Following, IInv, [Next]_vars PROVE Covered'
  OBVIOUS
<1>1. CASE after # NoScrape
  BY <1>1, LateRows DEF Accounting, Covered, Prompts, PromptTokens, Ok, Rows
<1>2. CASE ScrapeAfter
  <2>1. after' = promptTokens /\ UNCHANGED <<sequences, status, stream, before>> /\ pc = "after"
    BY <1>2 DEF ScrapeAfter, Go, trace, request
  <2>2. before = 0
    BY <2>1 DEF Accounting, Phases
  <2>3. Prompts' = Prompts /\ Ok' = Ok /\ Rows' = Rows
    BY <2>1 DEF Prompts, PromptTokens, Ok, Rows
  <2> QED
    BY <2>1, <2>2, <2>3, CounterCovers DEF Covered
<1>3. CASE after = NoScrape /\ ~ScrapeAfter
  BY <1>3, EarlySteps DEF Covered
<1> QED
  BY <1>1, <1>2, <1>3

LEMMA ReportedStep == Accounting /\ Following /\ IInv /\ [Next]_vars => Reported'
<1> SUFFICES ASSUME Accounting, Following, IInv, [Next]_vars, summary' # NoSummary
             PROVE  /\ after' # NoScrape
                    /\ summary'.prompt_tokens = SumFunctionOnSet(Prompts', Ok')
                    /\ flushed' => summary'.cached_tokens <=
                         SumFunction(TrieHits(sequences')) + Cardinality(Continuations(sequences'))
  BY DEF Reported
<1>1. after # NoScrape
  <2>1. CASE SummarizeReturns
    BY <2>1 DEF SummarizeReturns, Go, Accounting, Phases
  <2>2. CASE summary' = summary
    BY <2>2 DEF Accounting, Reported
  <2> QED
    BY <2>1, <2>2, EarlySteps
<1>2. UNCHANGED <<sequences, status, stream, after, flushed>>
  BY <1>1, LateRows
<1>3. Prompts' = Prompts /\ Ok' = Ok
  BY <1>2 DEF Prompts, PromptTokens, Ok, Rows
<1>4. CASE summary' = summary
  BY <1>1, <1>2, <1>3, <1>4 DEF Accounting, Reported
<1>5. CASE SummarizeReturns
  <2>1. summary'.prompt_tokens = Sum(PromptTokens, Ok)
        /\ summary'.cached_tokens = Sum(CachedTokens, Ok)
    BY <1>5 DEF SummarizeReturns, Summarize
  <2>2. summary'.prompt_tokens = SumFunctionOnSet(Prompts, Ok)
    BY <2>1, PromptSum DEF Following
  <2>3. summary'.cached_tokens = SumFunctionOnSet(Hit, Ok)
    BY <2>1, HitSum DEF Following
  <2>4. flushed => SumFunctionOnSet(Hit, Ok) <=
                     SumFunction(TrieHits(sequences)) + Cardinality(Continuations(sequences))
    BY BoundIsIdeal DEF Following
  <2> QED
    BY <1>1, <1>2, <1>3, <2>2, <2>3, <2>4
<1> QED
  BY <1>4, <1>5, EarlySteps

(* Who is to blame when the replay raises after all requests are done.     *)
LEMMA BlamedStep == Accounting /\ Following /\ IInv /\ [Next]_vars => Blamed'
<1> SUFFICES ASSUME Accounting, Following, IInv, [Next]_vars,
                    raising' \/ pc' = "raised", after' # NoScrape, interrupted' = "no"
             PROVE  \E i \in Ok' : ~stream'[i].meta
  BY DEF Blamed
<1> USE DEF trace, request, serverVars, scrapes, mainVars, ThreadVars
<1>1. CASE ScrapeAfter
  <2>1. ~raising' /\ pc' = "summarize"
    BY <1>1 DEF ScrapeAfter, Go, Accounting, Phases
  <2> QED
    BY <2>1
<1>2. CASE after # NoScrape
  <2>1. UNCHANGED <<sequences, status, stream>> /\ Ok' = Ok
    BY <1>2, LateRows DEF Ok, Rows
  <2>2. SUFFICES \E i \in Ok : ~stream[i].meta
    BY <2>1
  <2>3. pc \notin Early \cup {"pool", "after"}
    BY <1>2 DEF Accounting, Phases
  <2>4. ASSUME UNCHANGED <<pc, raising, interrupted>> PROVE \E i \in Ok : ~stream[i].meta
    BY <1>2, <2>4 DEF Accounting, Blamed
  <2>5. CASE MainStep
    <3>1. interrupted = "no"
      BY <2>5 DEF MainStep, Launch, Healthy, StartupFails, Flush, FlushFails, ScrapeBefore,
         ScrapeFails, Take, Join, ScrapeAfter, SummarizeReturns, SummarizeRaises, Terminate,
         ServerGone, Kill, Go
    <3>2. CASE raising \/ pc = "raised"
      BY <1>2, <3>1, <3>2 DEF Accounting, Blamed
    <3>3. CASE ~raising /\ pc # "raised"
      <4>1. SummarizeRaises
        BY <2>3, <2>5, <3>3 DEF MainStep, Launch, Healthy, StartupFails, Flush, FlushFails,
           ScrapeBefore, ScrapeFails, Take, Join, ScrapeAfter, SummarizeReturns, Terminate,
           ServerGone, Kill, Go, Ended, Early
      <4>2. PICK g \in {groups[i] : i \in Ok} : \A i \in Ok : groups[i] = g => PromptTokens(i) = 0
        BY <4>1 DEF SummarizeRaises, GroupWithoutTokens
      <4>3. PICK i \in Ok : PromptTokens(i) = 0
        BY <4>2
      <4>4. Len(sequences[i]) \in Nat \ {0}
        BY RowFacts DEF Following, Ok
      <4>5. ~stream[i].meta
        BY <4>3, <4>4 DEF PromptTokens
      <4> QED
        BY <4>5
    <3> QED
      BY <3>2, <3>3
  <2>6. CASE Interrupt \/ InterruptTeardown
    BY <2>6 DEF Interrupt, InterruptTeardown
  <2>7. ASSUME NEW i \in Rows, RequestStep(i) PROVE UNCHANGED <<pc, raising, interrupted>>
    BY <2>7 DEF RequestStep, Chunk, Done, Refused, GiveUp
  <2>8. ASSUME NEW i \in Rows, Prefill(i) \/ Insert(i) \/ Abort(i)
        PROVE  UNCHANGED <<pc, raising, interrupted>>
    BY <2>8 DEF Prefill, Insert, Abort
  <2>9. CASE ServerProcess
    BY <2>4, <2>9 DEF ServerProcess
  <2>10. CASE UNCHANGED vars
    BY <2>4, <2>10 DEF vars
  <2> QED
    BY <2>4, <2>5, <2>6, <2>7, <2>8, <2>9, <2>10 DEF Next
<1>3. CASE after = NoScrape /\ ~ScrapeAfter
  BY <1>3, EarlySteps
<1> QED
  BY <1>1, <1>2, <1>3

Inv == IInv /\ Following /\ Accounting

LEMMA InvHolds == Spec => []Inv
<1>1. Init => Inv
  BY IInvInit, FollowingInit, AccountingInit DEF Inv
<1>2. Inv /\ [Next]_vars => Inv'
  <2> SUFFICES ASSUME Inv, [Next]_vars PROVE Inv'
    OBVIOUS
  <2>1. IInv'
    BY IInvStep DEF Inv
  <2>2. Following'
    BY FollowingStep DEF Inv, Accounting
  <2>3. Accounting'
    BY PhasesStep, CoveredStep, ReportedStep, BlamedStep DEF Inv, Accounting
  <2> QED
    BY <2>1, <2>2, <2>3 DEF Inv
<1> QED
  BY <1>1, <1>2, PTL DEF Spec

-----------------------------------------------------------------------------

(* OracleIsUpperBound for every trace, any number of threads and whatever  *)
(* the cache has evicted: no order in which the threads' requests are      *)
(* prefilled, inserted, aborted or refused makes a flushed server reuse    *)
(* more than scripts/oracle.py credits the trace with, apart from one      *)
(* token for each node at which a prompt goes on where another ends, which *)
(* an answer may have put there.                                           *)
THEOREM IdealBound == Spec => []OracleIsUpperBound
<1>1. Inv => OracleIsUpperBound
  BY DEF Inv, Accounting, Reported, OracleIsUpperBound
<1> QED
  BY <1>1, InvHolds, PTL

(* CountersCoverTheRequests: between its two scrapes the server counts     *)
(* every prompt that a request reports, and only those if all of them      *)
(* were answered.                                                          *)
THEOREM Counters == Spec => []CountersCoverTheRequests
<1>1. Inv => CountersCoverTheRequests
  <2> SUFFICES ASSUME Inv, summary # NoSummary
               PROVE  /\ after - before >= summary.prompt_tokens
                      /\ (\A i \in Rows : status[i] = "ok" /\ stream[i].meta) =>
                           after - before = summary.prompt_tokens
    BY DEF CountersCoverTheRequests
  <2>1. Covered /\ Reported
    BY DEF Inv, Accounting
  <2>2. after # NoScrape /\ summary.prompt_tokens = SumFunctionOnSet(Prompts, Ok)
    BY <2>1 DEF Reported
  <2>3. after - before = after
    BY <2>1, <2>2 DEF Covered
  <2> QED
    BY <2>1, <2>2, <2>3 DEF Covered
<1> QED
  BY <1>1, InvHolds, PTL

(* GapsCoverTheAnswer: the gaps of one_request are the tokens of a         *)
(* complete answer, whatever chunks the server makes of them and whichever *)
(* of those have no text yet.                                              *)
THEOREM CompleteGaps == Spec => []GapsCoverTheAnswer
<1>1. Inv => GapsCoverTheAnswer
  BY DEF Inv, Following, RowsOK, Gaps, GapsCoverTheAnswer, Ok
<1> QED
  BY <1>1, InvHolds, PTL

(* FailedRequestsAreReported: without Ctrl-C, a replay whose requests were *)
(* all sent raises only when an error was streamed as a success.           *)
THEOREM FailuresReported == Spec => []FailedRequestsAreReported
<1>1. Inv => FailedRequestsAreReported
  BY DEF Inv, Accounting, Blamed, FailedRequestsAreReported
<1> QED
  BY <1>1, InvHolds, PTL

(* NoRequestDuringTeardown for every trace, any number of threads, and     *)
(* whatever the server does: the with block around the pool is left only   *)
(* when all threads are done, with Ctrl-C and without.                     *)
THEOREM QuietTeardown == Spec => []NoRequestDuringTeardown
<1>1. IInv => NoRequestDuringTeardown
  BY DEF IInv, OpenInPool, SignalledAtEnd, NoRequestDuringTeardown
<1> QED
  BY <1>1, IInvInit, IInvStep, PTL DEF Spec
=============================================================================
