---------------------------------- MODULE Trace ----------------------------------
(***************************************************************************)
(* scripts/export_trace.py and the token arithmetic of scripts/oracle.py:  *)
(* the requests of a benchmark as token sequences, the groups they fall    *)
(* into, and what a prefix cache could reuse of them.                      *)
(*                                                                         *)
(* A trie, nested dicts in the code, is the set of the non-empty sequences *)
(* that lead from its root to a node.                                      *)
(***************************************************************************)
EXTENDS Integers, Sequences, FiniteSets, FiniteSetsExt, Functions

Nodes(seq) == {SubSeq(seq, 1, n) : n \in 1..Len(seq)}

(* How far a sequence can be walked down a trie before a child is missing. *)
Walk(trie, seq) ==
  CHOOSE n \in 0..Len(seq) :
    /\ \A m \in 1..n : SubSeq(seq, 1, m) \in trie
    /\ n < Len(seq) => SubSeq(seq, 1, n + 1) \notin trie

(* The trie once the first n sequences are in it.                          *)
TrieAfter(sequences, n) == UNION {Nodes(sequences[j]) : j \in 1..n}

TrieHits(sequences) ==
  [i \in DOMAIN sequences |-> Walk(TrieAfter(sequences, i - 1), sequences[i])]

(* One sequence goes on where another ends.                                *)
Extends(u, seq) == seq \in Nodes(u) /\ seq # u

(* The nodes beneath the end of a whole sequence of the trace.             *)
Continuations(sequences) ==
  {u \in TrieAfter(sequences, Len(sequences)) : \E i \in DOMAIN sequences : Extends(u, sequences[i])}

LCP(a, b) ==
  CHOOSE n \in {n \in 0..Len(a) : n <= Len(b)} :
    /\ \A m \in 1..n : a[m] = b[m]
    /\ n < Len(a) /\ n < Len(b) => a[n + 1] # b[n + 1]

Total(sequences) == SumFunction([i \in DOMAIN sequences |-> Len(sequences[i])])

Members(groups, g) == {i \in DOMAIN groups : groups[i] = g}

\* MUTANT: a group is as good as its best pair.
GroupPrefixLengthsOfBest(sequences, groups) ==
  [g \in Range(groups) |->
     LET pairs == {q \in Members(groups, g) \X Members(groups, g) : q[1] < q[2]}
     IN  Max({0} \cup {LCP(sequences[p[1]], sequences[p[2]]) : p \in pairs})]

(* The least common prefix of two members; 0 for a group of one.           *)
GroupPrefixLengths(sequences, groups) ==
  [g \in Range(groups) |->
     LET pairs == {q \in Members(groups, g) \X Members(groups, g) : q[1] < q[2]}
     IN  IF pairs = {} THEN 0
         ELSE Min({LCP(sequences[p[1]], sequences[p[2]]) : p \in pairs})]

Key(seq, key_len) == SubSeq(seq, 1, Min({key_len, Len(seq)}))

(* Groups are numbered in the order their keys first appear.               *)
DeriveGroups(sequences, key_len) ==
  LET first(i) == Min({j \in 1..i : Key(sequences[j], key_len) = Key(sequences[i], key_len)})
  IN  [i \in DOMAIN sequences |->
         Cardinality({Key(sequences[j], key_len) : j \in 1..first(i) - 1})]
=============================================================================
