---------------------------------- MODULE Oracle ----------------------------------
(***************************************************************************)
(* scripts/export_trace.py writes the token trace of a benchmark, and      *)
(* scripts/oracle.py walks it in arrival order: once through a trie, for   *)
(* the tokens each request could have reused, and once for the distance    *)
(* between the requests of a group.  The capacity model then says how many *)
(* shared prefixes a host pool of each size holds.                         *)
(*                                                                         *)
(* Rates are left to the reader: the report holds the counts they are made *)
(* from.                                                                   *)
(***************************************************************************)
EXTENDS Trace, SequencesExt

CONSTANTS
  Workloads,       \* the request lists the generator may produce
  KeyLens,         \* the values of derive_groups' key_len
  HostBytes,       \* the sizes of the capacity sweep
  BF16_BYTES_PER_TOKEN,
  INT8_BYTES_PER_TOKEN

ASSUME WorkloadsAssumption == \A w \in Workloads : w \in Seq(Seq(Nat))

ASSUME OracleAssumption ==
  /\ KeyLens \subseteq Nat \ {0}
  /\ HostBytes \subseteq Nat
  /\ BF16_BYTES_PER_TOKEN \in Nat \ {0}
  /\ INT8_BYTES_PER_TOKEN \in 1..BF16_BYTES_PER_TOKEN

VARIABLES
  sequences,       \* the token ids, in submit order
  groups,          \* the groups written to the trace
  pc,
  i,               \* the loop index, from 1
  trie, hits,
  prefix_lens, group_hits,
  last_index, u, unique_after, per_request,
  report

trace == <<sequences, groups>>
walk == <<trie, hits>>
perGroup == <<prefix_lens, group_hits>>
distance == <<last_index, u, unique_after, per_request>>
vars == <<trace, pc, i, walk, perGroup, distance, report>>

None == -1
NoReport == <<>>
NoGroups == <<>>

-----------------------------------------------------------------------------
(* The capacity model.                                                     *)

CapacityTokens(host_bytes, bytes_per_token) == host_bytes \div bytes_per_token + 1

SumOver(f, order, n) == SumFunctionOnSet(f, {order[k] : k \in 1..n})

(* The elements of S, each before those it precedes in R.                  *)
InOrder(S, R) ==
  CHOOSE order \in [1..Cardinality(S) -> S] :
    \A j, k \in 1..Cardinality(S) : j < k => <<order[j], order[k]>> \in R

(* sorted() is stable, and the groups are numbered in insertion order.     *)
Larger(f) ==
  {p \in (DOMAIN f) \X (DOMAIN f) : f[p[1]] > f[p[2]] \/ (f[p[1]] = f[p[2]] /\ p[1] < p[2])}

Smaller(f) ==
  {p \in (DOMAIN f) \X (DOMAIN f) : f[p[1]] < f[p[2]] \/ (f[p[1]] = f[p[2]] /\ p[1] < p[2])}

LargestFirst(f) == InOrder(DOMAIN f, Larger(f))

SmallestFirst(f) == InOrder(DOMAIN f, Smaller(f))

\* MUTANT: the prefix that overflows is still counted.
FitPastCapacity(capacity, f) ==
  LET order == SmallestFirst(f)
  IN  Min({Len(order)} \cup {n \in 1..Len(order) : SumOver(f, order, n) > capacity})

(* How many prefixes fit before the first that does not.                   *)
FitGroups(capacity, f) ==
  LET order == SmallestFirst(f)
  IN  Min({Len(order)} \cup {n \in 0..Len(order) - 1 : SumOver(f, order, n + 1) > capacity})

CapacityModel(capacity) ==
  LET n == FitGroups(capacity, prefix_lens)
      smallest == SmallestFirst(prefix_lens)
      largest == LargestFirst(prefix_lens)
  IN  [capacity_tokens |-> capacity,
       groups_fit |-> n,
       prefix_bytes_used |-> SumOver(prefix_lens, smallest, n),
       smallest_hits |-> SumOver(group_hits, smallest, n),
       largest_hits |-> SumOver(group_hits, largest, n),
       largest_selection_bytes |-> SumOver(prefix_lens, largest, n)]

-----------------------------------------------------------------------------

Init ==
  /\ sequences \in Workloads
  /\ groups = NoGroups
  /\ pc = "export"
  /\ i = 1
  /\ trie = {} /\ hits = <<>>
  /\ prefix_lens = <<>> /\ group_hits = <<>>
  /\ last_index = <<>> /\ u = 0 /\ unique_after = <<>> /\ per_request = <<>>
  /\ report = NoReport

(* The tokenizer or the expected total disagree: no trace is written.      *)
ExportRefuses ==
  /\ pc = "export"
  /\ pc' = "raised"
  /\ UNCHANGED <<trace, i, walk, perGroup, distance, report>>

Export ==
  /\ pc = "export"
  /\ \E key_len \in KeyLens : groups' = DeriveGroups(sequences, key_len)
  /\ pc' = "hits"
  /\ UNCHANGED <<sequences, i, walk, perGroup, distance, report>>

\* MUTANT: a sequence is inserted before it is walked.
InsertThenHit ==
  /\ pc = "hits"
  /\ i <= Len(sequences)
  /\ trie' = trie \cup Nodes(sequences[i])
  /\ hits' = Append(hits, Walk(trie', sequences[i]))
  /\ i' = i + 1
  /\ UNCHANGED <<trace, pc, perGroup, distance, report>>

(* One sequence of trie_hits: walk, then insert.                           *)
Hit ==
  /\ pc = "hits"
  /\ i <= Len(sequences)
  /\ hits' = Append(hits, Walk(trie, sequences[i]))
  /\ trie' = trie \cup Nodes(sequences[i])
  /\ i' = i + 1
  /\ UNCHANGED <<trace, pc, perGroup, distance, report>>

GroupHits == [g \in Range(groups) |-> SumFunctionOnSet(hits, Members(groups, g))]

(* ideal_hits / total: a trace without a token has no rate.                *)
NoTokens ==
  /\ pc = "hits"
  /\ i > Len(sequences)
  /\ Total(sequences) = 0
  /\ pc' = "raised"
  /\ UNCHANGED <<trace, i, walk, perGroup, distance, report>>

PerGroup ==
  /\ pc = "hits"
  /\ i > Len(sequences)
  /\ Total(sequences) > 0
  /\ prefix_lens' = GroupPrefixLengths(sequences, groups)
  /\ group_hits' = GroupHits
  /\ last_index' = [g \in Range(groups) |-> None]
  /\ pc' = "gaps"
  /\ i' = 1
  /\ UNCHANGED <<trace, walk, u, unique_after, per_request, report>>

\* MUTANT: the request's own tokens are not between it and the earlier one.
GapTokensBefore(j) == u - unique_after[j]

GapTokens(j) == u + Len(sequences[i]) - hits[i] - unique_after[j]

(* One request of the second loop.                                         *)
Gap ==
  /\ pc = "gaps"
  /\ i <= Len(sequences)
  /\ LET g == groups[i]
         j == last_index[g]
     IN  /\ u' = u + Len(sequences[i]) - hits[i]
         /\ unique_after' = Append(unique_after, u')
         /\ per_request' = Append(per_request,
              [group |-> g,
               ideal_hit_tokens |-> hits[i],
               unique_tokens_after |-> u',
               reuse_gap_tokens |-> IF j = None THEN None ELSE GapTokens(j),
               reuse_gap_requests |-> IF j = None THEN None ELSE i - j - 1])
         /\ last_index' = [last_index EXCEPT ![g] = i]
  /\ i' = i + 1
  /\ UNCHANGED <<trace, pc, walk, perGroup, report>>

(* `if p["reuse_gap_tokens"]` drops a gap of 0 with the missing ones.      *)
Gaps == {k \in DOMAIN per_request : per_request[k].reuse_gap_tokens > 0}

(* min(gaps) of an empty list raises before anything is written.           *)
NoGaps ==
  /\ pc = "gaps"
  /\ i > Len(sequences)
  /\ Gaps = {}
  /\ pc' = "raised"
  /\ UNCHANGED <<trace, i, walk, perGroup, distance, report>>

Write ==
  /\ pc = "gaps"
  /\ i > Len(sequences)
  /\ Gaps # {}
  /\ report' =
       [ideal_hits |-> SumFunction(hits),
        unique_tokens |-> Total(sequences) - SumFunction(hits),
        reuse_events |-> Cardinality(Gaps),
        sweep |-> [b \in HostBytes |->
          [bf16 |-> CapacityModel(CapacityTokens(b, BF16_BYTES_PER_TOKEN)),
           int8 |-> CapacityModel(CapacityTokens(b, INT8_BYTES_PER_TOKEN))]]]
  /\ pc' = "written"
  /\ UNCHANGED <<trace, i, walk, perGroup, distance>>

Next ==
  \/ ExportRefuses \/ Export
  \/ Hit \/ NoTokens \/ PerGroup
  \/ Gap \/ NoGaps \/ Write

Spec == Init /\ [][Next]_vars

-----------------------------------------------------------------------------
(* Properties.                                                             *)

(* trie_hits: "Longest prefix of each sequence already present from an     *)
(* earlier one": no earlier request shares more of it, and one shares that *)
(* much.                                                                   *)
HitIsLongestPrefix ==
  \A k \in DOMAIN hits :
    /\ \A j \in 1..k - 1 : LCP(sequences[j], sequences[k]) <= hits[k]
    /\ hits[k] > 0 => \E j \in 1..k - 1 : LCP(sequences[j], sequences[k]) = hits[k]

(* The prefix of a group is what all of its members share, not just two    *)
(* of them; and "the best possible hit rate is (P-1)/P x prefix share" is   *)
(* what a group of P reaches at least, wherever its requests lie in the     *)
(* trace: all but its first hit the whole prefix.                          *)
SharedPrefixIsCommon ==
  pc = "gaps" =>
    \A g \in DOMAIN prefix_lens :
      LET members == Members(groups, g)
      IN  /\ Cardinality(members) > 1 =>
               prefix_lens[g] = Len(LongestCommonPrefix({sequences[k] : k \in members}))
          /\ group_hits[g] >= (Cardinality(members) - 1) * prefix_lens[g]

(* reuse_gap_tokens is how much the unlimited cache grew from right after  *)
(* the group's last request to right after this one.                       *)
GapIsGrowth ==
  \A k \in DOMAIN per_request :
    LET earlier == {j \in 1..k - 1 : groups[j] = groups[k]}
        growth(j) == Cardinality(TrieAfter(sequences, k)) - Cardinality(TrieAfter(sequences, j))
    IN  per_request[k].reuse_gap_tokens = IF earlier = {} THEN None ELSE growth(Max(earlier))

(* "Maximum number of prefixes that fit: smallest-first is the best case":  *)
(* what is chosen fits, and no larger set of groups does; so a larger pool, *)
(* or the smaller encoding in the same pool, never predicts fewer hits.     *)
FitIsBestCase ==
  report # NoReport =>
    LET models == UNION {Range(report.sweep[b]) : b \in HostBytes}
    IN  /\ \A m \in models :
             /\ m.prefix_bytes_used <= m.capacity_tokens
             /\ \A S \in SUBSET DOMAIN prefix_lens :
                  SumFunctionOnSet(prefix_lens, S) <= m.capacity_tokens
                    => Cardinality(S) <= m.groups_fit
        /\ \A m, n \in models :
             m.capacity_tokens <= n.capacity_tokens =>
               m.smallest_hits <= n.smallest_hits /\ m.largest_hits <= n.largest_hits

=============================================================================
