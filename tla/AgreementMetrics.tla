--------------------------- MODULE AgreementMetrics ---------------------------
(***************************************************************************)
(* compare() of scripts/quality_compare.py: two lists of generations of    *)
(* the same prompts, walked side by side, and the counts from which the    *)
(* agreement figures are computed.  A logprob is abstracted to what a      *)
(* delta must not mix up: the position whose logprob it is.                *)
(***************************************************************************)
EXTENDS Integers, FiniteSets, SequencesExt

CONSTANTS
  PairCount,     \* n: how many prompts have a generation in both lists
  Generations    \* what extract_output_ids and extract_chosen_logprobs may return

NotOutput == 0   \* the logprob is one of the prompt's, not of a generated token

Generation == [token_ids : Seq(Nat), logprobs : Seq(Nat)]

ASSUME AgreementAssumption ==
  /\ PairCount \in Nat
  /\ Generations \subseteq Generation

VARIABLES
  a, b,          \* the two lists
  i,             \* the prompt that comes next
  first_agree, full_agree, token_total, token_match,
  deltas         \* the pairs of logprobs that were subtracted

compareVars == <<a, b, i, first_agree, full_agree, token_total, token_match, deltas>>

Pairs == 1..PairCount

\* extract_chosen_logprobs skips the entries whose logprob is not a number.
Chosen(positions) == SetToSortSeq(positions, <)

CompareInit ==
  /\ a \in [Pairs -> Generations]
  /\ b \in [Pairs -> Generations]
  /\ i = 1
  /\ first_agree = 0 /\ full_agree = 0 /\ token_total = 0 /\ token_match = 0
  /\ deltas = {}

Shorter(x, y) == IF x < y THEN x ELSE y

Longer(x, y) == IF x > y THEN x ELSE y

Overlap(s, t) == 1..Shorter(Len(s), Len(t))

\* The positions at which zip(s, t) finds the same token.
Matches(s, t) == {k \in Overlap(s, t) : s[k] = t[k]}

\* MUTANT: as in an earlier version, every matching position counts.
CommonPositions(s, t) == Overlap(s, t)

(* The positions before the first difference.                              *)
Common(s, t) == {k \in Overlap(s, t) : 1..k \subseteq Matches(s, t)}

\* MUTANT: a generation that stops early is not held against the other.
ShorterTotal(s, t) == Shorter(Len(s), Len(t))

(* What token_match is measured against.                                   *)
Compared(s, t) == Longer(Len(s), Len(t))

CompareNext ==
  LET ta == a[i].token_ids
      tb == b[i].token_ids
      la == a[i].logprobs
      lb == b[i].logprobs
      common == Cardinality(Common(ta, tb))
  IN  /\ i \in Pairs
      /\ i' = i + 1
      /\ first_agree' = first_agree +
           (IF ta # <<>> /\ tb # <<>> /\ ta[1] = tb[1] THEN 1 ELSE 0)
      /\ full_agree' = full_agree + (IF ta = tb THEN 1 ELSE 0)
      /\ token_total' = token_total + Compared(ta, tb)
      /\ token_match' = token_match + Cardinality(Matches(ta, tb))
      /\ deltas' = deltas \cup
           {[prompt |-> i, left |-> la[k], right |-> lb[k]] :
              k \in {n \in Overlap(la, lb) : n <= common}}
      /\ UNCHANGED <<a, b>>

(* A reported agreement, as numerator and denominator: 0 of nothing is 0.  *)
Ratio(part, whole) == IF whole = 0 THEN <<0, 1>> ELSE <<part, whole>>

FullSequenceAgreement == Ratio(full_agree, PairCount)

TokenLevelAgreement == Ratio(token_match, token_total)

CompareSpec == CompareInit /\ [][CompareNext]_compareVars

-----------------------------------------------------------------------------
(* Properties.                                                             *)

Compiled == i > PairCount

\* The figure is printed as 100%.
Perfect(ratio) == ratio[1] = ratio[2]

Complete(g) == g.logprobs = [k \in 1..Len(g.token_ids) |-> k]

(* 100% token-level agreement says the same as 100% full-sequence          *)
(* agreement of generations that hold a token, however the lengths differ. *)
(* Of nothing captured the two say 0% and 100%, which is why main() asks   *)
(* for tokens_compared first.                                              *)
PerfectScoresCoincide ==
  Compiled => (Perfect(TokenLevelAgreement)
                 <=> Perfect(FullSequenceAgreement) /\ token_total > 0)

(* With complete logprobs, a delta subtracts the logprobs of one and the   *)
(* same token, generated by both after the same tokens.                    *)
DeltasCompareTheSameToken ==
  \A d \in deltas :
    Complete(a[d.prompt]) /\ Complete(b[d.prompt]) =>
      /\ d.left = d.right
      /\ \A k \in 1..d.left : a[d.prompt].token_ids[k] = b[d.prompt].token_ids[k]
=============================================================================
