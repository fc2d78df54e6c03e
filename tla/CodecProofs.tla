------------------------------ MODULE CodecProofs ------------------------------
(***************************************************************************)
(* What holds of records for every layout, every geometry and every row of *)
(* BF16 numbers: the slices of a row lie inside it and do not overlap,     *)
(* unpack_records is the inverse of pack_records, and a row that has been  *)
(* quantised is full scale, lossless in its record, within the documented  *)
(* bound of what it was, and changed no further by going again.            *)
(*                                                                         *)
(* The arithmetic comes first: powers of two, rounding to an integer and   *)
(* to BF16.  From it follow the scale of a head (PeakScale), what one      *)
(* element is restored to (BackAndForth), then a head (HeadRoundTrip) and  *)
(* the row (RowStored, RecordIs), and last the theorems about the tiers.   *)
(***************************************************************************)
EXTENDS Codec, NaturalsInduction, WellFoundedInduction, TLAPS

-----------------------------------------------------------------------------
(* Powers of two.                                                          *)

(* Every set of numbers that is not empty has a least.  What follows of    *)
(* powers is shown on the smallest counterexample.                         *)
LEMMA Least ==
  ASSUME NEW T, T \subseteq Nat, T # {}
  PROVE  \E least \in T : \A y \in T : least <= y
<1>1. \E least \in T : \A y \in T : ~ (<<y, least>> \in OpToRel(<, Nat))
  BY NatLessThanWellFounded, WFMin
<1>2. PICK least \in T : \A y \in T : ~ (<<y, least>> \in OpToRel(<, Nat))
  BY <1>1
<1>3. \A y \in T : ~ (y < least)
  <2> TAKE y \in T
  <2>1. y \in Nat /\ least \in Nat
    OBVIOUS
  <2>2. y < least => <<y, least>> \in OpToRel(<, Nat)
    BY <2>1 DEF OpToRel
  <2> QED
    BY <1>2, <2>2
<1>4. \A y \in T : least <= y
  <2> TAKE y \in T
  <2>1. y \in Nat /\ least \in Nat /\ ~ (y < least)
    BY <1>3
  <2> QED
    BY <2>1
<1> QED
  BY <1>4

\* The powers up to the n-th.
Powers(f, n) == f \in [0..n -> Nat] /\ f[0] = 1 /\ \A k \in 0..n - 1 : f[k + 1] = 2 * f[k]

LEMMA PowersExist == \A n \in Nat : \E f : Powers(f, n)
<1> DEFINE T == {n \in Nat : ~ \E f : Powers(f, n)}
<1> SUFFICES ASSUME T # {} PROVE FALSE
  OBVIOUS
<1>1. PICK least \in T : \A y \in T : least <= y
  BY Least
<1>2. Powers([k \in 0..0 |-> 1], 0)
  BY DEF Powers
<1>3. least # 0 /\ least \in Nat
  BY <1>2
<1>4. least - 1 \in Nat /\ least - 1 \notin T
  BY <1>1, <1>3
<1>5. PICK f : Powers(f, least - 1)
  BY <1>4
<1> DEFINE g == [k \in 0..least |-> IF k < least THEN f[k] ELSE 2 * f[least - 1]]
<1>6. Powers(g, least)
  <2>1. g \in [0..least -> Nat]
    BY <1>3, <1>5 DEF Powers
  <2>2. g[0] = 1
    BY <1>3, <1>5 DEF Powers
  <2>3. ASSUME NEW k \in 0..least - 1 PROVE g[k + 1] = 2 * g[k]
    <3>1. CASE k = least - 1
      BY <1>3, <3>1
    <3>2. CASE k < least - 1
      <4>1. k \in 0..(least - 1) - 1 /\ k \in 0..least /\ k + 1 \in 0..least /\ k < least /\ k + 1 < least
        BY <1>3, <3>2
      <4>2. f[k + 1] = 2 * f[k]
        BY <1>5, <4>1 DEF Powers
      <4>3. g[k] = f[k] /\ g[k + 1] = f[k + 1]
        BY <4>1
      <4> QED BY <4>2, <4>3
    <3> QED BY <3>1, <3>2, <1>3
  <2> QED BY <2>1, <2>2, <2>3 DEF Powers
<1> QED BY <1>3, <1>6

(* Two such functions agree where both are defined.                        *)
LEMMA PowersAgree ==
  ASSUME NEW f, NEW g, NEW n \in Nat, NEW m \in Nat, Powers(f, n), Powers(g, m)
  PROVE \A k \in Nat : k <= n /\ k <= m => f[k] = g[k]
<1> DEFINE T == {k \in Nat : k <= n /\ k <= m /\ f[k] # g[k]}
<1> SUFFICES ASSUME T # {} PROVE FALSE
  OBVIOUS
<1>1. PICK least \in T : \A y \in T : least <= y
  BY Least
<1>2. least # 0 /\ least \in Nat /\ least <= n /\ least <= m /\ f[least] # g[least]
  BY DEF Powers
<1>3. f[least - 1] = g[least - 1]
  BY <1>1, <1>2
<1>4. least - 1 \in 0..n - 1 /\ least - 1 \in 0..m - 1 /\ (least - 1) + 1 = least
  BY <1>2
<1>5. f[least] = 2 * f[least - 1] /\ g[least] = 2 * g[least - 1]
  <2>1. f[(least - 1) + 1] = 2 * f[least - 1] /\ g[(least - 1) + 1] = 2 * g[least - 1]
    BY <1>4 DEF Powers
  <2> QED BY <1>4, <2>1
<1> QED BY <1>2, <1>3, <1>5

(* There is a function that satisfies the equation of Pow2.                *)
LEMMA Pow2Is == Pow2 = [n \in Nat |-> IF n = 0 THEN 1 ELSE 2 * Pow2[n - 1]]
<1> DEFINE F(n) == CHOOSE f : Powers(f, n)
           g == [n \in Nat |-> F(n)[n]]
<1>1. \A n \in Nat : Powers(F(n), n)
  BY PowersExist
<1> HIDE DEF F
<1>2. ASSUME NEW n \in Nat PROVE g[n] = IF n = 0 THEN 1 ELSE 2 * g[n - 1]
  <2>1. CASE n = 0
    BY <1>1, <2>1 DEF Powers
  <2>2. CASE n # 0
    <3>1. n - 1 \in Nat /\ g[n] = F(n)[n] /\ g[n - 1] = F(n - 1)[n - 1]
      BY <2>2
    <3>2. F(n)[n - 1] = F(n - 1)[n - 1]
      <4>1. Powers(F(n), n) /\ Powers(F(n - 1), n - 1)
        BY <1>1, <3>1
      <4> QED BY <4>1, <3>1, PowersAgree
    <3>3. F(n)[(n - 1) + 1] = 2 * F(n)[n - 1]
      BY <1>1, <2>2 DEF Powers
    <3> QED BY <2>2, <3>1, <3>2, <3>3
  <2> QED BY <2>1, <2>2
<1>3. g = [n \in Nat |-> IF n = 0 THEN 1 ELSE 2 * g[n - 1]]
  BY <1>2
<1>4. \E h : h = [n \in Nat |-> IF n = 0 THEN 1 ELSE 2 * h[n - 1]]
  BY <1>3
<1> HIDE DEF g
<1> QED BY <1>4, Zenon DEF Pow2

LEMMA Pow2Facts ==
  /\ Pow2[0] = 1
  /\ \A n \in Nat : Pow2[n + 1] = 2 * Pow2[n]
  BY Pow2Is

LEMMA Pow2Typing == \A n \in Nat : Pow2[n] \in Nat \ {0}
<1> DEFINE T == {n \in Nat : Pow2[n] \notin Nat \ {0}}
<1> SUFFICES ASSUME T # {} PROVE FALSE
  OBVIOUS
<1>1. PICK least \in T : \A y \in T : least <= y
  BY Least
<1>2. least # 0 /\ least \in Nat
  BY Pow2Facts
<1>3. Pow2[least - 1] \in Nat \ {0}
  BY <1>1, <1>2
<1>4. Pow2[(least - 1) + 1] = 2 * Pow2[least - 1]
  BY <1>2, Pow2Facts
<1> QED BY <1>2, <1>3, <1>4

-----------------------------------------------------------------------------
(* A record as bytes.                                                      *)

(* Numbers in base d have one digit: how a payload byte finds its element. *)
LEMMA DivMod ==
  ASSUME NEW d \in Nat \ {0}, NEW h \in Nat, NEW i \in 0..d - 1
  PROVE  /\ (h * d + i) \div d = h
         /\ (h * d + i) % d = i
<1> DEFINE n == h * d + i
           q == n \div d
           r == n % d
<1>1. n \in Nat /\ q \in Int /\ r \in 0..d - 1 /\ n = d * q + r
  OBVIOUS
<1>2. ~(q > h)
  <2> SUFFICES ASSUME q > h PROVE FALSE
    OBVIOUS
  <2>1. d * q >= d * (h + 1)
    BY <1>1
  <2> QED
    BY <2>1, <1>1
<1>3. ~(q < h)
  <2> SUFFICES ASSUME q < h PROVE FALSE
    OBVIOUS
  <2>1. d * (q + 1) <= d * h
    BY <1>1
  <2> QED
    BY <2>1, <1>1
<1>4. q = h
  BY <1>1, <1>2, <1>3
<1> QED
  BY <1>1, <1>4

(* Consecutive blocks of d bytes: block h lies in the first m * d bytes.   *)
LEMMA BlockInside ==
  ASSUME NEW d \in Nat \ {0}, NEW m \in Nat, NEW h \in 0..m - 1, NEW i \in 0..d - 1
  PROVE  h * d + i \in 0..m * d - 1
<1>1. h * d + d <= m * d
  <2>1. h + 1 <= m
    OBVIOUS
  <2>2. (h + 1) * d <= m * d
    BY <2>1
  <2> QED
    BY <2>2
<1>2. h * d \in Nat /\ m * d \in Nat
  OBVIOUS
<1> QED
  BY <1>1, <1>2

(* 2 * h and 2 * h + 1 are the two bytes of scale h.                       *)
LEMMA ScaleBytes ==
  ASSUME NEW h \in Nat
  PROVE  /\ (2 * h) \div 2 = h /\ (2 * h) % 2 = 0
         /\ (2 * h + 1) \div 2 = h /\ (2 * h + 1) % 2 = 1
  OBVIOUS

Int8s == {q \in Int : -128 <= q /\ q <= 127}
BitPatterns == {bits \in Nat : bits < 65536}

(* A signed byte survives the view as unsigned bytes.                      *)
LEMMA Int8OfUint8 ==
  ASSUME NEW q \in Int8s
  PROVE  Int8(Uint8(q)) = q
<1>1. q \in Int /\ -128 <= q /\ q <= 127
  BY DEF Int8s
<1>2. CASE q < 0
  <2>1. q % 256 = q + 256
    BY <1>1, <1>2
  <2> QED
    BY <2>1, <1>1, <1>2 DEF Int8, Uint8
<1>3. CASE q >= 0
  <2>1. q % 256 = q
    BY <1>1, <1>3
  <2> QED
    BY <2>1, <1>1, <1>3 DEF Int8, Uint8
<1> QED
  BY <1>1, <1>2, <1>3

(* unpack_records returns what pack_records was given, for every layout    *)
(* that can be constructed and every geometry that it accepts: neither the *)
(* header, the padding, nor a neighbouring head can change a value.        *)
THEOREM PackUnpack ==
  ASSUME layout \in LayoutFields, layout.header_bytes <= layout.padding_bytes,
         head_num \in Nat \ {0}, head_dim \in Nat \ {0},
         ~PackRejects,
         NEW payload \in [Heads(head_num) -> [Dims(head_dim) -> Int8s]],
         NEW scales \in [Heads(head_num) -> BitPatterns]
  PROVE  /\ UnpackPayload(PackRecords(payload, scales)) = payload
         /\ UnpackScales(PackRecords(payload, scales)) = scales
<1> DEFINE bytes == PackRecords(payload, scales)
           po == layout.header_bytes
           so == layout.header_bytes + layout.payload_bytes
<1>1. /\ layout.payload_bytes = head_num * head_dim
      /\ layout.scale_bytes = head_num * 2
  BY DEF PackRejects
<1>2. po \in Nat /\ so \in Nat /\ layout.padding_bytes \in Nat /\ head_num * head_dim \in Nat
  <2>1. layout.header_bytes \in Nat /\ layout.payload_bytes \in Nat /\ layout.padding_bytes \in Nat
    BY DEF LayoutFields
  <2>2. head_num * head_dim \in Nat
    OBVIOUS
  <2> QED
    BY <2>1, <2>2
<1>3. RowBytes(layout) = head_num * head_dim + head_num * 2 + layout.padding_bytes
  BY <1>1 DEF RowBytes
<1>4. ASSUME NEW h \in Heads(head_num), NEW i \in Dims(head_dim)
      PROVE  Int8(bytes[po + h * head_dim + i]) = payload[h][i]
  <2>0. h \in 0..head_num - 1 /\ i \in 0..head_dim - 1 /\ h \in Nat /\ i \in Nat
    BY DEF Heads, Dims
  <2>1. h * head_dim + i \in 0..head_num * head_dim - 1
    BY <2>0, BlockInside
  <2>2. (h * head_dim + i) \div head_dim = h /\ (h * head_dim + i) % head_dim = i
    BY <2>0, DivMod
  <2>3. h * head_dim \in Nat
    BY <2>0
  <2>4. PICK p \in Int : p = h * head_dim + i
    BY <2>0, <2>3
  <2>5. po + h * head_dim + i = po + p
    BY <2>0, <2>3, <2>4, <1>2
  <2>6. p \in 0..head_num * head_dim - 1 /\ p \div head_dim = h /\ p % head_dim = i
    BY <2>1, <2>2, <2>4
  <2>7. bytes[po + p] = Uint8(payload[h][i])
    <3>1. po + p \in 0..RowBytes(layout) - 1
      BY <2>6, <1>2, <1>3
    <3>2. (po + p) - so < 0 /\ (po + p) - po = p
      <4>1. p < layout.payload_bytes /\ layout.payload_bytes \in Nat
        BY <2>6, <1>1, <1>2
      <4> QED
        BY <4>1, <2>4, <1>2
    <3> QED
      BY <2>6, <3>1, <3>2, <1>1, SMTT(30) DEF PackRecords, PayloadOffset, ScaleOffset
  <2>8. payload[h][i] \in Int8s
    OBVIOUS
  <2>9. Int8(Uint8(payload[h][i])) = payload[h][i]
    BY <2>8, Int8OfUint8
  <2> QED
    BY <2>5, <2>7, <2>9
<1>5. ASSUME NEW h \in Heads(head_num)
      PROVE  bytes[so + 2 * h] + 256 * bytes[so + 2 * h + 1] = scales[h]
  <2>1. 2 * h \in 0..2 * head_num - 1 /\ 2 * h + 1 \in 0..2 * head_num - 1 /\ h \in Nat
    BY DEF Heads
  <2>2. PICK a \in Int : a = so + 2 * h
    BY <2>1, <1>2
  <2>3. so + 2 * h + 1 = a + 1
    BY <2>1, <2>2, <1>2
  <2>4. a \in 0..RowBytes(layout) - 1 /\ a + 1 \in 0..RowBytes(layout) - 1
    BY <2>1, <2>2, <1>1, <1>2, <1>3
  <2>5. a - so = 2 * h /\ (a + 1) - so = 2 * h + 1
    BY <2>1, <2>2, <1>2
  <2>6. bytes[a] = scales[h] % 256
    <3>1. (2 * h) \div 2 = h /\ (2 * h) % 2 = 0
      BY <2>1, ScaleBytes
    <3> QED
      BY <2>1, <2>4, <2>5, <3>1 DEF PackRecords, PayloadOffset, ScaleOffset
  <2>7. bytes[a + 1] = scales[h] \div 256
    <3>1. (2 * h + 1) \div 2 = h /\ (2 * h + 1) % 2 = 1
      BY <2>1, ScaleBytes
    <3> QED
      BY <2>1, <2>4, <2>5, <3>1 DEF PackRecords, PayloadOffset, ScaleOffset
  <2>8. scales[h] \in Nat
    BY DEF BitPatterns
  <2>9. (scales[h] % 256) + 256 * (scales[h] \div 256) = scales[h]
    BY <2>8
  <2> QED
    BY <2>2, <2>3, <2>6, <2>7, <2>9
<1>6. UnpackPayload(bytes) = [h \in Heads(head_num) |-> [i \in Dims(head_dim) |-> payload[h][i]]]
  BY <1>4 DEF UnpackPayload, PayloadOffset
<1>7. UnpackScales(bytes) = [h \in Heads(head_num) |-> scales[h]]
  BY <1>5 DEF UnpackScales, ScaleOffset
<1>8. payload = [h \in Heads(head_num) |-> [i \in Dims(head_dim) |-> payload[h][i]]]
  OBVIOUS
<1>9. scales = [h \in Heads(head_num) |-> scales[h]]
  OBVIOUS
<1> QED
  BY <1>6, <1>7, <1>8, <1>9

-----------------------------------------------------------------------------
(* The slices of a row that check_against accepts for BF16 heads lie       *)
(* behind the header and inside the row, and no two of them overlap.       *)
THEOREM SlicesDisjoint ==
  ASSUME NEW l, Constructible(l),
         NEW n \in Nat \ {0}, NEW d \in Nat \ {0}, CheckAgainst(l, n, d, 2),
         NEW g \in Heads(n), NEW h \in Heads(n)
  PROVE  /\ PayloadSlice(l, g, d) \cup ScaleSlice(l, g) \subseteq l.header_bytes..RowBytes(l) - 1
         /\ PayloadSlice(l, g, d) \cap ScaleSlice(l, h) = {}
         /\ g # h => /\ PayloadSlice(l, g, d) \cap PayloadSlice(l, h, d) = {}
                    /\ ScaleSlice(l, g) \cap ScaleSlice(l, h) = {}
<1> DEFINE hd == l.header_bytes
           pb == l.payload_bytes
<1>1. hd \in Nat /\ pb \in Nat /\ l.padding_bytes \in Nat /\ hd <= l.padding_bytes
  BY DEF Constructible, LayoutFields
<1>2. n * d \in Nat /\ pb = n * d /\ l.scale_bytes = n * 2
  <2>1. n * d \in Nat
    OBVIOUS
  <2>2. (n * d * 2) \div 2 = n * d
    BY <2>1
  <2> QED
    BY <2>1, <2>2 DEF CheckAgainst
<1>3. RowBytes(l) = pb + n * 2 + l.padding_bytes
  BY <1>2 DEF RowBytes
<1>4. ASSUME NEW k \in Heads(n)
      PROVE  /\ k \in Nat /\ k * d \in Nat /\ k * d + d <= pb /\ k * 2 + 2 <= n * 2
             /\ PayloadSlice(l, k, d) = (hd + k * d)..((hd + k * d + d) - 1)
             /\ ScaleSlice(l, k) = (hd + pb + k * 2)..(hd + pb + k * 2 + 1)
  <2>1. k \in Nat /\ k + 1 <= n
    BY DEF Heads
  <2>2. k * d \in Nat
    BY <2>1
  <2>3. (k + 1) * d <= n * d /\ (k + 1) * d = k * d + d
    BY <2>1
  <2>4. PayloadSlice(l, k, d) = (hd + k * d)..((hd + k * d + d) - 1)
    BY DEF PayloadSlice, PayloadOffset, Bytes
  <2>5. ScaleSlice(l, k) = (hd + pb + k * 2)..((hd + pb + k * 2 + 2) - 1)
    BY DEF ScaleSlice, ScaleOffset, Bytes
  <2>6. ScaleSlice(l, k) = (hd + pb + k * 2)..(hd + pb + k * 2 + 1)
    <3>1. (hd + pb + k * 2 + 2) - 1 = hd + pb + k * 2 + 1
      BY <2>1, <1>1
    <3> QED
      BY <2>5, <3>1
  <2> QED
    BY <2>1, <2>2, <2>3, <2>4, <2>6, <1>2
<1>5. ASSUME NEW j \in Heads(n), NEW k \in Heads(n), j < k
      PROVE  j * d + d <= k * d
  <2>1. j \in Nat /\ k \in Nat /\ j + 1 <= k
    BY <1>5 DEF Heads
  <2> QED
    BY <2>1
<1> HIDE DEF hd, pb
<1>6. PayloadSlice(l, g, d) \cup ScaleSlice(l, g) \subseteq hd..RowBytes(l) - 1
  <2>1. PICK a \in Nat : a = g * d
    BY <1>4
  <2>2. a + d <= pb
    BY <2>1, <1>4
  <2>3. (hd + a)..((hd + a + d) - 1) \subseteq hd..RowBytes(l) - 1
    BY <2>2, <1>1, <1>3
  <2>4. (hd + pb + g * 2)..(hd + pb + g * 2 + 1) \subseteq hd..RowBytes(l) - 1
    <3>1. g \in Nat /\ g * 2 + 2 <= n * 2
      BY <1>4
    <3>2. PICK s \in Int : s = g * 2
      BY <3>1
    <3> QED
      BY <3>1, <3>2, <1>1, <1>3
  <2> QED
    BY <2>1, <2>3, <2>4, <1>4
<1>7. PayloadSlice(l, g, d) \cap ScaleSlice(l, h) = {}
  <2>1. PICK a \in Nat : a = g * d
    BY <1>4
  <2>2. a + d <= pb
    BY <2>1, <1>4
  <2>3. ((hd + a)..((hd + a + d) - 1)) \cap ((hd + pb + h * 2)..(hd + pb + h * 2 + 1)) = {}
    <3>1. PICK s \in Nat : s = h * 2
      BY <1>4
    <3> QED
      BY <2>2, <3>1, <1>1
  <2> QED
    BY <2>1, <2>3, <1>4
<1>8. ASSUME NEW j \in Heads(n), NEW k \in Heads(n), j < k
      PROVE  /\ PayloadSlice(l, j, d) \cap PayloadSlice(l, k, d) = {}
             /\ ScaleSlice(l, j) \cap ScaleSlice(l, k) = {}
  <2>1. PICK a \in Nat, b \in Nat : a = j * d /\ b = k * d
    BY <1>4
  <2>2. a + d <= b
    BY <2>1, <1>5, <1>8
  <2>3. ((hd + a)..((hd + a + d) - 1)) \cap ((hd + b)..((hd + b + d) - 1)) = {}
    BY <2>2, <1>1
  <2>4. ((hd + pb + j * 2)..(hd + pb + j * 2 + 1)) \cap ((hd + pb + k * 2)..(hd + pb + k * 2 + 1)) = {}
    <3>0. j \in Nat /\ k \in Nat
      BY <1>4
    <3>1. PICK s \in Nat, t \in Nat : s = j * 2 /\ t = k * 2
      BY <3>0
    <3>2. s + 2 <= t
      BY <3>0, <3>1, <1>8
    <3> QED
      BY <3>1, <3>2, <1>1
  <2> QED
    BY <2>1, <2>3, <2>4, <1>4
<1>9. g # h => g < h \/ h < g
  BY DEF Heads
<1>10. g < h => /\ PayloadSlice(l, g, d) \cap PayloadSlice(l, h, d) = {}
                /\ ScaleSlice(l, g) \cap ScaleSlice(l, h) = {}
  BY <1>8
<1>11. h < g => /\ PayloadSlice(l, g, d) \cap PayloadSlice(l, h, d) = {}
                /\ ScaleSlice(l, g) \cap ScaleSlice(l, h) = {}
  BY <1>8
<1> QED
  BY <1>6, <1>7, <1>9, <1>10, <1>11 DEF hd

-----------------------------------------------------------------------------
(* Rounding to an integer.                                                 *)

(* Quotient and remainder.                                                 *)
LEMMA WholeAndRest ==
  ASSUME NEW num \in Nat, NEW den \in Nat \ {0}
  PROVE  /\ num \div den \in Nat /\ num % den \in 0..den - 1
         /\ num = (num \div den) * den + (num % den)
<1> DEFINE q == num \div den
<1>1. q \in Int /\ num % den \in 0..den - 1 /\ num = q * den + (num % den)
  BY SMTT(30)
<1>2. q \in Nat
  <2>1. CASE q < 0
    <3>1. (-q - 1) * den >= 0
      BY <1>1, <2>1
    <3>2. q * den <= -den
      BY <1>1, <3>1
    <3> QED BY <1>1, <3>2
  <2> QED BY <1>1, <2>1
<1> QED BY <1>1, <1>2

(* torch.round is off by half at most.                                     *)
LEMMA HalfOff ==
  ASSUME NEW num \in Nat, NEW den \in Nat \ {0}
  PROVE  /\ RoundHalfEven(num, den) \in Nat
         /\ 2 * (RoundHalfEven(num, den) * den) <= 2 * num + den
         /\ 2 * num <= 2 * (RoundHalfEven(num, den) * den) + den
<1> DEFINE w == num \div den
           t == num % den
<1>1. w \in Nat /\ t \in 0..den - 1 /\ num = w * den + t
  BY WholeAndRest
<1>2. RoundHalfEven(num, den) = IF 2 * t > den \/ (2 * t = den /\ w % 2 = 1) THEN w + 1 ELSE w
  BY DEF RoundHalfEven
<1> HIDE DEF w, t
<1>3. (w + 1) * den = w * den + den /\ w * den \in Nat
  BY <1>1
<1>4. CASE RoundHalfEven(num, den) = w + 1 /\ 2 * t >= den
  BY <1>1, <1>3, <1>4
<1>5. CASE RoundHalfEven(num, den) = w /\ 2 * t <= den
  BY <1>1, <1>3, <1>5
<1> QED BY <1>1, <1>2, <1>4, <1>5

(* Two integers are both nearest only if they are one.                     *)
LEMMA Apart ==
  ASSUME NEW a \in Int, NEW b \in Int, NEW den \in Nat \ {0}, a < b
  PROVE  a * den + den <= b * den
<1>1. b - a - 1 \in Nat
  OBVIOUS
<1>2. (b - a - 1) * den >= 0
  BY <1>1
<1>3. (b - a - 1) * den = b * den - a * den - den
  OBVIOUS
<1> QED BY <1>2, <1>3

(* An integer less than half away is the one that is rounded to.           *)
LEMMA Nearest ==
  ASSUME NEW num \in Nat, NEW den \in Nat \ {0}, NEW r \in Nat,
         2 * (r * den) < 2 * num + den, 2 * num < 2 * (r * den) + den
  PROVE  RoundHalfEven(num, den) = r
<1> DEFINE q == RoundHalfEven(num, den)
<1>1. q \in Nat /\ 2 * (q * den) <= 2 * num + den /\ 2 * num <= 2 * (q * den) + den
  BY HalfOff
<1> HIDE DEF q
<1>2. r * den \in Nat /\ q * den \in Nat
  BY <1>1
<1>3. ~(q < r)
  <2> SUFFICES ASSUME q < r PROVE FALSE
    OBVIOUS
  <2>1. q * den + den <= r * den
    BY <1>1, Apart
  <2> QED BY <1>1, <1>2, <2>1
<1>4. ~(r < q)
  <2> SUFFICES ASSUME r < q PROVE FALSE
    OBVIOUS
  <2>1. r * den + den <= q * den
    BY <1>1, Apart
  <2> QED BY <1>1, <1>2, <2>1
<1>5. q = r
  BY <1>1, <1>3, <1>4
<1> QED BY <1>5 DEF q

(* A larger number is not rounded to a smaller one.                        *)
LEMMA RoundsUpward ==
  ASSUME NEW a \in Nat, NEW b \in Nat, NEW den \in Nat \ {0}, a <= b
  PROVE  RoundHalfEven(a, den) <= RoundHalfEven(b, den)
<1> DEFINE q == RoundHalfEven(a, den)
           r == RoundHalfEven(b, den)
<1> SUFFICES ASSUME q > r PROVE FALSE
  BY HalfOff
<1>1. q \in Nat /\ 2 * (q * den) <= 2 * a + den
  BY HalfOff
<1>2. r \in Nat /\ 2 * b <= 2 * (r * den) + den
  BY HalfOff
<1>3. a # b
  BY <1>1, <1>2
<1> HIDE DEF q, r
<1>4. r * den + den <= q * den
  BY <1>1, <1>2, Apart
<1>5. r * den \in Nat /\ q * den \in Nat
  BY <1>1, <1>2
<1> QED BY <1>1, <1>2, <1>3, <1>4, <1>5

-----------------------------------------------------------------------------
(* Rounding to BF16.                                                       *)

(* The powers grow at least twofold.                                       *)
LEMMA Pow2Grows ==
  ASSUME NEW a \in Nat, NEW b \in Nat, a < b
  PROVE  2 * Pow2[a] <= Pow2[b]
<1> DEFINE T == {n \in Nat : a < n /\ ~(2 * Pow2[a] <= Pow2[n])}
<1> SUFFICES ASSUME T # {} PROVE FALSE
  OBVIOUS
<1>1. PICK n \in T : \A m \in T : n <= m
  BY Least
<1>2. n \in Nat /\ a < n /\ n - 1 \in Nat /\ ~(2 * Pow2[a] <= Pow2[n])
  OBVIOUS
<1>3. Pow2[(n - 1) + 1] = 2 * Pow2[n - 1] /\ (n - 1) + 1 = n
  BY <1>2, Pow2Facts
<1>4. Pow2[a] \in Nat \ {0} /\ Pow2[n - 1] \in Nat \ {0}
  BY <1>2, Pow2Typing
<1>5. n - 1 # a
  BY <1>2, <1>3, <1>4
<1>6. n - 1 \notin T
  BY <1>1, <1>2
<1>7. 2 * Pow2[a] <= Pow2[n - 1]
  BY <1>2, <1>5, <1>6
<1> QED BY <1>2, <1>3, <1>4, <1>7

\* num / den is a number of exponent e.
InBinade(num, den, e) == 128 * Pow2[e] * den <= num /\ num < 256 * Pow2[e] * den

Exponents == 0..MaxExponent

LEMMA MaxExponentIs == MaxExponent \in Nat /\ MaxExponent >= 9 /\ MaxExponent <= 247
BY ExponentAssumption

(* A number lies between one pair of powers only.                          *)
LEMMA BinadesApart ==
  ASSUME NEW num \in Nat, NEW den \in Nat \ {0}, NEW e \in Nat, NEW f \in Nat,
         InBinade(num, den, e), InBinade(num, den, f)
  PROVE  e = f
<1>1. ASSUME NEW a \in Nat, NEW b \in Nat, a < b, InBinade(num, den, a), InBinade(num, den, b)
      PROVE  FALSE
  <2> DEFINE p == Pow2[a]
             r == Pow2[b]
  <2>1. p \in Nat /\ r \in Nat /\ 2 * p <= r
    BY <1>1, Pow2Grows, Pow2Typing
  <2>2. 128 * r * den <= num /\ num < 256 * p * den
    BY <1>1 DEF InBinade
  <2> HIDE DEF p, r
  <2>3. 128 * r * den = 128 * (r * den) /\ 256 * p * den = 256 * (p * den)
        /\ r * den \in Nat /\ p * den \in Nat
    BY <2>1
  <2>4. (r - 2 * p) * den >= 0 /\ (r - 2 * p) * den = r * den - 2 * (p * den)
    BY <2>1
  <2> QED BY <2>2, <2>3, <2>4
<1> QED BY <1>1

(* The exponent that Bf16Exponent chooses is the one there is.             *)
LEMMA ExponentIs ==
  ASSUME NEW num \in Nat, NEW den \in Nat \ {0}, NEW e \in Exponents, InBinade(num, den, e)
  PROVE  Bf16Exponent(num, den) = e
<1>1. \A f \in Exponents : f \in Nat
  BY MaxExponentIs DEF Exponents
<1>2. \A f \in Exponents : InBinade(num, den, f) => f = e
  BY <1>1, BinadesApart
<1>3. Bf16Exponent(num, den) = CHOOSE f \in Exponents : InBinade(num, den, f)
  BY DEF Bf16Exponent, InBinade, Exponents
<1> QED BY <1>2, <1>3

\* There is a BF16 number next to num / den.
InRange(num, den) == 128 * den <= num /\ num < 256 * Pow2[MaxExponent] * den

(* A number in range has an exponent.                                      *)
LEMMA ExponentExists ==
  ASSUME NEW num \in Nat, NEW den \in Nat \ {0}, InRange(num, den)
  PROVE  /\ Bf16Exponent(num, den) \in Exponents
         /\ InBinade(num, den, Bf16Exponent(num, den))
<1> DEFINE T == {e \in Nat : num < 256 * Pow2[e] * den}
<1>1. MaxExponent \in T
  BY MaxExponentIs DEF InRange
<1>2. PICK e \in T : \A f \in T : e <= f
  <2>1. T \subseteq Nat /\ T # {}
    BY <1>1
  <2> HIDE DEF T
  <2> QED BY <2>1, Least
<1>3. e \in Exponents /\ e \in Nat
  BY <1>1, <1>2, MaxExponentIs DEF Exponents
<1>4. 128 * Pow2[e] * den <= num
  <2>1. CASE e = 0
    BY <2>1, Pow2Facts DEF InRange
  <2>2. CASE e # 0
    <3>1. e - 1 \in Nat /\ e - 1 \notin T
      BY <1>2, <1>3, <2>2
    <3>2. Pow2[(e - 1) + 1] = 2 * Pow2[e - 1] /\ (e - 1) + 1 = e /\ Pow2[e - 1] \in Nat
      BY <3>1, <1>3, Pow2Facts, Pow2Typing
    <3> DEFINE p == Pow2[e - 1]
    <3>3. ~(num < 256 * p * den)
      BY <3>1
    <3>4. p \in Nat /\ Pow2[e] = 2 * p
      BY <3>2
    <3> HIDE DEF p
    <3>5. 128 * (2 * p) * den = 256 * p * den /\ 256 * p * den \in Nat
      BY <3>4
    <3> QED BY <3>3, <3>4, <3>5
  <2> QED BY <2>1, <2>2
<1>5. InBinade(num, den, e)
  BY <1>2, <1>4 DEF InBinade
<1>6. Bf16Exponent(num, den) = e
  BY <1>3, <1>5, ExponentIs
<1> QED BY <1>3, <1>5, <1>6

(* What Bf16Round computes, and what a bit pattern stands for.             *)
LEMMA PatternValue ==
  ASSUME NEW e \in Exponents, NEW r \in 128..256
  PROVE  /\ 128 * (e + 6) + r \in BitPatterns
         /\ Bf16Value(128 * (e + 6) + r) = r * Pow2[e]
<1> DEFINE b == 128 * (e + 6) + r
<1>1. e \in Nat /\ e <= 247 /\ r \in Nat
  BY MaxExponentIs DEF Exponents
<1>2. b \in BitPatterns
  BY <1>1 DEF BitPatterns
<1>3. CASE r < 256
  <2>1. b % 128 = r - 128 /\ b \div 128 - 7 = e
    BY <1>1, <1>3
  <2>2. Bf16Value(b) = (128 + (r - 128)) * Pow2[e]
    BY <2>1 DEF Bf16Value
  <2>3. 128 + (r - 128) = r
    BY <1>1
  <2> QED BY <1>2, <2>2, <2>3
<1>4. CASE r = 256
  <2>1. b % 128 = 0 /\ b \div 128 - 7 = e + 1
    BY <1>1, <1>4
  <2>2. Bf16Value(b) = (128 + 0) * Pow2[e + 1]
    BY <2>1 DEF Bf16Value
  <2>3. Pow2[e + 1] = 2 * Pow2[e] /\ Pow2[e] \in Nat
    BY <1>1, Pow2Facts, Pow2Typing
  <2> QED BY <1>2, <1>4, <2>2, <2>3
<1> QED BY <1>3, <1>4, <1>1

(* The pattern of the nearest BF16 number, and its value.                  *)
LEMMA Rounded ==
  ASSUME NEW num \in Nat, NEW den \in Nat \ {0}, NEW e \in Exponents, InBinade(num, den, e)
  PROVE  LET d == Pow2[e] * den
             r == RoundHalfEven(num, d)
             b == Bf16Round(num, den)
         IN  /\ d \in Nat \ {0}
             /\ r \in 128..256
             /\ b = 128 * (e + 6) + r /\ b \in BitPatterns
             /\ Bf16Value(b) = r * Pow2[e]
<1> DEFINE d == Pow2[e] * den
           r == RoundHalfEven(num, d)
<1>1. e \in Nat /\ Pow2[e] \in Nat \ {0}
  BY MaxExponentIs, Pow2Typing DEF Exponents
<1>2. d \in Nat \ {0}
  BY <1>1
<1>3. 128 * d <= num /\ num < 256 * d
  BY <1>1 DEF InBinade
<1>4. Bf16Round(num, den) = 128 * (e + 6) + r
  BY ExponentIs DEF Bf16Round
<1> HIDE DEF d
<1>5. r \in Nat /\ 2 * (r * d) <= 2 * num + d /\ 2 * num <= 2 * (r * d) + d
  BY <1>2, HalfOff
<1> HIDE DEF r
<1>6. ~(r < 128)
  <2> SUFFICES ASSUME r < 128 PROVE FALSE
    OBVIOUS
  <2>1. r * d + d <= 128 * d
    BY <1>2, <1>5, Apart
  <2> QED BY <1>2, <1>3, <1>5, <2>1
<1>7. ~(256 < r)
  <2> SUFFICES ASSUME 256 < r PROVE FALSE
    OBVIOUS
  <2>1. 256 * d + d <= r * d
    BY <1>2, <1>5, Apart
  <2> QED BY <1>2, <1>3, <1>5, <2>1
<1>8. r \in 128..256
  BY <1>5, <1>6, <1>7
<1> QED BY <1>2, <1>4, <1>8, PatternValue DEF d, r

\* Half the distance of BF16 numbers next to b is at most b / 256.
LEMMA HalfUlp ==
  ASSUME NEW n \in Nat, InRange(n, 1)
  PROVE  /\ Bf16Round(n, 1) \in BitPatterns
         /\ \E p \in Nat \ {0} :
              /\ Bf16Value(Bf16Round(n, 1)) \in Nat
              /\ 2 * Bf16Value(Bf16Round(n, 1)) <= 2 * n + p
              /\ 2 * n <= 2 * Bf16Value(Bf16Round(n, 1)) + p
              /\ 128 * p <= n /\ 128 * p <= Bf16Value(Bf16Round(n, 1))
<1>1. PICK e \in Exponents : InBinade(n, 1, e)
  BY ExponentExists
<1> DEFINE p == Pow2[e]
           r == RoundHalfEven(n, p * 1)
<1>2. p \in Nat \ {0} /\ p * 1 = p
  BY MaxExponentIs, Pow2Typing DEF Exponents
<1>3. r \in 128..256 /\ Bf16Round(n, 1) \in BitPatterns /\ Bf16Value(Bf16Round(n, 1)) = r * p
  BY <1>1, Rounded
<1>4. 2 * (r * p) <= 2 * n + p /\ 2 * n <= 2 * (r * p) + p
  BY <1>2, HalfOff
<1>5. 128 * p <= n
  BY <1>1, <1>2 DEF InBinade
<1> HIDE DEF p, r
<1>6. r * p \in Nat /\ 128 * p <= r * p
  <2>1. r - 128 \in Nat /\ (r - 128) * p >= 0 /\ (r - 128) * p = r * p - 128 * p
    BY <1>2, <1>3
  <2> QED BY <1>2, <1>3, <2>1
<1> QED BY <1>2, <1>3, <1>4, <1>5, <1>6

\* A larger number is not rounded to a smaller one.
LEMMA Bf16Upward ==
  ASSUME NEW a \in Nat, NEW b \in Nat, a <= b, InRange(a, 1), InRange(b, 1)
  PROVE  Bf16Value(Bf16Round(a, 1)) <= Bf16Value(Bf16Round(b, 1))
<1>1. PICK e \in Exponents : InBinade(a, 1, e)
  BY ExponentExists
<1>2. PICK f \in Exponents : InBinade(b, 1, f)
  BY ExponentExists
<1>3. e \in Nat /\ f \in Nat
  BY MaxExponentIs DEF Exponents
<1> DEFINE p == Pow2[e]
           t == Pow2[f]
           q == RoundHalfEven(a, p * 1)
           r == RoundHalfEven(b, t * 1)
<1>4. p \in Nat \ {0} /\ t \in Nat \ {0} /\ p * 1 = p /\ t * 1 = t
  BY <1>3, Pow2Typing
<1>5. q \in 128..256 /\ Bf16Value(Bf16Round(a, 1)) = q * p
  BY <1>1, Rounded
<1>6. r \in 128..256 /\ Bf16Value(Bf16Round(b, 1)) = r * t
  BY <1>2, Rounded
<1>7. 128 * p <= a /\ a < 256 * p /\ 128 * t <= b /\ b < 256 * t
  BY <1>1, <1>2, <1>4 DEF InBinade
<1>8. CASE e = f
  <2>1. q <= r
    BY <1>4, <1>8, RoundsUpward
  <2> HIDE DEF p, q, r
  <2>2. (r - q) * p >= 0 /\ (r - q) * p = r * p - q * p
    BY <1>4, <1>5, <1>6, <2>1
  <2>3. p = t
    BY <1>8 DEF p
  <2> HIDE DEF t
  <2> QED BY <1>4, <1>5, <1>6, <2>2, <2>3
<1>9. CASE e < f
  <2>1. 2 * p <= t
    BY <1>3, <1>9, Pow2Grows
  <2> HIDE DEF p, q, r, t
  <2>2. (256 - q) * p >= 0 /\ (256 - q) * p = 256 * p - q * p
    BY <1>4, <1>5
  <2>3. (r - 128) * t >= 0 /\ (r - 128) * t = r * t - 128 * t
    BY <1>4, <1>6
  <2> QED BY <1>4, <1>5, <1>6, <2>1, <2>2, <2>3
<1>10. ~(f < e)
  <2> SUFFICES ASSUME f < e PROVE FALSE
    OBVIOUS
  <2>1. 2 * t <= p
    BY <1>3, Pow2Grows
  <2> HIDE DEF p, t
  <2> QED BY <1>4, <1>7, <2>1
<1> QED BY <1>3, <1>8, <1>9, <1>10

-----------------------------------------------------------------------------
(* The scale of a head.  An absmax of 128 A p, for a significand A and a   *)
(* power p, has the scale (A + 1) p or (A + 2) p, since 128 / 127 of A is  *)
(* that nearly; 255 alone carries over.                                    *)

Significand == 128..255
ScaleOf(a) == IF a <= 190 THEN a + 1 ELSE IF a <= 254 THEN a + 2 ELSE 258

Peak(a, k) == 128 * a * Pow2[k]

(* The scale of a peak: for 127ths of 128 * a * p the significand is       *)
(* a + 1 or a + 2, and 255 shares the scale of the next power of two.      *)
LEMMA PeakScale ==
  ASSUME NEW a \in Significand, NEW k \in Nat, k + 1 \in Exponents
  PROVE  /\ Bf16Round(Peak(a, k), 127) \in BitPatterns
         /\ Bf16Value(Bf16Round(Peak(a, k), 127)) = ScaleOf(a) * Pow2[k]
         /\ a = 255 => Bf16Round(Peak(a, k), 127) = Bf16Round(Peak(128, k + 1), 127)
<1> DEFINE p == Pow2[k]
           c == ScaleOf(a)
           n == 128 * a * p
<1>1. /\ p \in Nat \ {0} /\ Pow2[k + 1] = 2 * p
      /\ k \in Exponents /\ a \in Nat /\ a >= 128 /\ a <= 255
      /\ Peak(a, k) = n /\ n \in Nat
  BY MaxExponentIs, Pow2Typing, Pow2Facts DEF Exponents, Significand, Peak
<1>2. ASSUME a <= 253
      PROVE  Bf16Round(n, 127) \in BitPatterns /\ Bf16Value(Bf16Round(n, 127)) = c * p
  <2>1. InBinade(n, 127, k)
    <3> HIDE DEF p
    <3>1. 128 * p * 127 = 16256 * p /\ 256 * p * 127 = 32512 * p /\ 128 * a * p = (128 * a) * p
      BY <1>1
    <3>2. 16256 * p <= (128 * a) * p
      <4>1. (128 * a - 16256) * p >= 0 /\ (128 * a - 16256) * p = (128 * a) * p - 16256 * p
        BY <1>1
      <4> QED BY <4>1, <1>1
    <3>3. (128 * a) * p < 32512 * p
      <4>1. (32512 - 128 * a) * p > 0 /\ (32512 - 128 * a) * p = 32512 * p - (128 * a) * p
        BY <1>1, <1>2
      <4> QED BY <4>1, <1>1
    <3> QED BY <3>1, <3>2, <3>3 DEF InBinade, p
  <2>2. RoundHalfEven(n, p * 127) = c
    <3> HIDE DEF p
    <3>1. c \in Nat /\ p * 127 \in Nat \ {0} /\ n \in Nat
      BY <1>1 DEF ScaleOf
    <3>2. c * (p * 127) = (127 * c) * p /\ p * 127 = 127 * p /\ n = (128 * a) * p
      BY <1>1, <3>1
    <3>3. 2 * (127 * c) - 2 * (128 * a) < 127 /\ 2 * (128 * a) - 2 * (127 * c) < 127
      BY <1>1, <1>2 DEF ScaleOf
    <3>4. /\ (127 - (2 * (127 * c) - 2 * (128 * a))) * p > 0
          /\ (127 - (2 * (128 * a) - 2 * (127 * c))) * p > 0
      <4> DEFINE u == 127 - (2 * (127 * c) - 2 * (128 * a))
                 v == 127 - (2 * (128 * a) - 2 * (127 * c))
      <4>1. u \in Nat \ {0} /\ v \in Nat \ {0}
        BY <1>1, <3>1, <3>3
      <4> HIDE DEF u, v
      <4>2. u * p > 0 /\ v * p > 0
        BY <4>1, <1>1
      <4> QED BY <4>2 DEF u, v
    <3>5. /\ (127 - (2 * (127 * c) - 2 * (128 * a))) * p
               = 127 * p - 2 * ((127 * c) * p) + 2 * ((128 * a) * p)
          /\ (127 - (2 * (128 * a) - 2 * (127 * c))) * p
               = 127 * p - 2 * ((128 * a) * p) + 2 * ((127 * c) * p)
      BY <1>1, <3>1
    <3>6. (127 * c) * p \in Nat /\ (128 * a) * p \in Nat
      BY <1>1, <3>1
    <3>7. /\ 2 * (c * (p * 127)) < 2 * n + p * 127
          /\ 2 * n < 2 * (c * (p * 127)) + p * 127
      BY <1>1, <3>2, <3>4, <3>5, <3>6
    <3> HIDE DEF c, n
    <3> QED BY <3>1, <3>7, Nearest
  <2>3. Bf16Round(n, 127) \in BitPatterns
        /\ Bf16Value(Bf16Round(n, 127)) = RoundHalfEven(n, p * 127) * p
    BY <1>1, <2>1, Rounded
  <2> QED BY <2>2, <2>3
<1>3. ASSUME a >= 254
      PROVE  /\ Bf16Round(n, 127) \in BitPatterns
             /\ Bf16Round(n, 127) = 128 * ((k + 1) + 6) + (IF a = 254 THEN 128 ELSE 129)
             /\ Bf16Value(Bf16Round(n, 127)) = c * p
  <2> DEFINE t == Pow2[k + 1]
             r == IF a = 254 THEN 128 ELSE 129
  <2>1. t = 2 * p /\ t \in Nat \ {0} /\ a \in {254, 255} /\ r \in Nat
    BY <1>1, <1>3
  <2>2. InBinade(n, 127, k + 1)
    <3> HIDE DEF p
    <3>1. 128 * (2 * p) * 127 = 32512 * p /\ 256 * (2 * p) * 127 = 65024 * p
      BY <1>1
    <3>2. n = 32512 * p \/ n = 32640 * p
      BY <1>1, <2>1
    <3> QED BY <1>1, <2>1, <3>1, <3>2 DEF InBinade
  <2>3. RoundHalfEven(n, t * 127) = r
    <3> HIDE DEF p, t
    <3>1. t * 127 = 254 * p /\ t * 127 \in Nat \ {0}
      BY <1>1, <2>1
    <3>2. CASE a = 254
      <4>1. n = 32512 * p /\ r * (t * 127) = 32512 * p
        BY <1>1, <3>1, <3>2
      <4> HIDE DEF r, n
      <4>2. 2 * (r * (t * 127)) < 2 * n + t * 127 /\ 2 * n < 2 * (r * (t * 127)) + t * 127
        BY <1>1, <3>1, <4>1
      <4> QED BY <1>1, <2>1, <3>1, <4>2, Nearest
    <3>3. CASE a = 255
      <4>1. n = 32640 * p /\ r * (t * 127) = 32766 * p
        BY <1>1, <3>1, <3>3
      <4> HIDE DEF r, n
      <4>2. 2 * (r * (t * 127)) < 2 * n + t * 127 /\ 2 * n < 2 * (r * (t * 127)) + t * 127
        BY <1>1, <3>1, <4>1
      <4> QED BY <1>1, <2>1, <3>1, <4>2, Nearest
    <3> QED BY <2>1, <3>2, <3>3
  <2>4. /\ Bf16Round(n, 127) = 128 * ((k + 1) + 6) + RoundHalfEven(n, t * 127)
        /\ Bf16Round(n, 127) \in BitPatterns
        /\ Bf16Value(Bf16Round(n, 127)) = RoundHalfEven(n, t * 127) * t
    <3> HIDE DEF n
    <3>1. PICK e \in Exponents : e = k + 1
      OBVIOUS
    <3>2. n \in Nat /\ InBinade(n, 127, e)
      BY <1>1, <2>2, <3>1
    <3>3. /\ Bf16Round(n, 127) = 128 * (e + 6) + RoundHalfEven(n, Pow2[e] * 127)
          /\ Bf16Round(n, 127) \in BitPatterns
          /\ Bf16Value(Bf16Round(n, 127)) = RoundHalfEven(n, Pow2[e] * 127) * Pow2[e]
      BY <3>2, Rounded
    <3> QED BY <3>1, <3>3
  <2>5. r * t = c * p
    <3> HIDE DEF p, t
    <3>1. CASE a = 254
      BY <1>1, <2>1, <3>1 DEF ScaleOf
    <3>2. CASE a = 255
      BY <1>1, <2>1, <3>2 DEF ScaleOf
    <3> QED BY <2>1, <3>1, <3>2
  <2> QED BY <2>3, <2>4, <2>5
<1>4. ASSUME a = 255
      PROVE  Bf16Round(n, 127) = Bf16Round(Peak(128, k + 1), 127)
  <2> DEFINE t == Pow2[k + 1]
             m == 128 * 128 * t
  <2>1. t \in Nat \ {0} /\ Peak(128, k + 1) = m /\ m \in Nat
    BY <1>1 DEF Peak
  <2>2. InBinade(m, 127, k + 1)
    <3>1. 128 * t * 127 <= m /\ m < 256 * t * 127
      <4> HIDE DEF t
      <4> QED BY <2>1
    <3> QED BY <3>1 DEF InBinade
  <2>3. RoundHalfEven(m, t * 127) = 129
    <3> HIDE DEF t
    <3>1. m = 16384 * t /\ t * 127 = 127 * t /\ 129 * (t * 127) = 16383 * t /\ t * 127 \in Nat \ {0}
      BY <2>1
    <3> HIDE DEF m
    <3>2. 2 * (129 * (t * 127)) < 2 * m + t * 127 /\ 2 * m < 2 * (129 * (t * 127)) + t * 127
      BY <2>1, <3>1
    <3> QED BY <2>1, <3>1, <3>2, Nearest
  <2>4. Bf16Round(m, 127) = 128 * ((k + 1) + 6) + RoundHalfEven(m, t * 127)
    <3> HIDE DEF m
    <3>1. PICK e \in Exponents : e = k + 1
      OBVIOUS
    <3>2. m \in Nat /\ InBinade(m, 127, e)
      BY <2>1, <2>2, <3>1
    <3>3. Bf16Round(m, 127) = 128 * (e + 6) + RoundHalfEven(m, Pow2[e] * 127)
      BY <3>2, Rounded
    <3> QED BY <3>1, <3>3
  <2> QED BY <1>1, <1>3, <1>4, <2>1, <2>3, <2>4
<1> QED BY <1>1, <1>2, <1>3, <1>4

(* The powers that a peak, its scale and its full scale are multiples of.  *)
LEMMA Pow2Ladder ==
  ASSUME NEW k \in Nat
  PROVE  /\ Pow2[k + 1] = 2 * Pow2[k]
         /\ Pow2[k + 6] = 64 * Pow2[k]
         /\ Pow2[k + 7] = 128 * Pow2[k]
<1>1. /\ Pow2[k + 1] = 2 * Pow2[k] /\ Pow2[(k + 1) + 1] = 2 * Pow2[k + 1]
      /\ Pow2[(k + 2) + 1] = 2 * Pow2[k + 2] /\ Pow2[(k + 3) + 1] = 2 * Pow2[k + 3]
      /\ Pow2[(k + 4) + 1] = 2 * Pow2[k + 4] /\ Pow2[(k + 5) + 1] = 2 * Pow2[k + 5]
      /\ Pow2[(k + 6) + 1] = 2 * Pow2[k + 6]
  <2>1. k + 1 \in Nat /\ k + 2 \in Nat /\ k + 3 \in Nat /\ k + 4 \in Nat /\ k + 5 \in Nat /\ k + 6 \in Nat
    OBVIOUS
  <2> QED BY <2>1, Pow2Facts
<1>2. /\ (k + 1) + 1 = k + 2 /\ (k + 2) + 1 = k + 3 /\ (k + 3) + 1 = k + 4 /\ (k + 4) + 1 = k + 5
      /\ (k + 5) + 1 = k + 6 /\ (k + 6) + 1 = k + 7
  OBVIOUS
<1>3. Pow2[k] \in Nat
  BY Pow2Typing
<1> QED BY <1>1, <1>2, <1>3

(* The element that sets the scale is restored to itself; but an absmax of *)
(* 255 becomes the next power of two, which has the same scale.            *)
RestoredPeak(a, k) == IF a = 255 THEN Peak(128, k + 1) ELSE Peak(a, k)

(* 127 times its scale is rounded back to the peak, but for 255.           *)
LEMMA PeakRestored ==
  ASSUME NEW a \in Significand, NEW k \in Nat, k + 7 \in Exponents
  PROVE  LET n == 127 * (ScaleOf(a) * Pow2[k])
         IN  /\ n \in Nat /\ InRange(n, 1)
             /\ Bf16Value(Bf16Round(n, 1)) = RestoredPeak(a, k)
<1> DEFINE p == Pow2[k]
           c == ScaleOf(a)
           n == 127 * (c * p)
<1>1. /\ p \in Nat \ {0} /\ Pow2[k + 6] = 64 * p /\ Pow2[k + 7] = 128 * p /\ Pow2[k + 1] = 2 * p
      /\ a \in Nat /\ a >= 128 /\ a <= 255 /\ c \in Nat /\ c >= 129 /\ c <= 258
  BY Pow2Typing, Pow2Ladder DEF Significand, ScaleOf
<1>2. /\ k + 6 \in Exponents /\ k + 7 \in Exponents
      /\ \A num \in Nat, e \in Exponents : InBinade(num, 1, e) =>
           Bf16Value(Bf16Round(num, 1)) = RoundHalfEven(num, Pow2[e] * 1) * Pow2[e]
  <2>1. k + 6 \in Exponents
    BY MaxExponentIs DEF Exponents
  <2> QED BY <2>1, Rounded
<1>3. n \in Nat /\ n = (127 * c) * p
  BY <1>1
<1>4. CASE a = 128
  <2>1. n = 16383 * p
    BY <1>1, <1>3, <1>4 DEF ScaleOf
  <2> HIDE DEF p, n
  <2>2. InBinade(n, 1, k + 6)
    BY <1>1, <2>1 DEF InBinade
  <2>3. RoundHalfEven(n, 64 * p) = 256
    <3>1. 2 * (256 * (64 * p)) < 2 * n + 64 * p /\ 2 * n < 2 * (256 * (64 * p)) + 64 * p
      BY <1>1, <2>1
    <3>2. 64 * p \in Nat \ {0}
      BY <1>1
    <3> QED BY <1>3, <3>1, <3>2, Nearest
  <2>4. PICK e \in Exponents : e = k + 6
    BY <1>2
  <2>5. Bf16Value(Bf16Round(n, 1)) = RoundHalfEven(n, (64 * p) * 1) * (64 * p)
    BY <1>1, <1>2, <1>3, <2>2, <2>4
  <2>6. (64 * p) * 1 = 64 * p /\ 256 * (64 * p) = 128 * 128 * p
    BY <1>1
  <2>7. RestoredPeak(a, k) = 128 * 128 * p
    BY <1>4 DEF RestoredPeak, Peak, p
  <2>8. InRange(n, 1)
    <3>1. 64 * p <= Pow2[MaxExponent] /\ Pow2[MaxExponent] \in Nat
      <4>1. k + 6 < MaxExponent /\ k + 6 \in Nat /\ MaxExponent \in Nat
        BY MaxExponentIs DEF Exponents
      <4>2. 2 * Pow2[k + 6] <= Pow2[MaxExponent] /\ Pow2[MaxExponent] \in Nat
        BY <4>1, Pow2Grows, Pow2Typing
      <4> QED BY <1>1, <4>2
    <3> QED BY <1>1, <2>1, <3>1 DEF InRange
  <2> QED BY <1>3, <2>3, <2>5, <2>6, <2>7, <2>8 DEF n, p
<1>5. CASE a > 128
  <2> DEFINE r == IF a = 255 THEN 256 ELSE a
  <2>1. /\ 16384 <= 127 * c /\ 127 * c < 32768 /\ r \in Nat
        /\ 2 * (128 * r) - 2 * (127 * c) < 128 /\ 2 * (127 * c) - 2 * (128 * r) < 128
    <3>1. CASE a <= 190
      BY <1>1, <1>5, <3>1 DEF ScaleOf
    <3>2. CASE a > 190 /\ a <= 254
      BY <1>1, <3>2 DEF ScaleOf
    <3>3. CASE a = 255
      BY <1>1, <3>3 DEF ScaleOf
    <3> QED BY <1>1, <3>1, <3>2, <3>3
  <2>2. RestoredPeak(a, k) = r * (128 * p)
    <3> HIDE DEF p
    <3>1. CASE a = 255
      BY <1>1, <3>1 DEF RestoredPeak, Peak
    <3>2. CASE a # 255
      BY <1>1, <3>2 DEF RestoredPeak, Peak, p
    <3> QED BY <3>1, <3>2
  <2> DEFINE u == 127 * c
             v == 128 * r
  <2>3. u \in Nat /\ v \in Nat /\ n = u * p /\ r * (128 * p) = v * p
    BY <1>1, <1>3, <2>1
  <2>4. 16384 <= u /\ u < 32768 /\ 2 * v - 2 * u < 128 /\ 2 * u - 2 * v < 128
    BY <2>1
  <2> HIDE DEF u, v, p, n, c, r
  <2>5. 16384 * p <= u * p /\ u * p < 32768 * p
    <3>1. (u - 16384) * p >= 0 /\ (u - 16384) * p = u * p - 16384 * p
      BY <1>1, <2>3, <2>4
    <3>2. (32768 - u) * p > 0 /\ (32768 - u) * p = 32768 * p - u * p
      BY <1>1, <2>3, <2>4
    <3> QED BY <1>1, <2>3, <3>1, <3>2
  <2>6. 2 * (v * p) < 2 * (u * p) + 128 * p /\ 2 * (u * p) < 2 * (v * p) + 128 * p
    <3>1. (128 - 2 * v + 2 * u) * p > 0 /\ (128 - 2 * v + 2 * u) * p = 128 * p - 2 * (v * p) + 2 * (u * p)
      BY <1>1, <2>3, <2>4
    <3>2. (128 - 2 * u + 2 * v) * p > 0 /\ (128 - 2 * u + 2 * v) * p = 128 * p - 2 * (u * p) + 2 * (v * p)
      BY <1>1, <2>3, <2>4
    <3>3. u * p \in Nat /\ v * p \in Nat
      BY <1>1, <2>3
    <3> QED BY <1>1, <3>1, <3>2, <3>3
  <2>7. InBinade(n, 1, k + 7)
    BY <1>1, <2>3, <2>5 DEF InBinade
  <2>8. RoundHalfEven(n, 128 * p) = r
    <3>1. 128 * p \in Nat \ {0} /\ n \in Nat
      BY <1>1, <1>3
    <3>2. 2 * (r * (128 * p)) < 2 * n + 128 * p /\ 2 * n < 2 * (r * (128 * p)) + 128 * p
      BY <2>3, <2>6
    <3> QED BY <2>1, <3>1, <3>2, Nearest
  <2>9. PICK e \in Exponents : e = k + 7
    BY <1>2
  <2>10. Bf16Value(Bf16Round(n, 1)) = RoundHalfEven(n, (128 * p) * 1) * (128 * p)
    BY <1>1, <1>2, <1>3, <2>7, <2>9
  <2>11. (128 * p) * 1 = 128 * p
    BY <1>1
  <2>12. InRange(n, 1)
    <3>1. 128 * p <= Pow2[MaxExponent] /\ Pow2[MaxExponent] \in Nat
      <4>1. k + 7 <= MaxExponent /\ k + 7 \in Nat /\ MaxExponent \in Nat
        BY MaxExponentIs DEF Exponents
      <4>2. Pow2[MaxExponent] \in Nat /\ Pow2[k + 7] \in Nat
        BY <4>1, Pow2Typing
      <4>3. k + 7 < MaxExponent => 2 * Pow2[k + 7] <= Pow2[MaxExponent]
        BY <4>1, Pow2Grows
      <4>4. k + 7 = MaxExponent => Pow2[k + 7] = Pow2[MaxExponent]
        OBVIOUS
      <4> QED BY <1>1, <4>1, <4>2, <4>3, <4>4
    <3>2. n < 256 * Pow2[MaxExponent] /\ 128 <= n
      BY <1>1, <2>3, <2>5, <3>1
    <3>3. 256 * Pow2[MaxExponent] * 1 = 256 * Pow2[MaxExponent]
      BY <3>1
    <3> QED BY <3>2, <3>3 DEF InRange
  <2> QED BY <1>3, <2>2, <2>8, <2>10, <2>11, <2>12 DEF n, p, c
<1> QED BY <1>1, <1>4, <1>5

(* A head never quotients past full scale, and its absmax does reach it.   *)
LEMMA PeakQuotient ==
  ASSUME NEW a \in Significand, NEW k \in Nat
  PROVE  LET s == ScaleOf(a) * Pow2[k]
         IN  /\ s \in Nat /\ s >= 129
             /\ RoundHalfEven(Peak(a, k), s) = 127
             /\ \A n \in Nat : n <= Peak(a, k) =>
                  RoundHalfEven(n, s) \in Nat /\ RoundHalfEven(n, s) <= 127
<1> DEFINE p == Pow2[k]
           c == ScaleOf(a)
           s == c * p
           n == Peak(a, k)
<1>1. p \in Nat \ {0} /\ a \in Nat /\ c \in Nat /\ c >= 129 /\ n = (128 * a) * p
  BY Pow2Typing DEF Significand, ScaleOf, Peak
<1>2. 253 * c < 256 * a /\ 256 * a < 255 * c
  <2>1. a >= 128 /\ a <= 255
    BY DEF Significand
  <2>2. CASE a <= 190
    BY <1>1, <2>1, <2>2 DEF ScaleOf
  <2>3. CASE a > 190 /\ a <= 254
    BY <1>1, <2>3 DEF ScaleOf
  <2>4. CASE a = 255
    BY <1>1, <2>4 DEF ScaleOf
  <2> QED BY <1>1, <2>1, <2>2, <2>3, <2>4
<1> HIDE DEF p, c, n
<1>3. s \in Nat /\ s >= 129 /\ s = c * p /\ n \in Nat
  <2>1. (c - 129) * p >= 0 /\ (c - 129) * p = c * p - 129 * p
    BY <1>1
  <2> QED BY <1>1, <2>1
<1>4. 253 * s < 2 * n /\ 2 * n < 255 * s
  <2>1. (256 * a - 253 * c) * p > 0 /\ (256 * a - 253 * c) * p = 2 * ((128 * a) * p) - 253 * (c * p)
    BY <1>1, <1>2
  <2>2. (255 * c - 256 * a) * p > 0 /\ (255 * c - 256 * a) * p = 255 * (c * p) - 2 * ((128 * a) * p)
    BY <1>1, <1>2
  <2>3. c * p \in Nat /\ (128 * a) * p \in Nat
    BY <1>1
  <2> QED BY <1>1, <2>1, <2>2, <2>3
<1> HIDE DEF s
<1>5. RoundHalfEven(n, s) = 127
  <2>1. 2 * (127 * s) < 2 * n + s /\ 2 * n < 2 * (127 * s) + s
    BY <1>3, <1>4
  <2> QED BY <1>3, <2>1, Nearest
<1>6. ASSUME NEW m \in Nat, m <= n PROVE RoundHalfEven(m, s) \in Nat /\ RoundHalfEven(m, s) <= 127
  <2>1. s \in Nat \ {0} /\ n \in Nat
    BY <1>3
  <2>2. RoundHalfEven(m, s) \in Nat
    BY <2>1, HalfOff
  <2>3. RoundHalfEven(m, s) <= RoundHalfEven(n, s)
    BY <1>6, <2>1, RoundsUpward
  <2> QED BY <1>5, <2>2, <2>3
<1> QED BY <1>3, <1>5, <1>6 DEF s, n, c, p

\* Named, so that the lemma below can be cited with any three numbers.
IsProduct(n, q, s) == n = q * s

(* A restored element rounds back to the integer it was restored from, is  *)
(* not above full scale, and is off by what BF16 is.                       *)
LEMMA ElementRestored ==
  ASSUME NEW s \in Nat, s >= 129, NEW full \in Nat, IsProduct(full, 127, s), InRange(full, 1),
         NEW q \in Nat, 1 <= q, q <= 127, NEW n \in Nat, IsProduct(n, q, s),
         NEW w, w = Bf16Value(Bf16Round(n, 1))
  PROVE  /\ w \in Nat \ {0}
         /\ RoundHalfEven(w, s) = q
         /\ w <= Bf16Value(Bf16Round(full, 1))
         /\ 256 * w <= 256 * n + w
         /\ 256 * n <= 256 * w + w
<1>0. full = 127 * s /\ n = q * s
  BY DEF IsProduct
<1>1. n \in Nat /\ n <= full /\ 129 <= n /\ full \in Nat
  <2>1. (127 - q) * s >= 0 /\ (127 - q) * s = 127 * s - q * s
    OBVIOUS
  <2>2. (q - 1) * s >= 0 /\ (q - 1) * s = q * s - s
    OBVIOUS
  <2>3. n <= full
    BY <1>0, <2>1
  <2>4. 129 <= n
    BY <1>0, <2>2
  <2> QED BY <2>3, <2>4
<1>2. InRange(n, 1)
  <2>1. 256 * Pow2[MaxExponent] * 1 \in Nat
    BY MaxExponentIs, Pow2Typing
  <2> QED BY <1>1, <2>1 DEF InRange
<1>3. PICK p \in Nat \ {0} :
        /\ w \in Nat
        /\ 2 * w <= 2 * n + p /\ 2 * n <= 2 * w + p
        /\ 128 * p <= n /\ 128 * p <= w
  BY <1>1, <1>2, HalfUlp
<1>4. w <= Bf16Value(Bf16Round(full, 1))
  BY <1>1, <1>2, Bf16Upward
<1>5. p < s
  BY <1>0, <1>1, <1>3
<1>6. RoundHalfEven(w, s) = q
  <2>1. 2 * (q * s) < 2 * w + s /\ 2 * w < 2 * (q * s) + s
    BY <1>0, <1>1, <1>3, <1>5
  <2> QED BY <1>1, <1>3, <2>1, Nearest
<1>7. 256 * w <= 256 * n + w /\ 256 * n <= 256 * w + w
  BY <1>1, <1>3
<1> QED BY <1>3, <1>4, <1>6, <1>7

-----------------------------------------------------------------------------
(* A head: its absmax, what is stored of it, and what comes back.          *)

Head(d) == [Dims(d) -> Int]

LEMMA MagnitudeNat == \A v \in Int : Magnitude(v) \in Nat
BY DEF Magnitude

\* b is the absmax of a head, or the floor when that is below it.
AmaxIs(head, d, b) ==
  /\ b \in Nat /\ b >= AMAX_FLOOR
  /\ \A i \in Dims(d) : Magnitude(head[i]) <= b
  /\ b = AMAX_FLOOR \/ \E i \in Dims(d) : Magnitude(head[i]) = b

LEMMA FloorIs == AMAX_FLOOR = 32768
BY DEF AMAX_FLOOR

(* Amax is the largest magnitude of the head, or the floor.                *)
LEMMA AmaxExists ==
  ASSUME NEW d \in Nat \ {0}, NEW head \in Head(d), NEW b \in Nat,
         \A i \in Dims(d) : Magnitude(head[i]) <= b
  PROVE  AmaxIs(head, d, Amax(head))
<1> DEFINE M == {Magnitude(head[i]) : i \in DOMAIN head}
           T == {b - m : m \in M}
           largest == CHOOSE v \in M : \A i \in DOMAIN head : Magnitude(head[i]) <= v
<1>1. DOMAIN head = Dims(d) /\ 0 \in Dims(d) /\ \A i \in Dims(d) : head[i] \in Int
  BY DEF Head, Dims
<1>2. \A m \in M : m \in Nat /\ m <= b
  BY <1>1, MagnitudeNat
<1>3. \A i \in Dims(d) : Magnitude(head[i]) \in M
  BY <1>1
<1>4. \E v \in M : \A m \in M : m <= v
  <2> HIDE DEF M
  <2>1. T \subseteq Nat /\ T # {}
    BY <1>1, <1>2, <1>3
  <2>2. PICK t \in T : \A u \in T : t <= u
    <3> HIDE DEF T
    <3> QED BY <2>1, Least
  <2>3. PICK v \in M : t = b - v
    BY <2>2
  <2>4. \A m \in M : b - v <= b - m
    BY <2>2, <2>3
  <2>5. \A m \in M : m <= v
    BY <1>2, <2>3, <2>4
  <2> QED BY <2>5
<1>5. \E v \in M : \A i \in DOMAIN head : Magnitude(head[i]) <= v
  BY <1>4
<1>6. largest \in M /\ \A i \in DOMAIN head : Magnitude(head[i]) <= largest
  <2> HIDE DEF M
  <2> QED BY <1>5
<1>7. Amax(head) = IF largest < AMAX_FLOOR THEN AMAX_FLOOR ELSE largest
  BY DEF Amax
<1>8. PICK i \in Dims(d) : largest = Magnitude(head[i])
  BY <1>1, <1>6
<1>9. largest \in Nat
  BY <1>1, <1>8, MagnitudeNat
<1>10. \A j \in Dims(d) : Magnitude(head[j]) \in Nat /\ Magnitude(head[j]) <= largest
  BY <1>1, <1>6, MagnitudeNat
<1> HIDE DEF largest
<1> QED BY <1>7, <1>8, <1>9, <1>10, FloorIs DEF AmaxIs

LEMMA AmaxUnique ==
  ASSUME NEW d \in Nat \ {0}, NEW head \in Head(d), NEW b, AmaxIs(head, d, b)
  PROVE  Amax(head) = b
<1> DEFINE a == Amax(head)
<1>1. AmaxIs(head, d, a)
  BY AmaxExists DEF AmaxIs
<1>2. a \in Nat /\ b \in Nat
  BY <1>1 DEF AmaxIs
<1> HIDE DEF a
<1>3. a <= b
  BY <1>1, <1>2 DEF AmaxIs
<1>4. b <= a
  BY <1>1, <1>2 DEF AmaxIs
<1> QED BY <1>2, <1>3, <1>4 DEF a

(* Where the magnitudes of a head end.                                     *)
LEMMA Bf16Bounded ==
  ASSUME NEW n \in Nat, IsBf16(n)
  PROVE  n <= 256 * Pow2[MaxExponent]
<1>1. Pow2[MaxExponent] \in Nat \ {0} /\ MaxExponent \in Nat
  BY MaxExponentIs, Pow2Typing
<1>2. CASE n < 128
  BY <1>1, <1>2
<1>3. CASE n >= 128
  <2>1. PICK e \in 0..MaxExponent - 1 : n % Pow2[e] = 0 /\ n \div Pow2[e] \in 128..255
    <3>1. ~(n < 128)
      BY <1>3
    <3> QED BY <3>1, Zenon DEF IsBf16
  <2>2. e \in Nat /\ e < MaxExponent
    BY <1>1
  <2> DEFINE p == Pow2[e]
             m == n \div p
  <2>3. p \in Nat \ {0} /\ 2 * p <= Pow2[MaxExponent]
    BY <1>1, <2>2, Pow2Typing, Pow2Grows
  <2>4. n = m * p + (n % p) /\ m \in Nat
    <3>1. p \in Nat \ {0}
      BY <2>3
    <3> HIDE DEF p
    <3> QED BY <3>1, WholeAndRest
  <2>5. n % p = 0 /\ m <= 255
    BY <2>1
  <2> HIDE DEF p, m
  <2>6. (255 - m) * p >= 0 /\ (255 - m) * p = 255 * p - m * p
    BY <2>3, <2>4, <2>5
  <2>7. m * p \in Nat
    BY <2>3, <2>4
  <2> QED BY <1>1, <2>3, <2>4, <2>5, <2>6, <2>7
<1> QED BY <1>2, <1>3

\* A head of BF16 numbers.
Bf16Head(d) == {head \in Head(d) : \A i \in Dims(d) : IsBf16(Magnitude(head[i]))}

(* Amax of a head of BF16 numbers.                                         *)
LEMMA Bf16Amax ==
  ASSUME NEW d \in Nat \ {0}, NEW head \in Bf16Head(d)
  PROVE  AmaxIs(head, d, Amax(head))
<1>1. head \in Head(d) /\ \A i \in Dims(d) : head[i] \in Int /\ IsBf16(Magnitude(head[i]))
  BY DEF Bf16Head, Head
<1>2. \A i \in Dims(d) : Magnitude(head[i]) <= 256 * Pow2[MaxExponent]
  BY <1>1, MagnitudeNat, Bf16Bounded
<1>3. 256 * Pow2[MaxExponent] \in Nat
  BY MaxExponentIs, Pow2Typing
<1> QED BY <1>1, <1>2, <1>3, AmaxExists

(* Its absmax has a significand and a power of two.                        *)
LEMMA HeadPeak ==
  ASSUME NEW d \in Nat \ {0}, NEW head \in Bf16Head(d)
  PROVE  \E a \in Significand, k \in Nat : k + 8 \in Exponents /\ Amax(head) = Peak(a, k)
<1> DEFINE n == Amax(head)
<1>1. n \in Nat /\ n >= 32768 /\ (n = 32768 \/ \E i \in Dims(d) : Magnitude(head[i]) = n)
  BY Bf16Amax, FloorIs DEF AmaxIs
<1> HIDE DEF n
<1>2. CASE n = 32768
  <2>1. Pow2[0 + 1] = 2 * Pow2[0] /\ Pow2[0] = 1
    BY Pow2Facts
  <2>2. Pow2[1] = 2 /\ 0 + 1 = 1
    BY <2>1
  <2>3. Peak(128, 1) = 32768 /\ 128 \in Significand /\ 1 \in Nat /\ 1 + 8 \in Exponents
    BY <2>2, MaxExponentIs DEF Peak, Significand, Exponents
  <2> QED BY <1>2, <2>3 DEF n
<1>3. CASE n # 32768
  <2>1. IsBf16(n)
    BY <1>1, <1>3 DEF Bf16Head
  <2>2. PICK e \in 0..MaxExponent - 1 : n % Pow2[e] = 0 /\ n \div Pow2[e] \in 128..255
    <3>1. ~(n < 128)
      BY <1>1
    <3> QED BY <2>1, <3>1, Zenon DEF IsBf16
  <2> DEFINE p == Pow2[e]
             m == n \div p
  <2>3. p \in Nat \ {0} /\ e \in Nat /\ e <= MaxExponent - 1 /\ MaxExponent \in Nat
    BY MaxExponentIs, Pow2Typing
  <2>4. n = m * p + (n % p)
    <3>1. p \in Nat \ {0}
      BY <2>3
    <3> HIDE DEF p
    <3> QED BY <1>1, <3>1, WholeAndRest
  <2>5. n = m * p /\ m \in 128..255
    <3>1. n % p = 0 /\ m \in 128..255
      BY <2>2
    <3> HIDE DEF m, p
    <3>2. m * p \in Nat
      BY <2>3, <3>1
    <3> QED BY <2>4, <3>1, <3>2
  <2> HIDE DEF m
  <2>6. ~(e < 8)
    <3> SUFFICES ASSUME e < 8 PROVE FALSE
      OBVIOUS
    <3>1. Pow2[0] = 1 /\ Pow2[0 + 7] = 128 * Pow2[0] /\ 0 + 7 = 7
      BY Pow2Facts, Pow2Ladder
    <3>2. e < 7 => 2 * Pow2[e] <= Pow2[7]
      BY <2>3, Pow2Grows
    <3>3. e = 7 => p = Pow2[7]
      OBVIOUS
    <3>4. p <= 128
      BY <2>3, <3>1, <3>2, <3>3
    <3> HIDE DEF p
    <3>5. (128 - p) * m >= 0 /\ (128 - p) * m = 128 * m - m * p
      BY <2>3, <2>5, <3>4
    <3>6. m * p <= 32640
      BY <2>3, <2>5, <3>5
    <3> QED BY <1>1, <2>5, <3>6
  <2>7. PICK k \in Nat : e = k + 7
    <3>1. e - 7 \in Nat /\ e = (e - 7) + 7
      BY <2>3, <2>6
    <3> QED BY <3>1
  <2>8. p = 128 * Pow2[k] /\ Pow2[k] \in Nat /\ k + 8 \in Exponents
    <3>1. Pow2[k + 7] = 128 * Pow2[k] /\ Pow2[k] \in Nat
      BY Pow2Ladder, Pow2Typing
    <3>2. p = Pow2[k + 7]
      BY <2>7
    <3>3. k + 8 \in Exponents
      BY <2>3, <2>7 DEF Exponents
    <3> QED BY <3>1, <3>2, <3>3
  <2> HIDE DEF p
  <2>9. Peak(m, k) = n /\ m \in Significand
    BY <2>5, <2>8 DEF Peak, Significand
  <2> QED BY <2>8, <2>9 DEF n
<1> QED BY <1>2, <1>3

(* What comes back of a head: decode after encode, without the record.     *)
Restoration(head) ==
  [i \in DOMAIN head |->
     Dequantized(Clamp(Quotient(head[i], ComputeScale(head))), ComputeScale(head))]

(* Restoring the sign.                                                     *)
LEMMA SignedIs ==
  ASSUME NEW v \in Int, NEW m \in Nat
  PROVE  /\ Signed(v, m) \in Int
         /\ Magnitude(Signed(v, m)) = m
         /\ \A n \in Nat : m # 0 => Signed(Signed(v, m), n) = Signed(v, n)
BY DEF Signed, Magnitude

\* The scale of a head with this peak.
PeakBits(a, k) == Bf16Round(Peak(a, k), QUANT_MAX)

LEMMA PeakBitsIs ==
  ASSUME NEW a \in Significand, NEW k \in Nat, k + 1 \in Exponents
  PROVE  /\ PeakBits(a, k) \in BitPatterns
         /\ Bf16Value(PeakBits(a, k)) = ScaleOf(a) * Pow2[k]
         /\ a = 255 => PeakBits(a, k) = PeakBits(128, k + 1)
BY PeakScale DEF PeakBits, QUANT_MAX

(* Every element of a head is quantised within full scale.                 *)
LEMMA WithinFullScale ==
  ASSUME NEW a \in Significand, NEW k \in Nat, k + 1 \in Exponents,
         NEW v \in Int, Magnitude(v) <= Peak(a, k)
  PROVE  LET q == Quotient(v, PeakBits(a, k))
         IN  /\ q \in Int /\ Magnitude(q) \in Nat /\ Magnitude(q) <= 127 /\ Clamp(q) = q /\ q \in Int8s
             /\ Magnitude(q) = RoundHalfEven(Magnitude(v), Bf16Value(PeakBits(a, k)))
             /\ q = Signed(v, Magnitude(q))
             /\ Magnitude(v) = Peak(a, k) => Magnitude(q) = 127
<1> DEFINE s == Bf16Value(PeakBits(a, k))
           m == RoundHalfEven(Magnitude(v), s)
           q == Quotient(v, PeakBits(a, k))
<1>1. Magnitude(v) \in Nat
  BY MagnitudeNat
<1>2. m \in Nat /\ m <= 127 /\ (Magnitude(v) = Peak(a, k) => m = 127)
  <2>1. s = ScaleOf(a) * Pow2[k]
    BY PeakBitsIs
  <2> HIDE DEF s
  <2> QED BY <1>1, <2>1, PeakQuotient
<1>3. q = Signed(v, m)
  BY DEF Quotient
<1> HIDE DEF m, q
<1>4. q \in Int /\ Magnitude(q) = m /\ q = Signed(v, Magnitude(q))
  BY <1>2, <1>3, SignedIs
<1>5. -127 <= q /\ q <= 127
  BY <1>2, <1>4 DEF Magnitude
<1>6. Clamp(q) = q /\ q \in Int8s
  BY <1>4, <1>5 DEF Clamp, QUANT_MAX, Int8s
<1> QED BY <1>2, <1>4, <1>6 DEF m, q

(* What an element is restored to, and that it goes back to where it was.  *)
LEMMA BackAndForth ==
  ASSUME NEW a \in Significand, NEW k \in Nat, k + 7 \in Exponents,
         NEW v \in Int, Magnitude(v) <= Peak(a, k),
         NEW S, S = PeakBits(a, k), NEW q, q = Quotient(v, S), NEW w, w = Dequantized(q, S)
  PROVE  /\ w \in Int
         /\ Magnitude(w) <= RestoredPeak(a, k)
         /\ Magnitude(q) = 127 => Magnitude(w) = RestoredPeak(a, k)
         /\ Quotient(w, S) = q
         /\ 256 * Magnitude(w - v) <= 129 * Bf16Value(S) + Magnitude(w)
<1>1. k + 1 \in Exponents
  BY MaxExponentIs DEF Exponents
<1>2. PICK s : s = Bf16Value(S) /\ s = ScaleOf(a) * Pow2[k]
  BY <1>1, PeakBitsIs
<1>3. s \in Nat /\ s >= 129
  BY <1>2, PeakQuotient
<1>4. PICK b : b = RestoredPeak(a, k)
  OBVIOUS
<1>5. b \in Nat
  <2>1. Pow2[k] \in Nat /\ Pow2[k + 1] \in Nat /\ a \in Nat
    BY Pow2Typing DEF Significand
  <2> QED BY <1>4, <2>1 DEF RestoredPeak, Peak
<1>6. InRange(127 * s, 1) /\ Bf16Value(Bf16Round(127 * s, 1)) = b
  BY <1>2, <1>4, PeakRestored
<1>7. PICK t \in Nat : t = Magnitude(v)
  BY MagnitudeNat
<1>8. PICK m \in Nat :
        /\ m <= 127 /\ m = Magnitude(q) /\ m = RoundHalfEven(t, s)
        /\ q \in Int /\ q = Signed(v, m)
  <2>1. Magnitude(q) \in Nat /\ Magnitude(q) <= 127
        /\ Magnitude(q) = RoundHalfEven(Magnitude(v), Bf16Value(S))
        /\ q \in Int /\ q = Signed(v, Magnitude(q))
    BY <1>1, WithinFullScale
  <2> QED BY <1>2, <1>7, <2>1
<1>9. PICK n \in Nat : n = m * s /\ 2 * n <= 2 * t + s /\ 2 * t <= 2 * n + s
  <2>1. s \in Nat \ {0}
    BY <1>3
  <2>2. 2 * (RoundHalfEven(t, s) * s) <= 2 * t + s /\ 2 * t <= 2 * (RoundHalfEven(t, s) * s) + s
    BY <2>1, HalfOff
  <2>3. m * s \in Nat
    BY <2>1
  <2> QED BY <1>8, <2>2, <2>3
<1>10. CASE q = 0
  <2>1. w = 0 /\ m = 0 /\ n = 0
    BY <1>3, <1>8, <1>9, <1>10 DEF Dequantized, Magnitude
  <2>2. Magnitude(0) = 0
    BY DEF Magnitude
  <2>3. Quotient(w, S) = q
    <3>1. RoundHalfEven(0, s) = 0
      <4>1. 0 * s = 0 /\ s \in Nat \ {0}
        BY <1>3
      <4> QED BY <4>1, Nearest
    <3> QED BY <1>2, <1>10, <2>1, <2>2, <3>1 DEF Quotient, Signed
  <2>4. Magnitude(w - v) = t
    BY <1>7, <2>1 DEF Magnitude
  <2>5. 256 * t <= 129 * s + 0
    BY <1>3, <1>7, <1>9, <2>1
  <2>6. Magnitude(w) = 0 /\ Magnitude(q) = 0
    BY <1>10, <2>1, <2>2
  <2> QED BY <1>2, <1>4, <1>5, <2>1, <2>3, <2>4, <2>5, <2>6
<1>11. CASE q # 0
  <2>1. 1 <= m /\ m <= 127
    BY <1>8, <1>11 DEF Magnitude
  <2>2. PICK u : u = Bf16Value(Bf16Round(n, 1)) /\ w = Signed(q, u)
    BY <1>2, <1>8, <1>9, <1>11 DEF Dequantized
  <2>3. /\ u \in Nat \ {0} /\ RoundHalfEven(u, s) = m /\ u <= b
        /\ 256 * u <= 256 * n + u /\ 256 * n <= 256 * u + u
    <3>1. PICK full \in Nat : full = 127 * s
      BY <1>3
    <3>2. InRange(full, 1) /\ Bf16Value(Bf16Round(full, 1)) = b
      BY <1>6, <3>1
    <3>3. /\ u \in Nat \ {0} /\ RoundHalfEven(u, s) = m
          /\ u <= Bf16Value(Bf16Round(full, 1))
          /\ 256 * u <= 256 * n + u /\ 256 * n <= 256 * u + u
      <4>1. IsProduct(full, 127, s) /\ IsProduct(n, m, s)
        BY <1>9, <3>1 DEF IsProduct
      <4> QED BY <1>3, <2>1, <2>2, <3>2, <4>1, ElementRestored
    <3> QED BY <3>2, <3>3
  <2>4. m = 127 => u = b
    BY <1>6, <1>9, <2>2
  <2>5. w = Signed(v, u) /\ Signed(w, m) = Signed(v, m) /\ w \in Int /\ Magnitude(w) = u
    BY <1>8, <2>1, <2>2, <2>3 DEF Signed, Magnitude
  <2>6. Quotient(w, S) = q
    BY <1>2, <1>8, <2>3, <2>5 DEF Quotient
  <2>7. Magnitude(w - v) = IF u >= t THEN u - t ELSE t - u
    BY <1>7, <2>3, <2>5 DEF Magnitude, Signed
  <2>8. 256 * Magnitude(w - v) <= 129 * s + u
    <3>1. /\ u >= t => 256 * (u - t) <= 129 * s + u
          /\ u < t => 256 * (t - u) <= 129 * s + u
      BY <1>3, <1>7, <1>9, <2>3
    <3> QED BY <1>7, <2>3, <2>7, <3>1
  <2> QED BY <1>2, <1>4, <1>8, <2>3, <2>4, <2>5, <2>6, <2>8
<1> QED BY <1>10, <1>11

(* A head that has gone through a record: it was stored within full scale, *)
(* it comes back within the documented bound, and going again changes      *)
(* neither its scale nor anything that is stored of it.                    *)
LEMMA HeadRoundTrip ==
  ASSUME NEW d \in Nat \ {0}, NEW head \in Bf16Head(d),
         NEW S, S = ComputeScale(head), NEW back, back = Restoration(head)
  PROVE  /\ S \in BitPatterns
         /\ \A i \in Dims(d) :
              /\ Magnitude(Quotient(head[i], S)) <= 127
              /\ Clamp(Quotient(head[i], S)) = Quotient(head[i], S)
              /\ Quotient(head[i], S) \in Int8s
              /\ Magnitude(head[i]) = Amax(head) => Magnitude(Quotient(head[i], S)) = 127
              /\ Magnitude(back[i]) = Amax(back) => Magnitude(Quotient(back[i], S)) = 127
              /\ Quotient(back[i], S) = Quotient(head[i], S)
              /\ 256 * Magnitude(back[i] - head[i]) <= 129 * Bf16Value(S) + Magnitude(back[i])
         /\ back \in Head(d)
         /\ ComputeScale(back) = S
<1>1. PICK a \in Significand, k \in Nat : k + 8 \in Exponents /\ Amax(head) = Peak(a, k)
  BY HeadPeak
<1>2. k + 1 \in Exponents /\ k + 7 \in Exponents
  BY <1>1, MaxExponentIs DEF Exponents
<1>3. S = PeakBits(a, k)
  BY <1>1 DEF ComputeScale, PeakBits
<1>4. S \in BitPatterns
  BY <1>2, <1>3, PeakBitsIs
<1>5. AmaxIs(head, d, Peak(a, k)) /\ \A i \in Dims(d) : head[i] \in Int
  BY <1>1, Bf16Amax DEF Bf16Head, Head
<1>6. DOMAIN head = Dims(d) /\ head \in Head(d)
  BY DEF Bf16Head, Head
<1>7. ASSUME NEW i \in Dims(d)
      PROVE  /\ head[i] \in Int /\ Magnitude(head[i]) <= Peak(a, k)
             /\ Magnitude(Quotient(head[i], S)) <= 127
             /\ Clamp(Quotient(head[i], S)) = Quotient(head[i], S)
             /\ Quotient(head[i], S) \in Int8s
             /\ Magnitude(head[i]) = Peak(a, k) => Magnitude(Quotient(head[i], S)) = 127
  <2>1. PICK v \in Int : v = head[i] /\ Magnitude(v) <= Peak(a, k)
    BY <1>5 DEF AmaxIs
  <2>2. /\ Magnitude(Quotient(v, S)) <= 127
        /\ Clamp(Quotient(v, S)) = Quotient(v, S)
        /\ Quotient(v, S) \in Int8s
        /\ Magnitude(v) = Peak(a, k) => Magnitude(Quotient(v, S)) = 127
    BY <1>2, <1>3, <2>1, WithinFullScale
  <2> QED BY <2>1, <2>2
<1>8. ASSUME NEW i \in Dims(d)
      PROVE  /\ back[i] \in Int
             /\ Magnitude(back[i]) <= RestoredPeak(a, k)
             /\ Magnitude(Quotient(head[i], S)) = 127 => Magnitude(back[i]) = RestoredPeak(a, k)
             /\ Quotient(back[i], S) = Quotient(head[i], S)
             /\ 256 * Magnitude(back[i] - head[i]) <= 129 * Bf16Value(S) + Magnitude(back[i])
  <2>1. PICK q : q = Quotient(head[i], S)
    OBVIOUS
  <2>2. PICK w : w = Dequantized(q, S)
    OBVIOUS
  <2>3. back[i] = w
    BY <1>6, <1>7, <2>1, <2>2 DEF Restoration
  <2>4. /\ w \in Int
        /\ Magnitude(w) <= RestoredPeak(a, k)
        /\ Magnitude(q) = 127 => Magnitude(w) = RestoredPeak(a, k)
        /\ Quotient(w, S) = q
        /\ 256 * Magnitude(w - head[i]) <= 129 * Bf16Value(S) + Magnitude(w)
    <3>1. PICK v \in Int : v = head[i] /\ Magnitude(v) <= Peak(a, k)
      BY <1>7
    <3>2. q = Quotient(v, S)
      BY <2>1, <3>1
    <3>3. /\ w \in Int
          /\ Magnitude(w) <= RestoredPeak(a, k)
          /\ Magnitude(q) = 127 => Magnitude(w) = RestoredPeak(a, k)
          /\ Quotient(w, S) = q
          /\ 256 * Magnitude(w - v) <= 129 * Bf16Value(S) + Magnitude(w)
      BY <1>2, <1>3, <2>2, <3>1, <3>2, BackAndForth
    <3> QED BY <3>1, <3>3
  <2> QED BY <2>1, <2>3, <2>4
<1>9. back \in Head(d)
  <2>1. back = [i \in Dims(d) |-> back[i]]
    BY <1>6 DEF Restoration
  <2> QED BY <1>8, <2>1 DEF Head
\* The peak of what comes back, as a head of its own.
<1>10. PICK c \in Significand, l \in Nat :
         /\ l + 7 \in Exponents /\ RestoredPeak(a, k) = Peak(c, l) /\ PeakBits(c, l) = S
  <2>1. CASE a = 255
    <3>1. PICK l \in Nat : l = k + 1
      OBVIOUS
    <3>2. l + 7 \in Exponents /\ 128 \in Significand
      BY <1>1, <3>1 DEF Significand
    <3>3. RestoredPeak(a, k) = Peak(128, l) /\ PeakBits(128, l) = S
      BY <1>2, <1>3, <2>1, <3>1, PeakBitsIs DEF RestoredPeak
    <3> QED BY <3>2, <3>3
  <2>2. CASE a # 255
    BY <1>2, <1>3, <2>2 DEF RestoredPeak
  <2> QED BY <2>1, <2>2
<1>11. AmaxIs(back, d, RestoredPeak(a, k))
  <2>1. Peak(c, l) \in Nat /\ Peak(a, k) \in Nat /\ Peak(a, k) <= RestoredPeak(a, k)
    <3>1. Pow2[k] \in Nat /\ Pow2[k + 1] = 2 * Pow2[k] /\ Pow2[l] \in Nat
          /\ a \in Nat /\ a <= 255 /\ c \in Nat
      BY Pow2Typing, Pow2Ladder DEF Significand
    <3>2. Peak(a, k) \in Nat /\ Peak(c, l) \in Nat
      BY <3>1 DEF Peak
    <3>3. a = 255 => Peak(a, k) <= Peak(128, k + 1)
      BY <3>1 DEF Peak
    <3> QED BY <3>2, <3>3 DEF RestoredPeak
  <2>2. Peak(a, k) >= AMAX_FLOOR
    BY <1>5 DEF AmaxIs
  <2>3. RestoredPeak(a, k) \in Nat /\ RestoredPeak(a, k) >= AMAX_FLOOR
    BY <1>10, <2>1, <2>2, FloorIs
  <2>4. CASE \E i \in Dims(d) : Magnitude(head[i]) = Peak(a, k)
    <3>1. \E i \in Dims(d) : Magnitude(back[i]) = RestoredPeak(a, k)
      BY <1>7, <1>8, <2>4
    <3> QED BY <1>8, <2>3, <3>1 DEF AmaxIs
  <2>5. CASE Peak(a, k) = AMAX_FLOOR
    <3>1. a # 255
      <4>1. PICK p \in Nat : p = Pow2[k]
        BY Pow2Typing
      <4>2. a = 255 => Peak(a, k) = 32640 * p
        BY <4>1 DEF Peak
      <4>3. 32640 * p # 32768
        BY <4>1
      <4>4. Peak(a, k) = 32768
        BY <2>5, FloorIs
      <4> QED BY <4>2, <4>3, <4>4
    <3>2. RestoredPeak(a, k) = AMAX_FLOOR
      BY <2>5, <3>1 DEF RestoredPeak
    <3> QED BY <1>8, <2>3, <3>2 DEF AmaxIs
  <2> QED BY <1>5, <2>4, <2>5 DEF AmaxIs
<1>12. Amax(back) = Peak(c, l)
  BY <1>9, <1>10, <1>11, AmaxUnique
<1>13. ComputeScale(back) = S
  BY <1>10, <1>12 DEF ComputeScale, PeakBits
<1>14. ASSUME NEW i \in Dims(d), Magnitude(back[i]) = Amax(back)
       PROVE  Magnitude(Quotient(back[i], S)) = 127
  <2>1. PICK v \in Int : v = back[i] /\ Magnitude(v) = Peak(c, l)
    BY <1>8, <1>12, <1>14
  <2>2. l + 1 \in Exponents /\ Magnitude(v) <= Peak(c, l)
    <3>1. l + 1 \in Exponents
      BY <1>10, MaxExponentIs DEF Exponents
    <3>2. Magnitude(v) \in Nat
      BY MagnitudeNat
    <3> QED BY <2>1, <3>1, <3>2
  <2>3. Magnitude(Quotient(v, PeakBits(c, l))) = 127
    BY <2>1, <2>2, WithinFullScale
  <2> QED BY <1>10, <2>1, <2>3
<1> QED BY <1>1, <1>4, <1>7, <1>8, <1>9, <1>13, <1>14

-----------------------------------------------------------------------------
(* A row and its two tiers.                                                *)

RoundTrip(v) == [h \in DOMAIN v |-> Restoration(v[h])]

Typed ==
  /\ layout \in LayoutFields /\ layout.header_bytes <= layout.padding_bytes
  /\ head_num \in Nat \ {0} /\ head_dim \in Nat \ {0}
  /\ x \in [Heads(head_num) -> Bf16Head(head_dim)]

(* However often a row has been to L2: it is the first row, or what that   *)
(* became the first time.                                                  *)
Stable == restored \in BOOLEAN /\ row = IF restored THEN RoundTrip(x) ELSE x

Stored == tier = "L2" => ~PackRejects /\ record = EncodeRecords(row)

IInv == Typed /\ Stable /\ Stored

(* A head of the row, as Stable describes it.                              *)
LEMMA RowIs ==
  ASSUME Typed, Stable, NEW h \in Heads(head_num)
  PROVE  /\ x[h] \in Bf16Head(head_dim) /\ head_dim \in Nat \ {0}
         /\ row[h] = IF restored THEN Restoration(x[h]) ELSE x[h]
         /\ DOMAIN row = Heads(head_num)
  BY DEF Typed, Stable, RoundTrip

(* What is stored of the row's heads is what was stored of the first row.  *)
LEMMA RowStored ==
  ASSUME Typed, Stable, NEW h \in Heads(head_num)
  PROVE  LET S == ComputeScale(x[h])
         IN  /\ DOMAIN row = Heads(head_num) /\ DOMAIN row[h] = Dims(head_dim)
             /\ S \in BitPatterns /\ ComputeScale(row[h]) = S
             /\ Restoration(row[h]) = Restoration(x[h])
             /\ \A i \in Dims(head_dim) :
                  /\ Magnitude(Quotient(row[h][i], S)) <= QUANT_MAX
                  /\ Clamp(Quotient(row[h][i], S)) = Quotient(row[h][i], S)
                  /\ Quotient(row[h][i], S) \in Int8s
                  /\ Magnitude(row[h][i]) = Amax(row[h]) => Magnitude(Quotient(row[h][i], S)) = QUANT_MAX
                  /\ restored => 256 * Magnitude(row[h][i] - x[h][i])
                                   <= 129 * Bf16Value(S) + Magnitude(row[h][i])
<1>1. PICK head \in Bf16Head(head_dim) : head = x[h]
  BY RowIs
<1>2. PICK d \in Nat \ {0} : d = head_dim
  BY RowIs
<1>3. PICK S : S = ComputeScale(head)
  OBVIOUS
<1>4. PICK back : back = Restoration(head)
  OBVIOUS
<1>5. /\ S \in BitPatterns
      /\ \A i \in Dims(d) :
           /\ Magnitude(Quotient(head[i], S)) <= 127
           /\ Clamp(Quotient(head[i], S)) = Quotient(head[i], S)
           /\ Quotient(head[i], S) \in Int8s
           /\ Magnitude(head[i]) = Amax(head) => Magnitude(Quotient(head[i], S)) = 127
           /\ Magnitude(back[i]) = Amax(back) => Magnitude(Quotient(back[i], S)) = 127
           /\ Quotient(back[i], S) = Quotient(head[i], S)
           /\ 256 * Magnitude(back[i] - head[i]) <= 129 * Bf16Value(S) + Magnitude(back[i])
      /\ back \in Head(d)
      /\ ComputeScale(back) = S
  BY <1>1, <1>2, <1>3, <1>4, HeadRoundTrip
<1>6. DOMAIN head = Dims(d) /\ DOMAIN back = Dims(d)
  BY <1>1, <1>2, <1>5 DEF Bf16Head, Head
<1>7. Restoration(back) = back
  BY <1>3, <1>4, <1>5, <1>6 DEF Restoration
<1>8. DOMAIN row = Heads(head_num) /\ row[h] = IF restored THEN back ELSE head
  BY <1>1, <1>4, RowIs
<1>9. CASE restored
  BY <1>1, <1>2, <1>3, <1>4, <1>5, <1>6, <1>7, <1>8, <1>9 DEF QUANT_MAX
<1>10. CASE ~restored
  BY <1>1, <1>2, <1>3, <1>4, <1>5, <1>6, <1>8, <1>10 DEF QUANT_MAX
<1> QED BY <1>9, <1>10

(* A record holds what was put into it, so it decodes to the round trip.   *)
LEMMA RecordIs ==
  ASSUME IInv, tier = "L2"
  PROVE  /\ Scales = ComputeScales(row)
         /\ Payload = QuantizeRows(row, ComputeScales(row))
         /\ DecodeRecords(record) = RoundTrip(x)
<1> DEFINE scales == ComputeScales(row)
           payload == QuantizeRows(row, scales)
<1>1. Typed /\ Stable /\ ~PackRejects /\ record = PackRecords(payload, scales)
  BY DEF IInv, Stored, EncodeRecords
<1>2. ASSUME NEW h \in Heads(head_num)
      PROVE  /\ scales[h] = ComputeScale(row[h]) /\ scales[h] \in BitPatterns
             /\ payload[h] = [i \in Dims(head_dim) |-> Clamp(Quotient(row[h][i], scales[h]))]
             /\ payload[h] \in [Dims(head_dim) -> Int8s]
             /\ [i \in DOMAIN payload[h] |-> Dequantized(payload[h][i], scales[h])] = Restoration(x[h])
  <2>1. /\ DOMAIN row = Heads(head_num) /\ DOMAIN row[h] = Dims(head_dim)
        /\ ComputeScale(row[h]) \in BitPatterns
        /\ Restoration(row[h]) = Restoration(x[h])
        /\ \A i \in Dims(head_dim) : Clamp(Quotient(row[h][i], ComputeScale(row[h]))) \in Int8s
    BY <1>1, RowStored
  <2>2. scales[h] = ComputeScale(row[h])
    BY <2>1 DEF ComputeScales
  <2> HIDE DEF scales
  <2>3. payload[h] = [i \in Dims(head_dim) |-> Clamp(Quotient(row[h][i], scales[h]))]
    BY <2>1 DEF QuantizeRows
  <2> HIDE DEF payload
  <2>4. DOMAIN payload[h] = Dims(head_dim) /\ payload[h] \in [Dims(head_dim) -> Int8s]
    BY <2>1, <2>2, <2>3
  <2>5. Restoration(row[h]) =
          [i \in Dims(head_dim) |-> Dequantized(Clamp(Quotient(row[h][i], scales[h])), scales[h])]
    BY <2>1, <2>2 DEF Restoration
  <2> QED BY <2>1, <2>2, <2>3, <2>4, <2>5
<1>3. DOMAIN row = Heads(head_num)
  <2>1. 0 \in Heads(head_num)
    BY <1>1 DEF Typed, Heads
  <2> QED BY <1>1, <2>1, RowStored
<1>4. /\ scales = [h \in Heads(head_num) |-> scales[h]]
      /\ payload = [h \in Heads(head_num) |-> payload[h]]
  BY <1>3 DEF ComputeScales, QuantizeRows
<1> HIDE DEF scales, payload
<1>5. /\ scales \in [Heads(head_num) -> BitPatterns]
      /\ payload \in [Heads(head_num) -> [Dims(head_dim) -> Int8s]]
  BY <1>2, <1>4
<1>6. UnpackPayload(record) = payload /\ UnpackScales(record) = scales
  BY <1>1, <1>5, PackUnpack DEF Typed
<1>7. DecodeRecords(record) = [h \in Heads(head_num) |->
                                 [i \in DOMAIN payload[h] |-> Dequantized(payload[h][i], scales[h])]]
  BY <1>5, <1>6 DEF DecodeRecords, DequantizeRows
<1>8. RoundTrip(x) = [h \in Heads(head_num) |-> Restoration(x[h])]
  BY <1>1 DEF RoundTrip, Typed
<1>9. DecodeRecords(record) = RoundTrip(x)
  BY <1>2, <1>7, <1>8
<1> QED BY <1>6, <1>9 DEF Scales, Payload, scales, payload

(* The invariant holds of the first row and is kept by every step.         *)
LEMMA IInvInit == Init => IInv
<1> SUFFICES ASSUME Init PROVE IInv
  OBVIOUS
<1>1. PICK f \in Formats :
        /\ layout = f.layout /\ head_num = f.head_num /\ head_dim = f.head_dim
        /\ x \in [Heads(f.head_num) -> f.heads]
  BY DEF Init
<1>2. f.heads \subseteq Bf16Head(f.head_dim)
  BY HeadsAssumption DEF Bf16Head, Head
<1>3. Typed
  BY <1>1, <1>2, FormatsAssumption DEF Typed, Constructible
<1> QED BY <1>3 DEF Init, IInv, Stable, Stored

LEMMA IInvStep == IInv /\ [Next]_vars => IInv'
<1> SUFFICES ASSUME IInv, [Next]_vars PROVE IInv'
  OBVIOUS
<1>1. CASE Reject
  BY <1>1 DEF Reject, IInv, Typed, Stable, Stored, format
<1>2. CASE Demote
  <2>1. Typed' /\ Stable'
    BY <1>2 DEF Demote, IInv, Typed, Stable, format
  <2>2. Stored'
    <3>1. PackRejects' = PackRejects /\ EncodeRecords(row)' = EncodeRecords(row)
      BY <1>2 DEF Demote, format, PackRejects, EncodeRecords, PackRecords
    <3> QED BY <1>2, <3>1 DEF Demote, Stored
  <2> QED BY <2>1, <2>2 DEF IInv
<1>3. CASE Restore
  <2>1. row' = RoundTrip(x)
    BY <1>3, RecordIs DEF Restore
  <2> QED BY <1>3, <2>1 DEF Restore, IInv, Typed, Stable, Stored, format, RoundTrip
<1>4. CASE UNCHANGED vars
  BY <1>4 DEF vars, format, IInv, Typed, Stable, Stored, PackRejects, EncodeRecords, PackRecords
<1> QED BY <1>1, <1>2, <1>3, <1>4 DEF Next

LEMMA Inductive == Spec => []IInv
BY IInvInit, IInvStep, PTL DEF Spec

(* encode_records, decode_records: for every layout, every geometry and    *)
(* every row of BF16 numbers, what is read out of a record is what was put *)
(* into it, however often the row has been there.                          *)
THEOREM Lossless == Spec => []RecordIsLossless
<1>1. IInv => RecordIsLossless
  BY RecordIs DEF RecordIsLossless
<1> QED BY <1>1, Inductive, PTL

(* verified_error_bound: no number of round trips takes an element of any  *)
(* row further from the first row than half a scale and the rounding of    *)
(* BF16 explain.                                                           *)
THEOREM ErrorBound == Spec => []WithinVerifiedBound
<1>1. IInv => WithinVerifiedBound
  <2> SUFFICES ASSUME IInv, tier = "L2", restored,
                      NEW h \in Heads(head_num), NEW i \in Dims(head_dim)
               PROVE  256 * Magnitude(row[h][i] - x[h][i])
                        <= 129 * Bf16Value(Scales[h]) + Magnitude(row[h][i])
    BY DEF WithinVerifiedBound
  <2>1. Typed /\ Stable
    BY DEF IInv
  <2>2. Scales[h] = ComputeScale(row[h])
    BY <2>1, RecordIs, RowStored DEF ComputeScales
  <2> QED BY <2>1, <2>2, RowStored
<1> QED BY <1>1, Inductive, PTL

(* quantize_rows: in no row does the clamp change a quotient, and the      *)
(* element that sets the scale is always stored as 127.                    *)
THEOREM FullScale == Spec => []FullScaleIsReached
<1>1. IInv => FullScaleIsReached
  <2> SUFFICES ASSUME IInv, tier = "L2",
                      NEW h \in Heads(head_num), NEW i \in Dims(head_dim)
               PROVE  /\ Magnitude(Quotient(row[h][i], Scales[h])) <= QUANT_MAX
                      /\ Magnitude(row[h][i]) = Amax(row[h]) => Magnitude(Payload[h][i]) = QUANT_MAX
    BY DEF FullScaleIsReached
  <2>1. Typed /\ Stable
    BY DEF IInv
  <2>2. DOMAIN row = Heads(head_num) /\ DOMAIN row[h] = Dims(head_dim)
    BY <2>1, RowStored
  <2>3. Scales[h] = ComputeScale(row[h])
    BY <2>2, RecordIs DEF ComputeScales
  <2>4. Payload[h][i] = Clamp(Quotient(row[h][i], Scales[h]))
    <3>1. Payload = QuantizeRows(row, Scales)
      BY RecordIs
    <3> QED BY <2>2, <3>1 DEF QuantizeRows
  <2> QED BY <2>1, <2>3, <2>4, RowStored
<1> QED BY <1>1, Inductive, PTL

(* decode_records after encode_records is idempotent: a row that has been  *)
(* in L2 once comes back unchanged every further time, so that the loss    *)
(* does not accumulate.                                                    *)
THEOREM Idempotent == Spec => NoDrift
<1>1. IInv /\ [Next]_vars => (restored /\ tier = "L2" /\ tier' = "L1" => row' = row)
  <2> SUFFICES ASSUME IInv, [Next]_vars, restored, tier = "L2", tier' = "L1" PROVE row' = row
    OBVIOUS
  <2>1. Restore
    BY DEF Next, Reject, Demote, vars
  <2>2. row' = RoundTrip(x)
    BY <2>1, RecordIs DEF Restore
  <2> QED BY <2>2 DEF IInv, Stable
<1> QED BY <1>1, Inductive, PTL DEF Spec, NoDrift

=============================================================================
