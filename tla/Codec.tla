---------------------------------- MODULE Codec ----------------------------------
(***************************************************************************)
(* src/hiqcache/codec.py: one KV row that is demoted to L2 as an INT8      *)
(* record (encode_records) and restored to L1 as BF16 (decode_records),    *)
(* again and again.                                                        *)
(*                                                                         *)
(* The arithmetic is exact.  A BF16 number is an integer number of units   *)
(* of 2^-127, the floor on the absmax being 2^15 of them; a scale is the   *)
(* bit pattern that is stored.  compute_scales rounds to BF16, the decoder *)
(* rounds to BF16, and the float32 quotient of two BF16 numbers is either  *)
(* a tie or further from one than float32 can move it, so round() is that  *)
(* of the exact quotient.                                                  *)
(***************************************************************************)
EXTENDS RecordLayout

CONSTANTS
  Formats,      \* layouts and geometries, each with the heads its rows are made of
  MaxExponent   \* of the numbers there are; 247 is that of bfloat16

ASSUME ExponentAssumption == MaxExponent \in 9..247

ASSUME FormatsAssumption ==
  \A f \in Formats :
    /\ DOMAIN f = {"layout", "head_num", "head_dim", "heads"}
    /\ Constructible(f.layout)
    /\ f.head_num \in Nat \ {0} /\ f.head_dim \in Nat \ {0}

VARIABLES
  layout, head_num, head_dim,
  x,             \* the row to begin with
  tier,          \* where it is: "L1", "L2", or "rejected" by pack_records
  row,           \* the BF16 row, in L2 the one that was encoded
  record,        \* its encoded record
  restored       \* has the row been through L2 at least once?

format == <<layout, head_num, head_dim, x>>
vars == <<format, tier, row, record, restored>>

QUANT_MAX == 127
AMAX_FLOOR == 2^15

\* 2^n.
Pow2[n \in Nat] == IF n = 0 THEN 1 ELSE 2 * Pow2[n - 1]

Heads(n) == 0..n - 1
Dims(d) == 0..d - 1

-----------------------------------------------------------------------------
(* BF16.                                                                   *)

(* What a bit pattern stands for: an 8-bit significand and an exponent.    *)
Bf16Value(bits) == (128 + (bits % 128)) * Pow2[bits \div 128 - 7]

(* torch.round: half to even.                                              *)
RoundHalfEven(num, den) ==
  LET whole == num \div den
      twice == 2 * (num % den)
  IN  IF twice > den \/ (twice = den /\ whole % 2 = 1) THEN whole + 1 ELSE whole

\* The exponent of num / den, for numbers of at least 128 units.
Bf16Exponent(num, den) ==
  CHOOSE e \in 0..MaxExponent : 128 * Pow2[e] * den <= num /\ num < 256 * Pow2[e] * den

\* MUTANT: the result is truncated to BF16.
Bf16Truncate(num, den) ==
  LET e == Bf16Exponent(num, den) IN  128 * (e + 6) + (num \div (Pow2[e] * den))

(* The BF16 nearest to num / den; a carry goes into the exponent.          *)
Bf16Round(num, den) ==
  LET e == Bf16Exponent(num, den)
  IN  128 * (e + 6) + RoundHalfEven(num, Pow2[e] * den)

Magnitude(v) == IF v < 0 THEN -v ELSE v

Signed(v, magnitude) == IF v < 0 THEN -magnitude ELSE magnitude

(* The numbers of BF16, but that those below 128 units, which are stored   *)
(* as 0, are taken to be whole.  The largest exponent is left to the carry *)
(* when a row is restored.                                                 *)
IsBf16(n) ==
  n < 128 \/ \E e \in 0..MaxExponent - 1 : n % Pow2[e] = 0 /\ n \div Pow2[e] \in 128..255

ASSUME HeadsAssumption ==
  \A f \in Formats : \A head \in f.heads :
    head \in [Dims(f.head_dim) -> Int] /\ \A i \in Dims(f.head_dim) : IsBf16(Magnitude(head[i]))

-----------------------------------------------------------------------------
(* Quantising and restoring one head.                                      *)

Amax(head) ==
  LET largest == CHOOSE v \in {Magnitude(head[i]) : i \in DOMAIN head} :
                   \A i \in DOMAIN head : Magnitude(head[i]) <= v
  IN  IF largest < AMAX_FLOOR THEN AMAX_FLOOR ELSE largest

ComputeScale(head) == Bf16Round(Amax(head), QUANT_MAX)

\* MUTANT: the cast to INT8 is left to truncate.
QuotientTruncated(v, scale) == Signed(v, Magnitude(v) \div Bf16Value(scale))

Quotient(v, scale) == Signed(v, RoundHalfEven(Magnitude(v), Bf16Value(scale)))

Clamp(q) == IF q > QUANT_MAX THEN QUANT_MAX ELSE IF q < -QUANT_MAX THEN -QUANT_MAX ELSE q

QuantizeRows(v, scales) ==
  [h \in DOMAIN v |-> [i \in DOMAIN v[h] |-> Clamp(Quotient(v[h][i], scales[h]))]]

ComputeScales(v) == [h \in DOMAIN v |-> ComputeScale(v[h])]

Dequantized(q, scale) ==
  IF q = 0 THEN 0 ELSE Signed(q, Bf16Value(Bf16Round(Magnitude(q) * Bf16Value(scale), 1)))

DequantizeRows(payload, scales) ==
  [h \in DOMAIN payload |-> [i \in DOMAIN payload[h] |-> Dequantized(payload[h][i], scales[h])]]

-----------------------------------------------------------------------------
(* Packing.                                                                *)

(* .view(torch.uint8) of an int8, and back.                                *)
Uint8(q) == q % 256
Int8(byte) == IF byte >= 128 THEN byte - 256 ELSE byte

PackRejects ==
  \/ layout.payload_bytes # head_num * head_dim
  \/ layout.scale_bytes # head_num * 2

(* The payload is written before the scales, into a record of zeros.       *)
PackRecords(payload, scales) ==
  [b \in 0..RowBytes(layout) - 1 |->
     LET p == b - PayloadOffset(layout)
         s == b - ScaleOffset(layout)
     IN  IF s \in 0..2 * head_num - 1
         THEN IF s % 2 = 0 THEN scales[s \div 2] % 256 ELSE scales[s \div 2] \div 256
         ELSE IF p \in 0..head_num * head_dim - 1
         THEN Uint8(payload[p \div head_dim][p % head_dim])
         ELSE 0]

UnpackPayload(bytes) ==
  [h \in Heads(head_num) |->
     [i \in Dims(head_dim) |-> Int8(bytes[PayloadOffset(layout) + h * head_dim + i])]]

UnpackScales(bytes) ==
  [h \in Heads(head_num) |->
     bytes[ScaleOffset(layout) + 2 * h] + 256 * bytes[ScaleOffset(layout) + 2 * h + 1]]

EncodeRecords(v) ==
  LET scales == ComputeScales(v) IN PackRecords(QuantizeRows(v, scales), scales)

DecodeRecords(bytes) == DequantizeRows(UnpackPayload(bytes), UnpackScales(bytes))

-----------------------------------------------------------------------------
(* A row and its two tiers.                                                *)

NoRecord == <<>>

Init ==
  /\ \E f \in Formats :
       /\ layout = f.layout /\ head_num = f.head_num /\ head_dim = f.head_dim
       /\ x \in [Heads(f.head_num) -> f.heads]
  /\ tier = "L1"
  /\ row = x
  /\ record = NoRecord
  /\ restored = FALSE

Reject ==
  /\ tier = "L1"
  /\ PackRejects
  /\ tier' = "rejected"
  /\ UNCHANGED <<format, row, record, restored>>

Demote ==
  /\ tier = "L1"
  /\ ~PackRejects
  /\ record' = EncodeRecords(row)
  /\ tier' = "L2"
  /\ UNCHANGED <<format, row, restored>>

Restore ==
  /\ tier = "L2"
  /\ row' = DecodeRecords(record)
  /\ record' = NoRecord
  /\ tier' = "L1"
  /\ restored' = TRUE
  /\ UNCHANGED format

Next == Reject \/ Demote \/ Restore

Spec == Init /\ [][Next]_vars

-----------------------------------------------------------------------------
(* Properties.                                                             *)

Scales == UnpackScales(record)
Payload == UnpackPayload(record)

(* What decode_records reads out of a record is what encode_records put    *)
(* into it, for every head and whatever the header and the padding.        *)
RecordIsLossless ==
  tier = "L2" =>
    /\ Scales = ComputeScales(row)
    /\ Payload = QuantizeRows(row, ComputeScales(row))

(* verified_error_bound: |x_hat - x| <= (1/2 + 2^-8) s + 2^-8 |x_hat|,     *)
(* against the very first row, however often it went through L2 since.     *)
WithinVerifiedBound ==
  tier = "L2" /\ restored =>
    \A h \in Heads(head_num), i \in Dims(head_dim) :
      256 * Magnitude(row[h][i] - x[h][i])
        <= 129 * Bf16Value(Scales[h]) + Magnitude(row[h][i])

(* The rounded scale never pushes a quotient past full scale: the element  *)
(* that sets the scale is stored as 127, and nothing is distorted by the   *)
(* clamp.                                                                  *)
FullScaleIsReached ==
  tier = "L2" =>
    \A h \in Heads(head_num), i \in Dims(head_dim) :
      /\ Magnitude(Quotient(row[h][i], Scales[h])) <= QUANT_MAX
      /\ Magnitude(row[h][i]) = Amax(row[h]) => Magnitude(Payload[h][i]) = QUANT_MAX

(* Going through L2 again does not lose anything more: after the first     *)
(* time, a row comes back as it went.                                      *)
NoDrift == [][restored /\ tier = "L2" /\ tier' = "L1" => row' = row]_vars
=============================================================================
