------------------------------ MODULE RecordLayout ------------------------------
(***************************************************************************)
(* src/hiqcache/layout.py: where the bytes of one encoded KV row are.      *)
(* A layout is the record of the four sizes RecordLayout is built from; a  *)
(* slice [start, stop) is the set of its byte offsets.                     *)
(***************************************************************************)
EXTENDS Integers

ALIGNMENT_BYTES == 128

LayoutFields == [payload_bytes : Nat, scale_bytes : Nat, padding_bytes : Nat, header_bytes : Nat]

V1_LAYOUT == [payload_bytes |-> 1024, scale_bytes |-> 16, padding_bytes |-> 112, header_bytes |-> 0]

(* What __post_init__ accepts.                                             *)
Constructible(layout) ==
  /\ layout \in LayoutFields
  /\ layout.payload_bytes # 0
  /\ layout.header_bytes <= layout.padding_bytes

RowBytes(layout) == layout.payload_bytes + layout.scale_bytes + layout.padding_bytes

PayloadOffset(layout) == layout.header_bytes

\* MUTANT: the header is forgotten.
ScaleAtPayloadBytes(layout) == layout.payload_bytes

ScaleOffset(layout) == layout.header_bytes + layout.payload_bytes

PaddingOffset(layout) == ScaleOffset(layout) + layout.scale_bytes

IsMoverAligned(layout) == RowBytes(layout) % ALIGNMENT_BYTES = 0

BytesPerToken(layout) == 2 * RowBytes(layout)

BytesPerTokenAllLayers(layout, layer_num) == BytesPerToken(layout) * layer_num

UncompressedBytesPerToken(layer_num, head_num, head_dim, itemsize) ==
  2 * layer_num * head_num * head_dim * itemsize

(* What check_against accepts.                                             *)
CheckAgainst(layout, head_num, head_dim, itemsize) ==
  /\ layout.payload_bytes = (head_num * head_dim * itemsize) \div 2
  /\ layout.scale_bytes = head_num * 2
  /\ IsMoverAligned(layout)

Bytes(start, stop) == start..stop - 1

PayloadSlice(layout, head, head_dim) ==
  LET start == PayloadOffset(layout) + head * head_dim
  IN  Bytes(start, start + head_dim)

ScaleSlice(layout, head) ==
  LET start == ScaleOffset(layout) + head * 2
  IN  Bytes(start, start + 2)

RecordOffset(layout, slot) == slot * RowBytes(layout)
=============================================================================
