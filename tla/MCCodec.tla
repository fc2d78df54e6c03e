--------------------------------- MODULE MCCodec ---------------------------------
(***************************************************************************)
(* Every BF16 absmax of one binade with every BF16 number below it as its  *)
(* neighbour; heads below the floor; and rows of two heads in layouts with *)
(* and without a header.  Scaling a head by a power of two scales its      *)
(* restoration, so one binade stands for all above the floor.              *)
(***************************************************************************)
EXTENDS Codec

Absmaxes == {m * 256 : m \in 128..255}
\* What is below 128 is less than half of any scale.
Bf16s == {0, 1, 127} \cup {m * 2^e : m \in 128..255, e \in 0..8}

Head(u, v) == [i \in 0..1 |-> IF i = 0 THEN u ELSE v]

\* The absmax is negative, its neighbour is not.
Binade == {Head(-p[1], p[2]) : p \in {q \in Absmaxes \X Bf16s : q[2] <= q[1]}}

Floored == {Head(m * 2^e, -(m * 2^e)) : m \in {128, 129, 200, 255}, e \in 0..7}

Samples == {Head(0, 0), Head(32768, -200), Head(-65280, 33024), Head(300, 19968)}

Format(payload, scale, padding, header, n, heads) ==
  [layout |-> [payload_bytes |-> payload, scale_bytes |-> scale,
               padding_bytes |-> padding, header_bytes |-> header],
   head_num |-> n, head_dim |-> 2, heads |-> heads]

MCFloored == {Format(2, 2, 1, 0, 1, Floored)}

\* Layouts with and without a header, and blocks that do not fit the geometry.
MCFormats ==
  MCFloored \cup {Format(2, 2, 1, 0, 1, Binade)}
    \cup {Format(4, 4, 2, header, 2, Samples) : header \in 0..2}
    \cup {Format(p, s, 2, 0, n, {Head(300, 7)}) : p \in 1..5, s \in 1..5, n \in 1..2}
=============================================================================
