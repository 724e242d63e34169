------------------------------ MODULE NdxCodec ------------------------------
(***************************************************************************)
(* File-list indices on the wire (crates/protocol/src/codec/ndx/codec.rs). *)
(* From protocol 30 on (ModernNdxCodec) an index is sent as its difference *)
(* from the previous one of its sign, in one to six bytes; writer and      *)
(* reader each keep the previous values.  Before (LegacyNdxCodec) it is    *)
(* four little-endian bytes and there is no state.                         *)
(***************************************************************************)
EXTENDS Integers, Sequences

NDX_DONE == -1
NDX_FLIST_EOF == -2
NDX_DEL_STATS == -3

\* The delta state of a codec: prev_positive and prev_negative.
NewCodec == [pos |-> -1, neg |-> 1]

\* The byte of weight w (1, 256, 2^16 or 2^24) of a two's complement number.
Byte(n, w) == (n \div w) % 256

\* The state after an index went by, on either side (write_ndx, commit_ndx).
Advance(st, n) ==
    IF n = NDX_DONE THEN st
    ELSE IF n < 0 THEN [st EXCEPT !.neg = -n]
    ELSE [st EXCEPT !.pos = n]

\* The body of an index of magnitude num after prev: a short difference, a
\* two-byte difference, or the number itself with the high bit as a mark.
EncodeDiff(num, prev) ==
    LET diff == num - prev IN
    IF diff > 0 /\ diff < 254
      THEN <<diff>>
      ELSE IF diff >= 0 /\ diff <= 32767
        THEN <<254, Byte(diff, 256), Byte(diff, 1)>>
        ELSE <<254, Byte(num, 16777216) + 128, Byte(num, 1), Byte(num, 256),
               Byte(num, 65536)>>

\* ModernNdxCodec::write_ndx and LegacyNdxCodec::write_ndx.
EncodeNdx(proto, st, n) ==
    IF proto < 30 THEN <<Byte(n, 1), Byte(n, 256), Byte(n, 65536), Byte(n, 16777216)>>
    ELSE IF n = NDX_DONE THEN << 0 >>
    ELSE IF n < 0 THEN << 255 >> \o EncodeDiff(-n, st.neg)
    ELSE EncodeDiff(n, st.pos)

\* Mutant: the two bytes of a difference are taken for little-endian.
MutDecodeDiff(b, i, prev) ==
    IF b[i] /= 254
      THEN [num |-> prev + b[i], next |-> i + 1]
      ELSE IF b[i + 1] >= 128
        THEN [num |-> (b[i + 1] - 128) * 16777216 + b[i + 2] + b[i + 3] * 256 + b[i + 4] * 65536,
              next |-> i + 5]
        ELSE [num |-> prev + b[i + 2] * 256 + b[i + 1], next |-> i + 3]

\* The magnitude read from byte i of b on, and the byte after it.
DecodeDiff(b, i, prev) ==
    IF b[i] /= 254
      THEN [num |-> prev + b[i], next |-> i + 1]
      ELSE IF b[i + 1] >= 128
        THEN [num |-> (b[i + 1] - 128) * 16777216 + b[i + 2] + b[i + 3] * 256 + b[i + 4] * 65536,
              next |-> i + 5]
        ELSE [num |-> prev + b[i + 1] * 256 + b[i + 2], next |-> i + 3]

\* read_ndx: the index at byte i of the stream b, and where the next one starts.
\* (The reader blocks until all the bytes of an index are there.)
DecodeNdx(proto, st, i, b) ==
    IF proto < 30
      THEN [ndx |-> (IF b[i + 3] >= 128 THEN b[i + 3] - 256 ELSE b[i + 3]) * 16777216
                      + b[i] + b[i + 1] * 256 + b[i + 2] * 65536,
            next |-> i + 4]
      ELSE IF b[i] = 0
        THEN [ndx |-> NDX_DONE, next |-> i + 1]
        ELSE IF b[i] = 255
          THEN LET d == DecodeDiff(b, i + 1, st.neg) IN [ndx |-> -d.num, next |-> d.next]
          ELSE LET d == DecodeDiff(b, i, st.pos) IN [ndx |-> d.num, next |-> d.next]
=============================================================================
