------------------------------ MODULE GipWire ------------------------------
(***************************************************************************)
(* The header of a GIP packet as tools/gip_init.py writes and reads it:    *)
(* command, options, sequence number, the length and, in a chunk, the      *)
(* offset, both as base-128 varints, padded to an even number of bytes.    *)
(* A packet is a sequence of bytes, a byte is a number below 256.          *)
(***************************************************************************)
EXTENDS Integers, Sequences

\* GIP_CLIENT_ID and the GIP_OPT_ bits.
Client     == 1
OptAck     == 16
Internal   == 32
ChunkStart == 64
Chunk      == 128

\* build_gip_header's chunk_offset=None.
NoOffset == -1

IsChunk(opts) == (opts \div Chunk) % 2 = 1

\* Groups of seven bits, the lowest first; all but the last have the
\* continuation bit.
EncodeVarint(v) ==
  LET groups[n \in 0 .. v] ==
        IF n < 128 THEN <<n>> ELSE <<(n % 128) + 128>> \o groups[n \div 128]
  IN  groups[v]

\* Mutant of Padded: the zero is appended without a continuation bit before it.
PaddedWithoutBit(len, offset) ==
  IF (3 + Len(len) + Len(offset)) % 2 = 0 THEN len ELSE Append(len, 0)

\* The continuation bit is set on the last byte of the length, and a zero
\* follows, when the header would have an odd number of bytes.
Padded(len, offset) ==
  IF (3 + Len(len) + Len(offset)) % 2 = 0 THEN len
  ELSE Append([len EXCEPT ![Len(len)] = @ + 128], 0)

BuildHeader(h) ==
  LET offset == IF h.off = NoOffset THEN <<>> ELSE EncodeVarint(h.off) IN
    <<h.cmd, h.opts, h.seq>> \o Padded(EncodeVarint(h.len), offset) \o offset

\* decode_gip_header's loops: what is read from pos on, up to the first byte
\* without the continuation bit or to the end of the packet, and where the
\* reading ends.
ReadVarint(s, pos) ==
  LET read[i \in 1 .. Len(s) + 1] ==
        IF i > Len(s) THEN [v |-> 0, next |-> i]
        ELSE IF s[i] < 128 THEN [v |-> s[i], next |-> i + 1]
        ELSE [v |-> (s[i] % 128) + 128 * read[i + 1].v, next |-> read[i + 1].next]
  IN  read[pos]

\* The header of a packet of at least 4 bytes, and the bytes it takes.
DecodeHeader(s) ==
  LET len == ReadVarint(s, 4)
      off == IF IsChunk(s[2]) THEN ReadVarint(s, len.next)
             ELSE [v |-> NoOffset, next |-> len.next] IN
    [cmd  |-> s[1], opts |-> s[2], seq |-> s[3], len |-> len.v, off |-> off.v,
     size |-> off.next - 1]

\* The header h is read back as it was meant whatever follows it, and ends on
\* an even byte, so that no byte of the padding leaks into the payload.
ReadBack(h) ==
  LET s == BuildHeader(h) IN
    /\ Len(s) % 2 = 0
    /\ DecodeHeader(s \o <<0, 0>>) =
         [cmd |-> h.cmd, opts |-> h.opts, seq |-> h.seq, len |-> h.len, off |-> h.off,
          size |-> Len(s)]
=============================================================================
