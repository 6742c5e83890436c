----------------------------- MODULE TxSequence -----------------------------
(***************************************************************************)
(* kcom/models/sequence.py and kcom/utils/checksum.py: the bytes that a    *)
(* send sequence stands for.                                               *)
(*                                                                         *)
(* The text of a sequence is a sequence of tokens [kind, value]: "byte"    *)
(* (value is the byte), "random", "counter", "mask" (a random byte under a *)
(* mask), "name" (an entry of names), or "bad" (what the tokeniser finds   *)
(* no rule for).                                                           *)
(***************************************************************************)
EXTENDS Integers, FiniteSetsExt, Functions, SequencesExt

CONSTANT Crc32(_)   \* zlib's CRC of a byte string, as four bytes, the lowest first

Byte == 0..255
Bit(n, i) == (n \div 2^i) % 2

\* a ^ b of numbers below 2^16.
Xor(a, b) == MapThenSumSet(LAMBDA i : 2^i, {i \in 0..15 : Bit(a, i) # Bit(b, i)})

\* a & b of two bytes.
And(a, b) == MapThenSumSet(LAMBDA i : 2^i, {i \in 0..7 : Bit(a, i) = 1 /\ Bit(b, i) = 1})

Times8(step, crc) == FoldLeft(LAMBDA c, i : step[c], crc, <<1, 2, 3, 4, 5, 6, 7, 8>>)

crc16_modbus(data) ==
    LET step == [c \in 0..65535 |->
                   IF c % 2 = 1 THEN Xor(c \div 2, 40961) ELSE c \div 2]     \* 0xA001
    IN FoldLeft(LAMBDA c, b : Times8(step, Xor(c, b)), 65535, data)

crc8(data) ==
    LET step == [c \in Byte |-> (IF c >= 128 THEN Xor(c * 2, 7) ELSE c * 2) % 256]
    IN FoldLeft(LAMBDA c, b : Times8(step, Xor(c, b)), 0, data)

xor_checksum(data) == FoldLeft(Xor, 0, data)

sum8(data) == FoldLeft(LAMBDA s, b : (s + b) % 256, 0, data)

\* _calc_checksum_bytes: the two bytes of the CRC-16 go low byte first; a name
\* it does not know adds nothing.
ChecksumBytes(data, checksum) ==
    CASE checksum = "xor"          -> <<xor_checksum(data)>>
      [] checksum = "sum8"         -> <<sum8(data)>>
      [] checksum = "crc8"         -> <<crc8(data)>>
      [] checksum = "crc16_modbus" -> <<crc16_modbus(data) % 256, crc16_modbus(data) \div 256>>
      [] checksum = "crc32"        -> Crc32(data)
      [] OTHER                     -> << >>

Terminator(name) ==
    CASE name = "cr" -> <<13>> [] name = "lf" -> <<10>> [] name = "crlf" -> <<13, 10>>
      [] OTHER -> << >>

\* _expand_hex_wildcards: what the tokens stand for and the counter afterwards.
\* random[i] is what random.randint returns for token i; an unknown name is a
\* null byte, a bad token nothing.
Expand(text, counter, names, random) ==
    LET one(i, n) ==
            CASE text[i].kind = "byte"    -> <<text[i].value>>
              [] text[i].kind = "random"  -> <<random[i]>>
              [] text[i].kind = "mask"    -> <<And(random[i], text[i].value)>>
              [] text[i].kind = "counter" -> <<n>>
              [] text[i].kind = "name"    -> IF text[i].value \in DOMAIN names
                                             THEN names[text[i].value] ELSE <<0>>
              [] text[i].kind = "bad"     -> << >>
        step(acc, i) == [bytes |-> acc.bytes \o one(i, acc.counter),
                         counter |-> IF text[i].kind = "counter" THEN (acc.counter + 1) % 256
                                     ELSE acc.counter]
    IN FoldLeftDomain(step, [bytes |-> << >>, counter |-> counter], text)

\* get_bytes: expanded, then the terminator, then the checksum of what stands
\* from checksum_start on, the terminator included.
GetBytes(seq, counter, random) ==
    LET expanded == Expand(seq.text, counter, seq.names, random)
        raw == expanded.bytes \o Terminator(seq.terminator)
        covered == SubSeq(raw, seq.checksum_start + 1, Len(raw))
    IN [bytes |-> IF seq.checksum = "none" THEN raw
                  ELSE raw \o ChecksumBytes(covered, seq.checksum),
        counter |-> expanded.counter]

-----------------------------------------------------------------------------
(* Reference definitions.                                                   *)

\* The remainder of the bits of data, times x^8, by x^8 + x^2 + x + 1.
Remainder8(data) ==
    LET bits == [i \in 1..8 * Len(data) + 8 |->
                    IF i > 8 * Len(data) THEN 0
                    ELSE Bit(data[(i - 1) \div 8 + 1], 7 - ((i - 1) % 8))]
        step(r, b) == LET n == 2 * r + b IN IF n >= 256 THEN Xor(n, 263) ELSE n
    IN FoldLeft(step, 0, bits)

\* The algorithms agree with their references on data: the CRC-8 with long
\* division, the CRC-16 with the residue zero that a receiver checks for, the
\* others with what cancels them.
ChecksumsHold(data) ==
    /\ crc8(data) = Remainder8(data)
    /\ crc16_modbus(data \o ChecksumBytes(data, "crc16_modbus")) = 0
    /\ xor_checksum(data \o <<xor_checksum(data)>>) = 0
    /\ sum8(data) = FoldLeft(+, 0, data) % 256

\* The counter goes on from one expansion to the next as if it were one text.
CounterContinues(one, two, counter, names, random) ==
    LET both == Expand(one \o two, counter, names, random)
        first == Expand(one, counter, names, random)
        second == Expand(two, first.counter, names, [i \in DOMAIN two |-> random[i + Len(one)]])
    IN both = [bytes |-> first.bytes \o second.bytes, counter |-> second.counter]
=============================================================================
