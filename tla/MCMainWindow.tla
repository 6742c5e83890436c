---------------------------- MODULE MCMainWindow ----------------------------
(* MainWindow with two sessions, a tap, and two sequences: one sent twice, one *)
(* sent for ever, one sent once and drip-fed, one without bytes.  The lengths  *)
(* are those of the bytes that TxSequence makes of a text.                     *)
EXTENDS MainWindow, TxSequence, StoreChecks

MCCrc32(data) == <<0, 0, 0, 0>>

Plain == [text |-> <<[kind |-> "counter", value |-> 0]>>, names |-> << >>,
          terminator |-> "none", checksum |-> "none", checksum_start |-> 0]
Size(seq) == Len(GetBytes(seq, 0, [i \in 1..9 |-> 0]).bytes)

Twice == [repeat |-> 2, bytes |-> Size([Plain EXCEPT !.checksum = "crc8"]), slow |-> TRUE]
Always == [repeat |-> 0, bytes |-> Size(Plain), slow |-> FALSE]
Once == [repeat |-> 1, bytes |-> Size([Plain EXCEPT !.terminator = "crlf"]), slow |-> TRUE]
Empty == [repeat |-> 2, bytes |-> Size([Plain EXCEPT !.text = << >>]), slow |-> FALSE]
MCSeqDef == {Twice, Always, Once, Empty}
MCProject == {[sequences |-> [q \in {"q1"} |-> Always], ports |-> {"p2"}, taps |-> {"t1"}],
              [sequences |-> [q \in {"q2"} |-> Twice], ports |-> {}, taps |-> {}]}

\* The checksums against their references, on all short strings of edge bytes,
\* and the published check values of "123456789".
Edge == {0, 1, 127, 128, 255}
Digits == [i \in 1..9 |-> 48 + i]
ASSUME \A n \in 0..3 : \A data \in [1..n -> Edge] : ChecksumsHold(data)
ASSUME crc8(Digits) = 244 /\ crc16_modbus(Digits) = 19255

\* The counter over two texts, and where it wraps.
Token == {[kind |-> "counter", value |-> 0], [kind |-> "mask", value |-> 15],
          [kind |-> "name", value |-> "x"], [kind |-> "name", value |-> "y"],
          [kind |-> "bad", value |-> 0]}
Text == UNION {[1..n -> Token] : n \in 0..2}
ASSUME \A one, two \in Text, c \in {0, 254, 255} :
          CounterContinues(one, two, c, [x \in {"x"} |-> <<1, 2>>], [i \in 1..4 |-> 255])
=============================================================================
