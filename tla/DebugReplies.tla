---------------------------- MODULE DebugReplies ----------------------------
(***************************************************************************)
(* The way of the answer to an `m' command from the memory to GDB:         *)
(* handle_mem_read, Raw_byte_stream::to_string and Packet_encoder, and the *)
(* same way back.                                                          *)
(***************************************************************************)
EXTENDS InstFetch, PacketEncoder

CONSTANT Lengths            \* bound: the lengths GDB asks for

ASSUME LengthsAssumption == Lengths \subseteq Nat

HexDigit(d) == IF d < 10 THEN 48 + d ELSE 87 + d

Digit(c) == IF c < 58 THEN c - 48 ELSE c - 87

ErrorText == << 69, 48, 48 >>       \* "E00"

(* Raw_byte_stream::to_string: two digits for each byte. *)
HexText(data) ==
    IF data = << >> THEN ErrorText
    ELSE [i \in 1 .. 2 * Len(data) |->
              LET byte == data[(i + 1) \div 2]
              IN  HexDigit(IF i % 2 = 1 THEN byte \div 16 ELSE byte % 16)]

(* What GDB makes of the text. *)
BytesOf(text) ==
    IF text = ErrorText THEN << >>
    ELSE [i \in 1 .. Len(text) \div 2 |-> 16 * Digit(text[2 * i - 1]) + Digit(text[2 * i])]

-----------------------------------------------------------------------------
(***************************************************************************)
(* Whatever the memory holds, GDB gets from the body of the packet the     *)
(* bytes that handle_mem_read collected (emulator-debug.cpp:106-126), and  *)
(* no character of the body ends or begins a packet: not the count of a    *)
(* run of equal digits either (packet.cpp:176-197).                        *)
(***************************************************************************)
RepliesDecode ==
    \A data \in { handle_mem_read(memory, a, length) : a \in Address, length \in Lengths } :
        LET body == Encode(HexText(data))
        IN  /\ \A i \in DOMAIN body : body[i] \notin {Hash, Dollar}
            /\ BytesOf(Expand(body)) = data
=============================================================================
