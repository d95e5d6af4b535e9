---------------------------- MODULE PacketFormat ----------------------------
(***************************************************************************)
(* The GDB remote protocol frame as lib/gdb-stub/packet.cpp reads it:      *)
(*     $ body # digit digit                                                *)
(* and the pure functions its decoder applies to a complete frame.         *)
(*                                                                         *)
(* Characters are abstract: the decoder tells apart '$', '#', the three    *)
(* control characters ('+', '-', Ctrl-C), the escape '}' and the           *)
(* hexadecimal digits, and uses the code of a character only in the        *)
(* checksum and in the escape (xor 0x20).                                  *)
(***************************************************************************)
EXTENDS Naturals, Sequences

CONSTANTS
    Char,       \* the characters of the connection
    Dollar,     \* '$'
    Hash,       \* '#'
    Control,    \* {'+', '-', '\x03'}
    Escape,     \* '}'
    Digits,     \* the characters isxdigit accepts
    DigitValue, \* [Digits -> 0 .. Base - 1]
    Base,       \* 16
    Code,       \* [Char -> Nat], a character as u8
    Flip,       \* [Char -> Char], c ^ 0x20
    MaxBuffer   \* Packet_decoder::max_buffer_size

ASSUME CharAssumption ==
    /\ Dollar \in Char /\ Hash \in Char /\ Escape \in Char
    /\ Control \subseteq Char /\ Digits \subseteq Char
    /\ Dollar # Hash
    /\ Control \cap {Dollar, Hash} = {}
    /\ Digits \cap ({Dollar, Hash, Escape} \cup Control) = {}
    /\ Escape \notin {Dollar, Hash} \cup Control

ASSUME CodeAssumption ==
    /\ Base \in Nat \ {0}
    /\ DigitValue \in [Digits -> 0 .. Base - 1]
    /\ Code \in [Char -> Nat]
    /\ Flip \in [Char -> Char]
    /\ MaxBuffer \in Nat

(***************************************************************************)
(* What push_result enqueues: a packet, or the Packet_decoder::Error that  *)
(* took its place.                                                         *)
(***************************************************************************)
Error == {"Bad_checksum", "Bad_packet", "Buffer_overflow"}

Result == [error : Error \cup {"None"}, body : Seq(Char)]

Packet(body) == [error |-> "None", body |-> body]

Failure(e) == [error |-> e, body |-> << >>]

(***************************************************************************)
(* algo::get_checksum, a sum in u8 (Base * Base = 256).                    *)
(***************************************************************************)
Checksum(body) ==
    LET sum[i \in 0 .. Len(body)] ==
            IF i = 0 THEN 0 ELSE (sum[i - 1] + Code[body[i]]) % (Base * Base)
    IN  sum[Len(body)]

(***************************************************************************)
(* algo::remove_escape.  It fails on an escape at the end of the body and  *)
(* on an escaped escape; otherwise every escape character is dropped and   *)
(* the character after it is flipped.                                      *)
(***************************************************************************)
WellEscaped(body) ==
    \A i \in DOMAIN body :
        body[i] = Escape => i < Len(body) /\ body[i + 1] # Escape

Literal(body, i) ==
    IF i > 1 /\ body[i - 1] = Escape THEN Flip[body[i]] ELSE body[i]

Unescaped(body) ==
    LET prefix[i \in 0 .. Len(body)] ==
            IF i = 0 THEN << >>
            ELSE IF body[i] = Escape THEN prefix[i - 1]
            ELSE Append(prefix[i - 1], Literal(body, i))
    IN  prefix[Len(body)]

(***************************************************************************)
(* Packet_decoder::decode_in_buffer, in the order of its early returns.    *)
(***************************************************************************)
DecodeUncheckedDigits(body, high, low) ==       \* mutant: stoi is left to throw
    IF ~ {high, low} \subseteq Digits THEN Failure("Internal_error")
    ELSE IF DigitValue[high] * Base + DigitValue[low] # Checksum(body)
    THEN Failure("Bad_checksum")
    ELSE Packet(Unescaped(body))

Decode(body, high, low) ==
    IF {high, low} \subseteq Digits
    THEN IF DigitValue[high] * Base + DigitValue[low] = Checksum(body)
         THEN IF WellEscaped(body)
              THEN Packet(Unescaped(body))
              ELSE Failure("Bad_packet")
         ELSE Failure("Bad_checksum")
    ELSE Failure("Bad_packet")
=============================================================================
