--------------------------- MODULE PacketEncoder ----------------------------
(***************************************************************************)
(* Packet_encoder (lib/gdb-stub/packet.cpp): the body of a packet, with    *)
(* runs of equal characters written as one character, `*' and a count.     *)
(* Characters are their codes.  The `$', the `#' and the checksum around   *)
(* the body are left out.  Expand is the reading end, which is GDB.        *)
(***************************************************************************)
EXTENDS Integers, Sequences

CONSTANT MaxRepeat          \* the longest run of repetitions, 126 - 29 in the code

ASSUME MaxRepeatAssumption == MaxRepeat \in 3 .. 97

Quote == 34
Hash == 35
Dollar == 36
Star == 42
Brace == 125

Special == {Star, Dollar, Brace, Hash}

ToggledBit5(c) == IF (c \div 32) % 2 = 1 THEN c - 32 ELSE c + 32

(***************************************************************************)
(* push_repeat.  The counts 6 and 7 would be written `#' and `$'.          *)
(***************************************************************************)
RunWithHash(c, repeat) ==   \* mutant: six repetitions as `*#'
    CASE c = 0 \/ repeat = 0   -> << >>
      [] c # 0 /\ repeat \in {1, 2} -> [i \in 1 .. repeat |-> c]
      [] c # 0 /\ repeat > 2   -> << Star, repeat + 29 >>

Run(c, repeat) ==
    CASE c = 0 \/ repeat = 0        -> << >>
      [] c # 0 /\ repeat \in {1, 2} -> [i \in 1 .. repeat |-> c]
      [] c # 0 /\ repeat \in {6, 7} -> << Star, Quote >> \o [i \in 1 .. repeat - 5 |-> c]
      [] c # 0 /\ repeat > 2 /\ repeat \notin {6, 7} -> << Star, repeat + 29 >>

Escaped(c) == IF c \in Special THEN << Brace, ToggledBit5(c) >> ELSE << c >>

NewEncoder == [stream |-> << >>, last_char |-> 0, repeat |-> 0]

Push(encoder, c) ==
    CASE c = 0 -> encoder
      [] c # 0 /\ c = encoder.last_char /\ encoder.repeat < MaxRepeat ->
             [encoder EXCEPT !.repeat = @ + 1]
      [] OTHER ->
             [stream |-> encoder.stream \o Run(encoder.last_char, encoder.repeat)
                             \o Escaped(c),
              last_char |-> c,
              repeat |-> 0]

Encode(text) ==
    LET encoder[n \in 0 .. Len(text)] ==
            IF n = 0 THEN NewEncoder ELSE Push(encoder[n - 1], text[n])
        last == encoder[Len(text)]
    IN  last.stream \o Run(last.last_char, last.repeat)

-----------------------------------------------------------------------------
(* GDB reads a body from left to right. *)
Expanded(reader, c) ==
    CASE reader.after = "escape" ->
             [text |-> Append(reader.text, ToggledBit5(c)), after |-> "character"]
      [] reader.after = "star" ->
             [text |-> reader.text \o [i \in 1 .. c - 29 |-> reader.text[Len(reader.text)]],
              after |-> "character"]
      [] reader.after = "character" /\ c = Brace -> [reader EXCEPT !.after = "escape"]
      [] reader.after = "character" /\ c = Star  -> [reader EXCEPT !.after = "star"]
      [] OTHER -> [reader EXCEPT !.text = Append(@, c)]

NewReader == [text |-> << >>, after |-> "character"]

Expand(body) ==
    LET reader[n \in 0 .. Len(body)] ==
            IF n = 0 THEN NewReader ELSE Expanded(reader[n - 1], body[n])
    IN  reader[Len(body)].text
=============================================================================
