-------------------------- MODULE MCPacketDecoder ---------------------------
(***************************************************************************)
(* A small alphabet for PacketDecoder: the four delimiters, one control    *)
(* character of the three (the code treats them alike), two digits in base *)
(* 2, and the escape, ordinary outside the unescape.  A frame  checksum is  *)
(* then a sum modulo 4 written with two digits, and a body holds at most   *)
(* MaxBuffer = 2 characters, so that the overflow and every truncation of  *)
(* a frame happen within a few characters.                                 *)
(***************************************************************************)
EXTENDS PacketDecoder

MCChar == {"$", "#", "+", "}", "0", "1"}
MCControl == {"+"}
MCDigits == {"0", "1"}
MCDigitValue == [c \in MCDigits |-> IF c = "1" THEN 1 ELSE 0]
MCCode == [c \in MCChar |->
    CASE c = "0" -> 0 [] c = "1" -> 1 [] c = "}" -> 2 [] OTHER -> 3]
MCFlip == [c \in MCChar |->
    CASE c = "0" -> "}" [] c = "}" -> "0" [] OTHER -> c]
=============================================================================
