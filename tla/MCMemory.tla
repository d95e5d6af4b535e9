------------------------------ MODULE MCMemory ------------------------------
(***************************************************************************)
(* Six pages of one word and two entries: one entry is shared by a page of *)
(* RAM, one of ROM and a peripheral, the other by ROM, a peripheral and a  *)
(* page where nothing answers.  RAM ends with the address space, as in the *)
(* emulator, so that a debugger's range can run over the end to address 0. *)
(***************************************************************************)
EXTENDS DebugReplies

MCRam == {5}
MCRom == {1, 2}
MCPeripheral == {3, 4}
MCByte == {0, 15, 255}
MCFillByte == {0, 255}
MCrom_init_data == [a \in 4 .. 11 |-> CASE a \in {6, 7, 8} -> 255
                                        [] a = 5 -> 15
                                        [] OTHER -> 0]
MCregister == [a \in {12} |-> [i \in Lane |-> IF i = 2 THEN 255 ELSE 0]]
MCwritable == {16}
MCValue == {[i \in Lane |-> IF i \in {1, 2} THEN 255 ELSE 0],
            [i \in Lane |-> IF i \in {0, 3} THEN 255 ELSE 0]}
MCData == {<< >>, << 0 >>, << 255 >>, << 0, 255 >>, << 255, 0, 255 >>,
           << 255, 255, 0, 0, 255 >>}
MCLengths == 0 .. 8
=============================================================================
