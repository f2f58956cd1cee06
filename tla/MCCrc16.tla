------------------------------- MODULE MCCrc16 --------------------------------
(***************************************************************************)
(* Every byte at the first place of a message, so that every entry of the  *)
(* tables is used, and a few at the later ones.                            *)
(***************************************************************************)
EXTENDS Crc16

MCAlphabet == [n \in 1 .. 3 |-> IF n = 1 THEN 0 .. 255 ELSE {0, 90, 255}]
MCMasks == {1, 128, 195, 255}
===============================================================================
