------------------------------- MODULE MCCrc -------------------------------
(* Three inputs whose length takes two bytes in the end, read in blocks of  *)
(* 1, 3 and 8 bytes in any order.                                           *)
EXTENDS Crc

MCInputs ==
  {[i \in 1 .. 260 |-> ToByte(0)], [i \in 1 .. 260 |-> ToByte(255)],
   [i \in 1 .. 260 |-> ToByte((7 * i) % 256)]}

MCBlocks == {1, 3, 8}

\* What cksum prints for the string 123456789, 377A6011 in hexadecimal: the
\* division that Crc refers to is the one of cksum.
ASSUME CheckValue ==
  crc_end(Divide({}, [i \in 1 .. 9 |-> ToByte(48 + i)] \o <<ToByte(9)>> \o Zeros)) =
    {i + 16 : i \in {13, 12, 10, 9, 8, 6, 5, 4, 3, 1}} \union {14, 13, 4, 0}
=============================================================================
