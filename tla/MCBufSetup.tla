----------------------------- MODULE MCBufSetup -----------------------------
(* Pages of one and of four bytes, with and without rounding; huge pages   *)
(* that are smaller than a page (refused), no power of two, or larger.     *)
EXTENDS BufSetup

MCPages == {1, 4}
MCHugePages == {3, 8}
=============================================================================
