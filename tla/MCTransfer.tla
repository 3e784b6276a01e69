----------------------------- MODULE MCTransfer -----------------------------
(* Instances of Transfer for TLC: a ring of 8 bytes.                       *)
EXTENDS TransferInv

Config(r, w, rs, ws, str, cir, md, sw) ==
  [rblk |-> r, wblk |-> w, rline |-> FALSE, wline |-> FALSE, rsp |-> rs,
   wsp |-> ws, strict |-> str, iscir |-> cir, mode |-> md, shortw |-> sw]

MCOptions ==
  { Config(2, 3, 0, 0, TRUE,  TRUE,  "mt", FALSE),
    Config(3, 2, 3, 4, FALSE, FALSE, "mp", TRUE),
    Config(2, 3, 5, 4, TRUE,  FALSE, "mt", TRUE),
    Config(3, 3, 4, 0, FALSE, TRUE,  "mp", FALSE),
    [Config(3, 3, 0, 4, FALSE, FALSE, "mt", TRUE) EXCEPT !.wline = TRUE] }

\* Option -l on the reader's side.
ByteReaders == { [Config(3, 2, 0, 0, FALSE, TRUE, "mp", FALSE) EXCEPT !.rline = TRUE] }
=============================================================================
