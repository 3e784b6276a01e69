--------------------------- MODULE MCTransfer1cpu ---------------------------
(* Instances of Transfer1cpu for TLC: a ring of 8 bytes.                   *)
EXTENDS Transfer1cpu

Config(r, w, rs, ws, str, cir, sw, rc, wc) ==
  [rblk |-> r, wblk |-> w, rline |-> FALSE, wline |-> FALSE, rsp |-> rs,
   wsp |-> ws, strict |-> str, iscir |-> cir, shortw |-> sw,
   rcnt |-> rc, wcnt |-> wc]

MCOptions ==
  { Config(2, 3, 0, 0, TRUE,  TRUE,  FALSE, 1, 1),
    Config(3, 2, 4, 4, FALSE, FALSE, TRUE,  1, 2),
    Config(2, 3, 5, 4, TRUE,  FALSE, TRUE,  3, 1),
    Config(3, 3, 4, 0, FALSE, TRUE,  FALSE, 2, 2),
    Config(1, 3, 0, 6, TRUE,  FALSE, FALSE, 8, 1),
    [Config(3, 3, 0, 4, FALSE, FALSE, TRUE, 2, 1) EXCEPT !.wline = TRUE],
    [Config(1, 3, 0, 0, FALSE, FALSE, TRUE, 2, 1) EXCEPT !.rline = TRUE] }
=============================================================================
