-------------------------- MODULE MCTransferCrash ---------------------------
(* Two-process transfers for TLC: a small one, and two that between them   *)
(* have direct and bounced accesses, strict blocks, resume points and      *)
(* short writes.                                                           *)
EXTENDS TransferCrash

Config(r, w, rs, ws, str, cir, sw) ==
  [rblk |-> r, wblk |-> w, rline |-> FALSE, wline |-> FALSE, rsp |-> rs,
   wsp |-> ws, strict |-> str, iscir |-> cir, mode |-> "mp", shortw |-> sw]

Small == {Config(2, 3, 0, 0, FALSE, TRUE, FALSE)}

Processes ==
  { Config(2, 3, 0, 0, TRUE, TRUE, FALSE), Config(3, 2, 3, 4, FALSE, FALSE, TRUE) }
=============================================================================
