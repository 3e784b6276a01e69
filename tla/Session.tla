------------------------------ MODULE Session ------------------------------
(***************************************************************************)
(* What a run of the program promises, seen from the shell: transfers one  *)
(* after another, each judged; another one only after a clean verdict      *)
(* (README:45-47), which stands for complete data and no interruption; and *)
(* an exit status that is the last verdict (README:121).  Yancat implements *)
(* it.                                                                     *)
(***************************************************************************)
VARIABLES
  phase,        \* between transfers, in one, after its verdict, at the end
  delivered,    \* all data of this transfer has gone through
  interrupted,  \* the user interrupted it while it was going on
  verdict       \* of the last transfer; the exit status in the end

vars == <<phase, delivered, interrupted, verdict>>

Init == /\ phase = "ready" /\ verdict = "clean"
        /\ delivered = FALSE /\ interrupted = FALSE

\* A transfer begins with a clean slate.
Start == /\ phase = "ready" /\ phase' = "moving"
         /\ delivered' = FALSE /\ interrupted' = FALSE
         /\ UNCHANGED verdict

Deliver == /\ phase = "moving" /\ delivered' = TRUE
           /\ UNCHANGED <<phase, interrupted, verdict>>

Interrupt == /\ phase = "moving" /\ interrupted' = TRUE
             /\ UNCHANGED <<phase, delivered, verdict>>

Judge == /\ phase = "moving" /\ phase' = "judged"
         /\ verdict' \in {"bad"} \union
              (IF delivered /\ ~interrupted THEN {"clean"} ELSE {})
         /\ delivered' = FALSE /\ interrupted' = FALSE

\* The transfer could not be set up.
GiveUp == /\ phase = "ready" /\ phase' = "judged"
          /\ verdict' = "bad"
          /\ UNCHANGED <<delivered, interrupted>>

Repeat == /\ phase = "judged" /\ verdict = "clean"
          /\ phase' = "ready"
          /\ UNCHANGED <<delivered, interrupted, verdict>>

Exit == \/ /\ phase = "judged" /\ phase' = "over"
           /\ UNCHANGED <<delivered, interrupted, verdict>>
        \/ /\ phase = "ready" /\ phase' = "over" /\ verdict' = "bad"
           /\ UNCHANGED <<delivered, interrupted>>

Next == Start \/ Deliver \/ Interrupt \/ Judge \/ GiveUp \/ Repeat \/ Exit

Spec == Init /\ [][Next]_vars
=============================================================================
