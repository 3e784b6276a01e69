--------------------------- MODULE TransferCrash ----------------------------
(***************************************************************************)
(* A two-process transfer whose worker processes may be killed (by SIGKILL *)
(* or the OOM killer, by a fault).  A killed one stops where it is, with   *)
(* the lock if it held it, and reap_procs() takes its end for any other,   *)
(* because waitpid() is asked for no status.                               *)
(***************************************************************************)
EXTENDS Transfer

VARIABLE dead     \* the workers that were killed

crashvars == <<vars, dead>>

CrashInit == Init /\ dead = {}

\* A death stores nothing and posts nothing.
Killed(w) ==
  /\ opt.mode = "mp" /\ pc[w] # "end" /\ w \notin dead
  /\ dead' = dead \union {w}
  /\ UNCHANGED vars

\* waitpid(pid, NULL, 0) returns for a process that ended anyhow.
Reaped(w) == pc[w] = "end" \/ w \in dead

ReapProcs ==
  /\ Reaped("reader") /\ Reaped("writer")
  /\ Goto("arbiter", "reap", "end")
  /\ ret' = IF errlog = {} THEN "clean" ELSE "failed"
  /\ UNCHANGED <<opt, ring, stalls, sync, handoff, ends, rvars, wvars, sigs, dead>>

CrashNext ==
  \/ "reader" \notin dead /\ Reader /\ UNCHANGED dead
  \/ "writer" \notin dead /\ Writer /\ UNCHANGED dead
  \/ SigRelay /\ UNCHANGED dead
  \/ ReapProcs
  \/ \E w \in {"reader", "writer"} : Killed(w)

CrashSpec == CrashInit /\ [][CrashNext]_crashvars

\* "The return value is 0 if it's assured that transfer completed fine"
\* (README): an exit status of 0 means that the input ended and that all of it
\* was delivered, even if one of the processes did not survive.
CleanEvenIfKilled == CleanMeansComplete

\* For the death of the reader that is so, although it leaves no trace either:
\* without its done nobody but a signal ends the writer, and it stores done only
\* after the end of the data or after the flags of its failure (yancat.c:575-581).
CleanDespiteReader == "writer" \notin dead => CleanMeansComplete
=============================================================================
