-------------------------------- MODULE Pipe --------------------------------
(***************************************************************************)
(* What a transfer promises, whatever tasks carry it out: bytes 1, 2, 3... *)
(* are taken from the input and sent to the output in that order, at most  *)
(* Capacity of them are held in between, zeros may complete the output     *)
(* once the input has been sent, and the verdict "clean" (exit status 0 of *)
(* the README) is only given when nothing is missing.                      *)
(***************************************************************************)
EXTENDS Integers, Sequences

CONSTANT Capacity   \* bytes that may be held

VARIABLES
  taken,            \* bytes taken from the input
  sent,             \* the output
  eof,              \* the end of the input was seen
  verdict           \* "running", "clean" or "failed"

vars == <<taken, sent, eof, verdict>>

Init == taken = 0 /\ sent = << >> /\ eof = FALSE /\ verdict = "running"

\* The next n bytes of the input, starting behind byte number k.
Bytes(k, n) == [i \in 1 .. n |-> k + i]

Take ==
  /\ ~eof
  /\ \E n \in 1 .. Capacity - (taken - Len(sent)) : taken' = taken + n
  /\ UNCHANGED <<sent, eof, verdict>>

See == ~eof /\ eof' = TRUE /\ UNCHANGED <<taken, sent, verdict>>

Send ==
  /\ \E n \in 1 .. taken - Len(sent) : sent' = sent \o Bytes(Len(sent), n)
  /\ UNCHANGED <<taken, eof, verdict>>

\* The last bytes, completed with zeros; a pad is shorter than the capacity.
SendPadded ==
  /\ eof /\ Len(sent) < taken
  /\ \E z \in 1 .. Capacity :
       sent' = sent \o Bytes(Len(sent), taken - Len(sent)) \o [i \in 1 .. z |-> 0]
  /\ UNCHANGED <<taken, eof, verdict>>

Close ==
  /\ verdict' \in {"clean", "failed"}
  /\ verdict' = "clean" => eof /\ Len(sent) >= taken
  /\ UNCHANGED <<taken, sent, eof>>

Next ==
  verdict = "running" /\ (Take \/ See \/ Send \/ SendPadded \/ Close)

Spec == Init /\ [][Next]_vars
=============================================================================
