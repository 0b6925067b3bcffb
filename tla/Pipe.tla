-------------------------------- MODULE Pipe --------------------------------
(***************************************************************************)
(* What the read side of a TCP channel promises, whatever its batching     *)
(* does: payloads, numbered as they are taken, are given on in order; the  *)
(* end of the stream is announced when all of them have been given, and    *)
(* nothing follows it.  A pipe that breaks keeps the order and announces   *)
(* nothing.                                                                *)
(***************************************************************************)
EXTENDS Naturals, Sequences

VARIABLES taken,  \* number of payloads taken
          given,  \* payloads given on
          end     \* "open", "announced" or "broken"

pipe == <<taken, given, end>>
UpTo(n) == [i \in 1 .. n |-> i]

Init == taken = 0 /\ given = <<>> /\ end = "open"

Take ==
  /\ end # "announced"
  /\ taken' = taken + 1
  /\ UNCHANGED <<given, end>>

Give ==
  /\ end # "announced"
  /\ \E n \in Len(given) + 1 .. taken : given' = UpTo(n)
  /\ UNCHANGED <<taken, end>>

Announce ==
  /\ end = "open"
  /\ given = UpTo(taken)
  /\ end' = "announced"
  /\ UNCHANGED <<taken, given>>

Break ==
  /\ end = "open"
  /\ end' = "broken"
  /\ UNCHANGED <<taken, given>>

Next == Take \/ Give \/ Announce \/ Break

Spec == Init /\ [][Next]_pipe
=============================================================================
