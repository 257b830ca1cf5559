------------------------------- MODULE Playback -------------------------------
(***************************************************************************)
(* What a reader of the raw log promises (src/cf-log.cxx:93-121): it hands *)
(* the packets of the log over in file order, from the first one on, each  *)
(* once.  When it stops, and whether it starts over, is its own affair.    *)
(***************************************************************************)
EXTENDS Integers, Sequences

VARIABLES
    log,    \* [size, marks]: a packet starts at each mark
    played  \* the packets handed over since the log was opened

vars == <<log, played>>

\* n is the first packet, or the one behind m.
First(n) == n \in log.marks /\ \A k \in log.marks : n <= k
Successor(m, n) ==
    /\ n \in log.marks /\ m < n
    /\ \A k \in log.marks : k <= m \/ n <= k

NextInLine(n) ==
    IF played = <<>> THEN First(n) ELSE Successor(played[Len(played)], n)

Play ==
    /\ \E n \in log.marks : NextInLine(n) /\ played' = Append(played, n)
    /\ UNCHANGED log

Rewind == played' = <<>> /\ UNCHANGED log

Init == played = <<>>
Next == Play \/ Rewind
Spec == Init /\ [][Next]_vars
=============================================================================
