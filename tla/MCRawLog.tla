------------------------------ MODULE MCRawLog ------------------------------
(* Every log of up to MaxSize bytes, for a buffer of a few bytes. *)
EXTENDS LogReaders

CONSTANT MaxSize

MCLogs == {g \in [size : 4 .. MaxSize, marks : SUBSET (0 .. MaxSize - 2)] : LogOK(g)}

\* The whole file, or a part of it with every kind of bound.
MCTasks ==
    {[job |-> "play", count |-> 0, begin |-> 0]}
    \cup [job : {"split"}, count : 0 .. 2, begin : 0 .. 2]
=============================================================================
