------------------------------ MODULE MCCfServer ------------------------------
(* The server on short logs. *)
EXTENDS CfServer, MCPackets

\* A log of one byte per packet, the last of which stays in the buffer.
LogOf(ps) ==
    LET n == Len(ps) IN
    [size |-> n, marks |-> 0 .. n - 1, packet |-> [m \in 0 .. n - 1 |-> ps[m + 1]]]

ANN(s) == Position("ANN", "c172", s, 3 - s, 0)
BOB(s) == Still("BOB", "c172", s)

MCPackets_ == {ANN(s) : s \in 0 .. 2} \cup {BOB(0)}

\* One pilot flies on while another only shows up once.
PairLogs == {LogOf(<<BOB(0), ANN(0), ANN(1), ANN(2), ANN(2), ANN(2)>>)}
=============================================================================
