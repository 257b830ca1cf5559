------------------------------ MODULE MCPackets ------------------------------
(* Packets for the small instances: two axes of motion, one of them exact. *)
EXTENDS Integers

MCAxes == {"dist", "alt"}
MCMinChange == [dist |-> 1, alt |-> 0]

Position(callsign, aircraft, sim, dist, alt) ==
    [id |-> "POS_DATA_ID", flaws |-> {}, callsign |-> callsign,
     aircraft |-> aircraft, sim |-> sim, at |-> [dist |-> dist, alt |-> alt]]

Still(callsign, aircraft, sim) == Position(callsign, aircraft, sim, 0, 0)

Other(id, flaws) == [Still("ANN", "c172", 0) EXCEPT !.id = id, !.flaws = flaws]

\* Three flights, two of them by one callsign, that come and go.
JoinPackets ==
    {Still("ANN", "c172", 0), Still("ANN", "b777", 0), Still("BOB", "c172", 0)}

\* One flight that moves and whose sim time goes forward and back.
MovePackets ==
    {Position("ANN", "c172", s, d, 0) : s \in {0, 1, 3}, d \in {0, 1, 2}}
    \cup {Position("ANN", "c172", 1, 0, 1)}

\* Every way to be refused, and a chat.
OtherPackets ==
    {Other("POS_DATA_ID", f) :
        f \in {{"magic", "proto"}, {"proto"}, {"length", "height"}, {"origin"}, {"height"}}}
    \cup {Other("CHAT_MSG_ID", {}), Other("other", {})}

\* One flight as it moves, among packets that are refused.
MixedPackets == MovePackets \cup OtherPackets
=============================================================================
