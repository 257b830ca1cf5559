----------------------------- MODULE PilotHistory -----------------------------
(***************************************************************************)
(* PilotTable with a history variable: for every flight what the accepted  *)
(* packets since its entry was made amount to.  The code keeps no such     *)
(* record; the properties compare its entries with it.                     *)
(***************************************************************************)
EXTENDS PilotTable

VARIABLE heard

hvars == <<vars, heard>>

\* The entry of a known flight (the first match of the search).
EntryOf(p) == vPilots[CHOOSE i \in DOMAIN vPilots : FirstMatch(p, i)]

\* Metres flown since the flight began: only a rewritten record counts, and a
\* revival begins a new flight.
Flown(p) ==
    LET e == EntryOf(p)
        before == heard[<<p.callsign, p.aircraft>>].flown IN
    IF e.expired THEN 0
    ELSE IF UpdateDue(p, e) THEN before + Moved(p, e, "dist") ELSE before

Hear(p) ==
    LET f == <<p.callsign, p.aircraft>> IN
    IF Known(p)
    THEN [heard EXCEPT ![f] = [n |-> @.n + 1, flown |-> Flown(p), latest |-> p, seen |-> now]]
    ELSE [heard EXCEPT ![f] = [n |-> 1, flown |-> 0, latest |-> p, seen |-> now]]

HInit ==
    /\ Init
    /\ heard = [f \in Callsigns \X Aircraft |-> [n |-> 0, flown |-> 0]]

HNext ==
    \/ \E p \in Packets :
        ReceivePacket(p) /\ heard' = IF Accepted(p) THEN Hear(p) ELSE heard
    \/ (Expire_Pilots \/ EndOfLog \/ Tick) /\ UNCHANGED heard

HSpec == HInit /\ [][HNext]_hvars

-----------------------------------------------------------------------------
(* Properties *)

HeardOf(e) == heard[<<e.callsign, e.aircraft>>]

\* What the feed shows of a flight is close to the last packet accepted from
\* it, though most packets are discarded: on no axis further off than the
\* threshold, and less than TTL sim seconds behind.  The differences are
\* taken from the recorded packet, so a slow drift cannot add up unseen.
RecordTracksLatest ==
    \A i \in DOMAIN vPilots :
        LET e == vPilots[i]
            p == HeardOf(e).latest IN
        /\ \A x \in Axes : Moved(p, e, x) <= MinChange[x]
        /\ p.sim = e.sim_time \/ p.sim - e.sim_time < TTL

\* Every accepted packet of a flight is counted once in its entry, as an
\* update or as a discard, through expiry and revival, its age is that of the
\* last one, and its distance is that of the flight which the last revival
\* began.
EntryCountsPackets ==
    \A i \in DOMAIN vPilots :
        LET e == vPilots[i] IN
        /\ e.packetCount + e.packetsDiscarded = HeardOf(e).n
        /\ e.last_seen = HeardOf(e).seen
        /\ e.total_nm = HeardOf(e).flown

\* elapsed_sim_time, which paces the replay, has reached the sim time of every
\* packet heard, counted from the start of its flight, discarded packets
\* included, also after a revival restarted that.
ElapsedReachesLatest ==
    /\ \A i \in DOMAIN vPilots :
          HeardOf(vPilots[i]).latest.sim - vPilots[i].first_sim_time
              <= elapsed_sim_time
    /\ got_sim_time => elapsed_sim_time > 0

=============================================================================
