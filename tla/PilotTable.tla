------------------------------ MODULE PilotTable ------------------------------
(***************************************************************************)
(* The table of flights kept by src/cf-pilot.cxx: the vector vPilots, the  *)
(* packet tallies, and the three operations on them: Deal_With_Packet for  *)
(* every packet of the raw log, the periodic Expire_Pilots sweep, and      *)
(* clean_up_pilots when the log ends.  get_epoch_id (cf_lib/cf_misc.cxx)   *)
(* issues the flight ids.                                                  *)
(*                                                                         *)
(* A packet is abstracted to what the handler tells apart: the tests it    *)
(* fails (flaws), its message id, the flight it names, its sim time and,   *)
(* per axis of motion, a reading.  A handler reads the clock once.  The    *)
(* fields of CF_Pilot that are only printed are left out.                  *)
(***************************************************************************)
EXTENDS Integers, Sequences, FiniteSets

CONSTANTS
    Callsigns, Aircraft, \* a flight is a callsign flying an aircraft
    Axes,                \* what a movement is measured on, "dist" among them
    MinChange,           \* m_MinDistance_m, m_MinSpdChange_kt, ... per axis
    Packets,             \* the packets the log may hold
    TTL,                 \* m_PlayerExpires, in seconds
    MaxExpired,          \* m_MaxExpired; 0 disables the erasure
    IdSpan,              \* flight ids per second (1000)
    StartTime,           \* the epoch second the program is started in
    MaxPackets, MaxTime  \* bounds of the exploration

Flaws == {"magic", "proto", "length", "origin", "height"}
MsgIds == {"POS_DATA_ID", "CHAT_MSG_ID", "other"}
Reading == [Axes -> Int]

\* A packet on the wire, as far as Deal_With_Packet looks at it.
Packet == [id : MsgIds, flaws : SUBSET Flaws,
           callsign : Callsigns, aircraft : Aircraft,
           sim : Int, at : Reading]

ASSUME TableAssumption ==
    /\ "dist" \in Axes
    /\ MinChange \in [Axes -> Nat]
    /\ Packets \subseteq Packet
    /\ TTL \in Nat /\ MaxExpired \in Nat
    /\ IdSpan \in Nat \ {0}
    /\ StartTime \in Nat \ {0}
    /\ MaxPackets \in Nat /\ MaxTime \in Nat

VARIABLES
    vPilots,           \* the vector of flights
    m_ExpiredCnt,      \* expired entries counted by the last sweep
    elapsed_sim_time, got_sim_time,
    pos_cnt, chat_cnt, failed_cnt, discard_cnt,   \* tallies of cf-pilot
    packet_cnt, sPktStr,                          \* tallies of get_next_block
    prev, eq_count,    \* statics of get_epoch_id
    now                \* what time(0) returns

tallies == <<pos_cnt, chat_cnt, failed_cnt, discard_cnt>>
simTiming == <<elapsed_sim_time, got_sim_time>>
ids == <<prev, eq_count>>
received == <<packet_cnt, sPktStr>>
vars == <<vPilots, m_ExpiredCnt, simTiming, tallies, received, ids, now>>

\* The kinds of packet Deal_With_Packet returns, split as packet_stats does.
BadTypes == {"pkt_Invalid", "pkt_InvMag", "pkt_InvProto", "pkt_InvPos", "pkt_InvHgt"}
PosTypes == {"pkt_First", "pkt_Pos", "pkt_Discards"}
Packet_Type == BadTypes \cup PosTypes \cup {"pkt_Chat"}

CF_Pilot == [flight_id : Nat, expired : BOOLEAN,
             callsign : Callsigns, aircraft : Aircraft,
             sim_time : Int, first_sim_time : Int, at : Reading,
             packetCount : Nat, packetsDiscarded : Nat,
             total_nm : Nat, cumm_nm : Nat, last_seen : Nat]

\* The type invariant.  Nat for what the code keeps in int and size_t: no
\* counter of the table is ever decremented and no distance is negative.
TypeOK ==
    /\ vPilots \in Seq(CF_Pilot)
    /\ m_ExpiredCnt \in Nat
    /\ elapsed_sim_time \in Nat /\ got_sim_time \in BOOLEAN
    /\ pos_cnt \in Nat /\ chat_cnt \in Nat
    /\ failed_cnt \in Nat /\ discard_cnt \in Nat
    /\ packet_cnt \in Nat /\ sPktStr \in [Packet_Type -> Nat]
    /\ prev \in Nat /\ eq_count \in Nat
    /\ now \in Nat

Init ==
    /\ vPilots = <<>> /\ m_ExpiredCnt = 0
    /\ elapsed_sim_time = 0 /\ got_sim_time = FALSE
    /\ pos_cnt = 0 /\ chat_cnt = 0 /\ failed_cnt = 0 /\ discard_cnt = 0
    /\ packet_cnt = 0 /\ sPktStr = [pt \in Packet_Type |-> 0]
    /\ prev = 0 /\ eq_count = 0
    /\ now = StartTime

-----------------------------------------------------------------------------
(* get_epoch_id: the second and a count of the ids issued in that second. *)

\* Variant: joins in the same second are not counted up.
RepeatUncounted == IF now = prev THEN eq_count ELSE 0
Repeat == IF now = prev THEN eq_count + 1 ELSE 0
NewId == now * IdSpan + Repeat
LastId == prev * IdSpan + eq_count

\* "allows for up to 999 pilots joining in the same second": the environment
\* never brings more than IdSpan joins in one second.
IdAvailable == Repeat < IdSpan

IssueId == IdAvailable /\ prev' = now /\ eq_count' = Repeat

-----------------------------------------------------------------------------
(* Deal_With_Packet(p), returning pt: one disjunct per way out of it. *)

SAME_FLIGHT(a, b) == a.callsign = b.callsign /\ a.aircraft = b.aircraft

\* Variant: an expired entry is not looked at.
KnownLive(p) ==
    \E i \in DOMAIN vPilots : SAME_FLIGHT(vPilots[i], p) /\ ~vPilots[i].expired
Known(p) == \E i \in DOMAIN vPilots : SAME_FLIGHT(vPilots[i], p)

\* The search stops at the first match.
FirstMatch(p, i) ==
    /\ i \in DOMAIN vPilots
    /\ SAME_FLIGHT(vPilots[i], p)
    /\ \A j \in 1 .. i - 1 : ~SAME_FLIGHT(vPilots[j], p)

HeaderOK(p) == {"magic", "proto"} \cap p.flaws = {}
BodyOK(p) == {"length", "origin"} \cap p.flaws = {}
Accepted(p) == p.id = "POS_DATA_ID" /\ p.flaws = {}

\* Variant: a refusal returns the type of a position.
RefusedAsPosition(p, pt) == p.id # "CHAT_MSG_ID" /\ ~Accepted(p) /\ pt = "pkt_Pos"

\* Why a packet is refused: the first test it fails.
Refused(p, pt) ==
    \/ pt = "pkt_InvMag" /\ "magic" \in p.flaws
    \/ pt = "pkt_InvProto" /\ "magic" \notin p.flaws /\ "proto" \in p.flaws
    \/ HeaderOK(p) /\ p.id = "other" /\ pt = "pkt_Invalid"
    \/ HeaderOK(p) /\ p.id = "POS_DATA_ID" /\ ~BodyOK(p) /\ pt = "pkt_InvPos"
    \/ /\ HeaderOK(p) /\ p.id = "POS_DATA_ID" /\ BodyOK(p)
       /\ "height" \in p.flaws /\ pt = "pkt_InvHgt"

Refuse(p, pt) ==
    /\ Refused(p, pt)
    /\ failed_cnt' = failed_cnt + 1
    /\ UNCHANGED <<vPilots, simTiming, ids, pos_cnt, chat_cnt, discard_cnt>>

Chat(p, pt) ==
    /\ HeaderOK(p) /\ p.id = "CHAT_MSG_ID" /\ pt = "pkt_Chat"
    /\ chat_cnt' = chat_cnt + 1
    /\ UNCHANGED <<vPilots, simTiming, ids, pos_cnt, failed_cnt, discard_cnt>>

Abs(n) == IF n < 0 THEN -n ELSE n
Moved(p, e, x) == Abs(p.at[x] - e.at[x])

\* Variant: only time and distance make an update due.
UpdateDueFar(p, e) ==
    p.sim - e.sim_time >= TTL \/ Moved(p, e, "dist") > MinChange["dist"]

\* upd_by: a live entry is only rewritten once TTL sim seconds went by, or
\* when some axis moved by more than its threshold.
UpdateDue(p, e) ==
    \/ p.sim - e.sim_time >= TTL
    \/ \E x \in Axes : Moved(p, e, x) > MinChange[x]

Entry(p, fid, first, count, discarded, total, cumm) ==
    [flight_id |-> fid, expired |-> FALSE,
     callsign |-> p.callsign, aircraft |-> p.aircraft,
     sim_time |-> p.sim, first_sim_time |-> first, at |-> p.at,
     packetCount |-> count, packetsDiscarded |-> discarded,
     total_nm |-> total, cumm_nm |-> cumm, last_seen |-> now]

NewEntry(p) == Entry(p, NewId, p.sim, 1, 0, 0, 0)

\* Variant: a revived flight keeps its id.
RevivedSameId(p, e) ==
    Entry(p, e.flight_id, p.sim, e.packetCount + 1, e.packetsDiscarded, 0, e.total_nm)

\* *pp2 = *pp: the new record replaces the old one, so what is not carried
\* over from e is zero.  A revival is a new flight of the same pilot.
RevivedEntry(p, e) ==
    Entry(p, NewId, p.sim, e.packetCount + 1, e.packetsDiscarded, 0, e.total_nm)

\* Variant: the discards are not carried over.
MovedEntryAfresh(p, e) ==
    Entry(p, e.flight_id, e.first_sim_time, e.packetCount + 1, 0,
          e.total_nm + Moved(p, e, "dist"), 0)

MovedEntry(p, e) ==
    Entry(p, e.flight_id, e.first_sim_time, e.packetCount + 1, e.packetsDiscarded,
          e.total_nm + Moved(p, e, "dist"), 0)

\* Variant: sim time since the record, not since the start of the flight.
AdvanceSinceRecord(p, e) ==
    LET sseconds == p.sim - e.sim_time IN
    IF sseconds > elapsed_sim_time
    THEN elapsed_sim_time' = sseconds /\ got_sim_time' = TRUE
    ELSE UNCHANGED simTiming

\* elapsed_sim_time follows the longest flight.
AdvanceSimTime(p, e) ==
    LET sseconds == p.sim - e.first_sim_time IN
    IF sseconds > elapsed_sim_time
    THEN elapsed_sim_time' = sseconds /\ got_sim_time' = TRUE
    ELSE UNCHANGED simTiming

FirstPosition(p, pt) ==
    /\ Accepted(p) /\ ~Known(p) /\ pt = "pkt_First"
    /\ IssueId
    /\ vPilots' = Append(vPilots, NewEntry(p))
    /\ pos_cnt' = pos_cnt + 1
    /\ UNCHANGED <<simTiming, chat_cnt, failed_cnt, discard_cnt>>

UpdatePosition(p, pt) ==
    /\ Accepted(p) /\ pt = "pkt_Pos"
    /\ \E i \in DOMAIN vPilots :
        LET e == vPilots[i] IN
        /\ FirstMatch(p, i)
        /\ \/ /\ e.expired
              /\ IssueId
              /\ vPilots' = [vPilots EXCEPT ![i] = RevivedEntry(p, e)]
           \/ /\ ~e.expired /\ UpdateDue(p, e)
              /\ UNCHANGED ids
              /\ vPilots' = [vPilots EXCEPT ![i] = MovedEntry(p, e)]
        /\ AdvanceSimTime(p, e)
    /\ pos_cnt' = pos_cnt + 1
    /\ UNCHANGED <<chat_cnt, failed_cnt, discard_cnt>>

DiscardPosition(p, pt) ==
    /\ Accepted(p) /\ pt = "pkt_Discards"
    /\ \E i \in DOMAIN vPilots :
        LET e == vPilots[i] IN
        /\ FirstMatch(p, i)
        /\ ~e.expired /\ ~UpdateDue(p, e)
        /\ vPilots' = [vPilots EXCEPT ![i].last_seen = now,
                                      ![i].packetsDiscarded = @ + 1]
        /\ AdvanceSimTime(p, e)
    /\ pos_cnt' = pos_cnt + 1
    /\ discard_cnt' = discard_cnt + 1
    /\ UNCHANGED <<ids, chat_cnt, failed_cnt>>

Deal_With_Packet(p, pt) ==
    /\ \/ Refuse(p, pt)
       \/ Chat(p, pt)
       \/ FirstPosition(p, pt)
       \/ UpdatePosition(p, pt)
       \/ DiscardPosition(p, pt)
    /\ UNCHANGED <<m_ExpiredCnt, now>>

\* What get_next_block does with the packet at the head of its buffer.
Tally(pt) ==
    /\ packet_cnt' = packet_cnt + 1
    /\ sPktStr' = [sPktStr EXCEPT ![pt] = @ + 1]

ReceivePacket(p) ==
    /\ packet_cnt < MaxPackets
    /\ \E pt \in Packet_Type : Deal_With_Packet(p, pt) /\ Tally(pt)

-----------------------------------------------------------------------------
(* Expire_Pilots and clean_up_pilots *)

Silent(e) == now - e.last_seen > TTL

\* Variant: off by one at the TTL.
SweptEarly == [i \in DOMAIN vPilots |->
    [vPilots[i] EXCEPT !.expired = @ \/ now - vPilots[i].last_seen >= TTL]]

Swept == [i \in DOMAIN vPilots |->
            [vPilots[i] EXCEPT !.expired = @ \/ Silent(vPilots[i])]]

ExpiredAt(v) == {i \in DOMAIN v : v[i].expired}

\* Variant: erasing forwards skips the entry behind an erased one.
KeptBehindErased(v) == {i \in DOMAIN v : i \in ExpiredAt(v) => i - 1 \in ExpiredAt(v)}
Kept(v) == DOMAIN v \ ExpiredAt(v)

\* The expired entries of v go, the others keep their order.
Erase(v) ==
    \E at \in [1 .. Cardinality(Kept(v)) -> Kept(v)] :
        /\ \A j, k \in DOMAIN at : j < k => at[j] < at[k]
        /\ vPilots' = [k \in DOMAIN at |-> v[at[k]]]

Expire_Pilots ==
    LET count == Cardinality(ExpiredAt(Swept)) IN
    /\ \/ /\ MaxExpired # 0 /\ count > MaxExpired
          /\ Erase(Swept)
          /\ m_ExpiredCnt' = 0
       \/ /\ MaxExpired = 0 \/ count <= MaxExpired
          /\ vPilots' = Swept
          /\ m_ExpiredCnt' = count
    /\ UNCHANGED <<simTiming, tallies, received, ids, now>>

\* clean_up_pilots(true)
clean_up_pilots == vPilots' = <<>>

\* Variant: the sim timing is not stopped.
EndOfLogKeepsTiming ==
    /\ clean_up_pilots
    /\ UNCHANGED <<m_ExpiredCnt, simTiming, tallies, received, ids, now>>

\* run_server when the log is exhausted: the flights and the sim timing go,
\* elapsed_sim_time stays.
EndOfLog ==
    /\ got_sim_time' = FALSE
    /\ clean_up_pilots
    /\ UNCHANGED <<m_ExpiredCnt, elapsed_sim_time, tallies, received, ids, now>>

Tick ==
    /\ now < MaxTime
    /\ now' = now + 1
    /\ UNCHANGED <<vPilots, m_ExpiredCnt, simTiming, tallies, received, ids>>

Next ==
    \/ \E p \in Packets : ReceivePacket(p)
    \/ Expire_Pilots
    \/ EndOfLog
    \/ Tick

Spec == Init /\ [][Next]_vars

-----------------------------------------------------------------------------
(* Properties *)

\* A pilot has one entry: Deal_With_Packet never pushes a second record for a
\* callsign and aircraft already in the vector, whatever was expired, revived
\* or erased in between.
OneEntryPerFlight ==
    \A i, j \in DOMAIN vPilots :
        SAME_FLIGHT(vPilots[i], vPilots[j]) => i = j

\* get_epoch_id: no two entries share a flight id, and none has an id above
\* the last one issued.
UniqueFlightIds ==
    /\ \A i, j \in DOMAIN vPilots :
        vPilots[i].flight_id = vPilots[j].flight_id => i = j
    /\ \A i \in DOMAIN vPilots : vPilots[i].flight_id <= LastId

\* A flight keeps its id while it lives.  Any other id that shows up in the
\* table is above every id issued before, so an expired or erased flight's id
\* is never given to another one, nor taken up again by a revived pilot.
IdsNeverReissued ==
    [][\A i \in DOMAIN vPilots' :
        LET f == vPilots'[i] IN
        \/ f.flight_id > LastId
        \/ \E j \in DOMAIN vPilots :
            /\ SAME_FLIGHT(vPilots[j], f)
            /\ vPilots[j].flight_id = f.flight_id
            /\ vPilots[j].expired => f.expired]_vars

\* The counters Deal_With_Packet keeps and the per-type counts get_next_block
\* keeps from its return value tell the same story.
TalliesAgree ==
    /\ pos_cnt = sPktStr["pkt_First"] + sPktStr["pkt_Pos"] + sPktStr["pkt_Discards"]
    /\ failed_cnt = sPktStr["pkt_Invalid"] + sPktStr["pkt_InvMag"]
                    + sPktStr["pkt_InvProto"] + sPktStr["pkt_InvPos"]
                    + sPktStr["pkt_InvHgt"]
    /\ discard_cnt = sPktStr["pkt_Discards"]
    /\ packet_cnt = pos_cnt + failed_cnt + chat_cnt

\* The vector never keeps more than MaxExpired expired entries, and never
\* more than the sweep last counted.
ExpiredWithinWatermark ==
    LET n == Cardinality(ExpiredAt(vPilots)) IN
    /\ n <= m_ExpiredCnt
    /\ MaxExpired # 0 => n <= MaxExpired

\* A live flight leaves the live list only when it was silent for more than
\* TTL seconds, or with the whole table at the end of the log, which stops the
\* sim timing and counts nothing anew: a sweep that erases expired entries by
\* index takes none of the live ones with it.
LiveUntilSilent ==
    [][\A i \in DOMAIN vPilots :
        LET e == vPilots[i] IN
        \/ e.expired
        \/ Silent(e)
        \/ vPilots' = <<>> /\ ~got_sim_time' /\ UNCHANGED m_ExpiredCnt
        \/ \E j \in DOMAIN vPilots' :
            SAME_FLIGHT(vPilots'[j], e) /\ ~vPilots'[j].expired]_vars

=============================================================================
