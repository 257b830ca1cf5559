------------------------------ MODULE PilotProofs ------------------------------
(***************************************************************************)
(* Theorems about PilotTable and PilotHistory, for every set of pilots and *)
(* packets and every value of the limits.  Of the table: its type          *)
(* invariant, one entry per flight, unique flight ids, no id ever issued   *)
(* twice, tallies that agree, the watermark, and sweeps that take no       *)
(* flight that is still heard.  Of the history: the entry of a flight is   *)
(* what the packets heard from it amount to, though most of them are       *)
(* discarded, whatever expires, is erased, comes back or ends with the log *)
(* in between.                                                             *)
(***************************************************************************)
EXTENDS PilotHistory, FiniteSetTheorems, SequenceTheorems, TLAPS

\* The statics of get_epoch_id never run ahead of the clock, and the count
\* stays inside the ids of one second: what makes the next id a new one.
IdsInv == prev <= now /\ eq_count < IdSpan

IInv == TypeOK /\ OneEntryPerFlight /\ UniqueFlightIds /\ IdsInv

-----------------------------------------------------------------------------
(* Lemmas about the operators *)

\* An id just issued is above all earlier ones.
LEMMA NewIdAbove ==
    ASSUME TypeOK, IdsInv, IdAvailable
    PROVE  NewId \in Nat /\ NewId > LastId
<1> USE TableAssumption DEF TypeOK, IdsInv, IdAvailable
<1>1. CASE now = prev
    <2>1. NewId = prev * IdSpan + (eq_count + 1)
        BY <1>1 DEF NewId, Repeat
    <2>2. prev * IdSpan \in Nat
        OBVIOUS
    <2> QED
        BY <2>1, <2>2 DEF LastId
<1>2. CASE now # prev
    <2>1. NewId = now * IdSpan
        BY <1>2 DEF NewId, Repeat
    <2>2. now >= prev + 1
        BY <1>2
    <2>3. now * IdSpan >= (prev + 1) * IdSpan
        BY <2>2
    <2>4. (prev + 1) * IdSpan = prev * IdSpan + IdSpan
        OBVIOUS
    <2>5. prev * IdSpan \in Nat /\ now * IdSpan \in Nat
        OBVIOUS
    <2> QED
        BY <2>1, <2>3, <2>4, <2>5 DEF LastId
<1> QED
    BY <1>1, <1>2

\* Distances are natural numbers.
LEMMA MovedType ==
    ASSUME NEW p \in Packet, NEW e \in CF_Pilot, NEW x \in Axes
    PROVE  Moved(p, e, x) \in Nat
<1>1. p.at[x] \in Int /\ e.at[x] \in Int
    BY DEF Packet, CF_Pilot, Reading
<1> QED
    BY <1>1 DEF Moved, Abs

\* What Deal_With_Packet writes are records of the table.
LEMMA EntryType ==
    ASSUME now \in Nat, NEW p \in Packet, NEW fid \in Nat, NEW first \in Int,
           NEW count \in Nat, NEW discarded \in Nat, NEW total \in Nat, NEW cumm \in Nat
    PROVE  Entry(p, fid, first, count, discarded, total, cumm) \in CF_Pilot
<1>1. p.callsign \in Callsigns /\ p.aircraft \in Aircraft /\ p.at \in Reading /\ p.sim \in Int
    BY DEF Packet
<1> QED
    BY <1>1 DEF Entry, CF_Pilot

LEMMA NewEntryType ==
    ASSUME TypeOK, IdsInv, IdAvailable, NEW p \in Packet
    PROVE  NewEntry(p) \in CF_Pilot
<1>1. p.sim \in Int /\ now \in Nat
    BY DEF Packet, TypeOK
<1> QED
    BY <1>1, NewIdAbove, EntryType DEF NewEntry

LEMMA RevivedEntryType ==
    ASSUME TypeOK, IdsInv, IdAvailable, NEW p \in Packet, NEW e \in CF_Pilot
    PROVE  RevivedEntry(p, e) \in CF_Pilot
<1>1. p.sim \in Int /\ now \in Nat
    BY DEF Packet, TypeOK
<1>2. /\ e.packetCount + 1 \in Nat /\ e.packetsDiscarded \in Nat
      /\ 0 \in Nat /\ e.total_nm \in Nat
    BY DEF CF_Pilot
<1> QED
    BY <1>1, <1>2, NewIdAbove, EntryType DEF RevivedEntry

LEMMA MovedEntryType ==
    ASSUME TypeOK, NEW p \in Packet, NEW e \in CF_Pilot
    PROVE  MovedEntry(p, e) \in CF_Pilot
<1>1. now \in Nat
    BY DEF TypeOK
<1>2. Moved(p, e, "dist") \in Nat
    BY MovedType, TableAssumption
<1>3. /\ e.flight_id \in Nat /\ e.first_sim_time \in Int
      /\ e.packetCount + 1 \in Nat /\ e.packetsDiscarded \in Nat
      /\ e.total_nm + Moved(p, e, "dist") \in Nat
    BY <1>2 DEF CF_Pilot
<1> QED
    BY <1>1, <1>3, EntryType DEF MovedEntry

-----------------------------------------------------------------------------
(* Lemmas about the table, one per way it is changed *)

\* What the invariant says of the table.
TableInv ==
    vPilots \in Seq(CF_Pilot) /\ OneEntryPerFlight /\ UniqueFlightIds

\* After an id was issued it is the last one, and the next one will be new.
LEMMA IssuedId ==
    ASSUME TypeOK, IdsInv, IssueId, now' = now
    PROVE  /\ prev' \in Nat /\ eq_count' \in Nat /\ IdsInv'
           /\ LastId' = NewId /\ NewId \in Nat /\ NewId > LastId
<1>1. IdAvailable /\ prev' = now /\ eq_count' = Repeat
    BY DEF IssueId
<1>2. Repeat \in Nat /\ Repeat < IdSpan
    BY <1>1 DEF TypeOK, Repeat, IdAvailable
<1>3. LastId' = NewId
    BY <1>1 DEF LastId, NewId
<1>4. IdsInv'
    BY <1>1, <1>2 DEF IdsInv, TypeOK
<1> QED
    BY <1>1, <1>2, <1>3, <1>4, NewIdAbove DEF TypeOK

LEMMA LastIdType ==
    ASSUME TypeOK
    PROVE  LastId \in Nat
BY TableAssumption DEF TypeOK, LastId

LEMMA FlightIdType ==
    ASSUME NEW e \in CF_Pilot
    PROVE  e.flight_id \in Nat
BY DEF CF_Pilot

\* push_back of a flight that was not listed, under a new id.
LEMMA Pushed ==
    ASSUME TableInv, LastId \in Nat, LastId' \in Nat,
           NEW r \in CF_Pilot, vPilots' = Append(vPilots, r),
           \A i \in DOMAIN vPilots : ~SAME_FLIGHT(vPilots[i], r),
           LastId < r.flight_id, r.flight_id <= LastId'
    PROVE  TableInv'
<1> USE DEF TableInv
<1> DEFINE n == Len(vPilots)
<1>1. n \in Nat /\ DOMAIN vPilots = 1 .. n /\ DOMAIN vPilots' = 1 .. n + 1
    OBVIOUS
<1>2. vPilots'[n + 1] = r /\ \A i \in 1 .. n : vPilots'[i] = vPilots[i]
    OBVIOUS
<1>3. vPilots' \in Seq(CF_Pilot)
    OBVIOUS
<1>4. \A i \in 1 .. n : vPilots[i] \in CF_Pilot /\ vPilots[i].flight_id \in Nat
    BY <1>1, FlightIdType
<1>5. \A i \in 1 .. n : vPilots[i].flight_id <= LastId
    BY <1>1 DEF UniqueFlightIds
<1>6. r.flight_id \in Nat
    BY FlightIdType
<1> HIDE DEF n
<1>7. OneEntryPerFlight'
    <2> SUFFICES ASSUME NEW i \in 1 .. n + 1, NEW j \in 1 .. n + 1,
                        SAME_FLIGHT(vPilots'[i], vPilots'[j])
                 PROVE  i = j
        BY <1>1 DEF OneEntryPerFlight
    <2>1. CASE i \in 1 .. n /\ j \in 1 .. n
        BY <2>1, <1>1, <1>2 DEF OneEntryPerFlight
    <2>2. CASE i = n + 1 /\ j \in 1 .. n
        BY <2>2, <1>1, <1>2 DEF SAME_FLIGHT
    <2>3. CASE i \in 1 .. n /\ j = n + 1
        BY <2>3, <1>1, <1>2
    <2> QED
        BY <1>1, <2>1, <2>2, <2>3
<1>8. UniqueFlightIds'
    <2>1. \A i \in 1 .. n + 1 : vPilots'[i].flight_id <= LastId'
        BY <1>1, <1>2, <1>4, <1>5, <1>6
    <2>2. ASSUME NEW i \in 1 .. n + 1, NEW j \in 1 .. n + 1,
                 vPilots'[i].flight_id = vPilots'[j].flight_id
          PROVE  i = j
        <3>1. CASE i \in 1 .. n /\ j \in 1 .. n
            BY <2>2, <3>1, <1>1, <1>2 DEF UniqueFlightIds
        <3>2. CASE i = n + 1 /\ j \in 1 .. n
            BY <2>2, <3>2, <1>1, <1>2, <1>4, <1>5, <1>6
        <3>3. CASE i \in 1 .. n /\ j = n + 1
            BY <2>2, <3>3, <1>1, <1>2, <1>4, <1>5, <1>6
        <3> QED
            BY <1>1, <3>1, <3>2, <3>3
    <2> QED
        BY <1>1, <2>1, <2>2 DEF UniqueFlightIds
<1> QED
    BY <1>3, <1>7, <1>8

\* A record is replaced by one of the same flight, under its own id or a new
\* one.
LEMMA Replaced ==
    ASSUME TableInv, LastId \in Nat, LastId' \in Nat, LastId <= LastId',
           NEW i \in DOMAIN vPilots, NEW r \in CF_Pilot,
           vPilots' = [vPilots EXCEPT ![i] = r],
           SAME_FLIGHT(vPilots[i], r),
           \/ r.flight_id = vPilots[i].flight_id
           \/ LastId < r.flight_id /\ r.flight_id <= LastId'
    PROVE  TableInv'
<1> USE DEF TableInv
<1>1. DOMAIN vPilots' = DOMAIN vPilots /\ vPilots' \in Seq(CF_Pilot)
    OBVIOUS
<1>2. vPilots'[i] = r /\ \A j \in DOMAIN vPilots : j # i => vPilots'[j] = vPilots[j]
    OBVIOUS
<1>3. \A j \in DOMAIN vPilots :
        vPilots[j].flight_id \in Nat /\ vPilots[j].flight_id <= LastId
    BY FlightIdType DEF UniqueFlightIds
<1>4. r.flight_id \in Nat
    BY FlightIdType
<1>5. \A j \in DOMAIN vPilots : SAME_FLIGHT(vPilots'[j], vPilots[j])
    BY <1>2 DEF SAME_FLIGHT
<1>6. OneEntryPerFlight'
    BY <1>1, <1>5 DEF OneEntryPerFlight, SAME_FLIGHT
<1>7. UniqueFlightIds'
    <2>1. \A j \in DOMAIN vPilots : vPilots'[j].flight_id <= LastId'
        BY <1>2, <1>3, <1>4
    <2>2. ASSUME NEW j \in DOMAIN vPilots, NEW k \in DOMAIN vPilots,
                 vPilots'[j].flight_id = vPilots'[k].flight_id
          PROVE  j = k
        <3>1. CASE r.flight_id = vPilots[i].flight_id
            <4>1. \A l \in DOMAIN vPilots : vPilots'[l].flight_id = vPilots[l].flight_id
                BY <3>1, <1>2
            <4> QED
                BY <2>2, <4>1 DEF UniqueFlightIds
        <3>2. CASE LastId < r.flight_id
            BY <2>2, <3>2, <1>2, <1>3, <1>4 DEF UniqueFlightIds
        <3> QED
            BY <3>1, <3>2
    <2> QED
        BY <1>1, <2>1, <2>2 DEF UniqueFlightIds
<1> QED
    BY <1>1, <1>6, <1>7

\* A function on 1 .. n is a sequence.
LEMMA FunctionIsSeq ==
    ASSUME NEW S, NEW n \in Nat, NEW f \in [1 .. n -> S]
    PROVE  f \in Seq(S)
BY SeqDef

\* v lists the flights of the table under their ids (a sweep marks some).
Relabels(v) ==
    /\ v \in Seq(CF_Pilot)
    /\ DOMAIN v = DOMAIN vPilots
    /\ \A i \in DOMAIN v :
        /\ SAME_FLIGHT(v[i], vPilots[i])
        /\ v[i].flight_id = vPilots[i].flight_id

LEMMA SweptRelabels ==
    ASSUME TypeOK
    PROVE  Relabels(Swept)
<1>1. vPilots \in Seq(CF_Pilot)
    BY DEF TypeOK
<1>2. \A i \in DOMAIN vPilots : vPilots[i] \in CF_Pilot
    BY <1>1
<1>3. ASSUME NEW e \in CF_Pilot, NEW b \in BOOLEAN
      PROVE  /\ [e EXCEPT !.expired = b] \in CF_Pilot
             /\ SAME_FLIGHT([e EXCEPT !.expired = b], e)
             /\ [e EXCEPT !.expired = b].flight_id = e.flight_id
    BY DEF CF_Pilot, SAME_FLIGHT
<1> DEFINE late(i) == vPilots[i].expired \/ Silent(vPilots[i])
<1>4. \A i \in DOMAIN vPilots : late(i) \in BOOLEAN
    BY <1>2 DEF CF_Pilot, Silent
<1>5. /\ DOMAIN Swept = DOMAIN vPilots
      /\ \A i \in DOMAIN vPilots :
            Swept[i] = [vPilots[i] EXCEPT !.expired = late(i)]
    BY DEF Swept
<1> HIDE DEF late
<1>6. \A i \in DOMAIN vPilots :
        /\ Swept[i] \in CF_Pilot
        /\ SAME_FLIGHT(Swept[i], vPilots[i])
        /\ Swept[i].flight_id = vPilots[i].flight_id
    <2> TAKE i \in DOMAIN vPilots
    <2>1. vPilots[i] \in CF_Pilot /\ late(i) \in BOOLEAN
        BY <1>2, <1>4
    <2>2. Swept[i] = [vPilots[i] EXCEPT !.expired = late(i)]
        BY <1>5
    <2> QED
        BY <1>3, <2>1, <2>2
<1>7. Swept \in Seq(CF_Pilot)
    <2>1. Len(vPilots) \in Nat /\ DOMAIN Swept = 1 .. Len(vPilots)
        BY <1>1, <1>5
    <2>2. Swept \in [1 .. Len(vPilots) -> CF_Pilot]
        BY <2>1, <1>5, <1>6 DEF Swept
    <2> QED
        BY <2>1, <2>2, FunctionIsSeq
<1> QED
    BY <1>5, <1>6, <1>7 DEF Relabels

LEMMA Relabelled ==
    ASSUME TableInv, NEW v, Relabels(v), vPilots' = v, LastId' = LastId
    PROVE  TableInv'
<1> USE DEF TableInv, Relabels
<1>1. OneEntryPerFlight'
    BY DEF OneEntryPerFlight, SAME_FLIGHT
<1>2. UniqueFlightIds'
    BY DEF UniqueFlightIds
<1> QED
    BY <1>1, <1>2

\* Erase keeps some of the records, none twice.
LEMMA ErasedTable ==
    ASSUME TableInv, NEW v, Relabels(v), Erase(v), LastId' = LastId
    PROVE  TableInv'
<1> DEFINE keep == Kept(v)
<1>1. v \in Seq(CF_Pilot) /\ DOMAIN v = 1 .. Len(v) /\ Len(v) \in Nat
    BY DEF Relabels
<1>2. Cardinality(keep) \in Nat
    <2>1. IsFiniteSet(1 .. Len(v))
        BY <1>1, FS_Interval
    <2>2. IsFiniteSet(keep)
        BY <1>1, <2>1, FS_Subset DEF Kept
    <2> QED
        BY <2>2, FS_CardinalityType
<1>3. PICK at \in [1 .. Cardinality(keep) -> keep] :
        /\ \A j, k \in DOMAIN at : j < k => at[j] < at[k]
        /\ vPilots' = [k \in DOMAIN at |-> v[at[k]]]
    BY DEF Erase
<1> DEFINE n == Cardinality(keep)
<1>4. DOMAIN at = 1 .. n /\ \A k \in 1 .. n : at[k] \in keep
    BY <1>3
<1>12. keep \subseteq DOMAIN v
    BY DEF Kept
<1> HIDE DEF n, keep
<1>5. \A k \in 1 .. n : at[k] \in DOMAIN v /\ at[k] \in Nat
    BY <1>1, <1>4, <1>12
<1>6. \A j, k \in 1 .. n : at[j] = at[k] => j = k
    <2> SUFFICES ASSUME NEW j \in 1 .. n, NEW k \in 1 .. n, at[j] = at[k]
                 PROVE  j = k
        OBVIOUS
    <2>1. ~(j < k) /\ ~(k < j)
        BY <1>3, <1>4, <1>5
    <2> QED
        BY <2>1
<1>7. DOMAIN vPilots' = 1 .. n /\ \A k \in 1 .. n : vPilots'[k] = v[at[k]]
    BY <1>3, <1>4
<1>8. \A k \in 1 .. n :
        /\ vPilots'[k] \in CF_Pilot
        /\ at[k] \in DOMAIN vPilots
        /\ SAME_FLIGHT(vPilots'[k], vPilots[at[k]])
        /\ vPilots'[k].flight_id = vPilots[at[k]].flight_id
    <2> TAKE k \in 1 .. n
    <2>1. at[k] \in DOMAIN v /\ vPilots'[k] = v[at[k]]
        BY <1>5, <1>7
    <2>2. v[at[k]] \in CF_Pilot
        BY <1>1, <2>1
    <2> QED
        BY <2>1, <2>2 DEF Relabels
<1>9. vPilots' \in Seq(CF_Pilot)
    <2>1. vPilots' \in [1 .. n -> CF_Pilot]
        BY <1>3, <1>4, <1>7, <1>8
    <2>2. n \in Nat
        BY <1>2 DEF n
    <2> QED
        BY <2>1, <2>2, FunctionIsSeq
<1>10. OneEntryPerFlight'
    <2> SUFFICES ASSUME NEW j \in 1 .. n, NEW k \in 1 .. n,
                        SAME_FLIGHT(vPilots'[j], vPilots'[k])
                 PROVE  j = k
        BY <1>7 DEF OneEntryPerFlight
    <2>1. SAME_FLIGHT(vPilots[at[j]], vPilots[at[k]])
        BY <1>8 DEF SAME_FLIGHT
    <2>2. at[j] = at[k]
        BY <1>8, <2>1 DEF TableInv, OneEntryPerFlight
    <2> QED
        BY <1>6, <2>2
<1>11. UniqueFlightIds'
    <2>1. ASSUME NEW j \in 1 .. n, NEW k \in 1 .. n,
                 vPilots'[j].flight_id = vPilots'[k].flight_id
          PROVE  j = k
        <3>1. at[j] = at[k]
            BY <1>8, <2>1 DEF TableInv, UniqueFlightIds
        <3> QED
            BY <1>6, <3>1
    <2>2. \A k \in 1 .. n : vPilots'[k].flight_id <= LastId'
        BY <1>8 DEF TableInv, UniqueFlightIds
    <2> QED
        BY <1>7, <2>1, <2>2 DEF UniqueFlightIds
<1> QED
    BY <1>9, <1>10, <1>11 DEF TableInv

-----------------------------------------------------------------------------
(* The inductive invariant *)

LEMMA InitInv == Init => IInv
<1> SUFFICES ASSUME Init PROVE IInv
    OBVIOUS
<1> USE TableAssumption DEF Init
<1>1. TypeOK
    <2>1. got_sim_time \in BOOLEAN
        BY Zenon
    <2>2. vPilots \in Seq(CF_Pilot) /\ now \in Nat
        OBVIOUS
    <2>3. sPktStr \in [Packet_Type -> Nat]
        OBVIOUS
    <2> QED
        BY <2>1, <2>2, <2>3 DEF TypeOK
<1>2. DOMAIN vPilots = {}
    OBVIOUS
<1>3. OneEntryPerFlight /\ UniqueFlightIds
    BY <1>2 DEF OneEntryPerFlight, UniqueFlightIds
<1>4. IdsInv
    BY DEF IdsInv
<1> QED
    BY <1>1, <1>3, <1>4 DEF IInv

\* The part of TypeOK and IdsInv the packet handlers disturb besides the table
\* and the counters.
HandlerInv ==
    /\ TableInv /\ IdsInv
    /\ prev \in Nat /\ eq_count \in Nat
    /\ elapsed_sim_time \in Nat /\ got_sim_time \in BOOLEAN

LEMMA AdvanceType ==
    ASSUME TypeOK, NEW p \in Packet, NEW e \in CF_Pilot, AdvanceSimTime(p, e)
    PROVE  elapsed_sim_time' \in Nat /\ got_sim_time' \in BOOLEAN
<1>1. p.sim - e.first_sim_time \in Int
    BY DEF Packet, CF_Pilot
<1>2. elapsed_sim_time \in Nat /\ got_sim_time \in BOOLEAN
    BY DEF TypeOK
<1>3. CASE elapsed_sim_time' = p.sim - e.first_sim_time /\ got_sim_time' = TRUE
           /\ p.sim - e.first_sim_time > elapsed_sim_time
    <2>1. elapsed_sim_time' \in Nat
        BY <1>1, <1>2, <1>3
    <2>2. got_sim_time' \in BOOLEAN
        BY <1>3, Zenon
    <2> QED
        BY <2>1, <2>2
<1>4. CASE UNCHANGED simTiming
    BY <1>2, <1>4 DEF simTiming
<1> QED
    BY <1>3, <1>4 DEF AdvanceSimTime

LEMMA FirstPositionInv ==
    ASSUME IInv, NEW p \in Packet, NEW pt, FirstPosition(p, pt), now' = now
    PROVE  HandlerInv'
<1> USE DEF IInv
<1>1. /\ IssueId /\ vPilots' = Append(vPilots, NewEntry(p))
      /\ ~Known(p) /\ UNCHANGED simTiming
    BY DEF FirstPosition
<1>2. /\ prev' \in Nat /\ eq_count' \in Nat /\ IdsInv'
      /\ LastId' = NewId /\ NewId \in Nat /\ NewId > LastId
    BY <1>1, IssuedId
<1>3. NewEntry(p) \in CF_Pilot
    BY <1>1, NewEntryType DEF IssueId
<1>4. NewEntry(p).flight_id = NewId
    BY DEF NewEntry, Entry
<1>5. \A i \in DOMAIN vPilots : ~SAME_FLIGHT(vPilots[i], NewEntry(p))
    BY <1>1 DEF Known, SAME_FLIGHT, NewEntry, Entry
<1>6. TableInv /\ LastId \in Nat
    BY LastIdType DEF TableInv, TypeOK
<1>7. TableInv'
    BY <1>1, <1>2, <1>3, <1>4, <1>5, <1>6, Pushed
<1> QED
    BY <1>1, <1>2, <1>7 DEF HandlerInv, TypeOK, simTiming

LEMMA UpdatePositionInv ==
    ASSUME IInv, NEW p \in Packet, NEW pt, UpdatePosition(p, pt), now' = now
    PROVE  HandlerInv'
<1> USE DEF IInv
<1>1. TableInv /\ LastId \in Nat
    BY LastIdType DEF TableInv, TypeOK
<1>2. PICK i \in DOMAIN vPilots :
        /\ FirstMatch(p, i)
        /\ \/ /\ vPilots[i].expired
              /\ IssueId
              /\ vPilots' = [vPilots EXCEPT ![i] = RevivedEntry(p, vPilots[i])]
           \/ /\ ~vPilots[i].expired
              /\ UNCHANGED ids
              /\ vPilots' = [vPilots EXCEPT ![i] = MovedEntry(p, vPilots[i])]
        /\ AdvanceSimTime(p, vPilots[i])
    BY DEF UpdatePosition
<1> DEFINE e == vPilots[i]
<1>3. e \in CF_Pilot
    BY <1>1 DEF TableInv
<1>4. elapsed_sim_time' \in Nat /\ got_sim_time' \in BOOLEAN
    BY <1>2, <1>3, AdvanceType
<1>5. SAME_FLIGHT(e, p)
    BY <1>2 DEF FirstMatch
<1> HIDE DEF e
<1>6. ASSUME IssueId, vPilots' = [vPilots EXCEPT ![i] = RevivedEntry(p, e)]
      PROVE  HandlerInv'
    <2>1. /\ prev' \in Nat /\ eq_count' \in Nat /\ IdsInv'
          /\ LastId' = NewId /\ NewId \in Nat /\ NewId > LastId
        BY <1>6, IssuedId
    <2>2. RevivedEntry(p, e) \in CF_Pilot
        BY <1>3, <1>6, RevivedEntryType DEF IssueId
    <2>3. /\ RevivedEntry(p, e).flight_id = NewId
          /\ SAME_FLIGHT(vPilots[i], RevivedEntry(p, e))
        BY <1>5 DEF RevivedEntry, Entry, SAME_FLIGHT, e
    <2>4. TableInv'
        <3>1. LastId' \in Nat /\ LastId <= LastId'
            BY <1>1, <2>1
        <3>2. LastId < RevivedEntry(p, e).flight_id
              /\ RevivedEntry(p, e).flight_id <= LastId'
            BY <1>1, <2>1, <2>3
        <3>3. vPilots' = [vPilots EXCEPT ![i] = RevivedEntry(p, e)]
            BY <1>6
        <3> HIDE DEF IInv
        <3> QED
            BY <1>1, <2>2, <2>3, <3>1, <3>2, <3>3, Replaced
    <2> QED
        BY <1>4, <2>1, <2>4 DEF HandlerInv
<1>7. ASSUME UNCHANGED ids, vPilots' = [vPilots EXCEPT ![i] = MovedEntry(p, e)]
      PROVE  HandlerInv'
    <2>1. /\ prev' \in Nat /\ eq_count' \in Nat /\ IdsInv' /\ LastId' = LastId
        BY <1>7 DEF ids, LastId, TypeOK, IdsInv
    <2>2. MovedEntry(p, e) \in CF_Pilot
        BY <1>3, MovedEntryType
    <2>3. /\ MovedEntry(p, e).flight_id = vPilots[i].flight_id
          /\ SAME_FLIGHT(vPilots[i], MovedEntry(p, e))
        BY <1>5 DEF MovedEntry, Entry, SAME_FLIGHT, e
    <2>4. TableInv'
        <3>1. LastId' \in Nat /\ LastId <= LastId'
            BY <1>1, <2>1
        <3>2. vPilots' = [vPilots EXCEPT ![i] = MovedEntry(p, e)]
            BY <1>7
        <3> HIDE DEF IInv
        <3> QED
            BY <1>1, <2>2, <2>3, <3>1, <3>2, Replaced
    <2> QED
        BY <1>4, <2>1, <2>4 DEF HandlerInv
<1> QED
    BY <1>2, <1>6, <1>7 DEF e

\* Counting a discard keeps a record a record of the same flight.
LEMMA DiscardedEntryType ==
    ASSUME NEW e \in CF_Pilot, NEW t \in Nat
    PROVE  LET r == [e EXCEPT !.last_seen = t, !.packetsDiscarded = @ + 1] IN
           r \in CF_Pilot /\ r.flight_id = e.flight_id /\ SAME_FLIGHT(e, r)
<1> DEFINE s == [e EXCEPT !.last_seen = t]
           r == [e EXCEPT !.last_seen = t, !.packetsDiscarded = @ + 1]
<1>1. s \in CF_Pilot /\ s.flight_id = e.flight_id /\ SAME_FLIGHT(e, s)
    BY DEF CF_Pilot, SAME_FLIGHT
<1>2. r = [s EXCEPT !.packetsDiscarded = s.packetsDiscarded + 1]
    BY DEF CF_Pilot
<1> HIDE DEF s, r
<1>3. s.packetsDiscarded + 1 \in Nat
    BY <1>1 DEF CF_Pilot
<1>4. r \in CF_Pilot /\ r.flight_id = s.flight_id /\ SAME_FLIGHT(s, r)
    BY <1>1, <1>2, <1>3 DEF CF_Pilot, SAME_FLIGHT
<1> QED
    BY <1>1, <1>4 DEF SAME_FLIGHT, r

LEMMA DiscardPositionInv ==
    ASSUME IInv, NEW p \in Packet, NEW pt, DiscardPosition(p, pt), now' = now
    PROVE  HandlerInv'
<1> USE DEF IInv
<1>1. TableInv /\ LastId \in Nat
    BY LastIdType DEF TableInv, TypeOK
<1>2. PICK i \in DOMAIN vPilots :
        /\ vPilots' = [vPilots EXCEPT ![i].last_seen = now,
                                      ![i].packetsDiscarded = @ + 1]
        /\ AdvanceSimTime(p, vPilots[i])
    BY DEF DiscardPosition
<1> DEFINE e == vPilots[i]
           r == [e EXCEPT !.last_seen = now, !.packetsDiscarded = @ + 1]
<1>3. e \in CF_Pilot
    BY <1>1 DEF TableInv
<1>4. elapsed_sim_time' \in Nat /\ got_sim_time' \in BOOLEAN
    BY <1>2, <1>3, AdvanceType
<1>5. r \in CF_Pilot /\ r.flight_id = vPilots[i].flight_id /\ SAME_FLIGHT(vPilots[i], r)
    <2>1. now \in Nat
        BY DEF TypeOK
    <2> HIDE DEF e
    <2>2. r \in CF_Pilot /\ r.flight_id = e.flight_id /\ SAME_FLIGHT(e, r)
        BY <1>3, <2>1, DiscardedEntryType
    <2> QED
        BY <2>2 DEF e
<1>6. vPilots' = [vPilots EXCEPT ![i] = r]
    BY <1>1, <1>2 DEF TableInv
<1>7. prev' \in Nat /\ eq_count' \in Nat /\ IdsInv' /\ LastId' = LastId
    BY DEF DiscardPosition, ids, LastId, TypeOK, IdsInv
<1> HIDE DEF r
<1>8. TableInv'
    <2>1. LastId' \in Nat /\ LastId <= LastId'
        BY <1>1, <1>7
    <2> HIDE DEF IInv
    <2> QED
        BY <1>1, <1>5, <1>6, <2>1, Replaced
<1> QED
    BY <1>4, <1>7, <1>8 DEF HandlerInv

\* Counters only count up, whatever the packet was.
LEMMA CountersType ==
    ASSUME TypeOK, NEW p \in Packet, NEW pt \in Packet_Type,
           Deal_With_Packet(p, pt), Tally(pt)
    PROVE  /\ pos_cnt' \in Nat /\ chat_cnt' \in Nat
           /\ failed_cnt' \in Nat /\ discard_cnt' \in Nat
           /\ packet_cnt' \in Nat /\ sPktStr' \in [Packet_Type -> Nat]
           /\ m_ExpiredCnt' \in Nat /\ now' \in Nat /\ now' = now
<1> USE DEF TypeOK
<1>1. packet_cnt' \in Nat /\ sPktStr' \in [Packet_Type -> Nat]
    BY DEF Tally
<1>2. m_ExpiredCnt' \in Nat /\ now' \in Nat /\ now' = now
    BY DEF Deal_With_Packet
<1>3. /\ pos_cnt' \in {pos_cnt, pos_cnt + 1} /\ chat_cnt' \in {chat_cnt, chat_cnt + 1}
      /\ failed_cnt' \in {failed_cnt, failed_cnt + 1}
      /\ discard_cnt' \in {discard_cnt, discard_cnt + 1}
    <2> HIDE DEF TypeOK
    <2>1. CASE Refuse(p, pt)
        BY <2>1, Zenon DEF Refuse
    <2>2. CASE Chat(p, pt)
        BY <2>2, Zenon DEF Chat
    <2>3. CASE FirstPosition(p, pt)
        BY <2>3, Zenon DEF FirstPosition
    <2>4. CASE UpdatePosition(p, pt)
        BY <2>4, Zenon DEF UpdatePosition
    <2>5. CASE DiscardPosition(p, pt)
        BY <2>5, Zenon DEF DiscardPosition
    <2> QED
        BY <2>1, <2>2, <2>3, <2>4, <2>5 DEF Deal_With_Packet
<1>4. /\ pos_cnt' \in Nat /\ chat_cnt' \in Nat
      /\ failed_cnt' \in Nat /\ discard_cnt' \in Nat
    BY <1>3
<1> QED
    BY <1>1, <1>2, <1>4

\* One packet dealt with and counted, whoever hands it over.
LEMMA DealInv ==
    ASSUME IInv, NEW p \in Packets, NEW pt \in Packet_Type,
           Deal_With_Packet(p, pt), Tally(pt)
    PROVE  IInv'
<1>1. p \in Packet
    BY TableAssumption
<1>2. now' = now
    BY DEF Deal_With_Packet
<1>3. HandlerInv'
    <2>1. CASE UNCHANGED <<vPilots, simTiming, ids>>
        BY <2>1, <1>2 DEF IInv, TypeOK, HandlerInv, TableInv, IdsInv, OneEntryPerFlight,
            UniqueFlightIds, LastId, simTiming, ids
    <2>2. CASE FirstPosition(p, pt)
        BY <2>2, <1>1, <1>2, FirstPositionInv
    <2>3. CASE UpdatePosition(p, pt)
        BY <2>3, <1>1, <1>2, UpdatePositionInv
    <2>4. CASE DiscardPosition(p, pt)
        BY <2>4, <1>1, <1>2, DiscardPositionInv
    <2> QED
        BY <2>1, <2>2, <2>3, <2>4 DEF Deal_With_Packet, Refuse, Chat
<1>4. /\ pos_cnt' \in Nat /\ chat_cnt' \in Nat
      /\ failed_cnt' \in Nat /\ discard_cnt' \in Nat
      /\ packet_cnt' \in Nat /\ sPktStr' \in [Packet_Type -> Nat]
      /\ m_ExpiredCnt' \in Nat /\ now' \in Nat
    BY <1>1, CountersType DEF IInv
<1> QED
    BY <1>3, <1>4 DEF IInv, HandlerInv, TableInv, TypeOK

LEMMA ReceiveInv ==
    ASSUME IInv, NEW p \in Packets, ReceivePacket(p)
    PROVE  IInv'
BY DealInv DEF ReceivePacket

LEMMA ExpireInv ==
    ASSUME IInv, Expire_Pilots
    PROVE  IInv'
<1> USE DEF IInv
<1>1. TableInv /\ Relabels(Swept)
    BY SweptRelabels DEF TableInv, TypeOK
<1>2. UNCHANGED <<simTiming, tallies, received, ids, now>>
    BY DEF Expire_Pilots
<1>3. LastId' = LastId
    BY <1>2 DEF LastId, ids
<1>4. CASE Erase(Swept) /\ m_ExpiredCnt' = 0
    <2>1. TableInv'
        BY <1>1, <1>3, <1>4, ErasedTable
    <2> QED
        BY <1>2, <1>4, <2>1 DEF TableInv, TypeOK, IdsInv, simTiming, tallies, received, ids
<1>5. CASE vPilots' = Swept /\ m_ExpiredCnt' = Cardinality(ExpiredAt(Swept))
    <2>1. TableInv'
        BY <1>1, <1>3, <1>5, Relabelled
    <2>2. Cardinality(ExpiredAt(Swept)) \in Nat
        <3>1. Len(Swept) \in Nat /\ DOMAIN Swept = 1 .. Len(Swept)
            BY <1>1 DEF Relabels
        <3>2. IsFiniteSet(1 .. Len(Swept))
            BY <3>1, FS_Interval
        <3>3. ExpiredAt(Swept) \subseteq 1 .. Len(Swept)
            BY <3>1 DEF ExpiredAt
        <3> QED
            BY <3>2, <3>3, FS_Subset, FS_CardinalityType
    <2> QED
        BY <1>2, <1>5, <2>1, <2>2
        DEF TableInv, TypeOK, IdsInv, simTiming, tallies, received, ids
<1> QED
    BY <1>4, <1>5 DEF Expire_Pilots

LEMMA EndOfLogInv ==
    ASSUME IInv, EndOfLog
    PROVE  IInv'
<1> USE DEF IInv, EndOfLog, clean_up_pilots
<1>1. vPilots' \in Seq(CF_Pilot) /\ DOMAIN vPilots' = {}
    OBVIOUS
<1>2. got_sim_time' \in BOOLEAN
    BY Zenon
<1>3. OneEntryPerFlight' /\ UniqueFlightIds'
    BY <1>1 DEF OneEntryPerFlight, UniqueFlightIds
<1> QED
    BY <1>1, <1>2, <1>3 DEF TypeOK, IdsInv, tallies, received, ids

LEMMA TickInv ==
    ASSUME IInv, Tick
    PROVE  IInv'
BY DEF IInv, Tick, TypeOK, OneEntryPerFlight, UniqueFlightIds, LastId, IdsInv,
    simTiming, tallies, received, ids

LEMMA StutterInv ==
    ASSUME IInv, UNCHANGED vars
    PROVE  IInv'
BY DEF IInv, vars, TypeOK, OneEntryPerFlight, UniqueFlightIds, LastId, IdsInv,
    simTiming, tallies, received, ids

LEMMA StepInv == IInv /\ [Next]_vars => IInv'
<1> SUFFICES ASSUME IInv, [Next]_vars PROVE IInv'
    OBVIOUS
<1>1. CASE \E p \in Packets : ReceivePacket(p)
    BY <1>1, ReceiveInv
<1>2. CASE Expire_Pilots
    BY <1>2, ExpireInv
<1>3. CASE EndOfLog
    BY <1>3, EndOfLogInv
<1>4. CASE Tick
    BY <1>4, TickInv
<1>5. CASE UNCHANGED vars
    BY <1>5, StutterInv
<1> QED
    BY <1>1, <1>2, <1>3, <1>4, <1>5 DEF Next

\* The inductive invariant holds in every reachable state.
THEOREM Invariance == Spec => []IInv
BY InitInv, StepInv, PTL DEF Spec

-----------------------------------------------------------------------------
(* The theorems *)

\* Every field of every record, every tally and every static of the code
\* keeps its type, whatever packets arrive in whatever order.
THEOREM TypeCorrect == Spec => []TypeOK
<1>1. IInv => TypeOK
    BY DEF IInv
<1> QED
    BY <1>1, Invariance, PTL

\* Deal_With_Packet never lists a callsign and aircraft twice.
THEOREM FlightsAreUnique == Spec => []OneEntryPerFlight
<1>1. IInv => OneEntryPerFlight
    BY DEF IInv
<1> QED
    BY <1>1, Invariance, PTL

\* No two listed flights carry the same flight id, and all ids listed were
\* issued by get_epoch_id.
THEOREM IdsAreUnique == Spec => []UniqueFlightIds
<1>1. IInv => UniqueFlightIds
    BY DEF IInv
<1> QED
    BY <1>1, Invariance, PTL

-----------------------------------------------------------------------------
(* No id is issued twice: every step keeps each flight's id or takes one      *)
(* above all the earlier ones.                                                *)

\* f goes on under the id of a flight of the table, or under a new one.
Keeps(f) ==
    \/ f.flight_id > LastId
    \/ \E j \in DOMAIN vPilots :
        /\ SAME_FLIGHT(vPilots[j], f)
        /\ vPilots[j].flight_id = f.flight_id
        /\ vPilots[j].expired => f.expired

KeepsIds == \A i \in DOMAIN vPilots' : Keeps(vPilots'[i])

LEMMA KeptRecord ==
    ASSUME NEW i \in DOMAIN vPilots
    PROVE  Keeps(vPilots[i])
BY DEF Keeps, SAME_FLIGHT

LEMMA KeptTable ==
    ASSUME UNCHANGED vPilots
    PROVE  KeepsIds
BY KeptRecord DEF KeepsIds

LEMMA KeptByFirstPosition ==
    ASSUME IInv, NEW p, NEW pt, FirstPosition(p, pt)
    PROVE  KeepsIds
<1>1. vPilots \in Seq(CF_Pilot) /\ vPilots' = Append(vPilots, NewEntry(p))
    BY DEF IInv, TypeOK, FirstPosition
<1>2. NewEntry(p).flight_id > LastId
    <2>1. IdAvailable /\ TypeOK /\ IdsInv
        BY DEF FirstPosition, IssueId, IInv
    <2>2. NewEntry(p).flight_id = NewId
        BY DEF NewEntry, Entry
    <2> QED
        BY <2>1, <2>2, NewIdAbove
<1>3. Keeps(NewEntry(p))
    BY <1>2 DEF Keeps
<1> DEFINE r == NewEntry(p)
<1>4. vPilots' = Append(vPilots, r) /\ Keeps(r)
    BY <1>1, <1>3
<1> HIDE DEF r
<1>5. \A i \in DOMAIN vPilots' : i \in DOMAIN vPilots \/ i = Len(vPilots) + 1
    BY <1>1, <1>4
<1>6. vPilots'[Len(vPilots) + 1] = r
      /\ \A i \in DOMAIN vPilots : vPilots'[i] = vPilots[i]
    BY <1>1, <1>4
<1> QED
    BY <1>4, <1>5, <1>6, KeptRecord DEF KeepsIds

\* A record rewritten in place.
LEMMA KeptByReplacement ==
    ASSUME NEW i \in DOMAIN vPilots, NEW r, Keeps(r),
           vPilots' = [vPilots EXCEPT ![i] = r]
    PROVE  KeepsIds
<1>1. \A j \in DOMAIN vPilots' :
        j \in DOMAIN vPilots /\ (vPilots'[j] = r \/ vPilots'[j] = vPilots[j])
    OBVIOUS
<1> QED
    BY <1>1, KeptRecord DEF KeepsIds

LEMMA KeptByUpdatePosition ==
    ASSUME IInv, NEW p, NEW pt, UpdatePosition(p, pt)
    PROVE  KeepsIds
<1>1. PICK i \in DOMAIN vPilots :
        /\ FirstMatch(p, i)
        /\ \/ /\ IssueId
              /\ vPilots' = [vPilots EXCEPT ![i] = RevivedEntry(p, vPilots[i])]
           \/ /\ ~vPilots[i].expired
              /\ vPilots' = [vPilots EXCEPT ![i] = MovedEntry(p, vPilots[i])]
    BY DEF UpdatePosition
<1> DEFINE e == vPilots[i]
<1>2. SAME_FLIGHT(e, p)
    BY <1>1 DEF FirstMatch
<1> HIDE DEF e
<1>3. ASSUME IssueId PROVE Keeps(RevivedEntry(p, e))
    <2>1. IdAvailable /\ TypeOK /\ IdsInv
        BY <1>3 DEF IssueId, IInv
    <2>2. RevivedEntry(p, e).flight_id = NewId
        BY DEF RevivedEntry, Entry
    <2> QED
        BY <2>1, <2>2, NewIdAbove DEF Keeps
<1>4. ASSUME ~e.expired PROVE Keeps(MovedEntry(p, e))
    <2>1. /\ MovedEntry(p, e).flight_id = e.flight_id
          /\ SAME_FLIGHT(e, MovedEntry(p, e))
        BY <1>2 DEF MovedEntry, Entry, SAME_FLIGHT
    <2> HIDE DEF e
    <2> QED
        BY <1>4, <2>1 DEF Keeps, e
<1>5. \/ Keeps(RevivedEntry(p, e)) /\ vPilots' = [vPilots EXCEPT ![i] = RevivedEntry(p, e)]
      \/ Keeps(MovedEntry(p, e)) /\ vPilots' = [vPilots EXCEPT ![i] = MovedEntry(p, e)]
    BY <1>1, <1>3, <1>4 DEF e
<1> QED
    BY <1>5, KeptByReplacement

LEMMA KeptByDiscardPosition ==
    ASSUME IInv, NEW p, NEW pt, DiscardPosition(p, pt)
    PROVE  KeepsIds
<1>1. PICK i \in DOMAIN vPilots :
        /\ ~vPilots[i].expired
        /\ vPilots' = [vPilots EXCEPT ![i].last_seen = now,
                                      ![i].packetsDiscarded = @ + 1]
    BY DEF DiscardPosition
<1> DEFINE e == vPilots[i]
           r == [e EXCEPT !.last_seen = now, !.packetsDiscarded = @ + 1]
<1>2. e \in CF_Pilot /\ now \in Nat
    BY DEF IInv, TypeOK
<1>3. vPilots' = [vPilots EXCEPT ![i] = r]
    BY <1>1 DEF IInv, TypeOK
<1>4. r.flight_id = e.flight_id /\ SAME_FLIGHT(e, r)
    <2> HIDE DEF e
    <2> QED
        BY <1>2, DiscardedEntryType
<1>5. Keeps(r)
    <2> HIDE DEF r
    <2> QED
        BY <1>1, <1>4 DEF Keeps
<1> HIDE DEF r
<1> QED
    BY <1>3, <1>5, KeptByReplacement

\* The sweep only ever sets expired.
LEMMA SweptKeeps ==
    ASSUME TypeOK, NEW i \in DOMAIN Swept
    PROVE  Keeps(Swept[i])
<1>1. i \in DOMAIN vPilots /\ Relabels(Swept)
    BY SweptRelabels DEF Swept
<1>2. SAME_FLIGHT(vPilots[i], Swept[i]) /\ vPilots[i].flight_id = Swept[i].flight_id
    BY <1>1 DEF Relabels, SAME_FLIGHT
<1>3. vPilots[i].expired => Swept[i].expired
    <2>1. vPilots[i] \in CF_Pilot
        BY <1>1 DEF TypeOK
    <2>2. Swept[i] = [vPilots[i] EXCEPT !.expired = @ \/ Silent(vPilots[i])]
        BY <1>1 DEF Swept
    <2>3. Swept[i].expired = (vPilots[i].expired \/ Silent(vPilots[i]))
        BY <2>1, <2>2 DEF CF_Pilot
    <2> QED
        BY <2>3
<1> QED
    BY <1>1, <1>2, <1>3 DEF Keeps

LEMMA KeptByExpire ==
    ASSUME IInv, Expire_Pilots
    PROVE  KeepsIds
<1>1. TypeOK
    BY DEF IInv
<1>2. CASE vPilots' = Swept
    BY <1>1, <1>2, SweptKeeps DEF KeepsIds
<1>3. CASE Erase(Swept)
    <2>1. PICK at \in [1 .. Cardinality(Kept(Swept)) -> Kept(Swept)] :
            vPilots' = [k \in DOMAIN at |-> Swept[at[k]]]
        BY <1>3 DEF Erase
    <2>2. \A k \in DOMAIN vPilots' : at[k] \in DOMAIN Swept /\ vPilots'[k] = Swept[at[k]]
        BY <2>1 DEF Kept
    <2> QED
        BY <1>1, <2>2, SweptKeeps DEF KeepsIds
<1> QED
    BY <1>2, <1>3 DEF Expire_Pilots

LEMMA StepKeepsIds == IInv /\ [Next]_vars => KeepsIds
<1> SUFFICES ASSUME IInv, [Next]_vars PROVE KeepsIds
    OBVIOUS
<1>1. CASE \E p \in Packets : ReceivePacket(p)
    <2>1. PICK p \in Packets, pt \in Packet_Type : Deal_With_Packet(p, pt)
        BY <1>1 DEF ReceivePacket
    <2>2. CASE Refuse(p, pt) \/ Chat(p, pt)
        BY <2>2, KeptTable DEF Refuse, Chat
    <2>3. CASE FirstPosition(p, pt)
        BY <2>3, KeptByFirstPosition
    <2>4. CASE UpdatePosition(p, pt)
        BY <2>4, KeptByUpdatePosition
    <2>5. CASE DiscardPosition(p, pt)
        BY <2>5, KeptByDiscardPosition
    <2> QED
        BY <2>1, <2>2, <2>3, <2>4, <2>5 DEF Deal_With_Packet
<1>2. CASE Expire_Pilots
    BY <1>2, KeptByExpire
<1>3. CASE EndOfLog
    BY <1>3 DEF EndOfLog, clean_up_pilots, KeepsIds
<1>4. CASE Tick
    BY <1>4, KeptTable DEF Tick
<1>5. CASE UNCHANGED vars
    BY <1>5, KeptTable DEF vars
<1> QED
    BY <1>1, <1>2, <1>3, <1>4, <1>5 DEF Next

\* A flight keeps its id while it lives, and every id that newly shows up in
\* the table is above all ids issued before: no flight, not even a revived or
\* an erased one, gets an id that Deal_With_Packet has handed out already.
THEOREM IdsAreNeverReissued == Spec => IdsNeverReissued
<1>1. IInv /\ [Next]_vars =>
        [\A i \in DOMAIN vPilots' :
            LET f == vPilots'[i] IN
            \/ f.flight_id > LastId
            \/ \E j \in DOMAIN vPilots :
                /\ SAME_FLIGHT(vPilots[j], f)
                /\ vPilots[j].flight_id = f.flight_id
                /\ vPilots[j].expired => f.expired]_vars
    BY StepKeepsIds DEF KeepsIds, Keeps
<1> QED
    BY <1>1, Invariance, PTL DEF Spec, IdsNeverReissued

-----------------------------------------------------------------------------
(* The tallies *)

LEMMA TallyCounts ==
    ASSUME TypeOK, NEW pt \in Packet_Type, Tally(pt)
    PROVE  /\ packet_cnt' = packet_cnt + 1
           /\ \A x \in Packet_Type :
                sPktStr'[x] = IF x = pt THEN sPktStr[x] + 1 ELSE sPktStr[x]
BY DEF Tally, TypeOK

\* A refusal is counted as failed and returns one of the bad types.
LEMMA RefusedType ==
    ASSUME NEW p, NEW pt, Refuse(p, pt)
    PROVE  /\ pt \in BadTypes
           /\ failed_cnt' = failed_cnt + 1
           /\ pos_cnt' = pos_cnt /\ chat_cnt' = chat_cnt /\ discard_cnt' = discard_cnt
BY DEF Refuse, Refused, BadTypes

LEMMA ReceiveTallies ==
    ASSUME TypeOK, TalliesAgree, NEW p \in Packets, ReceivePacket(p)
    PROVE  TalliesAgree'
<1>1. PICK pt \in Packet_Type : Deal_With_Packet(p, pt) /\ Tally(pt)
    BY DEF ReceivePacket
<1>2. /\ packet_cnt' = packet_cnt + 1
      /\ \A x \in Packet_Type :
            sPktStr'[x] = IF x = pt THEN sPktStr[x] + 1 ELSE sPktStr[x]
    BY <1>1, TallyCounts
<1>3. /\ \A x \in Packet_Type : sPktStr[x] \in Nat
      /\ pos_cnt \in Nat /\ chat_cnt \in Nat /\ failed_cnt \in Nat
      /\ discard_cnt \in Nat /\ packet_cnt \in Nat
    BY DEF TypeOK
<1> USE DEF TalliesAgree, Packet_Type, BadTypes, PosTypes
<1>4. CASE Refuse(p, pt)
    <2>1. pt \in BadTypes /\ failed_cnt' = failed_cnt + 1
          /\ pos_cnt' = pos_cnt /\ chat_cnt' = chat_cnt /\ discard_cnt' = discard_cnt
        BY <1>4, RefusedType
    <2>2. \A x \in PosTypes : sPktStr'[x] = sPktStr[x]
        BY <1>2, <2>1
    <2>3. \A x \in BadTypes : sPktStr'[x] = sPktStr[x] + (IF x = pt THEN 1 ELSE 0)
        BY <1>2, <1>3
    <2>4. failed_cnt' = sPktStr'["pkt_Invalid"] + sPktStr'["pkt_InvMag"]
                        + sPktStr'["pkt_InvProto"] + sPktStr'["pkt_InvPos"]
                        + sPktStr'["pkt_InvHgt"]
        <3> DEFINE one(x) == IF x = pt THEN 1 ELSE 0
        <3>1. one("pkt_Invalid") + one("pkt_InvMag") + one("pkt_InvProto")
              + one("pkt_InvPos") + one("pkt_InvHgt") = 1
            BY <2>1
        <3>2. \A x \in BadTypes : sPktStr'[x] = sPktStr[x] + one(x) /\ one(x) \in Nat
            BY <2>3
        <3>3. \A x \in BadTypes : sPktStr[x] \in Nat
            BY <1>3
        <3>4. /\ "pkt_Invalid" \in BadTypes /\ "pkt_InvMag" \in BadTypes
              /\ "pkt_InvProto" \in BadTypes /\ "pkt_InvPos" \in BadTypes
              /\ "pkt_InvHgt" \in BadTypes
            OBVIOUS
        <3>5. failed_cnt' = sPktStr["pkt_Invalid"] + sPktStr["pkt_InvMag"]
                            + sPktStr["pkt_InvProto"] + sPktStr["pkt_InvPos"]
                            + sPktStr["pkt_InvHgt"] + 1
            BY <2>1
        <3> DEFINE new(x) == sPktStr'[x]
                   old(x) == sPktStr[x]
        <3> HIDE DEF one, TalliesAgree, Packet_Type, BadTypes, PosTypes
        <3>6. \A x \in BadTypes :
                old(x) \in Nat /\ one(x) \in Nat /\ new(x) = old(x) + one(x)
            BY <3>2, <3>3
        <3>7. failed_cnt' = old("pkt_Invalid") + old("pkt_InvMag") + old("pkt_InvProto")
                            + old("pkt_InvPos") + old("pkt_InvHgt") + 1
            BY <3>5
        <3> HIDE DEF new, old
        <3>8. failed_cnt' = new("pkt_Invalid") + new("pkt_InvMag") + new("pkt_InvProto")
                            + new("pkt_InvPos") + new("pkt_InvHgt")
            BY <3>1, <3>4, <3>6, <3>7
        <3> QED
            BY <3>8 DEF new
    <2> QED
        BY <1>2, <1>3, <2>1, <2>2, <2>4
<1>5. CASE Chat(p, pt)
    BY <1>2, <1>3, <1>5 DEF Chat
<1>6. CASE FirstPosition(p, pt)
    <2>1. pt = "pkt_First" /\ pos_cnt' = pos_cnt + 1
          /\ chat_cnt' = chat_cnt /\ failed_cnt' = failed_cnt /\ discard_cnt' = discard_cnt
        BY <1>6, Zenon DEF FirstPosition
    <2> QED
        BY <1>2, <1>3, <2>1
<1>7. CASE UpdatePosition(p, pt)
    <2>1. pt = "pkt_Pos" /\ pos_cnt' = pos_cnt + 1
          /\ chat_cnt' = chat_cnt /\ failed_cnt' = failed_cnt /\ discard_cnt' = discard_cnt
        BY <1>7, Zenon DEF UpdatePosition
    <2> QED
        BY <1>2, <1>3, <2>1
<1>8. CASE DiscardPosition(p, pt)
    <2>1. pt = "pkt_Discards" /\ pos_cnt' = pos_cnt + 1 /\ discard_cnt' = discard_cnt + 1
          /\ chat_cnt' = chat_cnt /\ failed_cnt' = failed_cnt
        BY <1>8, Zenon DEF DiscardPosition
    <2> QED
        BY <1>2, <1>3, <2>1
<1> QED
    BY <1>1, <1>4, <1>5, <1>6, <1>7, <1>8 DEF Deal_With_Packet

LEMMA StepTallies == IInv /\ TalliesAgree /\ [Next]_vars => TalliesAgree'
<1> SUFFICES ASSUME IInv, TalliesAgree, [Next]_vars PROVE TalliesAgree'
    OBVIOUS
<1>1. CASE \E p \in Packets : ReceivePacket(p)
    BY <1>1, ReceiveTallies DEF IInv
<1>2. CASE UNCHANGED <<tallies, received>>
    BY <1>2 DEF TalliesAgree, tallies, received
<1> QED
    BY <1>1, <1>2 DEF Next, Expire_Pilots, EndOfLog, Tick, vars

\* Whatever arrives, the counters Deal_With_Packet keeps itself and the counts
\* get_next_block keeps of its return values tell the same story.
THEOREM TalliesAlwaysAgree == Spec => []TalliesAgree
<1>1. Init => TalliesAgree
    BY DEF Init, TalliesAgree, Packet_Type, BadTypes, PosTypes
<1> QED
    BY <1>1, StepTallies, Invariance, PTL DEF Spec

-----------------------------------------------------------------------------
(* The watermark *)

LEMMA ExpiredCount ==
    ASSUME NEW v \in Seq(CF_Pilot)
    PROVE  IsFiniteSet(ExpiredAt(v)) /\ Cardinality(ExpiredAt(v)) \in Nat
<1>1. Len(v) \in Nat /\ DOMAIN v = 1 .. Len(v)
    OBVIOUS
<1>2. IsFiniteSet(1 .. Len(v)) /\ ExpiredAt(v) \subseteq 1 .. Len(v)
    BY <1>1, FS_Interval DEF ExpiredAt
<1>3. IsFiniteSet(ExpiredAt(v))
    BY <1>2, FS_Subset
<1> QED
    BY <1>3, FS_CardinalityType

\* What only revives, adds or leaves alone keeps to the watermark.
LEMMA FewerExpired ==
    ASSUME TypeOK, ExpiredWithinWatermark, m_ExpiredCnt' = m_ExpiredCnt,
           ExpiredAt(vPilots') \subseteq ExpiredAt(vPilots)
    PROVE  ExpiredWithinWatermark'
<1>1. IsFiniteSet(ExpiredAt(vPilots)) /\ Cardinality(ExpiredAt(vPilots)) \in Nat
    BY ExpiredCount DEF TypeOK
<1>2. /\ Cardinality(ExpiredAt(vPilots')) <= Cardinality(ExpiredAt(vPilots))
      /\ IsFiniteSet(ExpiredAt(vPilots'))
    BY <1>1, FS_Subset
<1>3. Cardinality(ExpiredAt(vPilots')) \in Nat
    BY <1>2, FS_CardinalityType
<1> QED
    BY <1>1, <1>2, <1>3, TableAssumption DEF ExpiredWithinWatermark, TypeOK

\* A record that is not expired takes the place of entry i, or no entry is
\* touched in whether it is expired.
LEMMA ReplacedExpired ==
    ASSUME NEW i \in DOMAIN vPilots, NEW r,
           r.expired => vPilots[i].expired, vPilots' = [vPilots EXCEPT ![i] = r]
    PROVE  ExpiredAt(vPilots') \subseteq ExpiredAt(vPilots)
BY DEF ExpiredAt

\* A discarded position leaves a living record a living one of its flight.
LEMMA DiscardedEntry ==
    ASSUME TypeOK, NEW p, NEW pt, DiscardPosition(p, pt)
    PROVE  \E i \in DOMAIN vPilots, r \in CF_Pilot :
            /\ vPilots' = [vPilots EXCEPT ![i] = r]
            /\ ~r.expired /\ SAME_FLIGHT(r, vPilots[i])
<1>1. PICK i \in DOMAIN vPilots :
        /\ ~vPilots[i].expired
        /\ vPilots' = [vPilots EXCEPT ![i].last_seen = now,
                                      ![i].packetsDiscarded = @ + 1]
    BY DEF DiscardPosition
<1> DEFINE e == vPilots[i]
           s == [e EXCEPT !.last_seen = now]
           r == [e EXCEPT !.last_seen = now, !.packetsDiscarded = @ + 1]
<1>2. vPilots \in Seq(CF_Pilot) /\ e \in CF_Pilot /\ now \in Nat
    BY DEF TypeOK
<1>3. vPilots' = [vPilots EXCEPT ![i] = r]
    BY <1>1, <1>2
<1>4. r \in CF_Pilot /\ SAME_FLIGHT(e, r)
    <2> HIDE DEF e
    <2> QED
        BY <1>2, DiscardedEntryType
<1>5. s.expired = e.expired /\ s.packetsDiscarded = e.packetsDiscarded /\ s \in CF_Pilot
    BY <1>2 DEF CF_Pilot
<1>6. r = [s EXCEPT !.packetsDiscarded = s.packetsDiscarded + 1]
    BY <1>2 DEF CF_Pilot
<1>7. r.expired = s.expired
    <2> HIDE DEF s, r
    <2> QED
        BY <1>5, <1>6 DEF CF_Pilot
<1> QED
    BY <1>1, <1>3, <1>4, <1>5, <1>7 DEF SAME_FLIGHT

LEMMA ReceiveExpired ==
    ASSUME IInv, NEW p \in Packets, NEW pt, Deal_With_Packet(p, pt)
    PROVE  ExpiredAt(vPilots') \subseteq ExpiredAt(vPilots)
<1>1. vPilots \in Seq(CF_Pilot)
    BY DEF IInv, TypeOK
<1>2. CASE Refuse(p, pt) \/ Chat(p, pt)
    BY <1>2 DEF Refuse, Chat
<1>3. CASE FirstPosition(p, pt)
    <2>1. vPilots' = Append(vPilots, NewEntry(p))
        BY <1>3, Zenon DEF FirstPosition
    <2>2. ~NewEntry(p).expired
        BY DEF NewEntry, Entry
    <2> HIDE DEF NewEntry
    <2> QED
        BY <1>1, <2>1, <2>2 DEF ExpiredAt
<1>4. CASE UpdatePosition(p, pt)
    <2>1. PICK i \in DOMAIN vPilots :
            \/ vPilots' = [vPilots EXCEPT ![i] = RevivedEntry(p, vPilots[i])]
            \/ vPilots' = [vPilots EXCEPT ![i] = MovedEntry(p, vPilots[i])]
        BY <1>4, Zenon DEF UpdatePosition
    <2>2. ~RevivedEntry(p, vPilots[i]).expired /\ ~MovedEntry(p, vPilots[i]).expired
        BY DEF RevivedEntry, MovedEntry, Entry
    <2> QED
        BY <2>1, <2>2, ReplacedExpired
<1>5. CASE DiscardPosition(p, pt)
    <2>1. PICK i \in DOMAIN vPilots, r \in CF_Pilot :
            vPilots' = [vPilots EXCEPT ![i] = r] /\ ~r.expired
        BY <1>5, DiscardedEntry DEF IInv
    <2> QED
        BY <2>1, ReplacedExpired
<1> QED
    BY <1>2, <1>3, <1>4, <1>5 DEF Deal_With_Packet

\* Erase leaves no expired entry.
LEMMA ErasedExpired ==
    ASSUME NEW v, Erase(v)
    PROVE  ExpiredAt(vPilots') = {}
<1>1. PICK at \in [1 .. Cardinality(Kept(v)) -> Kept(v)] :
        vPilots' = [k \in DOMAIN at |-> v[at[k]]]
    BY DEF Erase
<1>2. \A k \in DOMAIN at : at[k] \in DOMAIN v /\ ~v[at[k]].expired
    BY <1>1 DEF Kept, ExpiredAt
<1> QED
    BY <1>1, <1>2 DEF ExpiredAt

LEMMA ExpireWatermark ==
    ASSUME TypeOK, Expire_Pilots
    PROVE  ExpiredWithinWatermark'
<1>1. CASE Erase(Swept) /\ m_ExpiredCnt' = 0
    <2>1. Cardinality(ExpiredAt(vPilots')) = 0
        BY <1>1, ErasedExpired, FS_EmptySet
    <2> QED
        BY <1>1, <2>1, TableAssumption DEF ExpiredWithinWatermark
<1>2. CASE /\ MaxExpired = 0 \/ Cardinality(ExpiredAt(Swept)) <= MaxExpired
           /\ vPilots' = Swept /\ m_ExpiredCnt' = Cardinality(ExpiredAt(Swept))
    <2>1. Cardinality(ExpiredAt(Swept)) \in Nat
        BY SweptRelabels, ExpiredCount DEF Relabels
    <2> QED
        BY <1>2, <2>1 DEF ExpiredWithinWatermark
<1> QED
    BY <1>1, <1>2 DEF Expire_Pilots

LEMMA StepWatermark == IInv /\ ExpiredWithinWatermark /\ [Next]_vars => ExpiredWithinWatermark'
<1> SUFFICES ASSUME IInv, ExpiredWithinWatermark, [Next]_vars
             PROVE  ExpiredWithinWatermark'
    OBVIOUS
<1>1. TypeOK
    BY DEF IInv
<1>2. CASE \E p \in Packets : ReceivePacket(p)
    <2>1. PICK p \in Packets, pt \in Packet_Type : Deal_With_Packet(p, pt)
        BY <1>2 DEF ReceivePacket
    <2>2. m_ExpiredCnt' = m_ExpiredCnt
        BY <2>1 DEF Deal_With_Packet
    <2> QED
        BY <1>1, <2>1, <2>2, ReceiveExpired, FewerExpired
<1>3. CASE Expire_Pilots
    BY <1>1, <1>3, ExpireWatermark
<1>4. CASE EndOfLog
    <2>1. ExpiredAt(vPilots') = {} /\ m_ExpiredCnt' = m_ExpiredCnt
        BY <1>4 DEF EndOfLog, clean_up_pilots, ExpiredAt
    <2> QED
        BY <1>1, <2>1, FewerExpired
<1>5. CASE UNCHANGED <<vPilots, m_ExpiredCnt>>
    BY <1>5 DEF ExpiredWithinWatermark
<1> QED
    BY <1>2, <1>3, <1>4, <1>5 DEF Next, Tick, vars

\* The vector never holds more expired entries than Expire_Pilots last counted,
\* nor, once it erases them, more than MaxExpired.
THEOREM WatermarkHolds == Spec => []ExpiredWithinWatermark
<1>1. Init => ExpiredWithinWatermark
    <2>1. ExpiredAt(<<>>) = {}
        BY DEF ExpiredAt
    <2>2. Init => ExpiredAt(vPilots) = {} /\ m_ExpiredCnt = 0
        BY <2>1 DEF Init
    <2>3. MaxExpired \in Nat
        BY TableAssumption
    <2> QED
        BY <2>2, <2>3, FS_EmptySet DEF ExpiredWithinWatermark
<1> QED
    BY <1>1, StepWatermark, Invariance, PTL DEF Spec

-----------------------------------------------------------------------------
(* A sweep takes no flight that is still heard *)

\* A living entry goes on as a living entry of the same flight.
GoesOn(e) == \E j \in DOMAIN vPilots' : SAME_FLIGHT(vPilots'[j], e) /\ ~vPilots'[j].expired

Excused(e) ==
    \/ e.expired
    \/ Silent(e)
    \/ vPilots' = <<>> /\ ~got_sim_time' /\ UNCHANGED m_ExpiredCnt

LEMMA ReplacedGoesOn ==
    ASSUME vPilots \in Seq(CF_Pilot), NEW i \in DOMAIN vPilots, NEW r,
           SAME_FLIGHT(r, vPilots[i]), ~r.expired,
           vPilots' = [vPilots EXCEPT ![i] = r],
           NEW k \in DOMAIN vPilots, ~vPilots[k].expired
    PROVE  GoesOn(vPilots[k])
BY DEF GoesOn, SAME_FLIGHT

LEMMA ReceiveKeeps ==
    ASSUME IInv, NEW p \in Packets, NEW pt, Deal_With_Packet(p, pt),
           NEW k \in DOMAIN vPilots, ~vPilots[k].expired
    PROVE  GoesOn(vPilots[k])
<1>1. vPilots \in Seq(CF_Pilot)
    BY DEF IInv, TypeOK
<1>2. CASE Refuse(p, pt) \/ Chat(p, pt)
    BY <1>2 DEF Refuse, Chat, GoesOn, SAME_FLIGHT
<1>3. CASE FirstPosition(p, pt)
    <2>1. vPilots' = Append(vPilots, NewEntry(p))
        BY <1>3, Zenon DEF FirstPosition
    <2>2. k \in DOMAIN vPilots' /\ vPilots'[k] = vPilots[k]
        BY <1>1, <2>1
    <2> QED
        BY <2>2 DEF GoesOn, SAME_FLIGHT
<1>4. CASE UpdatePosition(p, pt)
    <2>1. PICK i \in DOMAIN vPilots :
            /\ FirstMatch(p, i)
            /\ \/ vPilots' = [vPilots EXCEPT ![i] = RevivedEntry(p, vPilots[i])]
               \/ vPilots' = [vPilots EXCEPT ![i] = MovedEntry(p, vPilots[i])]
        BY <1>4, Zenon DEF UpdatePosition
    <2>2. /\ SAME_FLIGHT(RevivedEntry(p, vPilots[i]), vPilots[i])
          /\ SAME_FLIGHT(MovedEntry(p, vPilots[i]), vPilots[i])
          /\ ~RevivedEntry(p, vPilots[i]).expired /\ ~MovedEntry(p, vPilots[i]).expired
        BY <2>1 DEF FirstMatch, SAME_FLIGHT, RevivedEntry, MovedEntry, Entry
    <2> QED
        BY <1>1, <2>1, <2>2, ReplacedGoesOn
<1>5. CASE DiscardPosition(p, pt)
    <2>1. PICK i \in DOMAIN vPilots, r \in CF_Pilot :
            /\ vPilots' = [vPilots EXCEPT ![i] = r]
            /\ ~r.expired /\ SAME_FLIGHT(r, vPilots[i])
        BY <1>5, DiscardedEntry DEF IInv
    <2> QED
        BY <1>1, <2>1, ReplacedGoesOn
<1> QED
    BY <1>2, <1>3, <1>4, <1>5 DEF Deal_With_Packet

\* The sweep marks none that is still heard.
LEMMA SweptSpares ==
    ASSUME TypeOK, NEW k \in DOMAIN vPilots, ~vPilots[k].expired, ~Silent(vPilots[k])
    PROVE  /\ k \in DOMAIN Swept /\ ~Swept[k].expired
           /\ SAME_FLIGHT(Swept[k], vPilots[k])
<1>1. vPilots[k] \in CF_Pilot
    BY DEF TypeOK
<1>2. Swept[k] = [vPilots[k] EXCEPT !.expired = @ \/ Silent(vPilots[k])]
    BY DEF Swept
<1>3. Swept[k].expired = (vPilots[k].expired \/ Silent(vPilots[k]))
    BY <1>1, <1>2 DEF CF_Pilot
<1> QED
    BY <1>3, SweptRelabels DEF Relabels

\* Erase keeps every entry that is not expired: an increasing list of as many
\* places as there are to keep names each of them.
LEMMA ErasedKeeps ==
    ASSUME NEW v \in Seq(CF_Pilot), Erase(v), NEW k \in Kept(v)
    PROVE  \E j \in DOMAIN vPilots' : vPilots'[j] = v[k]
<1> DEFINE n == Cardinality(Kept(v))
<1>1. IsFiniteSet(Kept(v)) /\ n \in Nat /\ Kept(v) \subseteq Nat
    <2>1. Len(v) \in Nat /\ DOMAIN v = 1 .. Len(v)
        OBVIOUS
    <2>2. IsFiniteSet(1 .. Len(v)) /\ Kept(v) \subseteq 1 .. Len(v)
        BY <2>1, FS_Interval DEF Kept
    <2>3. IsFiniteSet(Kept(v))
        BY <2>2, FS_Subset
    <2> QED
        BY <2>1, <2>2, <2>3, FS_CardinalityType
<1>2. PICK at \in [1 .. n -> Kept(v)] :
        /\ \A i, j \in DOMAIN at : i < j => at[i] < at[j]
        /\ vPilots' = [i \in DOMAIN at |-> v[at[i]]]
    BY DEF Erase
<1>3. \A i, j \in 1 .. n : at[i] = at[j] => i = j
    <2> SUFFICES ASSUME NEW i \in 1 .. n, NEW j \in 1 .. n, at[i] = at[j]
                 PROVE  i = j
        OBVIOUS
    <2>1. at[i] \in Nat /\ at[j] \in Nat /\ i \in Nat /\ j \in Nat
        BY <1>1, <1>2
    <2>2. ~(i < j) /\ ~(j < i)
        BY <1>2, <2>1
    <2> QED
        BY <2>1, <2>2
<1>4. at \in Injection(1 .. n, Kept(v))
    BY <1>2, <1>3 DEF Injection, IsInjective
<1>5. Cardinality(1 .. n) = n
    BY <1>1, FS_Interval
<1>6. at \in Surjection(1 .. n, Kept(v))
    BY <1>1, <1>4, <1>5, FS_Injection
<1>7. PICK j \in 1 .. n : at[j] = k
    BY <1>6 DEF Surjection
<1> QED
    BY <1>2, <1>7

LEMMA ExpireSpares ==
    ASSUME TypeOK, Expire_Pilots, NEW k \in DOMAIN vPilots,
           ~vPilots[k].expired, ~Silent(vPilots[k])
    PROVE  GoesOn(vPilots[k])
<1>1. /\ k \in DOMAIN Swept /\ ~Swept[k].expired
      /\ SAME_FLIGHT(Swept[k], vPilots[k]) /\ Swept \in Seq(CF_Pilot)
    BY SweptSpares, SweptRelabels DEF Relabels
<1>2. CASE vPilots' = Swept
    BY <1>1, <1>2 DEF GoesOn
<1>3. CASE Erase(Swept)
    <2>1. k \in Kept(Swept)
        BY <1>1 DEF Kept, ExpiredAt
    <2>2. PICK j \in DOMAIN vPilots' : vPilots'[j] = Swept[k]
        BY <1>1, <1>3, <2>1, ErasedKeeps
    <2> QED
        BY <1>1, <2>2 DEF GoesOn
<1> QED
    BY <1>2, <1>3 DEF Expire_Pilots

LEMMA StepSpares ==
    IInv /\ [Next]_vars => \A k \in DOMAIN vPilots : Excused(vPilots[k]) \/ GoesOn(vPilots[k])
<1> SUFFICES ASSUME IInv, [Next]_vars, NEW k \in DOMAIN vPilots, ~Excused(vPilots[k])
             PROVE  GoesOn(vPilots[k])
    OBVIOUS
<1>1. TypeOK /\ ~vPilots[k].expired /\ ~Silent(vPilots[k])
    BY Zenon DEF IInv, Excused
<1>2. CASE \E p \in Packets : ReceivePacket(p)
    <2>1. PICK p \in Packets, pt \in Packet_Type : Deal_With_Packet(p, pt)
        BY <1>2 DEF ReceivePacket
    <2> QED
        BY <1>1, <2>1, ReceiveKeeps
<1>3. CASE Expire_Pilots
    BY <1>1, <1>3, ExpireSpares
<1>4. CASE EndOfLog
    BY <1>4 DEF EndOfLog, clean_up_pilots, Excused
<1>5. CASE UNCHANGED vPilots
    BY <1>1, <1>5 DEF GoesOn, SAME_FLIGHT
<1> QED
    BY <1>2, <1>3, <1>4, <1>5 DEF Next, Tick, vars

\* A flight that is heard stays listed as living, whatever Expire_Pilots marks
\* and erases around it, until the log ends and the whole table goes.
THEOREM LiveFlightsStay == Spec => LiveUntilSilent
<1>1. IInv /\ [Next]_vars =>
        [\A i \in DOMAIN vPilots :
            LET e == vPilots[i] IN
            \/ e.expired
            \/ Silent(e)
            \/ vPilots' = <<>> /\ ~got_sim_time' /\ UNCHANGED m_ExpiredCnt
            \/ \E j \in DOMAIN vPilots' :
                SAME_FLIGHT(vPilots'[j], e) /\ ~vPilots'[j].expired]_vars
    BY StepSpares DEF Excused, GoesOn
<1> QED
    BY <1>1, Invariance, PTL DEF Spec, LiveUntilSilent

-----------------------------------------------------------------------------
(* What the steps leave in the table, for the module that drives it *)

\* elapsed_sim_time grows, and notes that it did.
LEMMA AdvanceGrows ==
    ASSUME TypeOK, NEW p \in Packet, NEW e \in CF_Pilot, AdvanceSimTime(p, e)
    PROVE  /\ elapsed_sim_time <= elapsed_sim_time'
           /\ p.sim - e.first_sim_time <= elapsed_sim_time'
           /\ elapsed_sim_time' = elapsed_sim_time \/ got_sim_time'
           /\ got_sim_time => got_sim_time'
<1> DEFINE sseconds == p.sim - e.first_sim_time
<1>1. sseconds \in Int /\ elapsed_sim_time \in Nat
    BY DEF Packet, CF_Pilot, TypeOK
<1>2. \/ /\ sseconds > elapsed_sim_time /\ elapsed_sim_time' = sseconds /\ got_sim_time'
      \/ /\ ~(sseconds > elapsed_sim_time) /\ elapsed_sim_time' = elapsed_sim_time
         /\ got_sim_time' = got_sim_time
    BY Zenon DEF AdvanceSimTime, simTiming
<1> HIDE DEF sseconds
<1>3. elapsed_sim_time <= elapsed_sim_time' /\ sseconds <= elapsed_sim_time'
    BY <1>1, <1>2
<1>4. elapsed_sim_time' = elapsed_sim_time \/ got_sim_time'
    BY <1>2, Zenon
<1>5. ASSUME got_sim_time PROVE got_sim_time'
    BY <1>2, <1>5, Zenon
<1> QED
    BY <1>3, <1>4, <1>5, Zenon DEF sseconds

\* e was in the table, or it was heard just now and elapsed_sim_time covers it.
Left(e) ==
    \/ \E j \in DOMAIN vPilots : e = vPilots[j]
    \/ /\ e.last_seen = now
       /\ \/ e.sim_time - e.first_sim_time <= elapsed_sim_time'
          \/ \E j \in DOMAIN vPilots :
                /\ e.sim_time = vPilots[j].sim_time
                /\ e.first_sim_time = vPilots[j].first_sim_time

LEMMA ReplacedLeft ==
    ASSUME NEW i \in DOMAIN vPilots, NEW r, Left(r), vPilots' = [vPilots EXCEPT ![i] = r]
    PROVE  \A k \in DOMAIN vPilots' : Left(vPilots'[k])
<1>1. \A k \in DOMAIN vPilots' :
        k \in DOMAIN vPilots /\ (vPilots'[k] = r \/ vPilots'[k] = vPilots[k])
    OBVIOUS
<1>2. \A k \in DOMAIN vPilots : Left(vPilots[k])
    BY DEF Left
<1> QED
    BY <1>1, <1>2

\* A packet leaves the records of the table, one of them perhaps replaced.
LEMMA DealtEntries ==
    ASSUME IInv, NEW p \in Packets, NEW pt, Deal_With_Packet(p, pt)
    PROVE  /\ elapsed_sim_time <= elapsed_sim_time'
           /\ elapsed_sim_time' = elapsed_sim_time \/ got_sim_time'
           /\ got_sim_time => got_sim_time'
           /\ \A k \in DOMAIN vPilots' : Left(vPilots'[k])
<1>1. p \in Packet /\ p.sim \in Int /\ TypeOK /\ vPilots \in Seq(CF_Pilot)
      /\ elapsed_sim_time \in Nat /\ now \in Nat
    BY TableAssumption DEF Packet, IInv, TypeOK
<1>2. \A k \in DOMAIN vPilots : Left(vPilots[k])
    BY DEF Left
<1>3. CASE Refuse(p, pt) \/ Chat(p, pt)
    BY <1>1, <1>2, <1>3 DEF Refuse, Chat, simTiming
<1>4. CASE FirstPosition(p, pt)
  <2> DEFINE r == NewEntry(p)
  <2>1. vPilots' = Append(vPilots, r) /\ UNCHANGED <<elapsed_sim_time, got_sim_time>>
      BY <1>4, Zenon DEF FirstPosition, simTiming
  <2>2. Left(r)
    <3>1. r.sim_time = p.sim /\ r.first_sim_time = p.sim /\ r.last_seen = now
        BY DEF NewEntry, Entry
    <3>2. r.sim_time - r.first_sim_time <= elapsed_sim_time'
        BY <1>1, <2>1, <3>1
    <3> QED
        BY <3>1, <3>2 DEF Left
  <2> HIDE DEF r
  <2>3. \A k \in DOMAIN vPilots' :
          \/ vPilots'[k] = r
          \/ k \in DOMAIN vPilots /\ vPilots'[k] = vPilots[k]
      BY <1>1, <2>1
  <2> QED
      BY <1>1, <1>2, <2>1, <2>2, <2>3
<1>5. CASE UpdatePosition(p, pt)
  <2>1. PICK i \in DOMAIN vPilots :
          /\ \/ vPilots' = [vPilots EXCEPT ![i] = RevivedEntry(p, vPilots[i])]
             \/ vPilots' = [vPilots EXCEPT ![i] = MovedEntry(p, vPilots[i])]
          /\ AdvanceSimTime(p, vPilots[i])
      BY <1>5, Zenon DEF UpdatePosition
  <2> DEFINE e == vPilots[i]
  <2>2. e \in CF_Pilot
      BY <1>1
  <2>3. /\ elapsed_sim_time <= elapsed_sim_time'
        /\ p.sim - e.first_sim_time <= elapsed_sim_time'
        /\ elapsed_sim_time' = elapsed_sim_time \/ got_sim_time'
        /\ got_sim_time => got_sim_time'
      BY <1>1, <2>1, <2>2, AdvanceGrows
  <2> HIDE DEF e
  <2>4. Left(MovedEntry(p, e))
      BY <2>3 DEF Left, MovedEntry, Entry
  <2>5. Left(RevivedEntry(p, e))
    <3>1. p.sim - p.sim <= elapsed_sim_time'
      <4>1. elapsed_sim_time' \in Nat
          BY <1>1, <2>1, <2>2, AdvanceType DEF e
      <4> QED
          BY <1>1, <4>1
    <3> QED
        BY <3>1 DEF Left, RevivedEntry, Entry
  <2> QED
      BY <2>1, <2>3, <2>4, <2>5, ReplacedLeft DEF e
<1>6. CASE DiscardPosition(p, pt)
  <2>1. PICK i \in DOMAIN vPilots :
          /\ vPilots' = [vPilots EXCEPT ![i].last_seen = now,
                                        ![i].packetsDiscarded = @ + 1]
          /\ AdvanceSimTime(p, vPilots[i])
      BY <1>6 DEF DiscardPosition
  <2> DEFINE e == vPilots[i]
             s == [e EXCEPT !.last_seen = now]
             r == [e EXCEPT !.last_seen = now, !.packetsDiscarded = @ + 1]
  <2>2. e \in CF_Pilot
      BY <1>1
  <2>3. vPilots' = [vPilots EXCEPT ![i] = r]
      BY <1>1, <2>1
  <2>4. /\ elapsed_sim_time <= elapsed_sim_time'
        /\ elapsed_sim_time' = elapsed_sim_time \/ got_sim_time'
        /\ got_sim_time => got_sim_time'
      BY <1>1, <2>1, <2>2, AdvanceGrows
  <2> HIDE DEF e
  <2>5. /\ s \in CF_Pilot /\ s.sim_time = e.sim_time
        /\ s.first_sim_time = e.first_sim_time /\ s.last_seen = now
      BY <1>1, <2>2 DEF CF_Pilot
  <2>6. r = [s EXCEPT !.packetsDiscarded = s.packetsDiscarded + 1]
      BY <2>2 DEF CF_Pilot
  <2> HIDE DEF s
  <2>7. r.sim_time = e.sim_time /\ r.first_sim_time = e.first_sim_time /\ r.last_seen = now
      BY <2>5, <2>6 DEF CF_Pilot
  <2> HIDE DEF r
  <2>8. Left(r)
      BY <2>7 DEF Left, e
  <2> QED
      BY <2>3, <2>4, <2>8, ReplacedLeft
<1> QED
    BY <1>3, <1>4, <1>5, <1>6 DEF Deal_With_Packet

\* A sweep leaves records of the table, marked or not; those not marked were
\* heard within TTL seconds.
LEMMA SweptEntries ==
    ASSUME TypeOK, Expire_Pilots, NEW k \in DOMAIN vPilots'
    PROVE  \E j \in DOMAIN vPilots :
            /\ vPilots'[k].last_seen = vPilots[j].last_seen
            /\ vPilots'[k].sim_time = vPilots[j].sim_time
            /\ vPilots'[k].first_sim_time = vPilots[j].first_sim_time
            /\ ~vPilots'[k].expired => ~vPilots[j].expired /\ ~Silent(vPilots[j])
<1>1. PICK j \in DOMAIN Swept : vPilots'[k] = Swept[j]
  <2>1. CASE vPilots' = Swept
      BY <2>1
  <2>2. CASE Erase(Swept)
      BY <2>2 DEF Erase, Kept
  <2> QED
      BY <2>1, <2>2 DEF Expire_Pilots
<1> DEFINE e == vPilots[j]
           late == e.expired \/ Silent(e)
<1>2. j \in DOMAIN vPilots /\ Swept[j] = [e EXCEPT !.expired = late]
    BY DEF Swept
<1>3. e \in CF_Pilot
    BY <1>2 DEF TypeOK
<1>4. late \in BOOLEAN
    BY <1>3 DEF CF_Pilot, Silent
<1> DEFINE s == [e EXCEPT !.expired = late]
<1> HIDE DEF e, late
<1>5. /\ s.last_seen = e.last_seen /\ s.sim_time = e.sim_time
      /\ s.first_sim_time = e.first_sim_time /\ s.expired = late
    BY <1>3, <1>4 DEF CF_Pilot
<1> HIDE DEF s
<1>6. ~s.expired => ~e.expired /\ ~Silent(e)
    BY <1>5, Zenon DEF late
<1> QED
    BY <1>1, <1>2, <1>5, <1>6 DEF s, e

-----------------------------------------------------------------------------
(* History *)

HeardRecord == [n : Nat, flown : Nat, latest : Packet, seen : Nat]

\* The record e sums up what was heard, h.
SumsUp(e, h) ==
    /\ h \in HeardRecord
    /\ \A x \in Axes : Moved(h.latest, e, x) <= MinChange[x]
    /\ h.latest.sim = e.sim_time \/ h.latest.sim - e.sim_time < TTL
    /\ e.packetCount + e.packetsDiscarded = h.n
    /\ e.last_seen = h.seen
    /\ e.total_nm = h.flown

Reaches(elapsed, e, h) == h.latest.sim - e.first_sim_time <= elapsed

\* The history of a flight that is not listed may be anything: the next entry
\* starts it afresh.
HistoryInv ==
    /\ DOMAIN heard = Callsigns \X Aircraft
    /\ \A i \in DOMAIN vPilots :
        /\ SumsUp(vPilots[i], HeardOf(vPilots[i]))
        /\ Reaches(elapsed_sim_time, vPilots[i], HeardOf(vPilots[i]))
    /\ got_sim_time => elapsed_sim_time > 0

HInv == IInv /\ HistoryInv

-----------------------------------------------------------------------------
(* Lemmas *)

\* A table without duplicates has one match, so the search finds it.
LEMMA EntryIsFirstMatch ==
    ASSUME OneEntryPerFlight, NEW p, NEW i, FirstMatch(p, i)
    PROVE  Known(p) /\ EntryOf(p) = vPilots[i]
<1>1. \A j : FirstMatch(p, j) => j = i
    BY DEF FirstMatch, OneEntryPerFlight, SAME_FLIGHT
<1>2. FirstMatch(p, CHOOSE j \in DOMAIN vPilots : FirstMatch(p, j))
    BY DEF FirstMatch
<1> QED
    BY <1>1, <1>2 DEF EntryOf, Known, FirstMatch

\* Only the history of the flight that is heard changes.
LEMMA HearOne ==
    ASSUME DOMAIN heard = Callsigns \X Aircraft, NEW p \in Packet, heard' = Hear(p)
    PROVE  LET f == <<p.callsign, p.aircraft>> IN
           /\ DOMAIN heard' = DOMAIN heard
           /\ \A g \in DOMAIN heard : g # f => heard'[g] = heard[g]
           /\ Known(p) => heard'[f] = [n |-> heard[f].n + 1, flown |-> Flown(p),
                                       latest |-> p, seen |-> now]
           /\ ~Known(p) => heard'[f] = [n |-> 1, flown |-> 0, latest |-> p, seen |-> now]
<1>1. <<p.callsign, p.aircraft>> \in DOMAIN heard
    BY DEF Packet
<1> QED
    BY <1>1 DEF Hear

\* The readings of a packet do not differ from those of the record it became.
LEMMA SameReading ==
    ASSUME NEW p \in Packet, NEW e, e.at = p.at, NEW x \in Axes
    PROVE  Moved(p, e, x) <= MinChange[x]
<1>1. p.at[x] \in Int /\ MinChange[x] \in Nat
    BY TableAssumption DEF Packet, Reading
<1> QED
    BY <1>1 DEF Moved, Abs

\* elapsed_sim_time only grows, to the sim time since the start of the flight.
LEMMA AdvanceReaches ==
    ASSUME TypeOK, NEW p \in Packet, NEW e \in CF_Pilot, AdvanceSimTime(p, e)
    PROVE  /\ elapsed_sim_time' \in Nat
           /\ elapsed_sim_time <= elapsed_sim_time'
           /\ p.sim - e.first_sim_time <= elapsed_sim_time'
           /\ got_sim_time' => got_sim_time \/ elapsed_sim_time' > 0
<1> DEFINE sseconds == p.sim - e.first_sim_time
<1>1. sseconds \in Int /\ elapsed_sim_time \in Nat
    BY DEF Packet, CF_Pilot, TypeOK
<1>2. \/ /\ sseconds > elapsed_sim_time /\ elapsed_sim_time' = sseconds
      \/ /\ ~(sseconds > elapsed_sim_time) /\ elapsed_sim_time' = elapsed_sim_time
         /\ got_sim_time' = got_sim_time
    BY Zenon DEF AdvanceSimTime, simTiming
<1> HIDE DEF sseconds
<1>3. /\ elapsed_sim_time' \in Nat /\ elapsed_sim_time <= elapsed_sim_time'
      /\ sseconds <= elapsed_sim_time'
    BY <1>1, <1>2
<1>4. got_sim_time' => got_sim_time \/ elapsed_sim_time' > 0
    <2>1. sseconds > elapsed_sim_time /\ elapsed_sim_time' = sseconds => elapsed_sim_time' > 0
        BY <1>1
    <2> QED
        BY <1>2, <2>1, Zenon
<1> QED
    BY <1>3, <1>4 DEF sseconds

\* Reaching stays when more has elapsed.
LEMMA ReachesMore ==
    ASSUME NEW a \in Nat, NEW b \in Nat, a <= b, NEW e \in CF_Pilot, NEW h \in HeardRecord,
           Reaches(a, e, h)
    PROVE  Reaches(b, e, h)
<1>1. h.latest.sim \in Int /\ e.first_sim_time \in Int
    BY DEF HeardRecord, Packet, CF_Pilot
<1>2. h.latest.sim - e.first_sim_time \in Int
    BY <1>1
<1> QED
    BY <1>2 DEF Reaches

\* The three ways a packet becomes, or is dropped in favour of, a record.
LEMMA NewSumsUp ==
    ASSUME TypeOK, NEW p \in Packet, NEW e, e = NewEntry(p),
           NEW h, h = [n |-> 1, flown |-> 0, latest |-> p, seen |-> now]
    PROVE  SumsUp(e, h) /\ Reaches(elapsed_sim_time, e, h)
<1>1. /\ e.at = p.at /\ e.sim_time = p.sim /\ e.first_sim_time = p.sim
      /\ e.packetCount = 1 /\ e.packetsDiscarded = 0 /\ e.total_nm = 0 /\ e.last_seen = now
    BY DEF NewEntry, Entry
<1>2. h \in HeardRecord /\ h.latest = p /\ h.n = 1 /\ h.flown = 0 /\ h.seen = now
    BY DEF HeardRecord, TypeOK
<1>3. p.sim \in Int /\ elapsed_sim_time \in Nat
    BY DEF Packet, TypeOK
<1>4. p.sim - p.sim <= elapsed_sim_time
    BY <1>3
<1> QED
    BY <1>1, <1>2, <1>4, SameReading DEF SumsUp, Reaches

LEMMA RevivedSumsUp ==
    ASSUME TypeOK, NEW p \in Packet, NEW e \in CF_Pilot, NEW g, SumsUp(e, g),
           NEW r, r = RevivedEntry(p, e),
           NEW h, h = [n |-> g.n + 1, flown |-> 0, latest |-> p, seen |-> now],
           NEW b \in Nat
    PROVE  SumsUp(r, h) /\ Reaches(b, r, h)
<1>1. /\ r.at = p.at /\ r.sim_time = p.sim /\ r.first_sim_time = p.sim
      /\ r.packetCount = e.packetCount + 1 /\ r.packetsDiscarded = e.packetsDiscarded
      /\ r.total_nm = 0 /\ r.last_seen = now
    BY DEF RevivedEntry, Entry
<1>2. g.n \in Nat /\ e.packetCount \in Nat /\ e.packetsDiscarded \in Nat
      /\ e.packetCount + e.packetsDiscarded = g.n
    BY DEF SumsUp, HeardRecord, CF_Pilot
<1>3. /\ h \in HeardRecord /\ h.latest = p /\ h.n = g.n + 1 /\ h.flown = 0 /\ h.seen = now
    BY <1>2 DEF HeardRecord, TypeOK
<1>4. p.sim - p.sim <= b
    BY DEF Packet
<1>5. r.packetCount + r.packetsDiscarded = h.n
    BY <1>1, <1>2, <1>3
<1> QED
    BY <1>1, <1>3, <1>4, <1>5, SameReading DEF SumsUp, Reaches

LEMMA MovedSumsUp ==
    ASSUME TypeOK, NEW p \in Packet, NEW e \in CF_Pilot, NEW g, SumsUp(e, g),
           NEW r, r = MovedEntry(p, e),
           NEW h, h = [n |-> g.n + 1, flown |-> g.flown + Moved(p, e, "dist"),
                       latest |-> p, seen |-> now],
           NEW b \in Nat, p.sim - e.first_sim_time <= b
    PROVE  SumsUp(r, h) /\ Reaches(b, r, h)
<1>1. /\ r.at = p.at /\ r.sim_time = p.sim /\ r.first_sim_time = e.first_sim_time
      /\ r.packetCount = e.packetCount + 1 /\ r.packetsDiscarded = e.packetsDiscarded
      /\ r.total_nm = e.total_nm + Moved(p, e, "dist") /\ r.last_seen = now
    BY DEF MovedEntry, Entry
<1>2. /\ g.n \in Nat /\ e.packetCount \in Nat /\ e.packetsDiscarded \in Nat
      /\ e.packetCount + e.packetsDiscarded = g.n /\ g.flown \in Nat /\ g.flown = e.total_nm
    BY DEF SumsUp, HeardRecord, CF_Pilot
<1>3. Moved(p, e, "dist") \in Nat
    BY MovedType, TableAssumption
<1>4. /\ h \in HeardRecord /\ h.latest = p /\ h.n = g.n + 1 /\ h.seen = now
      /\ h.flown = g.flown + Moved(p, e, "dist")
    BY <1>2, <1>3 DEF HeardRecord, TypeOK
<1>5. r.packetCount + r.packetsDiscarded = h.n
    BY <1>1, <1>2, <1>4
<1> QED
    BY <1>1, <1>2, <1>4, <1>5, SameReading DEF SumsUp, Reaches

\* A discarded packet is close to the record, or it would have been written.
LEMMA DiscardedSumsUp ==
    ASSUME TypeOK, NEW p \in Packet, NEW e \in CF_Pilot, NEW g, SumsUp(e, g),
           ~UpdateDue(p, e),
           NEW r, r = [e EXCEPT !.last_seen = now, !.packetsDiscarded = @ + 1],
           NEW h, h = [n |-> g.n + 1, flown |-> g.flown, latest |-> p, seen |-> now],
           NEW b \in Nat, p.sim - e.first_sim_time <= b
    PROVE  SumsUp(r, h) /\ Reaches(b, r, h)
<1> DEFINE s == [e EXCEPT !.last_seen = now]
<1>1. /\ s \in CF_Pilot /\ s.at = e.at /\ s.sim_time = e.sim_time
      /\ s.first_sim_time = e.first_sim_time /\ s.packetCount = e.packetCount
      /\ s.packetsDiscarded = e.packetsDiscarded /\ s.total_nm = e.total_nm
      /\ s.last_seen = now
    BY DEF CF_Pilot, TypeOK
<1>2. r = [s EXCEPT !.packetsDiscarded = s.packetsDiscarded + 1]
    BY DEF CF_Pilot
<1> HIDE DEF s
<1>3. /\ r.at = e.at /\ r.sim_time = e.sim_time /\ r.first_sim_time = e.first_sim_time
      /\ r.packetCount = e.packetCount /\ r.packetsDiscarded = e.packetsDiscarded + 1
      /\ r.total_nm = e.total_nm /\ r.last_seen = now
    BY <1>1, <1>2 DEF CF_Pilot
<1>4. /\ g.n \in Nat /\ e.packetCount \in Nat /\ e.packetsDiscarded \in Nat
      /\ e.packetCount + e.packetsDiscarded = g.n /\ g.flown \in Nat /\ g.flown = e.total_nm
    BY DEF SumsUp, HeardRecord, CF_Pilot
<1>5. /\ h \in HeardRecord /\ h.latest = p /\ h.n = g.n + 1 /\ h.seen = now
      /\ h.flown = g.flown
    <2>1. now \in Nat
        BY DEF TypeOK
    <2>2. g.n + 1 \in Nat /\ g.flown \in Nat
        BY <1>4
    <2> QED
        BY <2>1, <2>2 DEF HeardRecord
<1>6. r.packetCount + r.packetsDiscarded = h.n
    BY <1>3, <1>4, <1>5
<1>7. \A x \in Axes : Moved(p, r, x) <= MinChange[x]
    <2> TAKE x \in Axes
    <2>1. Moved(p, e, x) \in Nat /\ MinChange[x] \in Nat /\ ~(Moved(p, e, x) > MinChange[x])
        BY MovedType, TableAssumption DEF UpdateDue
    <2>2. Moved(p, r, x) = Moved(p, e, x)
        BY <1>3 DEF Moved
    <2> QED
        BY <2>1, <2>2
<1>8. p.sim - r.sim_time < TTL
    <2>1. p.sim - e.sim_time \in Int /\ TTL \in Nat /\ ~(p.sim - e.sim_time >= TTL)
        BY TableAssumption DEF Packet, CF_Pilot, UpdateDue
    <2> QED
        BY <1>3, <2>1
<1> QED
    BY <1>3, <1>4, <1>5, <1>6, <1>7, <1>8 DEF SumsUp, Reaches

-----------------------------------------------------------------------------
(* The steps *)

\* The entries of the other flights, and what was heard from them, stay.
LEMMA OthersStay ==
    ASSUME IInv, HistoryInv, NEW p \in Packet, heard' = Hear(p),
           NEW b \in Nat, elapsed_sim_time <= b,
           NEW k \in DOMAIN vPilots, ~SAME_FLIGHT(vPilots[k], p),
           NEW f, f = <<vPilots[k].callsign, vPilots[k].aircraft>>
    PROVE  SumsUp(vPilots[k], heard'[f]) /\ Reaches(b, vPilots[k], heard'[f])
<1> DEFINE e == vPilots[k]
<1>1. e \in CF_Pilot /\ elapsed_sim_time \in Nat
    BY DEF IInv, TypeOK
<1>2. f \in DOMAIN heard /\ f # <<p.callsign, p.aircraft>>
    BY <1>1 DEF HistoryInv, CF_Pilot, SAME_FLIGHT
<1>3. heard'[f] = heard[f]
  <2>1. DOMAIN heard = Callsigns \X Aircraft
      BY DEF HistoryInv
  <2>2. \A h \in DOMAIN heard : h # <<p.callsign, p.aircraft>> => heard'[h] = heard[h]
      BY <2>1, HearOne
  <2> QED
      BY <1>2, <2>2
<1>4. SumsUp(e, heard[f]) /\ Reaches(elapsed_sim_time, e, heard[f])
    BY DEF HistoryInv, HeardOf
<1>5. heard[f] \in HeardRecord
    BY <1>4 DEF SumsUp
<1>6. Reaches(b, e, heard[f])
    BY <1>1, <1>4, <1>5, ReachesMore
<1> QED
    BY <1>3, <1>4, <1>6

\* The record of the flight that is heard is replaced by one that sums it up.
LEMMA ReplacedHistory ==
    ASSUME IInv, HistoryInv, NEW p \in Packet, heard' = Hear(p),
           NEW i, FirstMatch(p, i), NEW r, vPilots' = [vPilots EXCEPT ![i] = r],
           SAME_FLIGHT(r, p), NEW f, f = <<p.callsign, p.aircraft>>,
           SumsUp(r, heard'[f]), Reaches(elapsed_sim_time', r, heard'[f]),
           elapsed_sim_time' \in Nat, elapsed_sim_time <= elapsed_sim_time',
           got_sim_time' => got_sim_time \/ elapsed_sim_time' > 0
    PROVE  HistoryInv'
<1>1. DOMAIN heard' = Callsigns \X Aircraft
    BY HearOne DEF HistoryInv
<1>2. got_sim_time' => elapsed_sim_time' > 0
    <2>1. elapsed_sim_time > 0 => elapsed_sim_time' > 0
        BY DEF IInv, TypeOK
    <2> QED
        BY <2>1, Zenon DEF HistoryInv
<1>3. ASSUME NEW k \in DOMAIN vPilots'
      PROVE  /\ SumsUp(vPilots'[k], HeardOf(vPilots[k])')
             /\ Reaches(elapsed_sim_time', vPilots'[k], HeardOf(vPilots[k])')
  <2>1. k \in DOMAIN vPilots /\ i \in DOMAIN vPilots /\ SAME_FLIGHT(vPilots[i], p)
      BY DEF FirstMatch
  <2>2. CASE k = i
      BY <2>1, <2>2 DEF HeardOf, SAME_FLIGHT
  <2>3. CASE k # i
    <3>1. vPilots'[k] = vPilots[k]
        BY <2>1, <2>3
    <3>2. ~SAME_FLIGHT(vPilots[k], p)
        BY <2>1, <2>3 DEF IInv, OneEntryPerFlight, SAME_FLIGHT
    <3> QED
        BY <2>1, <3>1, <3>2, OthersStay DEF HeardOf
  <2> QED
      BY <2>2, <2>3
<1> QED
    BY <1>1, <1>2, <1>3 DEF HistoryInv

LEMMA FirstPositionHistory ==
    ASSUME IInv, HistoryInv, NEW p \in Packet, NEW pt, FirstPosition(p, pt), heard' = Hear(p)
    PROVE  HistoryInv'
<1> DEFINE r == NewEntry(p)
           f == <<p.callsign, p.aircraft>>
<1>1. /\ vPilots' = Append(vPilots, r) /\ ~Known(p)
      /\ elapsed_sim_time' = elapsed_sim_time /\ got_sim_time' = got_sim_time
    BY Zenon DEF FirstPosition, simTiming
<1>2. vPilots \in Seq(CF_Pilot) /\ elapsed_sim_time \in Nat /\ TypeOK
    BY DEF IInv, TypeOK
<1>3. DOMAIN heard' = Callsigns \X Aircraft
    BY HearOne DEF HistoryInv
<1>4. heard'[f] = [n |-> 1, flown |-> 0, latest |-> p, seen |-> now]
    BY <1>1, HearOne DEF HistoryInv
<1>5. SumsUp(r, heard'[f]) /\ Reaches(elapsed_sim_time, r, heard'[f])
    BY <1>2, <1>4, NewSumsUp
<1>6. r.callsign = p.callsign /\ r.aircraft = p.aircraft
    BY DEF NewEntry, Entry
<1> HIDE DEF r
<1>7. ASSUME NEW k \in DOMAIN vPilots'
      PROVE  /\ SumsUp(vPilots'[k], HeardOf(vPilots[k])')
             /\ Reaches(elapsed_sim_time', vPilots'[k], HeardOf(vPilots[k])')
  <2>1. CASE k \in DOMAIN vPilots
    <3>1. vPilots'[k] = vPilots[k]
        BY <1>1, <1>2, <2>1
    <3>2. ~SAME_FLIGHT(vPilots[k], p)
        BY <1>1, <2>1 DEF Known
    <3> QED
        BY <1>1, <1>2, <2>1, <3>1, <3>2, OthersStay DEF HeardOf
  <2>2. CASE k \notin DOMAIN vPilots
    <3>1. vPilots'[k] = r
        BY <1>1, <1>2, <2>2
    <3> QED
        BY <1>1, <1>5, <1>6, <3>1 DEF HeardOf
  <2> QED
      BY <2>1, <2>2
<1>8. got_sim_time' => elapsed_sim_time' > 0
    BY <1>1, Zenon DEF HistoryInv
<1> QED
    BY <1>3, <1>7, <1>8 DEF HistoryInv

LEMMA UpdatePositionHistory ==
    ASSUME IInv, HistoryInv, NEW p \in Packet, NEW pt, UpdatePosition(p, pt), heard' = Hear(p)
    PROVE  HistoryInv'
<1>1. PICK i \in DOMAIN vPilots :
        /\ FirstMatch(p, i)
        /\ \/ /\ vPilots[i].expired
              /\ vPilots' = [vPilots EXCEPT ![i] = RevivedEntry(p, vPilots[i])]
           \/ /\ ~vPilots[i].expired /\ UpdateDue(p, vPilots[i])
              /\ vPilots' = [vPilots EXCEPT ![i] = MovedEntry(p, vPilots[i])]
        /\ AdvanceSimTime(p, vPilots[i])
    BY Zenon DEF UpdatePosition
<1> DEFINE e == vPilots[i]
           f == <<p.callsign, p.aircraft>>
           g == heard[f]
<1>2. e \in CF_Pilot /\ TypeOK
    BY DEF IInv, TypeOK
<1>3. Known(p) /\ EntryOf(p) = e
    BY <1>1, EntryIsFirstMatch DEF IInv
<1>4. SumsUp(e, g)
    BY <1>1 DEF HistoryInv, HeardOf, FirstMatch, SAME_FLIGHT
<1>5. heard'[f] = [n |-> g.n + 1, flown |-> Flown(p), latest |-> p, seen |-> now]
    BY <1>3, HearOne DEF HistoryInv
<1>6. /\ elapsed_sim_time' \in Nat
      /\ elapsed_sim_time <= elapsed_sim_time'
      /\ p.sim - e.first_sim_time <= elapsed_sim_time'
      /\ got_sim_time' => got_sim_time \/ elapsed_sim_time' > 0
    BY <1>1, <1>2, AdvanceReaches
<1>7. CASE e.expired /\ vPilots' = [vPilots EXCEPT ![i] = RevivedEntry(p, e)]
  <2>1. Flown(p) = 0
      BY <1>3, <1>7 DEF Flown
  <2> HIDE DEF e
  <2>2. SumsUp(RevivedEntry(p, e), heard'[f])
        /\ Reaches(elapsed_sim_time', RevivedEntry(p, e), heard'[f])
      BY <1>2, <1>4, <1>5, <1>6, <2>1, RevivedSumsUp
  <2>3. SAME_FLIGHT(RevivedEntry(p, e), p)
      BY DEF RevivedEntry, Entry, SAME_FLIGHT
  <2> QED
      BY <1>1, <1>6, <1>7, <2>2, <2>3, ReplacedHistory
<1>8. CASE ~e.expired /\ UpdateDue(p, e) /\ vPilots' = [vPilots EXCEPT ![i] = MovedEntry(p, e)]
  <2>1. Flown(p) = g.flown + Moved(p, e, "dist")
      BY <1>3, <1>8 DEF Flown
  <2> HIDE DEF e
  <2>2. SumsUp(MovedEntry(p, e), heard'[f])
        /\ Reaches(elapsed_sim_time', MovedEntry(p, e), heard'[f])
      BY <1>2, <1>4, <1>5, <1>6, <2>1, MovedSumsUp
  <2>3. SAME_FLIGHT(MovedEntry(p, e), p)
      BY DEF MovedEntry, Entry, SAME_FLIGHT
  <2> QED
      BY <1>1, <1>6, <1>8, <2>2, <2>3, ReplacedHistory
<1> QED
    BY <1>1, <1>7, <1>8

LEMMA DiscardPositionHistory ==
    ASSUME IInv, HistoryInv, NEW p \in Packet, NEW pt, DiscardPosition(p, pt), heard' = Hear(p)
    PROVE  HistoryInv'
<1>1. PICK i \in DOMAIN vPilots :
        /\ FirstMatch(p, i)
        /\ ~vPilots[i].expired /\ ~UpdateDue(p, vPilots[i])
        /\ vPilots' = [vPilots EXCEPT ![i].last_seen = now,
                                      ![i].packetsDiscarded = @ + 1]
        /\ AdvanceSimTime(p, vPilots[i])
    BY DEF DiscardPosition
<1> DEFINE e == vPilots[i]
           f == <<p.callsign, p.aircraft>>
           g == heard[f]
           r == [e EXCEPT !.last_seen = now, !.packetsDiscarded = @ + 1]
<1>2. e \in CF_Pilot /\ TypeOK /\ now \in Nat
    BY DEF IInv, TypeOK
<1>3. Known(p) /\ EntryOf(p) = e
    BY <1>1, EntryIsFirstMatch DEF IInv
<1>4. SumsUp(e, g) /\ SAME_FLIGHT(e, p)
    BY <1>1 DEF HistoryInv, HeardOf, FirstMatch, SAME_FLIGHT
<1>5. heard'[f] = [n |-> g.n + 1, flown |-> g.flown, latest |-> p, seen |-> now]
    BY <1>1, <1>3, HearOne DEF HistoryInv, Flown
<1>6. /\ elapsed_sim_time' \in Nat
      /\ elapsed_sim_time <= elapsed_sim_time'
      /\ p.sim - e.first_sim_time <= elapsed_sim_time'
      /\ got_sim_time' => got_sim_time \/ elapsed_sim_time' > 0
    BY <1>1, <1>2, AdvanceReaches
<1>7. vPilots' = [vPilots EXCEPT ![i] = r]
    BY <1>1 DEF IInv, TypeOK
<1>8. ~UpdateDue(p, e)
    BY <1>1
<1> HIDE DEF e
<1>9. SAME_FLIGHT(e, r)
    BY <1>2, DiscardedEntryType
<1>10. SumsUp(r, heard'[f]) /\ Reaches(elapsed_sim_time', r, heard'[f])
    BY <1>2, <1>4, <1>5, <1>6, <1>8, DiscardedSumsUp
<1> HIDE DEF r
<1>11. SAME_FLIGHT(r, p)
    BY <1>4, <1>9 DEF SAME_FLIGHT
<1> QED
    BY <1>1, <1>6, <1>7, <1>10, <1>11, ReplacedHistory

LEMMA ReceiveHistory ==
    ASSUME IInv, HistoryInv, NEW p \in Packets, ReceivePacket(p),
           heard' = IF Accepted(p) THEN Hear(p) ELSE heard
    PROVE  HistoryInv'
<1>1. p \in Packet
    BY TableAssumption
<1>2. PICK pt \in Packet_Type : Deal_With_Packet(p, pt)
    BY DEF ReceivePacket
<1>3. CASE Refuse(p, pt) \/ Chat(p, pt)
  <2>1. ~Accepted(p) /\ UNCHANGED <<vPilots, simTiming>>
      BY <1>3 DEF Refuse, Refused, Chat, HeaderOK, BodyOK, Accepted
  <2> QED
      BY <2>1 DEF HistoryInv, HeardOf, simTiming
<1>4. CASE FirstPosition(p, pt)
    BY <1>1, <1>4, FirstPositionHistory, Zenon DEF FirstPosition
<1>5. CASE UpdatePosition(p, pt)
    BY <1>1, <1>5, UpdatePositionHistory, Zenon DEF UpdatePosition
<1>6. CASE DiscardPosition(p, pt)
    BY <1>1, <1>6, DiscardPositionHistory, Zenon DEF DiscardPosition
<1> QED
    BY <1>2, <1>3, <1>4, <1>5, <1>6 DEF Deal_With_Packet

\* The sweep leaves what a record sums up alone.
LEMMA SweptSumsUp ==
    ASSUME IInv, HistoryInv, NEW k \in DOMAIN Swept
    PROVE  /\ SumsUp(Swept[k], HeardOf(Swept[k]))
           /\ Reaches(elapsed_sim_time, Swept[k], HeardOf(Swept[k]))
<1> DEFINE e == vPilots[k]
           late == e.expired \/ Silent(e)
<1>1. k \in DOMAIN vPilots /\ Swept[k] = [e EXCEPT !.expired = late]
    BY DEF Swept
<1>2. e \in CF_Pilot /\ late \in BOOLEAN
  <2>1. e \in CF_Pilot
      BY <1>1 DEF IInv, TypeOK
  <2> QED
      BY <2>1 DEF CF_Pilot, Silent
<1>3. SumsUp(e, HeardOf(e)) /\ Reaches(elapsed_sim_time, e, HeardOf(e))
    BY <1>1 DEF HistoryInv
<1> DEFINE s == [e EXCEPT !.expired = late]
<1> HIDE DEF e, late
<1>4. /\ s.callsign = e.callsign /\ s.aircraft = e.aircraft /\ s.at = e.at
      /\ s.sim_time = e.sim_time /\ s.first_sim_time = e.first_sim_time
      /\ s.packetCount = e.packetCount /\ s.packetsDiscarded = e.packetsDiscarded
      /\ s.total_nm = e.total_nm /\ s.last_seen = e.last_seen
    BY <1>2 DEF CF_Pilot
<1> HIDE DEF s
<1>5. HeardOf(s) = HeardOf(e)
    BY <1>4 DEF HeardOf
<1>6. \A x \in Axes : Moved(HeardOf(e).latest, s, x) = Moved(HeardOf(e).latest, e, x)
    BY <1>4 DEF Moved
<1>7. SumsUp(s, HeardOf(s)) /\ Reaches(elapsed_sim_time, s, HeardOf(s))
    BY <1>3, <1>4, <1>5, <1>6 DEF SumsUp, Reaches
<1> QED
    BY <1>1, <1>7 DEF s

LEMMA ExpireHistory ==
    ASSUME IInv, HistoryInv, Expire_Pilots, heard' = heard
    PROVE  HistoryInv'
<1>1. elapsed_sim_time' = elapsed_sim_time /\ got_sim_time' = got_sim_time
    BY DEF Expire_Pilots, simTiming
<1>2. \A k \in DOMAIN vPilots' : \E j \in DOMAIN Swept : vPilots'[k] = Swept[j]
  <2>1. CASE vPilots' = Swept
      BY <2>1
  <2>2. CASE Erase(Swept)
      BY <2>2 DEF Erase, Kept
  <2> QED
      BY <2>1, <2>2 DEF Expire_Pilots
<1>3. ASSUME NEW k \in DOMAIN vPilots'
      PROVE  /\ SumsUp(vPilots'[k], HeardOf(vPilots[k])')
             /\ Reaches(elapsed_sim_time', vPilots'[k], HeardOf(vPilots[k])')
  <2>1. PICK j \in DOMAIN Swept : vPilots'[k] = Swept[j]
      BY <1>2
  <2> QED
      BY <1>1, <2>1, SweptSumsUp DEF HeardOf
<1> QED
    BY <1>1, <1>3 DEF HistoryInv

LEMMA HStepInv == HInv /\ [HNext]_hvars => HInv'
<1> SUFFICES ASSUME IInv, HistoryInv, [HNext]_hvars PROVE IInv' /\ HistoryInv'
    BY DEF HInv
<1>1. [Next]_vars
    BY DEF HNext, hvars, Next
<1>2. IInv'
    BY <1>1, StepInv
<1>3. ASSUME NEW p \in Packets, ReceivePacket(p),
             heard' = IF Accepted(p) THEN Hear(p) ELSE heard
      PROVE  HistoryInv'
    BY <1>3, ReceiveHistory
<1>4. CASE Expire_Pilots /\ heard' = heard
    BY <1>2, <1>4, ExpireHistory
<1>5. CASE EndOfLog /\ heard' = heard
    BY <1>2, <1>5 DEF EndOfLog, clean_up_pilots, HistoryInv
<1>6. CASE UNCHANGED <<vPilots, simTiming, heard>>
    BY <1>2, <1>6 DEF HistoryInv, HeardOf, simTiming
<1> QED
    BY <1>2, <1>3, <1>4, <1>5, <1>6 DEF HNext, hvars, vars, Tick

LEMMA HInitInv == HInit => HInv
<1> SUFFICES ASSUME Init, heard = [f \in Callsigns \X Aircraft |-> [n |-> 0, flown |-> 0]]
             PROVE  IInv /\ HistoryInv
    BY DEF HInit, HInv
<1>1. DOMAIN vPilots = {} /\ ~got_sim_time
    BY DEF Init
<1> QED
    BY <1>1, InitInv DEF HistoryInv

\* The inductive invariant of the table together with its history: the sums of a
\* record are those of the packets heard, and elapsed_sim_time has reached them.
THEOREM HistoryInvariance == HSpec => []HInv
BY HInitInv, HStepInv, PTL DEF HSpec

-----------------------------------------------------------------------------
(* The theorems *)

\* The feed never shows a flight further off its last packet than a threshold
\* on some axis, or TTL sim seconds behind it, though Deal_With_Packet drops
\* most packets: what it drops it compares with the record, not with the packet
\* dropped before.
THEOREM RecordsTrackLatest == HSpec => []RecordTracksLatest
<1>1. HInv => RecordTracksLatest
    BY DEF HInv, HistoryInv, SumsUp, RecordTracksLatest
<1> QED
    BY <1>1, HistoryInvariance, PTL

\* Every accepted packet of a flight is in the counts of its record, which
\* Deal_With_Packet carries from one record to the next.
THEOREM EntriesCountPackets == HSpec => []EntryCountsPackets
<1>1. HInv => EntryCountsPackets
    BY DEF HInv, HistoryInv, SumsUp, EntryCountsPackets
<1> QED
    BY <1>1, HistoryInvariance, PTL

\* elapsed_sim_time has reached the sim time of every listed flight's last
\* packet, and is not zero once it paces the replay.
THEOREM ElapsedTimeReachesLatest == HSpec => []ElapsedReachesLatest
<1>1. HInv => ElapsedReachesLatest
    BY DEF HInv, HistoryInv, Reaches, ElapsedReachesLatest
<1> QED
    BY <1>1, HistoryInvariance, PTL

\* The history only watches: PilotHistory takes the steps of PilotTable.
THEOREM HistoryWatches == HSpec => Spec
<1>1. HInit => Init
    BY DEF HInit
<1>2. [HNext]_hvars => [Next]_vars
    BY DEF HNext, hvars, Next
<1> QED
    BY <1>1, <1>2, PTL DEF HSpec, Spec
=============================================================================
