------------------------------ MODULE RawPackets ------------------------------
(***************************************************************************)
(* The utility raw-log (src/raw-log.cxx): process_log plays a raw log once *)
(* through a reader of its own, with a simpler flight table than cf-log's, *)
(* which never expires or discards, and decodes the properties behind each *)
(* position.                                                               *)
(*                                                                         *)
(* The reader is RawLog with the longer magic of isMagicHdr, whose search  *)
(* begins inside it, and without the test of the head.  A packet is the    *)
(* tests it fails, its id, who sent it, its sim time and place, and the    *)
(* bytes of its properties.                                                *)
(***************************************************************************)
EXTENDS Props, FiniteSets
LOCAL INSTANCE SequencesExt
LOCAL INSTANCE Functions
LOCAL INSTANCE FiniteSetsExt

CONSTANTS
    Logs, MaxRawLog, MagicLen, ScanFrom, SizeMod, NoBuffer, \* of RawLog
    PositionLen, \* bytes of the header and the position
    Packet,      \* the packets, by name
    Garbage      \* what a block that does not start with a packet is read as

VARIABLES
    log, base, pos, raw_data_size, raw_block_size, raw_log_remaining, dealt,
    packets,       \* the name of the packet at each of log.heads
    pc,            \* process_log and main
    blk_cnt, reported,
    packet_cnt, sPktStr,
    failed_cnt, pos_cnt, chat_cnt, same_count,
    vPilots, elapsed_sim_time, got_sim_time,
    vIdsUsed, mIdCounts, vWarnings

R == INSTANCE RawLog WITH ChecksHead <- FALSE

reader == <<log, base, pos, raw_data_size, raw_block_size, raw_log_remaining, dealt>>
counters == <<packet_cnt, sPktStr, failed_cnt, pos_cnt, chat_cnt, same_count>>
table == <<vPilots, elapsed_sim_time, got_sim_time>>
properties == <<vIdsUsed, mIdCounts, vWarnings>>
vars == <<reader, packets, counters, table, properties, pc, blk_cnt, reported>>

\* The enumeration: the types in front of "First" are the bad ones.
PacketTypes ==
    <<"Invalid", "InvLen1", "InvLen2", "InvMag", "InvProto", "InvPos", "InvHgt", "InvStg1",
      "InvStg2", "First", "Pos", "Chat", "Other", "Discards">>
pkt_First == 10 \* counted from 1
pkt_Max == 15
Packet_Type == {PacketTypes[i] : i \in 1 .. pkt_Max - 1}

\* A packet starts at each of the heads.  Where one of another protocol does
\* the reader sees no mark.  A block that starts with no packet fails the
\* first test.
ASSUME PacketAssumption ==
    /\ R!LogAssumption
    /\ \A g \in Logs : g.marks \subseteq g.heads
    /\ \A n \in DOMAIN Packet : Packet[n].sim_time \in Int /\ Packet[n].px \in Int
    /\ "magic" \in Garbage.flaws

\* The type invariant, the reader's included.
TypeOK ==
    /\ R!TypeOK
    /\ pc \in {"open", "play", "ids", "report", "done"}
    /\ blk_cnt \in Nat /\ reported \in Nat
    /\ packet_cnt \in Nat /\ failed_cnt \in Nat /\ pos_cnt \in Nat
    /\ chat_cnt \in Nat /\ same_count \in Nat
    /\ sPktStr \in [Packet_Type -> Nat]
    /\ got_sim_time \in BOOLEAN

Init ==
    /\ R!Init
    /\ packets \in [log.heads -> DOMAIN Packet]
    /\ \A h \in log.heads : h \in log.marks <=> "proto" \notin Packet[packets[h]].flaws
    /\ pc = "open" /\ blk_cnt = 0 /\ reported = 0
    /\ packet_cnt = 0 /\ sPktStr = [pt \in Packet_Type |-> 0]
    /\ failed_cnt = 0 /\ pos_cnt = 0 /\ chat_cnt = 0 /\ same_count = 0
    /\ vPilots = <<>> /\ elapsed_sim_time = 0 /\ got_sim_time = FALSE
    /\ vIdsUsed = <<>> /\ mIdCounts = EmptyBag /\ vWarnings = <<>>

-----------------------------------------------------------------------------
(* Deal_With_Packet *)

\* The file name without its path and without the last of its extensions.
get_Model(model) == IF Len(model.name) > 1 THEN Front(model.name) ELSE model.name

SAME_FLIGHT(e, p) == e.callsign = p.callsign /\ e.aircraft = get_Model(p.model)

Abs(n) == IF n < 0 THEN -n ELSE n

Refuse(pt) ==
    /\ failed_cnt' = failed_cnt + 1
    /\ UNCHANGED <<pos_cnt, chat_cnt, same_count, table, properties>>

\* The order of the tests; the length is the one the packet claims.
Refused(p, pt) ==
    \/ "magic" \in p.flaws /\ pt = "InvMag"
    \/ "magic" \notin p.flaws /\ "proto" \in p.flaws /\ pt = "InvProto"
    \/ /\ p.flaws \cap {"magic", "proto"} = {}
       /\ \/ p.id = "pos" /\ p.flaws \cap {"length", "origin"} # {} /\ pt = "InvPos"
          \/ p.id = "pos" /\ p.flaws = {"height"} /\ pt = "InvHgt"
          \/ p.id = "other" /\ pt = "Invalid"

Chat(p, pt) ==
    /\ p.flaws \cap {"magic", "proto"} = {} /\ p.id = "chat" /\ pt = "Chat"
    /\ chat_cnt' = chat_cnt + 1
    /\ UNCHANGED <<failed_cnt, pos_cnt, same_count, table, properties>>

\* "rough sim time": the longest any flight has lasted.
Elapsed(e, p) ==
    IF p.sim_time - e.first_sim_time > elapsed_sim_time
    THEN p.sim_time - e.first_sim_time ELSE elapsed_sim_time

\* Variant: the distance of the last leg only.
EntryLastLeg(e, p) ==
    [e EXCEPT !.sim_time = p.sim_time, !.packetCount = @ + 1, !.px = p.px,
              !.prev_sim_time = e.sim_time, !.total = Abs(p.px - e.px)]
\* The record is replaced by the packet's, some fields carried over.
Entry(e, p) ==
    [callsign |-> p.callsign, aircraft |-> get_Model(p.model),
     sim_time |-> p.sim_time, prev_sim_time |-> e.sim_time,
     first_sim_time |-> e.first_sim_time, px |-> p.px,
     packetCount |-> e.packetCount + 1, total |-> e.total + Abs(p.px - e.px)]

NewEntry(p) ==
    [callsign |-> p.callsign, aircraft |-> get_Model(p.model),
     sim_time |-> p.sim_time, prev_sim_time |-> p.sim_time,
     first_sim_time |-> p.sim_time, px |-> p.px, packetCount |-> 1, total |-> 0]

UpdateFlight(p) ==
    \E k \in DOMAIN vPilots :
        /\ SAME_FLIGHT(vPilots[k], p)
        /\ \A j \in 1 .. k - 1 : ~SAME_FLIGHT(vPilots[j], p)
        /\ vPilots' = [vPilots EXCEPT ![k] = Entry(@, p)]
        /\ elapsed_sim_time' = Elapsed(vPilots[k], p)
        /\ got_sim_time' = (got_sim_time \/ Elapsed(vPilots[k], p) > elapsed_sim_time)
        /\ same_count' = same_count + 1

AddFlight(p) ==
    /\ \A k \in DOMAIN vPilots : ~SAME_FLIGHT(vPilots[k], p)
    /\ vPilots' = Append(vPilots, NewEntry(p))
    /\ UNCHANGED <<elapsed_sim_time, got_sim_time, same_count>>

\* The properties of the block, one after the other.
PropertiesIn(m) ==
    LET f[at \in Nat] ==
        IF at >= Len(m) THEN <<>>
        ELSE LET got == PropertyAt(m, at)
             IN <<[id |-> IdAt(m, at), listed |-> got.of # "NONE"]>> \o f[got.next]
    IN f[0]

\* What is read from each block there is: the listed properties, counted and
\* in the order they come up, and those that call for a warning.
IdsOf(seen) == FoldLeft(LAMBDA list, e : AddNew(list, e.id), <<>>, seen)
CountsOf(seen) == FoldLeft(LAMBDA counts, e : add_id_count(counts, e.id), EmptyBag, seen)
Sifted(seen) ==
    [ids |-> IdsOf(SelectSeq(seen, LAMBDA e : e.listed)),
     counts |-> CountsOf(SelectSeq(seen, LAMBDA e : e.listed)),
     warnings |-> IdsOf(SelectSeq(seen, LAMBDA e : ~e.listed))]
Decoded ==
    [m \in {<<>>} \cup {Packet[n].props : n \in DOMAIN Packet} |-> Sifted(PropertiesIn(m))]

\* The new ones of a list without duplicates.
NewIn(list, more) == SelectSeq(more, LAMBDA e : ~Contains(list, e))

Keep(new) ==
    /\ vIdsUsed' = vIdsUsed \o NewIn(vIdsUsed, new.ids)
    /\ mIdCounts' = mIdCounts (+) new.counts
    /\ vWarnings' = vWarnings \o NewIn(vWarnings, new.warnings)
Deal_With_Properties(m) == Keep(Decoded[m])

\* Variant: whatever lies behind the block is taken for properties too.
PropsAlways(p, len) == p.props
\* The bytes from the end of the position to the end of the block, which is
\* taken to hold the properties of the packet and none behind them.
PropsOf(p, len) == IF len > PositionLen THEN p.props ELSE <<>>

Accept(p, len, pt) ==
    /\ p.flaws = {} /\ p.id = "pos" /\ pt = "Pos"
    /\ pos_cnt' = pos_cnt + 1
    /\ UpdateFlight(p) \/ AddFlight(p)
    /\ Deal_With_Properties(PropsOf(p, len))
    /\ UNCHANGED <<failed_cnt, chat_cnt>>

Deal_With_Packet(p, len, pt) ==
    \/ Refused(p, pt) /\ Refuse(pt)
    \/ Chat(p, pt)
    \/ Accept(p, len, pt)

-----------------------------------------------------------------------------
(* process_log and main *)

\* The same as Packet, worked out once.
Packets == [n \in DOMAIN Packet |-> Packet[n]]
Otherwise == [n \in {"garbage"} |-> Garbage]

PacketAt(b) == IF b \in log.heads THEN Packets[packets[b]] ELSE Otherwise["garbage"]

\* Variant: a log that cannot be opened is tried again.
TriesAgain(ret) == IF ret = 0 THEN "play" ELSE "open"
AfterOpen(ret) == IF ret = 0 THEN "play" ELSE "report"

open_raw_log(ret) ==
    /\ pc = "open"
    /\ R!open_raw_log(ret)
    /\ pc' = AfterOpen(ret)
    /\ UNCHANGED <<packets, counters, table, properties, blk_cnt, reported>>

\* Variant: the reader leaves the count to the handler.
TallyNone(pt) == UNCHANGED <<packet_cnt, sPktStr>>
Tally(pt) ==
    /\ packet_cnt' = packet_cnt + 1
    /\ sPktStr' = [sPktStr EXCEPT ![pt] = @ + 1]

get_next_block(ret) ==
    /\ R!get_next_block(ret)
    /\ IF R!Ready
       THEN \E pt \in Packet_Type :
                Deal_With_Packet(PacketAt(base), raw_block_size, pt) /\ Tally(pt)
       ELSE UNCHANGED <<counters, table, properties>>

\* "Processed %d mp packets"
Processed == IF blk_cnt = 0 THEN blk_cnt ELSE blk_cnt + 1

Play ==
    /\ pc = "play"
    /\ \/ get_next_block(1) /\ blk_cnt' = blk_cnt + 1 /\ UNCHANGED <<pc, reported>>
       \/ get_next_block(0) /\ pc' = "ids" /\ UNCHANGED <<blk_cnt, reported>>
    /\ UNCHANGED packets

\* The list of ids and their counts; at some verbosities the list is sorted.
show_ids ==
    /\ pc = "ids"
    /\ pc' = "report" /\ reported' = Processed
    /\ vIdsUsed' \in {vIdsUsed, SortSeq(vIdsUsed, LAMBDA a, b : a < b)}
    /\ UNCHANGED <<reader, packets, counters, table, mIdCounts, vWarnings, blk_cnt>>

\* The first n numbers of f, added up in turn.
SumTo(f, n) ==
    LET sum[i \in 0 .. n] == IF i = 0 THEN 0 ELSE sum[i - 1] + f[i] IN sum[n]

\* The line that sums up the types: every type, the bad ones, the discards.
show_packet_stats ==
    LET count == [i \in 1 .. pkt_Max - 1 |-> sPktStr[PacketTypes[i]]]
    IN [PacketCount |-> SumTo(count, pkt_Max - 1), Bad_Packets |-> SumTo(count, pkt_First - 1),
        DiscardCount |-> sPktStr["Discards"]]

\* main shows the statistics and clears the lists; the reader stays as it is.
clean_up ==
    /\ pc = "report"
    /\ pc' = "done"
    /\ vWarnings' = <<>> /\ vIdsUsed' = <<>> /\ vPilots' = <<>>
    /\ mIdCounts' = EmptyBag
    /\ UNCHANGED <<reader, packets, counters, elapsed_sim_time, got_sim_time, blk_cnt, reported>>

Next ==
    \/ \E ret \in {0, 1} : open_raw_log(ret)
    \/ Play
    \/ show_ids
    \/ clean_up

\* What a step does to the reader: the handlers have an outcome for every packet.
Advance ==
    \/ pc = "open" /\ \E ret \in {0, 1} : R!open_raw_log(ret) /\ pc' = AfterOpen(ret)
    \/ pc = "play" /\ R!get_next_block(1) /\ pc' = pc
    \/ pc = "play" /\ R!get_next_block(0) /\ pc' = "ids"
    \/ pc = "ids" /\ pc' = "report" /\ UNCHANGED reader
    \/ pc = "report" /\ pc' = "done" /\ UNCHANGED reader

\* One thread and one file: nothing holds it up.
Fairness == WF_<<reader, pc>>(Advance)

Spec == Init /\ [][Next]_vars /\ Fairness

-----------------------------------------------------------------------------
(* Properties *)

Accepted == {k \in DOMAIN dealt : PacketAt(dealt[k]).flaws = {} /\ PacketAt(dealt[k]).id = "pos"}

\* The statistics of the handler and those of the reader tell the same story:
\* every block dealt with is counted once, under a type that fits, and the
\* number of packets reported, if it is not 0, is the number dealt with.  The
\* state stays well formed, the reader's included (TypeOK).
TalliesAgree ==
    /\ TypeOK
    /\ packet_cnt = Len(dealt)
    /\ show_packet_stats =
          [PacketCount |-> packet_cnt, Bad_Packets |-> failed_cnt, DiscardCount |-> 0]
    /\ pos_cnt = sPktStr["Pos"] /\ chat_cnt = sPktStr["Chat"]
    /\ pc = "report" /\ reported # 0 => reported = packet_cnt

\* Every accepted position belongs to exactly one flight of the table, also
\* when the same aircraft is named by other paths; the record shows the last
\* of them, and none lasted longer than the elapsed sim time.
FlightsAddUp ==
    pc # "done" =>
        /\ pos_cnt = same_count + Len(vPilots)
        /\ pos_cnt = SumTo([k \in DOMAIN vPilots |-> vPilots[k].packetCount], Len(vPilots))
        /\ \A j, k \in DOMAIN vPilots :
              vPilots[j].callsign = vPilots[k].callsign
                  /\ vPilots[j].aircraft = vPilots[k].aircraft => j = k
        /\ \A k \in DOMAIN vPilots :
              /\ vPilots[k].sim_time - vPilots[k].first_sim_time <= elapsed_sim_time
              /\ vPilots[k].total >= Abs(vPilots[k].px -
                     PacketAt(dealt[CHOOSE n \in Accepted :
                         /\ SAME_FLIGHT(vPilots[k], PacketAt(dealt[n]))
                         /\ \A m \in Accepted :
                               SAME_FLIGHT(vPilots[k], PacketAt(dealt[m])) => n <= m]).px)

\* The properties of a packet that an unlisted one takes for its value, since
\* it was packed in one word itself (they take one word each).
Unlisted(u) == findProperty(u.id) = NoProperty
Swallowed(us) ==
    LET f[k \in 1 .. Len(us)] ==
            k > 1 /\ Unlisted(us[k - 1]) /\ Len(us[k - 1].bytes) = Word /\ ~f[k - 1]
    IN {k \in DOMAIN us : f[k]}

\* The listed properties that the sender of a packet put in it, but for those.
Readable ==
    [n \in DOMAIN Packet |->
        LET us == Packet[n].units
            read == SelectSeq([k \in DOMAIN us |-> k],
                              LAMBDA k : k \notin Swallowed(us) /\ ~Unlisted(us[k]))
        IN ToBag([k \in DOMAIN read |-> us[read[k]].id])]

\* Of the packets dealt with: the last block of a log may be dealt with again,
\* without its properties.
Once == {k \in Accepted : \A j \in 1 .. k - 1 : dealt[j] # dealt[k]}
Sent == FoldSet(LAMBDA k, bag : bag (+) Readable[packets[dealt[k]]], EmptyBag, Once)

\* What is counted is what was sent, whichever way it was encoded and however
\* often an unlisted property stood between; one that was packed in one word
\* costs the next property and no other.  The list of ids used shows what was
\* counted, once each; no warning is repeated, and none is about a listed
\* property.
CountsWhatWasSent ==
    /\ IsABag(mIdCounts)
    /\ pc \in {"play", "ids", "report"} => mIdCounts = Sent
    /\ BagToSet(mIdCounts) = ToSet(vIdsUsed)
    /\ IsInjective(vIdsUsed) /\ IsInjective(vWarnings)
    /\ \A k \in DOMAIN vWarnings : findProperty(vWarnings[k]) = NoProperty

\* The log is played to an end, for any file: no sequence of shifts, short
\* reads and wrapped sizes keeps the loop going.
EventuallyDone == <>(pc = "done")

=============================================================================
