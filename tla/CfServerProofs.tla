---------------------------- MODULE CfServerProofs ----------------------------
(***************************************************************************)
(* Theorems about CfServer, the composition: the loop drives the table and *)
(* the reader within what PilotProofs and LogReadersProofs need, so that  *)
(* their theorems hold of the server; and the loop's own times, the reset  *)
(* of the log and the pacing by sim time keep what they promise.           *)
(***************************************************************************)
EXTENDS CfServer, TLAPS

T == INSTANCE PilotProofs WITH MaxPackets <- 0, heard <- 0
L == INSTANCE LogReadersProofs WITH ScanFrom <- MagicLen, ChecksHead <- TRUE,
        USE_WHOLE_READ <- FALSE, Tasks <- {}, task <- 0, i <- 0, bgn <- 0, key <- 0, out <- 0
W == INSTANCE FeedProofs WITH Tables <- {}

-----------------------------------------------------------------------------
(* The operators of the two proof modules are those the server is built from *)

LEMMA TableIsTable ==
    /\ P!TypeOK <=> T!TypeOK
    /\ P!OneEntryPerFlight <=> T!OneEntryPerFlight
    /\ P!UniqueFlightIds <=> T!UniqueFlightIds
    /\ P!TalliesAgree <=> T!TalliesAgree
    /\ P!Init <=> T!Init
    /\ P!Packet_Type = T!Packet_Type
BY Zenon DEF P!TypeOK, T!TypeOK, P!CF_Pilot, T!CF_Pilot, P!Packet_Type, T!Packet_Type,
    P!BadTypes, T!BadTypes, P!PosTypes, T!PosTypes, P!Reading, T!Reading,
    P!OneEntryPerFlight, T!OneEntryPerFlight, P!SAME_FLIGHT, T!SAME_FLIGHT,
    P!UniqueFlightIds, T!UniqueFlightIds, P!LastId, T!LastId,
    P!TalliesAgree, T!TalliesAgree, P!Init, T!Init

LEMMA DealIsDeal ==
    ASSUME NEW p, NEW pt
    PROVE  /\ P!Deal_With_Packet(p, pt) <=> T!Deal_With_Packet(p, pt)
           /\ P!Tally(pt) <=> T!Tally(pt)
BY Zenon DEF P!Deal_With_Packet, P!Refuse, P!Chat, P!FirstPosition, P!UpdatePosition,
    P!DiscardPosition, P!Refused, P!HeaderOK, P!BodyOK, P!Accepted, P!Known,
    P!SAME_FLIGHT, P!FirstMatch, P!UpdateDue, P!Moved, P!Abs, P!RevivedEntry,
    P!MovedEntry, P!NewEntry, P!Entry, P!AdvanceSimTime, P!IssueId, P!IdAvailable,
    P!Repeat, P!NewId, P!ids, P!simTiming, P!Tally,
    T!Deal_With_Packet, T!Refuse, T!Chat, T!FirstPosition, T!UpdatePosition,
    T!DiscardPosition, T!Refused, T!HeaderOK, T!BodyOK, T!Accepted, T!Known,
    T!SAME_FLIGHT, T!FirstMatch, T!UpdateDue, T!Moved, T!Abs, T!RevivedEntry,
    T!MovedEntry, T!NewEntry, T!Entry, T!AdvanceSimTime, T!IssueId, T!IdAvailable,
    T!Repeat, T!NewId, T!ids, T!simTiming, T!Tally

LEMMA SweepIsSweep ==
    /\ P!Expire_Pilots <=> T!Expire_Pilots
    /\ P!EndOfLog <=> T!EndOfLog
    /\ P!clean_up_pilots <=> T!clean_up_pilots
    /\ P!Tick <=> T!Tick
<1>1. P!Swept = T!Swept
    BY Zenon DEF P!Swept, P!Silent, T!Swept, T!Silent
<1>2. P!ExpiredAt(P!Swept) = T!ExpiredAt(T!Swept) /\ P!Kept(P!Swept) = T!Kept(T!Swept)
    BY <1>1 DEF P!ExpiredAt, T!ExpiredAt, P!Kept, T!Kept
<1>3. P!Expire_Pilots <=> T!Expire_Pilots
  <2>1. ASSUME NEW S PROVE P!Cardinality(S) = T!Cardinality(S)
      BY DEF P!Cardinality, T!Cardinality
  <2>2. P!Erase(P!Swept) <=> T!Erase(T!Swept)
      BY <1>1, <1>2, <2>1 DEF P!Erase, T!Erase
  <2> QED
      BY <1>1, <1>2, <2>1, <2>2 DEF P!Expire_Pilots, P!simTiming, P!tallies, P!received, P!ids,
          T!Expire_Pilots, T!simTiming, T!tallies, T!received, T!ids
<1>4. /\ P!EndOfLog <=> T!EndOfLog
      /\ P!clean_up_pilots <=> T!clean_up_pilots
      /\ P!Tick <=> T!Tick
    BY Zenon DEF P!simTiming, P!tallies, P!received, P!ids, P!EndOfLog, P!clean_up_pilots,
        P!Tick, T!simTiming, T!tallies, T!received, T!ids, T!EndOfLog, T!clean_up_pilots,
        T!Tick
<1> QED
    BY <1>3, <1>4

LEMMA FoundIsFound ==
    ASSUME NEW b, NEW lo, NEW d
    PROVE  R!Found(b, lo, d) = L!Found(b, lo, d)
BY Zenon DEF R!Found, L!Found, R!WholeIn, L!WholeIn, R!MagicsIn, L!MagicsIn, R!Least, L!Least

LEMMA ReaderIsReader ==
    ASSUME NEW ret
    PROVE  /\ R!TypeOK <=> L!TypeOK
           /\ R!open_raw_log(ret) <=> L!open_raw_log(ret)
           /\ R!get_next_block(ret) <=> L!get_next_block(ret)
           /\ R!clean_up_log <=> L!clean_up_log
           /\ R!Open <=> L!Open
           /\ R!Ready <=> L!Ready
           /\ R!TypeOK' <=> L!TypeOK'
BY Zenon DEF R!TypeOK, L!TypeOK, R!open_raw_log, L!open_raw_log, R!get_next_block,
    L!get_next_block, R!clean_up_log, L!clean_up_log, R!OpenSucceeds, L!OpenSucceeds,
    R!OpenFails, L!OpenFails, R!Open, L!Open, R!Found, L!Found, R!WholeIn, L!WholeIn,
    R!MagicsIn, L!MagicsIn, R!Least, L!Least, R!MayMiss, L!MayMiss,
    R!BlockSizes, L!BlockSizes, R!Ready, L!Ready, R!RemainingAfter, L!RemainingAfter,
    R!DataAfter, L!DataAfter, R!ToRead, L!ToRead, R!ReadsAll, L!ReadsAll,
    R!DataRefilled, L!DataRefilled, R!BaseAfter, L!BaseAfter, R!HasNext, L!HasNext,
    R!NextBlock, L!NextBlock, R!BadRead, L!BadRead, R!vars, L!vars, R!sizes, L!sizes

-----------------------------------------------------------------------------
(* What the proof modules assume *)

LEMMA LogAssumed == L!LogAssumption /\ L!WholeAssumption
<1>1. L!LogAssumption
    BY ServerAssumption DEF R!LogAssumption, L!LogAssumption, R!LogOK, L!LogOK
<1>2. L!WholeAssumption
    BY ServerAssumption DEF P!TableAssumption, L!WholeAssumption
<1> QED
    BY <1>1, <1>2

LEMMA TableAssumed == T!TableAssumption
BY ServerAssumption DEF P!TableAssumption, T!TableAssumption, P!Packet, T!Packet,
    P!MsgIds, T!MsgIds, P!Flaws, T!Flaws, P!Reading, T!Reading

-----------------------------------------------------------------------------
(* The inductive invariant *)

\* The reader stands at a packet of a log of the server.
ReaderInv == R!TypeOK /\ (R!Open => base \in log.marks)

OwnType ==
    /\ pc \in Steps
    /\ curr \in Nat /\ last_expire \in Nat /\ last_json \in Nat
    /\ need_reset \in BOOLEAN /\ reset_time \in Nat
    /\ raw_bgn_secs \in Nat /\ iret \in {0, 1} /\ restarted \in BOOLEAN

Turning == {"top", "poll", "udp", "expire", "write", "reset"}
Over == {"exit", "done"}

\* Where in the program the log is open, and a reset is due.
Control ==
    /\ pc = "start" => ~R!Open /\ ~need_reset /\ ~restarted
    /\ pc = "enter" => R!Open /\ ~need_reset
    /\ pc \in Turning => (need_reset <=> ~R!Open)
    /\ pc = "eof" => ~need_reset
    /\ pc = "first" => need_reset /\ restarted

\* While a reset is due, and before the loop, nothing is listed.
Clean ==
    /\ need_reset /\ pc \notin Over => vPilots = <<>> /\ ~got_sim_time
    /\ pc \in {"start", "enter"} => vPilots = <<>>

\* The loop's times follow the clock, and no sweep is long overdue.
Times ==
    /\ curr <= now /\ last_expire <= curr /\ raw_bgn_secs <= now
    /\ \A i \in DOMAIN vPilots : ~vPilots[i].expired =>
        /\ vPilots[i].last_seen + TTL >= last_expire
        /\ pc = "write" => vPilots[i].last_seen + 2 * TTL >= curr

\* elapsed_sim_time covers every record; in the first run of the log it is off
\* only while it is zero, or when the log has ended.
Pace ==
    /\ \A i \in DOMAIN vPilots :
        vPilots[i].sim_time - vPilots[i].first_sim_time <= elapsed_sim_time
    /\ restarted \/ got_sim_time \/ elapsed_sim_time = 0 \/ need_reset

IInv ==
    /\ T!IInv /\ ReaderInv /\ OwnType
    /\ Control /\ Clean /\ Times /\ Pace

-----------------------------------------------------------------------------
(* The steps the loop takes in the reader *)

LEMMA ServerConstants ==
    /\ TTL \in Nat /\ StartTime \in Nat /\ NoBuffer \notin Nat
    /\ \A g \in Logs : /\ g.packet \in [g.marks -> Packets]
                       /\ \A m \in g.marks : m \in Nat
<1>1. TTL \in Nat /\ StartTime \in Nat /\ NoBuffer \notin Nat
    BY ServerAssumption
<1>2. \A g \in Logs : R!LogOK(g) /\ g.packet \in [g.marks -> Packets]
    BY ServerAssumption
<1>3. \A g \in Logs : \A m \in g.marks : m \in Nat
    BY <1>2, ServerAssumption DEF R!LogOK
<1> QED
    BY <1>1, <1>2, <1>3

\* An open log stands at one of its packets.
LEMMA AtMark ==
    ASSUME ReaderInv
    PROVE  /\ log \in Logs
           /\ \A m \in log.marks : m \in Nat /\ m # NoBuffer /\ log.packet[m] \in Packets
BY ServerConstants DEF ReaderInv, R!TypeOK

LEMMA OpenReader ==
    ASSUME ReaderInv, NEW ret \in {0, 1}, R!open_raw_log(ret)
    PROVE  /\ ReaderInv'
           /\ ret = 0 => R!Open'
           /\ ret = 1 => (R!Open' <=> R!Open)
<1>1. R!TypeOK'
    BY ReaderIsReader, L!OpenType, LogAssumed DEF ReaderInv
<1>2. log' = log
    BY DEF R!open_raw_log, R!OpenSucceeds, R!OpenFails
<1>3. CASE ret = 0
  <2>1. PICK bgn \in R!Found(0, 0, MaxRawLog) : base' = bgn
      BY <1>3 DEF R!open_raw_log, R!OpenSucceeds
  <2>2. bgn \in log.marks
      BY <2>1, LogAssumed, L!FirstMark, ReaderIsReader, FoundIsFound DEF ReaderInv, L!PB!First
  <2> QED
      BY <1>1, <1>2, <1>3, <2>1, <2>2, AtMark DEF ReaderInv, R!Open
<1>4. CASE ret = 1
    BY <1>1, <1>2, <1>4 DEF R!open_raw_log, R!OpenFails, ReaderInv, R!Open
<1> QED
    BY <1>3, <1>4

LEMMA BlockReader ==
    ASSUME ReaderInv, NEW ret \in {0, 1}, R!get_next_block(ret)
    PROVE  /\ ReaderInv'
           /\ ret = 1 => R!Ready /\ R!Open'
<1>1. R!TypeOK'
    BY ReaderIsReader, L!BlockType, LogAssumed DEF ReaderInv
<1>2. CASE R!Ready /\ ret = 1
  <2>1. log' = log /\ base' \in log.marks
      BY <1>2 DEF R!get_next_block, R!NextBlock, R!HasNext
  <2> QED
      BY <1>1, <1>2, <2>1, AtMark DEF ReaderInv, R!Open
<1>3. CASE R!Ready /\ ret = 0
    BY <1>1, <1>3 DEF R!get_next_block, R!BadRead, ReaderInv, R!Open
<1>4. CASE ~R!Ready
    BY <1>1, <1>4 DEF R!get_next_block, R!vars, ReaderInv, R!Open
<1> QED
    BY <1>2, <1>3, <1>4

LEMMA CloseReader ==
    ASSUME ReaderInv, R!clean_up_log
    PROVE  ReaderInv' /\ ~R!Open'
BY DEF R!clean_up_log, R!sizes, ReaderInv, R!TypeOK, R!Open

LEMMA ReaderStays ==
    ASSUME ReaderInv, UNCHANGED reader
    PROVE  ReaderInv' /\ (R!Open' <=> R!Open)
BY DEF reader, ReaderInv, R!TypeOK, R!Open

-----------------------------------------------------------------------------
(* The steps the loop takes in the table *)

DealOne == \E p \in Packets, pt \in T!Packet_Type : T!Deal_With_Packet(p, pt) /\ T!Tally(pt)

\* get_next_block hands one packet of the log over, or none.
LEMMA BlockDeals ==
    ASSUME ReaderInv, NEW ret \in {0, 1}, get_next_block(ret)
    PROVE  R!get_next_block(ret) /\ (DealOne \/ UNCHANGED table)
<1>1. R!get_next_block(ret)
    BY DEF get_next_block
<1>2. CASE R!Ready
  <2>1. base \in log.marks
      BY <1>2 DEF R!Ready, ReaderInv
  <2>2. PICK p \in Packets : p = log.packet[base]
      BY <2>1, AtMark
  <2>3. PICK pt \in P!Packet_Type : P!Deal_With_Packet(p, pt) /\ P!Tally(pt)
      BY <1>2, <2>2 DEF get_next_block
  <2>4. T!Deal_With_Packet(p, pt) /\ T!Tally(pt) /\ pt \in T!Packet_Type
      BY <2>3, DealIsDeal, TableIsTable
  <2> QED
      BY <1>1, <2>4 DEF DealOne
<1>3. CASE ~R!Ready
    BY <1>1, <1>3 DEF get_next_block
<1> QED
    BY <1>2, <1>3

\* main clears the table and leaves the rest.
Cleared ==
    /\ vPilots' = <<>>
    /\ UNCHANGED <<m_ExpiredCnt, elapsed_sim_time, got_sim_time, pos_cnt, chat_cnt,
                   failed_cnt, discard_cnt, packet_cnt, sPktStr, prev, eq_count, now>>

TableStep == DealOne \/ T!Expire_Pilots \/ T!EndOfLog \/ T!Tick \/ Cleared \/ UNCHANGED table

LEMMA TableKeeps ==
    ASSUME T!IInv, TableStep
    PROVE  T!IInv'
<1>1. CASE DealOne
  <2>1. PICK p \in Packets, pt \in T!Packet_Type : T!Deal_With_Packet(p, pt) /\ T!Tally(pt)
      BY <1>1 DEF DealOne
  <2> QED
      BY <2>1, T!DealInv, TableAssumed
<1>2. CASE T!Expire_Pilots
    BY <1>2, T!ExpireInv, TableAssumed
<1>3. CASE T!EndOfLog
    BY <1>3, T!EndOfLogInv, TableAssumed
<1>4. CASE T!Tick
    BY <1>4, T!TickInv, TableAssumed
<1>5. CASE Cleared
  <2>1. vPilots' \in Seq(T!CF_Pilot) /\ DOMAIN vPilots' = {}
      BY <1>5 DEF Cleared
  <2> QED
      BY <1>5, <2>1 DEF Cleared, T!IInv, T!TypeOK, T!OneEntryPerFlight, T!UniqueFlightIds,
          T!LastId, T!IdsInv
<1>6. CASE UNCHANGED table
  <2>1. UNCHANGED T!vars
      BY <1>6 DEF table, T!vars, T!simTiming, T!tallies, T!received, T!ids
  <2> QED
      BY <2>1, T!StutterInv, TableAssumed
<1> QED
    BY <1>1, <1>2, <1>3, <1>4, <1>5, <1>6 DEF TableStep

\* Whatever the loop does, the table takes one of its own steps or none.
LEMMA StepTable ==
    ASSUME ReaderInv, [Next]_vars
    PROVE  TableStep
<1>1. ASSUME NEW ret \in {0, 1}, get_next_block(ret) PROVE TableStep
    BY <1>1, BlockDeals DEF TableStep
<1>2. CASE FeedUdp
    BY <1>1, <1>2 DEF FeedUdp, TableStep
<1>3. CASE FirstBlock
    BY <1>1, <1>3 DEF FirstBlock
<1>4. CASE LogEnded
    BY <1>4, SweepIsSweep DEF LogEnded, TableStep
<1>5. CASE Expire
    BY <1>5, SweepIsSweep DEF Expire, TableStep
<1>6. CASE Exit
    BY <1>6 DEF Exit, P!clean_up_pilots, Cleared, TableStep
<1>7. CASE Tick
    BY <1>7, SweepIsSweep DEF Tick, TableStep
<1>8. CASE \/ Start \/ EnterLoop \/ TopOfLoop \/ PollDone \/ Serve \/ Write \/ Restart
           \/ UNCHANGED vars
    BY <1>8 DEF Start, EnterLoop, TopOfLoop, PollDone, Serve, Write, Restart, vars, TableStep
<1> QED
    BY <1>2, <1>3, <1>4, <1>5, <1>6, <1>7, <1>8 DEF Next, Loop

-----------------------------------------------------------------------------
(* The steps of the loop, and what each keeps *)

\* What the control of the loop says of the log.
ReaderControl == ReaderInv /\ OwnType /\ Control

LEMMA OpenControl ==
    ASSUME ReaderControl, now \in Nat, Start \/ Restart
    PROVE  ReaderControl'
<1> USE DEF ReaderControl
<1>1. CASE Start
  <2>1. PICK ret \in {0, 1} :
          /\ OpenLog(ret)
          /\ pc' \in {"enter", "exit"} /\ (ret = 1 => pc' = "exit")
      BY <1>1 DEF Start
  <2>2. ReaderInv' /\ (ret = 0 => R!Open')
      BY <2>1, OpenReader DEF OpenLog
  <2>3. raw_bgn_secs' \in {now, raw_bgn_secs} /\ pc = "start"
      BY <1>1, <2>1 DEF OpenLog, Start
  <2>4. UNCHANGED <<curr, last_expire, last_json, need_reset, reset_time, iret, restarted>>
      BY <1>1 DEF Start, clock, reset
  <2>5. OwnType'
      BY <2>1, <2>3, <2>4 DEF OwnType, Steps
  <2>6. Control'
      BY <2>1, <2>2, <2>3, <2>4 DEF Control, Turning
  <2> QED
      BY <2>2, <2>5, <2>6
<1>2. CASE Restart /\ ~RestartDue
  <2>1. /\ pc = "reset" /\ pc' = "top" /\ UNCHANGED reader
        /\ UNCHANGED <<curr, last_expire, last_json, need_reset, reset_time,
                       raw_bgn_secs, iret, restarted>>
      BY <1>2 DEF Restart, clock, reset
  <2>2. ReaderInv' /\ (R!Open' <=> R!Open)
      BY <2>1, ReaderStays
  <2> QED
      BY <2>1, <2>2 DEF OwnType, Control, Steps, Turning
<1>3. CASE Restart /\ RestartDue
  <2>1. /\ pc = "reset" /\ need_reset
        /\ UNCHANGED <<curr, last_expire, last_json, need_reset, reset_time>>
      BY <1>3 DEF Restart, RestartDue, clock, reset
  <2>2. PICK ret \in {0, 1} :
          /\ OpenLog(ret)
          /\ ret = 0 => pc' = "first" /\ restarted' = TRUE /\ iret' = iret
          /\ ret = 1 => pc' = "exit" /\ restarted' = restarted /\ iret' = 1
      BY <1>3 DEF Restart
  <2>3. ReaderInv'
      BY <2>2, OpenReader DEF OpenLog
  <2>4. raw_bgn_secs' \in {now, raw_bgn_secs}
      BY <2>2 DEF OpenLog
  <2>5. OwnType'
      BY <2>1, <2>2, <2>4 DEF OwnType, Steps
  <2>6. Control'
      BY <2>1, <2>2 DEF Control, Turning
  <2> QED
      BY <2>3, <2>5, <2>6
<1> QED
    BY <1>1, <1>2, <1>3

\* The steps that leave the reader alone.
LEMMA AloneControl ==
    ASSUME ReaderControl, now \in Nat,
           \/ EnterLoop \/ TopOfLoop \/ PollDone \/ Serve \/ Expire \/ Write \/ Tick
           \/ UNCHANGED vars
    PROVE  ReaderControl'
<1> USE DEF ReaderControl
<1>1. UNCHANGED reader
    BY DEF EnterLoop, TopOfLoop, PollDone, Serve, Expire, Write, Tick, vars
<1>2. ReaderInv' /\ (R!Open' <=> R!Open)
    BY <1>1, ReaderStays
<1>3. /\ UNCHANGED <<need_reset, reset_time, raw_bgn_secs, iret, restarted>>
      /\ curr' \in {curr, now} /\ last_expire' \in {last_expire, curr, now}
      /\ last_json' \in {last_json, curr, now}
    BY DEF EnterLoop, TopOfLoop, PollDone, Serve, Expire, Write, Tick, vars,
        own, clock, reset
<1>4. \/ pc' = pc
      \/ pc \in Turning \cup {"enter"} /\ pc' \in Turning /\ (pc = "enter" => pc' = "top")
      \/ pc' = "exit"
    BY DEF EnterLoop, TopOfLoop, PollDone, Serve, Expire, Write, Tick, vars, Turning
<1>5. OwnType'
    BY <1>3, <1>4 DEF OwnType, Steps, Turning
<1>6. Control'
    BY <1>2, <1>3, <1>4 DEF Control, Turning
<1> QED
    BY <1>2, <1>5, <1>6

LEMMA FeedControl ==
    ASSUME ReaderControl, FeedUdp
    PROVE  ReaderControl'
<1> USE DEF ReaderControl
<1>1. /\ pc = "udp"
      /\ UNCHANGED <<curr, last_expire, last_json, need_reset, reset_time,
                     raw_bgn_secs, iret, restarted>>
    BY DEF FeedUdp, own, clock, reset
<1>2. pc' \in {"expire", "eof"}
    BY DEF FeedUdp
<1>3. OwnType'
    BY <1>1, <1>2 DEF OwnType, Steps
<1>4. CASE UNCHANGED reader /\ pc' = "expire"
  <2>1. ReaderInv' /\ (R!Open' <=> R!Open)
      BY <1>4, ReaderStays
  <2> QED
      BY <1>1, <1>3, <1>4, <2>1 DEF Control, Turning
<1>5. CASE ~need_reset /\ get_next_block(1) /\ pc' = "expire"
  <2>1. ReaderInv' /\ R!Open'
      BY <1>5, BlockReader DEF get_next_block
  <2> QED
      BY <1>1, <1>3, <1>5, <2>1 DEF Control, Turning
<1>6. CASE ~need_reset /\ get_next_block(0) /\ pc' = "eof"
  <2>1. ReaderInv'
      BY <1>6, BlockReader DEF get_next_block
  <2> QED
      BY <1>1, <1>3, <1>6, <2>1 DEF Control, Turning
<1> QED
    BY <1>4, <1>5, <1>6 DEF FeedUdp

LEMMA EndControl ==
    ASSUME ReaderControl, LogEnded \/ FirstBlock \/ Exit
    PROVE  ReaderControl'
<1> USE DEF ReaderControl
<1>1. CASE LogEnded
  <2>1. ReaderInv' /\ ~R!Open'
      BY <1>1, CloseReader DEF LogEnded
  <2>2. /\ need_reset' = TRUE /\ reset_time' = curr + TTL + 3 /\ pc' = "expire"
        /\ UNCHANGED <<curr, last_expire, last_json, raw_bgn_secs, iret, restarted>>
      BY <1>1 DEF LogEnded, clock
  <2>3. OwnType'
      BY <2>2, ServerConstants DEF OwnType, Steps
  <2> QED
      BY <2>1, <2>2, <2>3 DEF Control, Turning
<1>2. CASE FirstBlock
  <2>1. PICK ret \in {0, 1} :
          /\ get_next_block(ret)
          /\ ret = 1 => need_reset' = FALSE /\ pc' = "top" /\ iret' = iret
          /\ ret = 0 => need_reset' = need_reset /\ pc' = "exit" /\ iret' = 1
      BY <1>2 DEF FirstBlock
  <2>2. ReaderInv' /\ (ret = 1 => R!Open')
      BY <2>1, BlockReader DEF get_next_block
  <2>3. UNCHANGED <<curr, last_expire, last_json, reset_time, raw_bgn_secs, restarted>>
      BY <1>2 DEF FirstBlock, clock
  <2>4. OwnType'
      BY <2>1, <2>3 DEF OwnType, Steps
  <2> QED
      BY <2>1, <2>2, <2>4 DEF Control, Turning
<1>3. CASE Exit
  <2>1. ReaderInv'
      BY <1>3, CloseReader DEF Exit
  <2> QED
      BY <1>3, <2>1 DEF Exit, own, clock, reset, OwnType, Steps, Control, Turning
<1> QED
    BY <1>1, <1>2, <1>3

LEMMA StepControl ==
    ASSUME ReaderControl, now \in Nat, [Next]_vars
    PROVE  ReaderControl'
BY OpenControl, AloneControl, FeedControl, EndControl DEF Next, Loop

-----------------------------------------------------------------------------
(* The table, and what the loop's times say of it *)

TableInv == Clean /\ Times /\ Pace

LEMMA InvTypes ==
    ASSUME IInv
    PROVE  /\ now \in Nat /\ elapsed_sim_time \in Nat /\ got_sim_time \in BOOLEAN
           /\ curr \in Nat /\ last_expire \in Nat /\ raw_bgn_secs \in Nat
           /\ need_reset \in BOOLEAN /\ restarted \in BOOLEAN
           /\ ReaderControl /\ ReaderInv /\ TableInv /\ T!IInv /\ T!TypeOK
           /\ \A i \in DOMAIN vPilots :
                /\ vPilots[i].last_seen \in Nat
                /\ vPilots[i].sim_time \in Int /\ vPilots[i].first_sim_time \in Int
<1>1. T!TypeOK /\ vPilots \in Seq(T!CF_Pilot)
    BY DEF IInv, T!IInv, T!TypeOK
<1>2. \A i \in DOMAIN vPilots : vPilots[i] \in T!CF_Pilot
    BY <1>1
<1>3. \A i \in DOMAIN vPilots :
        /\ vPilots[i].last_seen \in Nat
        /\ vPilots[i].sim_time \in Int /\ vPilots[i].first_sim_time \in Int
    BY <1>2 DEF T!CF_Pilot
<1> QED
    BY <1>1, <1>3 DEF IInv, T!TypeOK, OwnType, ReaderControl, TableInv

\* A packet changes nothing the loop goes by, but adds to the sim timing.
LEMMA DealTimes ==
    ASSUME IInv, DealOne, UNCHANGED <<curr, last_expire, raw_bgn_secs, restarted>>,
           pc' \notin {"start", "enter", "write"},
           restarted \/ ~need_reset, need_reset' => pc' = "exit"
    PROVE  TableInv'
<1>1. PICK p \in Packets, pt \in T!Packet_Type : T!Deal_With_Packet(p, pt) /\ T!Tally(pt)
    BY DEF DealOne
<1>2. now' = now
    BY <1>1 DEF T!Deal_With_Packet
<1>3. /\ elapsed_sim_time <= elapsed_sim_time'
      /\ elapsed_sim_time' = elapsed_sim_time \/ got_sim_time'
      /\ got_sim_time => got_sim_time'
      /\ \A k \in DOMAIN vPilots' : T!Left(vPilots'[k])
    BY <1>1, InvTypes, TableAssumed, T!DealtEntries
<1>4. T!IInv'
    BY <1>1, InvTypes, TableAssumed, T!DealInv
<1>5. elapsed_sim_time' \in Nat /\ TTL \in Nat
    BY <1>4, ServerConstants DEF T!IInv, T!TypeOK
<1>6. Times'
  <2>1. ASSUME NEW k \in DOMAIN vPilots', ~vPilots'[k].expired
        PROVE  vPilots'[k].last_seen + TTL >= last_expire
    <3>1. CASE \E j \in DOMAIN vPilots : vPilots'[k] = vPilots[j]
        BY <2>1, <3>1 DEF IInv, Times
    <3>2. CASE vPilots'[k].last_seen = now
        BY <3>2, <1>5, InvTypes DEF IInv, Times
    <3> QED
        BY <1>3, <3>1, <3>2 DEF T!Left
  <2> QED
      BY <2>1, <1>2 DEF IInv, Times
<1>7. Pace'
  <2>1. ASSUME NEW k \in DOMAIN vPilots'
        PROVE  vPilots'[k].sim_time - vPilots'[k].first_sim_time <= elapsed_sim_time'
    <3>1. CASE \E j \in DOMAIN vPilots :
                /\ vPilots'[k].sim_time = vPilots[j].sim_time
                /\ vPilots'[k].first_sim_time = vPilots[j].first_sim_time
        BY <3>1, <1>3, <1>5, InvTypes DEF IInv, Pace
    <3> QED
        BY <1>3, <3>1 DEF T!Left
  <2>2. (restarted \/ got_sim_time \/ elapsed_sim_time = 0 \/ need_reset)'
      BY <1>3, Zenon DEF IInv, Pace
  <2> QED
      BY <2>1, <2>2, Zenon DEF Pace
<1>8. Clean'
    BY DEF Clean, Over
<1> QED
    BY <1>6, <1>7, <1>8 DEF TableInv

\* A step that leaves the flights and the sim timing alone.
LEMMA StillTimes ==
    ASSUME IInv, UNCHANGED <<vPilots, elapsed_sim_time, got_sim_time, need_reset>>,
           now' \in Nat, now <= now',
           curr' \in {curr, now}, restarted => restarted',
           \/ last_expire' = last_expire
           \/ last_expire' = curr' /\ vPilots = <<>>,
           raw_bgn_secs' \in {raw_bgn_secs, now},
           pc' = "write" => pc = "write" /\ curr' = curr,
           pc' \in {"start", "enter"} => pc \in {"start", "enter"},
           need_reset => pc \notin Over \/ pc' \in Over
    PROVE  TableInv'
<1>1. Clean'
    BY DEF IInv, Clean, Over
<1>2. Pace'
    BY Zenon DEF IInv, Pace
<1>3. curr' <= now' /\ last_expire' <= curr' /\ raw_bgn_secs' <= now'
    BY InvTypes DEF IInv, Times
<1>4. Times'
    BY <1>3 DEF IInv, Times
<1> QED
    BY <1>1, <1>2, <1>4 DEF TableInv

\* The flights go, and with them what was known of the sim time.
LEMMA EmptyTimes ==
    ASSUME IInv, vPilots' = <<>>, UNCHANGED <<now, curr, last_expire, raw_bgn_secs, restarted>>,
           UNCHANGED elapsed_sim_time,
           \/ pc' = "done" /\ UNCHANGED <<got_sim_time, need_reset>>
           \/ pc' = "expire" /\ ~got_sim_time' /\ need_reset'
    PROVE  TableInv'
<1>1. DOMAIN vPilots' = {}
    OBVIOUS
<1>2. Clean'
    BY DEF Clean, Over
<1>3. Pace'
    BY <1>1, Zenon DEF IInv, Pace
<1>4. Times'
    BY <1>1 DEF IInv, Times
<1> QED
    BY <1>2, <1>3, <1>4 DEF TableInv

\* A sweep leaves no flight that was silent for longer than TTL seconds; when
\* it is not due, the last one was not longer ago.
LEMMA ExpireTimes ==
    ASSUME IInv, Expire
    PROVE  TableInv'
<1>1. /\ pc' = "write" /\ pc = "expire"
      /\ UNCHANGED <<curr, need_reset, raw_bgn_secs, restarted>>
    BY DEF Expire, reset
<1>2. TTL \in Nat
    BY ServerConstants
<1>3. CASE ~ExpireDue
  <2>1. UNCHANGED <<vPilots, elapsed_sim_time, got_sim_time, now, last_expire>>
      BY <1>3 DEF Expire, table
  <2>2. curr - last_expire <= TTL
      BY <1>2, <1>3, InvTypes DEF ExpireDue
  <2>3. Times'
      BY <1>1, <1>2, <2>1, <2>2, InvTypes DEF IInv, Times
  <2>4. Clean' /\ Pace'
      BY <1>1, <2>1, Zenon DEF IInv, Clean, Over, Pace
  <2> QED
      BY <2>3, <2>4 DEF TableInv
<1>4. CASE ExpireDue
  <2>1. T!Expire_Pilots /\ last_expire' = curr
      BY <1>4, SweepIsSweep DEF Expire
  <2>2. UNCHANGED <<elapsed_sim_time, got_sim_time, now>>
      BY <2>1 DEF T!Expire_Pilots, T!simTiming
  <2>3. ASSUME NEW k \in DOMAIN vPilots'
        PROVE  \E j \in DOMAIN vPilots :
                /\ vPilots'[k].last_seen = vPilots[j].last_seen
                /\ vPilots'[k].sim_time = vPilots[j].sim_time
                /\ vPilots'[k].first_sim_time = vPilots[j].first_sim_time
                /\ ~vPilots'[k].expired => ~T!Silent(vPilots[j])
      BY <2>1, <2>3, InvTypes, TableAssumed, T!SweptEntries
  <2>4. ASSUME NEW k \in DOMAIN vPilots', ~vPilots'[k].expired
        PROVE  vPilots'[k].last_seen + TTL >= curr
    <3>1. PICK j \in DOMAIN vPilots :
            vPilots'[k].last_seen = vPilots[j].last_seen /\ ~T!Silent(vPilots[j])
        BY <2>3, <2>4
    <3> QED
        BY <1>2, <3>1, InvTypes DEF T!Silent, IInv, Times
  <2>5. ASSUME NEW k \in DOMAIN vPilots', ~vPilots'[k].expired
        PROVE  vPilots'[k].last_seen + 2 * TTL >= curr
    <3>1. vPilots'[k].last_seen \in Nat
        BY <2>3, InvTypes
    <3> QED
        BY <1>2, <2>4, <2>5, <3>1, InvTypes
  <2>6. Times'
      BY <1>1, <2>1, <2>2, <2>4, <2>5, InvTypes DEF IInv, Times
  <2>7. Pace'
      BY <1>1, <2>2, <2>3, Zenon DEF IInv, Pace
  <2>8. Clean'
    <3>1. vPilots = <<>> => vPilots' = <<>>
      <4>1. CASE vPilots = <<>>
        <5>1. DOMAIN vPilots' = {}
            BY <2>3, <4>1
        <5>2. vPilots' \in Seq(T!CF_Pilot)
            BY <2>1, InvTypes, TableAssumed, T!ExpireInv DEF T!IInv, T!TypeOK
        <5> QED
            BY <5>1, <5>2
      <4> QED
          BY <4>1
    <3> QED
        BY <1>1, <2>2, <3>1 DEF IInv, Clean, Over
  <2> QED
      BY <2>6, <2>7, <2>8 DEF TableInv
<1> QED
    BY <1>3, <1>4

LEMMA StepTimes ==
    ASSUME IInv, [Next]_vars
    PROVE  TableInv'
<1>1. now \in Nat /\ curr \in Nat /\ need_reset \in BOOLEAN /\ Control /\ Clean
    BY InvTypes DEF IInv
<1>2. CASE Start \/ EnterLoop \/ TopOfLoop \/ PollDone \/ Serve \/ Write \/ Restart
  <2>1. UNCHANGED table
      BY <1>2 DEF Start, EnterLoop, TopOfLoop, PollDone, Serve, Write, Restart
  <2>2. UNCHANGED <<vPilots, elapsed_sim_time, got_sim_time, now>>
      BY <2>1 DEF table
  <2>3. /\ curr' \in {curr, now} /\ need_reset' = need_reset
        /\ restarted => restarted'
        /\ raw_bgn_secs' \in {raw_bgn_secs, now}
      BY <1>2 DEF Start, EnterLoop, TopOfLoop, PollDone, Serve, Write, Restart, OpenLog,
          clock, reset
  <2>4. \/ last_expire' = last_expire
        \/ last_expire' = curr' /\ vPilots = <<>>
      BY <1>1, <1>2 DEF Start, EnterLoop, TopOfLoop, PollDone, Serve, Write, Restart,
          clock, Clean
  <2>5. /\ pc' # "write"
        /\ pc' \in {"start", "enter"} => pc \in {"start", "enter"}
        /\ pc \notin Over
      BY <1>2 DEF Start, EnterLoop, TopOfLoop, PollDone, Serve, Write, Restart, Over
  <2> QED
      BY <1>1, <2>2, <2>3, <2>4, <2>5, StillTimes
<1>3. CASE Tick \/ UNCHANGED vars
  <2>1. UNCHANGED <<vPilots, elapsed_sim_time, got_sim_time, need_reset, curr, last_expire,
                    raw_bgn_secs, restarted, pc>>
      BY <1>3 DEF Tick, P!Tick, P!simTiming, vars, table, own, clock, reset
  <2>2. now' \in Nat /\ now <= now'
      BY <1>1, <1>3 DEF Tick, P!Tick, vars, table
  <2> QED
      BY <2>1, <2>2, StillTimes
<1>4. CASE FeedUdp
  <2>1. /\ UNCHANGED <<curr, last_expire, need_reset, raw_bgn_secs, restarted>>
        /\ pc = "udp" /\ pc' \in {"expire", "eof"}
      BY <1>4 DEF FeedUdp, own, clock, reset
  <2>2. CASE UNCHANGED table
    <3>1. UNCHANGED <<vPilots, elapsed_sim_time, got_sim_time, now>>
        BY <2>2 DEF table
    <3> QED
        BY <1>1, <2>1, <3>1, StillTimes DEF Over
  <2>3. CASE ~UNCHANGED table
    <3>1. ~need_reset /\ DealOne
        BY <1>4, <2>3, BlockDeals, InvTypes DEF FeedUdp
    <3> QED
        BY <2>1, <3>1, DealTimes
  <2> QED
      BY <2>2, <2>3
<1>5. CASE LogEnded
  <2>1. /\ vPilots' = <<>> /\ ~got_sim_time' /\ need_reset' /\ pc' = "expire"
        /\ UNCHANGED <<now, curr, last_expire, raw_bgn_secs, restarted, elapsed_sim_time>>
      BY <1>5 DEF LogEnded, P!EndOfLog, P!clean_up_pilots, clock
  <2> QED
      BY <2>1, EmptyTimes
<1>6. CASE Exit
  <2>1. /\ vPilots' = <<>> /\ pc' = "done"
        /\ UNCHANGED <<now, curr, last_expire, raw_bgn_secs, restarted, elapsed_sim_time,
                       got_sim_time, need_reset>>
      BY <1>6 DEF Exit, P!clean_up_pilots, own, clock, reset
  <2> QED
      BY <2>1, EmptyTimes
<1>7. CASE FirstBlock
  <2>1. /\ UNCHANGED <<curr, last_expire, raw_bgn_secs, restarted>>
        /\ pc = "first" /\ restarted /\ need_reset
      BY <1>1, <1>7 DEF FirstBlock, clock, Control
  <2>2. PICK ret \in {0, 1} :
          /\ get_next_block(ret)
          /\ ret = 1 => need_reset' = FALSE /\ pc' = "top"
          /\ ret = 0 => need_reset' = need_reset /\ pc' = "exit"
      BY <1>7 DEF FirstBlock
  <2>3. CASE DealOne
      BY <2>1, <2>2, <2>3, DealTimes
  <2>4. CASE UNCHANGED table
    <3>1. UNCHANGED <<vPilots, elapsed_sim_time, got_sim_time, now>>
        BY <2>4 DEF table
    <3>2. Clean'
        BY <1>1, <2>1, <2>2, <3>1 DEF Clean, Over
    <3>3. Times'
        BY <2>1, <2>2, <3>1 DEF IInv, Times
    <3>4. Pace'
        BY <2>1, <3>1, Zenon DEF IInv, Pace
    <3> QED
        BY <3>2, <3>3, <3>4 DEF TableInv
  <2> QED
      BY <2>2, <2>3, <2>4, BlockDeals, InvTypes
<1>8. CASE Expire
    BY <1>8, ExpireTimes
<1> QED
    BY <1>2, <1>3, <1>4, <1>5, <1>6, <1>7, <1>8 DEF Next, Loop

LEMMA StepIInv ==
    ASSUME IInv, [Next]_vars
    PROVE  IInv'
<1>1. T!IInv'
    BY InvTypes, StepTable, TableKeeps
<1>2. ReaderControl'
    BY InvTypes, StepControl
<1>3. TableInv'
    BY StepTimes
<1> QED
    BY <1>1, <1>2, <1>3 DEF IInv, ReaderControl, TableInv

LEMMA InitIInv == Init => IInv
<1> SUFFICES ASSUME Init PROVE IInv
    OBVIOUS
<1>1. T!IInv
    BY TableIsTable, TableAssumed, T!InitInv DEF Init
<1>2. ReaderInv /\ ~R!Open
  <2>1. R!TypeOK /\ ~R!Open
      BY ServerAssumption DEF Init, R!Init, R!TypeOK, R!Open
  <2> QED
      BY <2>1 DEF ReaderInv
<1>3. /\ vPilots = <<>> /\ DOMAIN vPilots = {} /\ elapsed_sim_time = 0 /\ ~got_sim_time
      /\ now \in Nat
    BY ServerConstants DEF Init, P!Init
<1>4. OwnType
    BY DEF Init, OwnType, Steps
<1>5. Control
    BY <1>2 DEF Init, Control, Turning
<1>6. Clean
    BY <1>3 DEF Init, Clean
<1>7. Times
    BY <1>3 DEF Init, Times
<1>8. Pace
    BY <1>3, Zenon DEF Pace
<1> QED
    BY <1>1, <1>2, <1>4, <1>5, <1>6, <1>7, <1>8 DEF IInv

LEMMA SpecIInv == Spec => []IInv
<1>1. IInv /\ [Next]_vars => IInv'
    BY StepIInv
<1> QED
    BY <1>1, InitIInv, PTL DEF Spec

-----------------------------------------------------------------------------
(* The theorems *)

\* The state of the whole server keeps its types.
THEOREM ServerTypeOK == Spec => []TypeOK
<1>1. IInv => TypeOK
    BY TableIsTable, InvTypes DEF IInv, ReaderInv, OwnType, TypeOK
<1> QED
    BY <1>1, SpecIInv, PTL

\* While the loop of run_server turns, a reset is due just when no log is open,
\* and then no flight is listed and the sim timing is off.
THEOREM ResetsAreClean == Spec => []ResetIsClean
<1>1. IInv => ResetIsClean
    BY Zenon DEF IInv, Control, Clean, Turning, Over, ResetIsClean
<1> QED
    BY <1>1, SpecIInv, PTL

\* However long a turn of the loop takes, no live flight is older than the sweep
\* allows, and a document is written only with flights heard in 2 * TTL seconds.
THEOREM FlightsDoNotOverstay == Spec => []NoFlightOverstays
<1>1. IInv => NoFlightOverstays
    BY DEF IInv, Times, NoFlightOverstays, LiveFlights
<1> QED
    BY <1>1, SpecIInv, PTL

-----------------------------------------------------------------------------
(* The loop uses the reader and the table as their specifications ask *)

LEMMA StepReads ==
    ASSUME IInv, [Next]_vars
    PROVE  [R!Next]_(R!vars)
<1>1. ASSUME UNCHANGED reader PROVE UNCHANGED R!vars
    BY <1>1 DEF reader, R!vars
<1>2. ASSUME NEW ret \in {0, 1}, get_next_block(ret) PROVE R!Next
    BY <1>2, BlockDeals, InvTypes DEF R!Next
<1>3. CASE Start \/ (Restart /\ RestartDue)
  <2>1. PICK ret \in {0, 1} : R!open_raw_log(ret)
      BY <1>3 DEF Start, Restart, OpenLog
  <2>2. ~R!Open
      BY <1>3 DEF Start, Restart, RestartDue, IInv, Control, Turning
  <2> QED
      BY <2>1, <2>2 DEF R!Next
<1>4. CASE FeedUdp \/ FirstBlock
    BY <1>1, <1>2, <1>4 DEF FeedUdp, FirstBlock
<1>5. CASE LogEnded \/ Exit
    BY <1>5 DEF LogEnded, Exit, R!Next
<1>6. CASE \/ EnterLoop \/ TopOfLoop \/ PollDone \/ Serve \/ Expire \/ Write \/ Tick
           \/ (Restart /\ ~RestartDue) \/ UNCHANGED vars
    BY <1>1, <1>6 DEF EnterLoop, TopOfLoop, PollDone, Serve, Expire, Write, Tick, Restart, vars
<1> QED
    BY <1>3, <1>4, <1>5, <1>6 DEF Next, Loop

\* open_raw_log is never called on an open log, so no buffer and no file is
\* lost: every behaviour of the server is one of the reader.
THEOREM ServerDrivesRawLog == Spec => DrivesRawLog
<1>1. Init => R!Init
    BY DEF Init
<1>2. IInv /\ [Next]_vars => [R!Next]_(R!vars)
    BY StepReads
<1> QED
    BY <1>1, <1>2, SpecIInv, PTL DEF Spec, DrivesRawLog, R!Spec

LEMMA ReadersAgree ==
    /\ R!Init <=> L!Init
    /\ [R!Next]_(R!vars) <=> [L!Next]_(L!vars)
    /\ R!WindowIsContiguous <=> L!WindowIsContiguous
    /\ R!PB!Init <=> L!PB!Init
    /\ [R!PB!Next]_(R!PB!vars) <=> [L!PB!Next]_(L!PB!vars)
<1>1. R!Fits(log) <=> L!Fits(log)
    BY DEF R!Fits, L!Fits
<1>2. R!vars = L!vars /\ (R!Init <=> L!Init) /\ (R!Next <=> L!Next)
    BY ReaderIsReader DEF R!vars, L!vars, R!Init, L!Init, R!Next, L!Next
<1>3. R!WindowIsContiguous <=> L!WindowIsContiguous
    BY <1>1, ReaderIsReader DEF R!WindowIsContiguous, L!WindowIsContiguous
<1>4. /\ R!PB!vars = L!PB!vars
      /\ R!PB!Init <=> L!PB!Init
      /\ R!PB!Next <=> L!PB!Next
      /\ (UNCHANGED R!PB!vars) <=> (UNCHANGED L!PB!vars)
    BY DEF R!Fits, L!Fits, R!PB!vars, L!PB!vars, R!PB!Init, L!PB!Init, R!PB!Next, L!PB!Next,
        R!PB!Play, L!PB!Play, R!PB!Rewind, L!PB!Rewind, R!PB!NextInLine, L!PB!NextInLine,
        R!PB!First, L!PB!First, R!PB!Successor, L!PB!Successor
<1>5. [R!Next]_(R!vars) <=> [L!Next]_(L!vars)
    BY <1>2 DEF R!vars, L!vars
<1>6. [R!PB!Next]_(R!PB!vars) <=> [L!PB!Next]_(L!PB!vars)
    BY <1>4
<1> QED
    BY <1>2, <1>3, <1>4, <1>5, <1>6

\* So what LogReadersProofs shows of the reader holds in the server, whatever the
\* pacing, the restarts and the clock do: its buffer follows the file,
THEOREM ServerWindow == Spec => []R!WindowIsContiguous
<1>1. L!Spec => []L!WindowIsContiguous
    BY LogAssumed, L!SpecWindowIsContiguous
<1> QED
    BY <1>1, ServerDrivesRawLog, ReadersAgree, PTL DEF DrivesRawLog, R!Spec, L!Spec

\* and Deal_With_Packet gets the packets of each run of the log in file order.
THEOREM ServerPlaysInOrder == Spec => R!PlaysInOrder
<1>1. L!Spec => L!PlaysInOrder
    BY LogAssumed, L!SpecPlaysInOrder
<1> QED
    BY <1>1, ServerDrivesRawLog, ReadersAgree, PTL DEF DrivesRawLog, R!Spec, L!Spec,
        R!PlaysInOrder, L!PlaysInOrder, R!PB!Spec, L!PB!Spec

\* What PilotProofs shows of the table holds in the server, where the log
\* decides which packet comes next: no flight is listed twice, no id either.
THEOREM ServerKeepsFlightsApart == Spec => [](P!OneEntryPerFlight /\ P!UniqueFlightIds)
<1>1. IInv => P!OneEntryPerFlight /\ P!UniqueFlightIds
    BY TableIsTable DEF IInv, T!IInv
<1> QED
    BY <1>1, SpecIInv, PTL

-----------------------------------------------------------------------------
(* The pacing by sim time *)

LEMMA OthersDealNothing ==
    ASSUME IInv, [Next]_vars, Dealt
    PROVE  FeedUdp \/ FirstBlock
<1>1. ~UNCHANGED vars
    BY DEF vars, table, Dealt
<1>2. ~(Start \/ EnterLoop \/ TopOfLoop \/ PollDone \/ Serve \/ Write \/ Restart)
    BY DEF Start, EnterLoop, TopOfLoop, PollDone, Serve, Write, Restart, table, Dealt
<1>3. ~LogEnded /\ ~Expire /\ ~Exit /\ ~Tick
    BY DEF LogEnded, Expire, Exit, Tick, P!EndOfLog, P!Expire_Pilots, P!Tick, P!received,
        table, Dealt
<1> QED
    BY <1>1, <1>2, <1>3 DEF Next, Loop

LEMMA StepPaced ==
    ASSUME IInv, [Next]_vars, use_sim_time2, Dealt, ~restarted
    PROVE  OnTime
<1>1. FeedUdp
    BY OthersDealNothing DEF FirstBlock, IInv, Control
<1>2. ~Paced /\ ~need_reset
    BY <1>1 DEF FeedUdp, table, Dealt
<1>3. elapsed_sim_time <= now - raw_bgn_secs
  <2>1. CASE got_sim_time
      BY <1>2, <2>1, InvTypes DEF Paced
  <2>2. CASE ~got_sim_time
    <3>1. elapsed_sim_time = 0
        BY <1>2, <2>2, Zenon DEF IInv, Pace
    <3> QED
        BY <3>1, InvTypes DEF IInv, Times
  <2> QED
      BY <2>1, <2>2
<1>4. now - raw_bgn_secs \in Int
    BY InvTypes
<1>5. ASSUME NEW i \in DOMAIN vPilots
      PROVE  vPilots[i].sim_time - vPilots[i].first_sim_time <= now - raw_bgn_secs
  <2>1. vPilots[i].sim_time - vPilots[i].first_sim_time <= elapsed_sim_time
      BY DEF IInv, Pace
  <2> QED
      BY <1>3, <1>4, <2>1, InvTypes
<1> QED
    BY <1>5 DEF OnTime

\* With the option on, no packet of the first run of the log is dealt with
\* before the wall clock has passed the sim time of every listed flight.
THEOREM FirstRunStaysPaced == Spec => FirstRunIsPaced
<1>1. IInv /\ [Next]_vars => [use_sim_time2 /\ Dealt /\ ~restarted => OnTime]_vars
    BY StepPaced
<1> QED
    BY <1>1, SpecIInv, PTL DEF Spec, FirstRunIsPaced

-----------------------------------------------------------------------------
(* The two documents *)

LEMMA FeedAssumed == W!FeedAssumption
BY ServerAssumption DEF F!FeedAssumption, W!FeedAssumption, F!IsFiniteSet, W!IsFiniteSet

LEMMA DocumentsAreDocuments ==
    /\ F!Listed = W!Listed
    /\ F!JsonText = W!JsonText
    /\ F!XmlText = W!XmlText
    /\ \A e : F!JsonFlight(e) = W!JsonFlight(e) /\ F!XmlMark(e) = W!XmlMark(e)
<1>1. ASSUME NEW S PROVE F!Cardinality(S) = W!Cardinality(S)
    BY DEF F!Cardinality, W!Cardinality
<1>2. ASSUME NEW S PROVE F!Ordered(S) = W!Ordered(S)
    BY <1>1 DEF F!Ordered, W!Ordered
<1>3. F!Listed = W!Listed
    BY <1>1, <1>2 DEF F!Listed, W!Listed, F!SubseqAt, W!SubseqAt, F!Live, W!Live
<1>4. ASSUME NEW e
      PROVE  F!JsonFlight(e) = W!JsonFlight(e) /\ F!XmlMark(e) = W!XmlMark(e)
    BY DEF F!JsonFlight, W!JsonFlight, F!XmlMark, W!XmlMark, F!get_Model, W!get_Model
<1>5. F!JsonText = W!JsonText
    BY <1>3, <1>4, Zenon DEF F!JsonText, W!JsonText, F!JsonItems, W!JsonItems,
        F!BlankLast, W!BlankLast, F!Txt, W!Txt
<1>6. F!XmlText = W!XmlText
    BY <1>3, <1>4, Zenon DEF F!XmlText, W!XmlText, F!Txt, W!Txt
<1> QED
    BY <1>3, <1>4, <1>5, <1>6

LEMMA WriteIsWrite ==
    /\ F!WriteFeed <=> W!WriteFeed
    /\ F!JsonParsesWithFlights <=> W!JsonParsesWithFlights
    /\ F!JsonParsesWithFlights' <=> W!JsonParsesWithFlights'
<1>1. F!Four = W!Four
    BY Zenon DEF F!Four, W!Four
<1>2. ASSUME NEW size, NEW need PROVE F!Grown(size, need) = W!Grown(size, need)
    BY <1>1, Zenon DEF F!Grown, W!Grown
<1>3. F!WriteFeed <=> W!WriteFeed
    BY <1>2, DocumentsAreDocuments, Zenon DEF F!WriteFeed, W!WriteFeed, F!Write_JSON,
        W!Write_JSON, F!Write_XML, W!Write_XML, F!Stg, W!Stg, F!NoStg, W!NoStg,
        F!Larger, W!Larger
<1>4. /\ F!JsonParsesWithFlights <=> W!JsonParsesWithFlights
      /\ F!JsonParsesWithFlights' <=> W!JsonParsesWithFlights'
    BY Zenon DEF F!JsonParsesWithFlights, W!JsonParsesWithFlights, F!NoStg, W!NoStg,
        F!JsonOf, W!JsonOf, F!Txt, W!Txt
<1> QED
    BY <1>3, <1>4

\* Each buffer is a record once it is allocated, and the two that were written
\* together list the same callsigns.
Record(stg) ==
    stg # F!NoStg => stg = [size |-> stg.size, used |-> stg.used, buf |-> stg.buf]
SameFlights ==
    _s_pJsonStg # F!NoStg =>
        LET n == _s_pJsonStg.buf[Len(_s_pJsonStg.buf)].count IN
        IF F!Answer(_s_pXmlStg) = F!MG_FALSE
        THEN n = 0
        ELSE /\ Len(_s_pXmlStg.buf) = n + 3
             /\ \A k \in 1 .. n :
                Callsign(_s_pXmlStg, k + 2) = Callsign(_s_pJsonStg, 2 * k + 1)
FeedInv == Record(_s_pXmlStg) /\ SameFlights

LEMMA WriteFeedInv ==
    ASSUME IInv, Record(_s_pXmlStg), F!WriteFeed
    PROVE  FeedInv'
<1> DEFINE n == Len(F!Listed)
<1>1. W!IsTable(vPilots)
    BY DEF IInv, T!IInv, T!TypeOK, W!IsTable
<1>2. /\ n \in Nat
      /\ vPilots = <<>> => n = 0
      /\ Len(F!JsonText) = 2 * n + 4
      /\ F!JsonText[2 * n + 4] = [count |-> n]
      /\ \A k \in 1 .. n : F!JsonText[2 * k + 1] = F!JsonFlight(F!Listed[k])
    BY <1>1, DocumentsAreDocuments, FeedAssumed, W!ListedType, W!JsonShape
<1>3. /\ Len(F!XmlText) = n + 3
      /\ \A k \in 1 .. n : F!XmlText[k + 2] = F!XmlMark(F!Listed[k])
    BY <1>1, DocumentsAreDocuments, FeedAssumed, W!XmlShape
<1>4. \A k \in 1 .. n :
        F!XmlText[k + 2].callsign = F!JsonText[2 * k + 1].callsign
  <2> SUFFICES ASSUME NEW k \in 1 .. n
               PROVE  F!XmlText[k + 2].callsign = F!JsonText[2 * k + 1].callsign
      OBVIOUS
  <2>1. F!XmlText[k + 2] = F!XmlMark(F!Listed[k])
      BY <1>3
  <2>2. F!JsonText[2 * k + 1] = F!JsonFlight(F!Listed[k])
      BY <1>2
  <2>3. F!XmlMark(F!Listed[k]).callsign = F!Listed[k].callsign
      BY DEF F!XmlMark
  <2>4. F!JsonFlight(F!Listed[k]).callsign = F!Listed[k].callsign
      BY DEF F!JsonFlight
  <2> QED
      BY <2>1, <2>2, <2>3, <2>4
<1> DEFINE used == HeadLen + n * ItemLen + TailLen
           x == F!Stg(_s_pXmlStg)
<1>5. used \in Nat /\ used # 0
  <2>1. HeadLen \in Nat \ {0} /\ ItemLen \in Nat /\ TailLen \in Nat
      BY FeedAssumed DEF W!FeedAssumption
  <2>2. n * ItemLen \in Nat
      BY <1>2, <2>1
  <2> QED
      BY <2>1, <2>2
<1>6. PICK size : _s_pJsonStg' = [size |-> size, used |-> used, buf |-> F!JsonText]
    BY DEF F!WriteFeed, F!Write_JSON
<1>7. _s_pXmlStg' = IF vPilots = <<>>
                    THEN [x EXCEPT !.used = 0, !.buf = <<>>]
                    ELSE [size |-> F!Grown(x.size, used), used |-> used, buf |-> F!XmlText]
    BY DEF F!WriteFeed, F!Write_XML
<1> HIDE DEF n, used
<1>8. /\ _s_pJsonStg'.buf = F!JsonText
      /\ _s_pJsonStg'.buf[Len(_s_pJsonStg'.buf)].count = n
    BY <1>2, <1>6
<1>9. CASE vPilots = <<>>
  <2>1. x = [size |-> x.size, used |-> x.used, buf |-> x.buf]
      BY DEF Record, F!Stg
  <2> HIDE DEF x
  <2>2. _s_pXmlStg' = [size |-> x.size, used |-> 0, buf |-> <<>>]
      BY <1>7, <1>9, <2>1
  <2>3. Record(_s_pXmlStg)' /\ F!Answer(_s_pXmlStg)' = F!MG_FALSE
      BY <2>2 DEF Record, F!Answer, F!Stg
  <2> QED
      BY <1>2, <1>8, <1>9, <2>3 DEF FeedInv, SameFlights
<1>10. CASE vPilots # <<>>
  <2> DEFINE s == F!Grown(x.size, used)
  <2>1. _s_pXmlStg' = [size |-> s, used |-> used, buf |-> F!XmlText]
      BY <1>7, <1>10
  <2> HIDE DEF s
  <2>2. /\ _s_pXmlStg' # F!NoStg
        /\ _s_pXmlStg'.used = used /\ _s_pXmlStg'.buf = F!XmlText
      BY <2>1 DEF F!NoStg
  <2>3. F!XmlText # <<>>
      BY <1>2, <1>3
  <2>4. Record(_s_pXmlStg)' /\ F!Answer(_s_pXmlStg)' # F!MG_FALSE
      BY <1>5, <2>1, <2>2, <2>3 DEF Record, F!Answer, F!Stg, F!MG_FALSE
  <2>5. \A k \in 1 .. n : Callsign(_s_pXmlStg, k + 2)' = Callsign(_s_pJsonStg, 2 * k + 1)'
      BY <1>4, <1>8, <2>2 DEF Callsign, n
  <2> QED
      BY <1>3, <1>8, <2>2, <2>4, <2>5 DEF FeedInv, SameFlights, n
<1> QED
    BY <1>9, <1>10

LEMMA OthersKeepTheFeed ==
    ASSUME [Next]_vars
    PROVE  F!WriteFeed \/ UNCHANGED feed
<1>1. CASE Next
    BY <1>1 DEF Next, Loop, Start, Serve, Tick, EnterLoop, TopOfLoop, PollDone, FeedUdp,
        LogEnded, Expire, Write, Restart, FirstBlock, Exit
<1>2. CASE UNCHANGED vars
    BY <1>2 DEF vars
<1> QED
    BY <1>1, <1>2

\* Whatever a client asks for while the server polls: JSON and XML name the same
\* callsigns in the same order, and there is no XML only when no flight is listed.
THEOREM FeedsAlwaysAgree == Spec => []FeedsAgree
<1>1. Init => FeedInv
    BY DEF Init, F!Init, FeedInv, Record, SameFlights
<1>2. IInv /\ FeedInv /\ [Next]_vars => FeedInv'
  <2> SUFFICES ASSUME IInv, FeedInv, [Next]_vars PROVE FeedInv'
      OBVIOUS
  <2>1. CASE F!WriteFeed
      BY <2>1, WriteFeedInv DEF FeedInv
  <2>2. CASE UNCHANGED feed
      BY <2>2 DEF feed, FeedInv, Record, SameFlights, Callsign, F!Answer, F!Stg
  <2> QED
      BY <2>1, <2>2, OthersKeepTheFeed
<1>3. FeedInv => FeedsAgree
    BY DEF FeedInv, SameFlights, FeedsAgree
<1> QED
    BY <1>1, <1>2, <1>3, SpecIInv, PTL DEF Spec

\* The JSON the server hands out is well formed whenever it lists a flight,
\* whatever log it replays and whatever the sweeps left in the table.
THEOREM ServerJsonParses == Spec => []F!JsonParsesWithFlights
<1>1. Init => F!JsonParsesWithFlights
    BY DEF Init, F!Init, F!JsonParsesWithFlights
<1>2. IInv /\ F!JsonParsesWithFlights /\ [Next]_vars => F!JsonParsesWithFlights'
  <2> SUFFICES ASSUME IInv, F!JsonParsesWithFlights, [Next]_vars
               PROVE  F!JsonParsesWithFlights'
      OBVIOUS
  <2>1. CASE F!WriteFeed
    <3>1. W!IsTable(vPilots)
        BY DEF IInv, T!IInv, T!TypeOK, W!IsTable
    <3> QED
        BY <2>1, <3>1, WriteIsWrite, FeedAssumed, W!WriteParses
  <2>2. CASE UNCHANGED feed
      BY <2>2 DEF feed, F!JsonParsesWithFlights
  <2> QED
      BY <2>1, <2>2, OthersKeepTheFeed
<1> QED
    BY <1>1, <1>2, SpecIInv, PTL DEF Spec
=============================================================================
