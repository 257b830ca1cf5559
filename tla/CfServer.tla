------------------------------- MODULE CfServer -------------------------------
(***************************************************************************)
(* The server as a whole (src/cf-server.cxx): server_main opens the raw    *)
(* log, run_server's loop polls for HTTP requests, feeds the next packet   *)
(* of the log to the table, sweeps it, writes the feed and restarts the    *)
(* log at its end.  RawLog, PilotTable and Feed are composed here; each    *)
(* step of the loop is an action, and the clock ticks between any two.     *)
(***************************************************************************)
EXTENDS Integers, Sequences, FiniteSets

CONSTANTS
    Callsigns, Aircraft, Axes, MinChange, Packets, TTL, MaxExpired, IdSpan,
    StartTime, MaxTime,                              \* of PilotTable
    Logs, MaxRawLog, MagicLen, SizeMod, NoBuffer,    \* of RawLog
    InitSize, HeadLen, ItemLen, TailLen,             \* of Feed
    use_sim_time2,     \* the option to pace the log by its sim time
    NoReply

VARIABLES
    vPilots, m_ExpiredCnt, elapsed_sim_time, got_sim_time,
    pos_cnt, chat_cnt, failed_cnt, discard_cnt, packet_cnt, sPktStr,
    prev, eq_count, now,
    log, base, pos, raw_data_size, raw_block_size, raw_log_remaining, dealt,
    _s_pJsonStg, _s_pXmlStg,
    pc,                \* the next step of server_main and run_server
    curr,              \* the time read at the top of the loop
    last_expire, last_json,
    need_reset, reset_time,
    raw_bgn_secs,      \* when the log was opened
    iret,              \* what run_server returns
    reply,             \* the answer to the last request of this poll
    restarted          \* history: the log was opened again

P == INSTANCE PilotTable WITH MaxPackets <- 0
R == INSTANCE RawLog WITH ScanFrom <- MagicLen, ChecksHead <- TRUE
F == INSTANCE Feed WITH Tables <- {}

table == <<vPilots, m_ExpiredCnt, elapsed_sim_time, got_sim_time, pos_cnt, chat_cnt,
           failed_cnt, discard_cnt, packet_cnt, sPktStr, prev, eq_count, now>>
reader == <<log, base, pos, raw_data_size, raw_block_size, raw_log_remaining, dealt>>
feed == <<_s_pJsonStg, _s_pXmlStg>>
clock == <<curr, last_expire, last_json>>
reset == <<need_reset, reset_time>>
own == <<clock, reset, raw_bgn_secs, iret, reply, restarted>>
vars == <<table, reader, feed, pc, own>>

\* Each packet of the log, by the offset of its magic.
ASSUME ServerAssumption ==
    /\ use_sim_time2 \in BOOLEAN
    /\ \A g \in Logs : g.packet \in [g.marks -> Packets]
    /\ P!TableAssumption /\ R!LogAssumption /\ F!FeedAssumption

Steps == {"start", "enter", "top", "poll", "udp", "eof", "expire", "write",
          "reset", "first", "exit", "done"}

\* The type invariant, those of the table and of the reader included.
TypeOK ==
    /\ P!TypeOK /\ R!TypeOK
    /\ pc \in Steps
    /\ curr \in Nat /\ last_expire \in Nat /\ last_json \in Nat
    /\ need_reset \in BOOLEAN /\ reset_time \in Nat
    /\ raw_bgn_secs \in Nat /\ iret \in {0, 1} /\ restarted \in BOOLEAN

Init ==
    /\ P!Init /\ R!Init /\ F!Init
    /\ pc = "start"
    /\ curr = 0 /\ last_expire = 0 /\ last_json = 0
    /\ need_reset = FALSE /\ reset_time = 0
    /\ raw_bgn_secs = 0 /\ iret = 0
    /\ reply = NoReply /\ restarted = FALSE

-----------------------------------------------------------------------------
(* server_main *)

\* open_raw_log notes when the replay began.
OpenLog(ret) ==
    /\ R!open_raw_log(ret)
    /\ raw_bgn_secs' = IF ret = 0 THEN now ELSE raw_bgn_secs

\* A log that cannot be opened, or a port that is taken, ends the program.
Start ==
    /\ pc = "start"
    /\ \/ OpenLog(0) /\ pc' \in {"enter", "exit"}
       \/ OpenLog(1) /\ pc' = "exit"
    /\ UNCHANGED <<table, feed, clock, reset, iret, reply, restarted>>

EnterLoop ==
    /\ pc = "enter"
    /\ curr' = now /\ last_expire' = now /\ last_json' = now
    /\ pc' = "top"
    /\ UNCHANGED <<table, reader, feed, reset, raw_bgn_secs, iret, reply, restarted>>

-----------------------------------------------------------------------------
(* run_server, one turn of the loop *)

\* The time of this turn; the ESC key leaves the loop.
TopOfLoop ==
    /\ pc = "top"
    /\ curr' = now
    /\ pc' \in {"poll", "exit"}
    /\ UNCHANGED <<table, reader, feed, last_expire, last_json, reset,
                   raw_bgn_secs, iret, reply, restarted>>

\* http_poll answers any number of requests, with what was last written.
Serve ==
    /\ pc = "poll"
    /\ \/ reply' = [uri |-> "/flights.json", answer |-> F!Answer(_s_pJsonStg)]
       \/ reply' = [uri |-> "/flights.xml", answer |-> F!Answer(_s_pXmlStg)]
    /\ UNCHANGED <<table, reader, feed, pc, clock, reset, raw_bgn_secs, iret, restarted>>

PollDone ==
    /\ pc = "poll"
    /\ reply' = NoReply
    /\ pc' = "udp"
    /\ UNCHANGED <<table, reader, feed, clock, reset, raw_bgn_secs, iret, restarted>>

\* Variant: a second short.
PacedShort ==
    use_sim_time2 /\ got_sim_time /\ now - raw_bgn_secs < elapsed_sim_time - 1
\* Variant: without a look at the wall clock.
PacedForever == use_sim_time2 /\ got_sim_time

\* With sim time known, the log waits for the wall clock.
Paced == use_sim_time2 /\ got_sim_time /\ now - raw_bgn_secs < elapsed_sim_time

\* get_next_block hands its block to Deal_With_Packet and tallies the result.
get_next_block(ret) ==
    /\ R!get_next_block(ret)
    /\ IF R!Ready
       THEN \E pt \in P!Packet_Type :
                P!Deal_With_Packet(log.packet[base], pt) /\ P!Tally(pt)
       ELSE UNCHANGED table

FeedUdp ==
    /\ pc = "udp"
    /\ \/ /\ Paced \/ need_reset
          /\ pc' = "expire"
          /\ UNCHANGED <<table, reader>>
       \/ /\ ~Paced /\ ~need_reset
          /\ \/ get_next_block(1) /\ pc' = "expire"
             \/ get_next_block(0) /\ pc' = "eof"
    /\ UNCHANGED <<feed, own>>

\* No more packets: the log is closed, the table cleared, and a restart is
\* due once every flight would have expired.
LogEnded ==
    /\ pc = "eof"
    /\ need_reset' = TRUE
    /\ reset_time' = curr + TTL + 3
    /\ R!clean_up_log
    /\ P!EndOfLog
    /\ pc' = "expire"
    /\ UNCHANGED <<feed, clock, raw_bgn_secs, iret, reply, restarted>>

\* Variant: the wrong time stamp.
ExpireDueSinceWrite == curr - last_json > TTL
ExpireDue == curr - last_expire > TTL

Expire ==
    /\ pc = "expire"
    /\ IF ExpireDue
       THEN P!Expire_Pilots /\ last_expire' = curr
       ELSE UNCHANGED <<table, last_expire>>
    /\ pc' = "write"
    /\ UNCHANGED <<reader, feed, curr, last_json, reset, raw_bgn_secs, iret, reply, restarted>>

\* Both documents are written when the second has changed.
Write ==
    /\ pc = "write"
    /\ IF last_json # curr
       THEN F!WriteFeed /\ last_json' = curr
       ELSE UNCHANGED <<feed, last_json>>
    /\ pc' = "reset"
    /\ UNCHANGED <<table, reader, curr, last_expire, reset, raw_bgn_secs, iret, reply, restarted>>

\* Variant: need_reset is not tested.
RestartDueAlways == curr > reset_time
\* Variant: waits for one second instead of for any after it.
RestartDueOnTheDot == need_reset /\ curr = reset_time
RestartDue == need_reset /\ curr > reset_time

\* The log is opened again; failing that run_server gives up.
Restart ==
    /\ pc = "reset"
    /\ \/ ~RestartDue /\ pc' = "top" /\ UNCHANGED <<reader, raw_bgn_secs, iret, restarted>>
       \/ /\ RestartDue
          /\ \/ OpenLog(0) /\ pc' = "first" /\ restarted' = TRUE /\ iret' = iret
             \/ OpenLog(1) /\ pc' = "exit" /\ restarted' = restarted /\ iret' = 1
    /\ UNCHANGED <<table, feed, clock, reset, reply>>

\* The first packet of the reopened log, or the end.
FirstBlock ==
    /\ pc = "first"
    /\ \/ get_next_block(1) /\ need_reset' = FALSE /\ pc' = "top" /\ iret' = iret
       \/ get_next_block(0) /\ need_reset' = need_reset /\ pc' = "exit" /\ iret' = 1
    /\ UNCHANGED <<feed, clock, reset_time, raw_bgn_secs, reply, restarted>>

\* main closes the log and clears the table.
Exit ==
    /\ pc = "exit"
    /\ R!clean_up_log
    /\ P!clean_up_pilots
    /\ pc' = "done"
    /\ UNCHANGED <<m_ExpiredCnt, elapsed_sim_time, got_sim_time, pos_cnt, chat_cnt,
                   failed_cnt, discard_cnt, packet_cnt, sPktStr, prev, eq_count,
                   now, feed, own>>

Tick == P!Tick /\ UNCHANGED <<reader, feed, pc, own>>

Loop ==
    \/ EnterLoop \/ TopOfLoop \/ PollDone \/ FeedUdp \/ LogEnded
    \/ Expire \/ Write \/ Restart \/ FirstBlock \/ Exit

Next == Start \/ Loop \/ Serve \/ Tick

\* The loop never blocks: every wait in it has a timeout.  Time passes.
Fairness == WF_vars(Loop) /\ WF_vars(Tick)

Spec == Init /\ [][Next]_vars
FairSpec == Spec /\ Fairness

-----------------------------------------------------------------------------
(* Properties *)

LiveFlights == {i \in DOMAIN vPilots : ~vPilots[i].expired}

\* Expiry works in two periods: a sweep lets a flight stay that was silent
\* for TTL seconds, and the next one is up to TTL seconds away.  So whatever
\* the loop was held up by, a document is never written with a flight that
\* was last heard more than 2 * TTL seconds before the loop's time.
NoFlightOverstays ==
    /\ \A i \in LiveFlights : vPilots[i].last_seen + TTL >= last_expire
    /\ pc = "write" =>
        \A i \in LiveFlights : vPilots[i].last_seen + 2 * TTL >= curr

\* Between the end of the log and the first packet of its next run the log
\* is closed, no flight is listed and the sim timing is off; otherwise the
\* log is open, so get_next_block never works on a missing buffer.
ResetIsClean ==
    pc \in {"top", "poll", "udp", "expire", "write", "reset"} =>
        /\ need_reset <=> ~R!Open
        /\ need_reset => vPilots = <<>> /\ ~got_sim_time

\* What a client can read while the server polls: XML and JSON list the same
\* callsigns in the same order; without XML the JSON lists no flight.
Callsign(stg, k) == stg.buf[k].callsign
FeedsAgree ==
    pc = "poll" /\ _s_pJsonStg # F!NoStg =>
        LET n == _s_pJsonStg.buf[Len(_s_pJsonStg.buf)].count IN
        IF F!Answer(_s_pXmlStg) = F!MG_FALSE
        THEN n = 0
        ELSE /\ Len(_s_pXmlStg.buf) = n + 3
             /\ \A k \in 1 .. n :
                Callsign(_s_pXmlStg, k + 2) = Callsign(_s_pJsonStg, 2 * k + 1)

\* The server drives the reader as its comments ask: a log is opened only
\* while none is open, so no file and no buffer is lost.
DrivesRawLog == R!Spec

\* "can be used to 'regulate' calls to get_next_block()" (cf-log.cxx:117):
\* with the option on, a packet of the first run of the log is dealt with
\* only once the wall clock has passed the sim time of every listed flight.
Dealt == packet_cnt' # packet_cnt
OnTime ==
    \A i \in DOMAIN vPilots :
        vPilots[i].sim_time - vPilots[i].first_sim_time <= now - raw_bgn_secs
FirstRunIsPaced == [][use_sim_time2 /\ Dealt /\ ~restarted => OnTime]_vars

\* "the log restarted from the beginning" (README.md:48): after its end the
\* log runs again, or the program ends because it cannot be read any more.
LogRestarts ==
    need_reset /\ reset_time < MaxTime ~> ~need_reset \/ pc \in {"exit", "done"}

\* An open log is played to its end, however the packets are paced: the
\* wait for the sim time is never a wait forever.  The clock must be able to
\* pass the longest flight the packets make up.
ClockReaches ==
    \A p, q \in Packets : raw_bgn_secs + (p.sim - q.sim) <= MaxTime
LogIsPlayed == R!Open /\ ClockReaches ~> ~R!Open

=============================================================================
