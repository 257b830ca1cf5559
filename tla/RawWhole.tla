------------------------------- MODULE RawWhole -------------------------------
(***************************************************************************)
(* The other way to read the raw udp log (src/cf-log.cxx): the whole file  *)
(* is read into one buffer and cut at its magics.  open_raw_log_whole      *)
(* plays the packets, split_raw_log_whole copies some of them to a new     *)
(* file.  A build chooses between this reader and the one of RawLog.       *)
(*                                                                         *)
(* A turn of the loop that finds no magic only moves on, so a step is a    *)
(* turn that finds one.  The table the packets go to is not looked at.     *)
(***************************************************************************)
EXTENDS Integers, SequencesExt, Subseqs

CONSTANTS
    Tasks,     \* what main_test may call: [job, count, begin]
    TTL,       \* m_PlayerExpires
    StartTime, MaxTime

VARIABLES
    log,       \* the file, as in RawLog
    task,      \* the call
    pc,        \* "open", "scan" or "done"
    i, bgn,    \* where the search is, and the head of the packet before it
    packet_cnt, key,
    last_expire, last_json,
    out,       \* [from, len] of what was dealt with, or written to the new file
    now

scan == <<i, bgn, packet_cnt>>
clock == <<last_expire, last_json>>
vars == <<log, task, pc, scan, key, clock, out, now>>

Init ==
    /\ task \in Tasks
    /\ pc = "open" /\ i = 0 /\ bgn = 0 /\ packet_cnt = 0 /\ key = 0
    /\ last_expire = 0 /\ last_json = 0
    /\ out = <<>> /\ now = StartTime

-----------------------------------------------------------------------------
(* The file is read in one go, or it cannot be. *)

ReadFile ==
    /\ pc = "open"
    /\ \/ log.size > 0 /\ pc' = "scan" /\ key' = key
       \/ pc' = "done" /\ key' = 1
    /\ last_expire' = now
    /\ UNCHANGED <<log, task, scan, last_json, out, now>>

\* The magic the search comes to next, and the piece in front of it.
Ahead == {m \in log.marks : i <= m}
NextMark(m) == m \in Ahead /\ \A n \in Ahead : m <= n
Piece(end) == [from |-> bgn, len |-> end - bgn]

\* bgn = i, packet_cnt++
Pass(m) ==
    /\ i' = m + 1
    /\ bgn' = m
    /\ packet_cnt' = packet_cnt + 1

\* A key pressed ends the loop.
Stop(ret) == key' = ret /\ pc' = "done"
Proceed == UNCHANGED <<key, pc>>

-----------------------------------------------------------------------------
(* open_raw_log_whole *)

Deals == packet_cnt # 0

\* The ESC key while the sim time is waited for: the packet is left alone.
StopsWaiting ==
    /\ Deals
    /\ Stop(1)
    /\ UNCHANGED <<scan, clock, out>>

DealUpTo(end) == out' = IF Deals THEN Append(out, Piece(end)) ELSE out

\* When TTL seconds have passed Expire_Pilots, when the second has changed
\* Write_JSON and Write_XML; each notes the time.
Housekeeping ==
    /\ last_expire' = IF now - last_expire > TTL THEN now ELSE last_expire
    /\ last_json' = now

PlayPacket ==
    /\ pc = "scan" /\ task.job = "play"
    /\ \E m \in Ahead :
        /\ NextMark(m)
        /\ \/ StopsWaiting
           \/ /\ DealUpTo(m) /\ Pass(m)
              /\ \/ Stop(1) /\ UNCHANGED clock
                 \/ Proceed /\ Housekeeping
    /\ UNCHANGED <<log, task, now>>

PlayLast ==
    /\ pc = "scan" /\ task.job = "play" /\ Ahead = {}
    /\ DealUpTo(log.size)
    /\ Stop(0)
    /\ UNCHANGED <<log, task, scan, clock, now>>

-----------------------------------------------------------------------------
(* split_raw_log_whole(new_log, count, begin) *)

Full(n) == task.count # 0 /\ n >= task.count

\* Variant: one packet late.
BeginsLate == packet_cnt > task.begin
Begins == packet_cnt >= task.begin
Copies(end) == end # bgn /\ packet_cnt # 0 /\ Begins
CopiesLast == log.size # bgn /\ Begins /\ ~Full(Len(out))

\* fwrite writes the piece, or fails and the loop is left.
CopyPacket ==
    /\ pc = "scan" /\ task.job = "split"
    /\ \E m \in Ahead :
        /\ NextMark(m)
        /\ \/ /\ Copies(m) /\ Stop(1)
              /\ UNCHANGED <<scan, out>>
           \/ /\ Copies(m) /\ out' = Append(out, Piece(m))
              /\ \/ Full(Len(out')) /\ Stop(0) /\ UNCHANGED scan
                 \/ ~Full(Len(out')) /\ Pass(m) /\ (Proceed \/ Stop(1))
           \/ /\ ~Copies(m) /\ Pass(m) /\ (Proceed \/ Stop(1))
              /\ UNCHANGED out
    /\ UNCHANGED <<log, task, clock, now>>

CopyLast ==
    /\ pc = "scan" /\ task.job = "split" /\ Ahead = {}
    /\ \/ CopiesLast /\ out' = Append(out, Piece(log.size)) /\ Stop(0)
       \/ CopiesLast /\ out' = out /\ Stop(1)
       \/ ~CopiesLast /\ out' = out /\ Stop(0)
    /\ UNCHANGED <<log, task, scan, clock, now>>

Tick ==
    /\ now < MaxTime
    /\ now' = now + 1
    /\ UNCHANGED <<log, task, pc, scan, key, clock, out>>

Next == ReadFile \/ PlayPacket \/ PlayLast \/ CopyPacket \/ CopyLast \/ Tick

Spec == Init /\ [][Next]_vars

-----------------------------------------------------------------------------
(* Properties *)

\* The packets of the log: from each magic to the next, the last one to the
\* end of the file.
Log ==
    LET at == Ordered(log.marks)
        n == Cardinality(log.marks)
        End(k) == IF k = n THEN log.size ELSE at[k + 1]
    IN [k \in 1 .. n |-> [from |-> at[k], len |-> End(k) - at[k]]]

\* Packets begin to begin + count - 1, counted from one; all of them from
\* begin on when count is zero.
Wanted ==
    IF task.job = "play" THEN Log
    ELSE LET from == IF task.begin = 0 THEN 1 ELSE task.begin IN
         SubSeq(Log, from, IF Full(Len(Log) - from + 1) THEN from + task.count - 1 ELSE Len(Log))

\* Whatever is dealt with, or copied, is the packets asked for, whole and in
\* order, the last one of the file among them; only a key or an error keeps
\* any of them back.
WholeReadIsComplete ==
    log.marks # {} =>
        /\ IsPrefix(out, Wanted)
        /\ pc = "done" /\ key = 0 => out = Wanted
=============================================================================
