-------------------------------- MODULE RawLog --------------------------------
(***************************************************************************)
(* The reader of the raw udp log (src/cf-log.cxx): open_raw_log,           *)
(* get_next_block and clean_up_log slide a buffer of MAX_RAW_LOG bytes     *)
(* over the file, one packet at a time.  A packet starts at a mark, the    *)
(* offset of a magic ("SFGF"), and ends where the next one starts.  The    *)
(* utility raw-log has a reader of its own with a longer magic and one     *)
(* test less (RawPackets).                                                 *)
(*                                                                         *)
(* Bytes are abstracted to offsets: the buffer always holds a contiguous   *)
(* piece of the file, so it is described by the file offset of its first   *)
(* byte.  The scan for a mark compares MagicLen bytes even where fewer are *)
(* left in the buffer; what lies behind is not the program's data, so such *)
(* a split mark may be seen or missed.                                     *)
(***************************************************************************)
EXTENDS Integers, Sequences, FiniteSets

CONSTANTS
    Logs,      \* the files: [size, marks], a mark being the offset of a magic
    MaxRawLog, \* MAX_RAW_LOG, bytes
    MagicLen,  \* bytes of the magic
    ScanFrom,  \* where the search for the next magic begins
    ChecksHead,\* a block must start with a magic
    SizeMod,   \* 2^w for a size_t of w bits
    NoBuffer   \* the buffer pointer is NULL

\* Magics do not overlap, and the file cuts none short.
LogOK(g) ==
    /\ g.size \in Nat /\ g.size < SizeMod
    /\ g.marks \subseteq 0 .. g.size - MagicLen
    /\ \A m, n \in g.marks : m < n => m + MagicLen <= n

ASSUME LogAssumption ==
    /\ MaxRawLog \in Nat /\ MagicLen \in Nat /\ SizeMod \in Nat
    /\ ScanFrom \in 1 .. MagicLen /\ ChecksHead \in BOOLEAN
    /\ MagicLen < MaxRawLog /\ MaxRawLog < SizeMod
    /\ NoBuffer \notin Nat
    /\ \A g \in Logs : LogOK(g)

VARIABLES
    log,               \* the file (never written to)
    base,              \* raw_log_buffer: the offset of its first byte, or NoBuffer
    pos,               \* raw_log_fp: the offset the next fread reads from
    raw_data_size, raw_block_size, raw_log_remaining,
    dealt              \* history: offsets given to Deal_With_Packet since the open

vars == <<log, base, pos, raw_data_size, raw_block_size, raw_log_remaining, dealt>>
sizes == <<raw_data_size, raw_block_size, raw_log_remaining>>

Open == base # NoBuffer

\* The type invariant: the sizes do not leave the range of a size_t.
TypeOK ==
    /\ log \in Logs
    /\ base \in Nat \cup {NoBuffer}
    /\ pos \in Nat
    /\ raw_data_size \in Nat
    /\ raw_block_size \in Nat
    /\ raw_log_remaining \in 0 .. SizeMod - 1
    /\ dealt \in Seq(Nat)

Init ==
    /\ log \in Logs
    /\ base = NoBuffer /\ pos = 0
    /\ raw_data_size = 0 /\ raw_block_size = 0 /\ raw_log_remaining = 0
    /\ dealt = <<>>

-----------------------------------------------------------------------------
(* Searching the buffer *)

Least(S) == CHOOSE m \in S : \A n \in S : m <= n

\* Indices of a buffer of d bytes of the file from b on, not before lo, where
\* a magic starts, and those of them where it fits in the buffer.
MagicsIn(b, lo, d) == {i \in lo .. d - 1 : b + i \in log.marks}
WholeIn(b, lo, d) == {i \in MagicsIn(b, lo, d) : i + MagicLen <= d}

\* Variant: the last magic instead of the first.
FoundLast(b, lo, d) ==
    {m \in MagicsIn(b, lo, d) : \A n \in MagicsIn(b, lo, d) : n <= m}

\* Where the scan may stop; none when it may run through.
Found(b, lo, d) ==
    IF WholeIn(b, lo, d) # {}
    THEN {Least(WholeIn(b, lo, d))}
    ELSE MagicsIn(b, lo, d)
MayMiss(b, lo, d) == WholeIn(b, lo, d) = {}

\* "either found next, or out of data": the index the scan ends at.
BlockSizes(b, d) ==
    Found(b, ScanFrom, d)
    \cup IF MayMiss(b, ScanFrom, d) THEN {IF d > ScanFrom THEN d ELSE ScanFrom} ELSE {}

-----------------------------------------------------------------------------
(* open_raw_log *)

\* The buffer is filled, the first magic moved to its head and the buffer
\* topped up; a second magic ends the first block.  Nothing of the bytes
\* before the first magic is taken off raw_log_remaining.
OpenSucceeds ==
    /\ log.size > MaxRawLog
    /\ \E bgn \in Found(0, 0, MaxRawLog) :
        /\ bgn + MaxRawLog <= log.size
        /\ \E i \in Found(bgn, ScanFrom, MaxRawLog) :
            /\ base' = bgn
            /\ pos' = bgn + MaxRawLog
            /\ raw_block_size' = i
            /\ raw_data_size' = MaxRawLog
            /\ raw_log_remaining' = log.size
    /\ dealt' = <<>>
    /\ UNCHANGED log

\* Too small a file or no two magics; or stat, malloc, fopen or fread fail.
\* Whatever the reason, only raw_log_remaining may have been written.
OpenFails ==
    /\ raw_log_remaining' \in {raw_log_remaining, log.size}
    /\ UNCHANGED <<log, base, pos, raw_data_size, raw_block_size, dealt>>

open_raw_log(ret) ==
    \/ ret = 0 /\ OpenSucceeds
    \/ ret = 1 /\ OpenFails

-----------------------------------------------------------------------------
(* get_next_block *)

Ready == Open /\ raw_block_size # 0

\* The sizes once the block was dealt with and shifted out, modulo 2^w.
\* Variant: as if signed.
RemainingUnwrapped == raw_log_remaining - raw_block_size
RemainingAfter == (raw_log_remaining - raw_block_size) % SizeMod
DataAfter == (raw_data_size - raw_block_size) % SizeMod
ToRead == IF RemainingAfter < raw_block_size THEN RemainingAfter ELSE raw_block_size

\* Variant: a whole buffer must be left in the file.
ReadsBuffer == pos + MaxRawLog <= log.size
ReadsAll == pos + ToRead <= log.size
DataRefilled == DataAfter + ToRead

\* With nothing shifted and nothing read the old bytes stay at the head.
BaseAfter == IF DataRefilled = 0 THEN base ELSE base + raw_block_size

HasNext == ReadsAll /\ (ChecksHead => BaseAfter \in log.marks)

NextBlock ==
    /\ HasNext
    /\ base' = BaseAfter
    /\ pos' = pos + ToRead
    /\ raw_data_size' = DataRefilled
    /\ raw_block_size' \in BlockSizes(BaseAfter, DataRefilled)

\* Bad_Read: a short read, or no magic at the head.  What the buffer still
\* held is freed with it.
BadRead ==
    /\ ~HasNext
    /\ base' = NoBuffer
    /\ pos' = 0
    /\ raw_data_size' = IF ReadsAll THEN DataRefilled ELSE DataAfter
    /\ raw_block_size' = 0

get_next_block(ret) ==
    \/ /\ Ready
       /\ dealt' = Append(dealt, base)
       /\ raw_log_remaining' = RemainingAfter
       /\ \/ ret = 1 /\ NextBlock
          \/ ret = 0 /\ BadRead
       /\ UNCHANGED log
    \/ /\ ~Ready /\ ret = 0
       /\ UNCHANGED vars

clean_up_log ==
    /\ base' = NoBuffer
    /\ pos' = 0
    /\ UNCHANGED <<log, sizes, dealt>>

Next ==
    \/ ~Open /\ \E ret \in {0, 1} : open_raw_log(ret)
    \/ \E ret \in {0, 1} : get_next_block(ret)
    \/ clean_up_log

Spec == Init /\ [][Next]_vars

-----------------------------------------------------------------------------
(* Properties *)

\* A log whose packets all fit the buffer, the next magic behind them
\* included; the last one leaves some of the buffer free.
Fits(g) ==
    \A m \in g.marks :
        \/ g.size - m < MaxRawLog
        \/ \E n \in g.marks : m < n /\ n - m + MagicLen <= MaxRawLog

\* The buffer and the file position never drift apart: what fread appends
\* continues what the shift left.
WindowIsContiguous ==
    Fits(log) /\ Open => pos = base + raw_data_size /\ pos <= log.size

\* Deal_With_Packet gets the packets of the log in file order, from the first
\* one on, each once: the window implements a playback of the log.
PB == INSTANCE Playback WITH played <- IF Fits(log) THEN dealt ELSE <<>>
PlaysInOrder == PB!Spec

\* The step in which get_next_block ran out of packets.
RunsOut == Open /\ ~Open' /\ dealt' # dealt

\* When get_next_block ends the log, what it never handed over is less than
\* one buffer of bytes: the packets behind the last one dealt with.
LossIsBounded ==
    [][RunsOut /\ Fits(log) =>
        \A m \in log.marks : PB!Successor(base, m) => log.size - m < MaxRawLog]_vars

\* "when the end of the log is reached" (README.md:47): get_next_block returns
\* 0 once every packet of the log has been dealt with.
EndOfLogIsTheEnd ==
    [][RunsOut =>
        \A m \in log.marks : \E k \in DOMAIN dealt' : dealt'[k] = m]_vars

=============================================================================
