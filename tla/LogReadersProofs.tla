---------------------------- MODULE LogReadersProofs ----------------------------
(***************************************************************************)
(* Theorems about the two readers of the raw log.  Of RawLog, for every    *)
(* log and every size of the buffer: the sizes keep their type, the window *)
(* stays in step with the file, the packets are handed over as Playback    *)
(* promises, and what is lost at the end of a log is less than a buffer.   *)
(* Of RawWhole: what is played, or copied, is the packets asked for.       *)
(***************************************************************************)
EXTENDS LogReaders, SubseqProofs

-----------------------------------------------------------------------------
(* Numbers *)

LEMMA LeastIsLeast ==
    ASSUME NEW S, S \subseteq Nat, S # {}
    PROVE  Least(S) \in S /\ \A n \in S : Least(S) <= n
BY LeastExists DEF Least

\* A size_t keeps its range, and what fits in it is not changed.
LEMMA Modulo ==
    ASSUME NEW n \in Int
    PROVE  /\ n % SizeMod \in 0 .. SizeMod - 1
           /\ 0 <= n /\ n < SizeMod => n % SizeMod = n
<1>1. SizeMod \in Nat /\ SizeMod > 0
    BY LogAssumption
<1> QED
    BY <1>1

-----------------------------------------------------------------------------
(* Searching the buffer *)

LEMMA MarksType ==
    ASSUME TypeOK
    PROVE  /\ log \in Logs /\ LogOK(log)
           /\ log.size \in Nat /\ log.size < SizeMod
           /\ \A m \in log.marks : m \in Nat /\ m + MagicLen <= log.size
           /\ \A m, n \in log.marks : m < n => m + MagicLen <= n
BY LogAssumption DEF TypeOK, LogOK

LEMMA FoundType ==
    ASSUME NEW b, NEW lo \in Nat, NEW d \in Nat
    PROVE  \A x \in Found(b, lo, d) : x \in MagicsIn(b, lo, d) /\ x \in Nat /\ lo <= x /\ x < d
<1>1. \A x \in MagicsIn(b, lo, d) : x \in Nat /\ lo <= x /\ x < d
    BY DEF MagicsIn
<1>2. WholeIn(b, lo, d) \subseteq MagicsIn(b, lo, d)
    BY DEF WholeIn
<1>3. WholeIn(b, lo, d) # {} => Least(WholeIn(b, lo, d)) \in WholeIn(b, lo, d)
    BY <1>1, <1>2, LeastIsLeast
<1> QED
    BY <1>1, <1>2, <1>3 DEF Found

LEMMA BlockSizesType ==
    ASSUME NEW b, NEW d \in Nat
    PROVE  \A x \in BlockSizes(b, d) : x \in Nat \ {0}
<1>1. ScanFrom \in Nat \ {0}
    BY LogAssumption
<1>2. \A x \in Found(b, ScanFrom, d) : x \in Nat \ {0}
    BY <1>1, FoundType
<1> QED
    BY <1>1, <1>2 DEF BlockSizes

-----------------------------------------------------------------------------
(* Type correctness *)

\* Opening gives every variable of the reader a value of its type.
LEMMA OpenType ==
    ASSUME TypeOK, NEW ret \in {0, 1}, open_raw_log(ret)
    PROVE  TypeOK'
<1>1. CASE OpenFails
    BY <1>1, MarksType, LogAssumption DEF OpenFails, TypeOK
<1>2. CASE OpenSucceeds
  <2>1. PICK head \in Found(0, 0, MaxRawLog) :
            /\ base' = head /\ pos' = head + MaxRawLog
            /\ \E x \in Found(head, ScanFrom, MaxRawLog) : raw_block_size' = x
            /\ raw_data_size' = MaxRawLog
            /\ raw_log_remaining' = log.size
      BY <1>2 DEF OpenSucceeds
  <2>2. MaxRawLog \in Nat /\ ScanFrom \in Nat
      BY LogAssumption
  <2>3. head \in Nat
      BY <2>2, FoundType
  <2>4. raw_block_size' \in Nat
      BY <2>1, <2>2, FoundType
  <2>5. log' = log /\ dealt' = <<>> /\ log.size \in 0 .. SizeMod - 1
      BY <1>2, MarksType, LogAssumption DEF OpenSucceeds
  <2> QED
      BY <2>1, <2>2, <2>3, <2>4, <2>5 DEF TypeOK
<1> QED
    BY <1>1, <1>2 DEF open_raw_log

\* The sizes get_next_block computes are those of a size_t.
LEMMA SizesType ==
    ASSUME TypeOK
    PROVE  /\ RemainingAfter \in 0 .. SizeMod - 1
           /\ DataAfter \in Nat /\ ToRead \in Nat /\ DataRefilled \in Nat
           /\ ToRead <= raw_block_size /\ ToRead <= RemainingAfter
<1>1. /\ raw_log_remaining - raw_block_size \in Int
      /\ raw_data_size - raw_block_size \in Int
    BY LogAssumption DEF TypeOK
<1>2. RemainingAfter \in 0 .. SizeMod - 1 /\ DataAfter \in 0 .. SizeMod - 1
    BY <1>1, Modulo DEF RemainingAfter, DataAfter
<1> QED
    BY <1>2, LogAssumption DEF ToRead, DataRefilled, TypeOK

LEMMA BlockType ==
    ASSUME TypeOK, NEW ret \in {0, 1}, get_next_block(ret)
    PROVE  TypeOK'
<1>1. CASE UNCHANGED vars
    BY <1>1 DEF TypeOK, vars
<1>2. CASE Ready /\ ~UNCHANGED vars
  <2>1. /\ dealt' = Append(dealt, base) /\ raw_log_remaining' = RemainingAfter
        /\ log' = log /\ base \in Nat
      BY <1>2 DEF get_next_block, Ready, Open, TypeOK
  <2>2. dealt' \in Seq(Nat) /\ raw_log_remaining' \in 0 .. SizeMod - 1 /\ log' \in Logs
      BY <2>1, SizesType DEF TypeOK
  <2>3. CASE NextBlock
    <3>1. base' \in Nat /\ pos' \in Nat /\ raw_data_size' \in Nat
        BY <2>1, <2>3, SizesType DEF NextBlock, BaseAfter, TypeOK
    <3>2. raw_block_size' \in Nat
        BY <2>3, SizesType, BlockSizesType DEF NextBlock
    <3> QED
        BY <2>2, <3>1, <3>2 DEF TypeOK
  <2>4. CASE BadRead
      BY <2>2, <2>4, SizesType DEF BadRead, TypeOK
  <2> QED
      BY <1>2, <2>3, <2>4 DEF get_next_block
<1> QED
    BY <1>1, <1>2 DEF get_next_block

LEMMA NextType ==
    ASSUME TypeOK, [Next]_vars
    PROVE  TypeOK'
<1>1. ASSUME NEW ret \in {0, 1}, open_raw_log(ret) PROVE TypeOK'
    BY <1>1, OpenType
<1>2. ASSUME NEW ret \in {0, 1}, get_next_block(ret) PROVE TypeOK'
    BY <1>2, BlockType
<1>3. CASE clean_up_log
    BY <1>3 DEF clean_up_log, sizes, TypeOK
<1>4. CASE UNCHANGED vars
    BY <1>4 DEF vars, TypeOK
<1> QED
    BY <1>1, <1>2, <1>3, <1>4 DEF Next

LEMMA InitType == Init => TypeOK
BY LogAssumption DEF Init, TypeOK

\* Whatever the log, the sizes of the reader stay what a size_t can hold.
THEOREM SpecTypeOK == Spec => []TypeOK
<1>1. Init => TypeOK
    BY InitType
<1>2. TypeOK /\ [Next]_vars => TypeOK'
    BY NextType
<1> QED
    BY <1>1, <1>2, PTL DEF Spec

-----------------------------------------------------------------------------
(* The window *)

\* While a log that fits is open, the buffer is full, starts at a packet which
\* is the next one to hand over and holds the whole of it, and what is counted
\* as remaining covers at least the file from the buffer on.
Window ==
    Open /\ Fits(log) =>
        /\ raw_data_size = MaxRawLog
        /\ base \in log.marks /\ PB!NextInLine(base)
        /\ pos = base + MaxRawLog /\ pos <= log.size
        /\ PB!Successor(base, base + raw_block_size)
        /\ raw_block_size + MagicLen <= MaxRawLog
        /\ log.size - base <= raw_log_remaining /\ raw_log_remaining <= log.size

IInv == TypeOK /\ Window

\* Where the magic found in a buffer that starts at b is whole and is not the
\* one at b itself, the packet at b ends with it.
LEMMA NextMark ==
    ASSUME TypeOK, NEW b \in log.marks, NEW d \in Nat,
           WholeIn(b, ScanFrom, d) # {},
           NEW x, x = Least(WholeIn(b, ScanFrom, d))
    PROVE  /\ x \in Nat /\ 0 < x /\ x + MagicLen <= d
           /\ PB!Successor(b, b + x)
<1> DEFINE InBuffer == WholeIn(b, ScanFrom, d)
<1>1. /\ MagicLen \in Nat /\ ScanFrom \in Nat /\ 0 < ScanFrom /\ ScanFrom <= MagicLen
    BY LogAssumption
<1>2. b \in Nat /\ \A m \in log.marks : m \in Nat
    BY MarksType
<1>3. \A k : k \in InBuffer <=> /\ k \in Nat /\ ScanFrom <= k /\ k + MagicLen <= d
                         /\ b + k \in log.marks
    BY <1>1, <1>2 DEF WholeIn, MagicsIn
<1>4. x \in InBuffer /\ \A k \in InBuffer : x <= k
    BY <1>3, LeastIsLeast
<1>5. x \in Nat /\ ScanFrom <= x /\ x + MagicLen <= d /\ b + x \in log.marks
    BY <1>3, <1>4
<1>6. ASSUME NEW m \in log.marks, b < m PROVE b + x <= m
  <2>1. b + MagicLen <= m /\ m \in Nat
      BY <1>6, MarksType
  <2>2. CASE m - b + MagicLen <= d
    <3>1. m - b \in InBuffer
        BY <1>1, <1>2, <1>3, <2>1, <2>2
    <3> QED
        BY <1>2, <1>4, <1>5, <2>1, <3>1
  <2>3. CASE m - b + MagicLen > d
      BY <1>1, <1>2, <1>5, <2>1, <2>3
  <2> QED
      BY <1>1, <1>2, <2>1, <2>2, <2>3
<1>7. b < b + x
    BY <1>1, <1>2, <1>5
<1>8. \A m \in log.marks : m <= b \/ b + x <= m
    BY <1>2, <1>6
<1> QED
    BY <1>1, <1>5, <1>7, <1>8 DEF PB!Successor

\* In a log that fits, a full buffer that starts at a packet holds the magic
\* behind it, whole.
LEMMA FullBufferHoldsNext ==
    ASSUME TypeOK, Fits(log), NEW b \in log.marks, b + MaxRawLog <= log.size
    PROVE  WholeIn(b, ScanFrom, MaxRawLog) # {}
<1>1. /\ MagicLen \in Nat /\ ScanFrom \in Nat /\ ScanFrom <= MagicLen
      /\ MaxRawLog \in Nat /\ 0 < MagicLen
    BY LogAssumption
<1>2. b \in Nat /\ log.size \in Nat
    BY MarksType
<1>3. PICK n \in log.marks : b < n /\ n - b + MagicLen <= MaxRawLog
    BY <1>1, <1>2 DEF Fits
<1>4. n \in Nat /\ b + MagicLen <= n
    BY <1>3, MarksType
<1>5. b + (n - b) = n
    BY <1>2, <1>4
<1>6. n - b \in WholeIn(b, ScanFrom, MaxRawLog)
    BY <1>1, <1>2, <1>3, <1>4, <1>5 DEF WholeIn, MagicsIn
<1> QED
    BY <1>6

\* The first magic found in the buffer that starts the file is the first one
\* of the file, a magic that is cut off by the end of the buffer included.
LEMMA FirstMark ==
    ASSUME TypeOK, NEW m \in Found(0, 0, MaxRawLog)
    PROVE  PB!First(m) /\ m \in Nat
<1> DEFINE InBuffer == WholeIn(0, 0, MaxRawLog)
<1>1. MagicLen \in Nat /\ MaxRawLog \in Nat /\ 0 < MagicLen
    BY LogAssumption
<1>2. \A k \in log.marks : k \in Nat
    BY MarksType
<1>3. \A k : k \in MagicsIn(0, 0, MaxRawLog) <=> k \in log.marks /\ k < MaxRawLog
    BY <1>1, <1>2 DEF MagicsIn
<1>4. \A k : k \in InBuffer <=> k \in log.marks /\ k + MagicLen <= MaxRawLog
    BY <1>1, <1>2, <1>3 DEF WholeIn
<1>5. m \in log.marks /\ m \in Nat /\ m < MaxRawLog
    BY <1>1, <1>2, <1>3, FoundType
<1>6. ASSUME NEW k \in log.marks PROVE m <= k
  <2>1. CASE InBuffer # {}
    <3>1. m \in InBuffer /\ \A n \in InBuffer : m <= n
        BY <1>2, <1>4, <2>1, LeastIsLeast DEF Found
    <3> QED
        BY <1>1, <1>2, <1>4, <1>5, <3>1
  <2>2. CASE InBuffer = {}
    <3>1. k + MagicLen > MaxRawLog
        BY <1>1, <1>2, <1>4, <2>2
    <3>2. k < m => k + MagicLen <= m
        BY <1>5, MarksType
    <3> QED
        BY <1>1, <1>2, <1>5, <3>1, <3>2
  <2> QED
      BY <2>1, <2>2
<1> QED
    BY <1>5, <1>6 DEF PB!First

\* Opening a log puts the window at its first packet.
LEMMA OpenWindow ==
    ASSUME TypeOK, TypeOK', Fits(log), OpenSucceeds
    PROVE  Window'
<1>1. PICK b \in Found(0, 0, MaxRawLog) :
          /\ b + MaxRawLog <= log.size
          /\ \E x \in Found(b, ScanFrom, MaxRawLog) :
              /\ base' = b
              /\ pos' = b + MaxRawLog
              /\ raw_block_size' = x
              /\ raw_data_size' = MaxRawLog
              /\ raw_log_remaining' = log.size
    BY DEF OpenSucceeds
<1>2. PB!First(b) /\ b \in Nat /\ b \in log.marks
    BY FirstMark DEF PB!First
<1>3. MaxRawLog \in Nat /\ log.size \in Nat
    BY MarksType, LogAssumption
<1>4. WholeIn(b, ScanFrom, MaxRawLog) # {}
    BY <1>1, <1>2, FullBufferHoldsNext
<1>5. raw_block_size' = Least(WholeIn(b, ScanFrom, MaxRawLog))
    BY <1>1, <1>4 DEF Found
<1>6. PB!Successor(b, b + raw_block_size') /\ raw_block_size' + MagicLen <= MaxRawLog
    BY <1>2, <1>3, <1>4, <1>5, NextMark
<1>7. log' = log /\ dealt' = <<>>
    BY DEF OpenSucceeds
<1>8. PB!NextInLine(b)'
    BY <1>2, <1>7 DEF PB!NextInLine, PB!First
<1>9. PB!Successor(base, base + raw_block_size)'
    BY <1>1, <1>6, <1>7 DEF PB!Successor
<1> QED
    BY <1>1, <1>2, <1>3, <1>6, <1>7, <1>8, <1>9 DEF Window

\* A full window has read to the end of the file when less than a block is
\* counted as remaining; nothing wraps.
LEMMA FullWindow ==
    ASSUME TypeOK, Window, Open, Fits(log)
    PROVE  /\ raw_block_size \in Nat /\ base \in Nat /\ log.size \in Nat
           /\ 0 < raw_block_size /\ raw_block_size < MaxRawLog
           /\ Ready
           /\ RemainingAfter = raw_log_remaining - raw_block_size
           /\ DataAfter = MaxRawLog - raw_block_size
           /\ BaseAfter = base + raw_block_size /\ BaseAfter \in log.marks
           /\ ReadsAll => ToRead = raw_block_size /\ DataRefilled = MaxRawLog
           /\ HasNext <=> ReadsAll
<1>1. /\ MaxRawLog \in Nat /\ MagicLen \in Nat /\ 0 < MagicLen /\ SizeMod \in Nat
      /\ MaxRawLog < SizeMod
    BY LogAssumption
<1>2. base \in Nat /\ log.size \in Nat /\ log.size < SizeMod /\ raw_block_size \in Nat
    BY MarksType DEF TypeOK, Open
<1>3. /\ raw_data_size = MaxRawLog
      /\ pos = base + MaxRawLog /\ pos <= log.size
      /\ raw_block_size + MagicLen <= MaxRawLog
      /\ log.size - base <= raw_log_remaining /\ raw_log_remaining <= log.size
      /\ base + raw_block_size \in log.marks /\ base < base + raw_block_size
    BY DEF Window, PB!Successor
<1>4. 0 < raw_block_size /\ raw_block_size < MaxRawLog /\ raw_log_remaining \in Nat
    BY <1>1, <1>2, <1>3 DEF TypeOK
<1>5. RemainingAfter = raw_log_remaining - raw_block_size
  <2>1. /\ raw_log_remaining - raw_block_size \in Int
        /\ 0 <= raw_log_remaining - raw_block_size
        /\ raw_log_remaining - raw_block_size < SizeMod
      BY <1>1, <1>2, <1>3, <1>4
  <2> QED
      BY <2>1, Modulo DEF RemainingAfter
<1>6. DataAfter = MaxRawLog - raw_block_size
  <2>1. /\ MaxRawLog - raw_block_size \in Int
        /\ 0 <= MaxRawLog - raw_block_size
        /\ MaxRawLog - raw_block_size < SizeMod
      BY <1>1, <1>2, <1>4
  <2> QED
      BY <1>3, <2>1, Modulo DEF DataAfter
<1>7. ReadsAll => ToRead = raw_block_size
    BY <1>1, <1>2, <1>3, <1>4, <1>5 DEF ReadsAll, ToRead
<1>8. ReadsAll => DataRefilled = MaxRawLog
    BY <1>1, <1>2, <1>6, <1>7 DEF DataRefilled
<1>9. BaseAfter = base + raw_block_size /\ BaseAfter \in log.marks
  <2>1. DataRefilled # 0
      BY <1>1, <1>2, <1>4, <1>6, SizesType DEF DataRefilled
  <2> QED
      BY <1>3, <2>1 DEF BaseAfter
<1>10. HasNext <=> ReadsAll
    BY <1>9 DEF HasNext
<1>11. Ready
    BY <1>4 DEF Ready
<1> QED
    BY <1>2, <1>4, <1>5, <1>6, <1>7, <1>8, <1>9, <1>10, <1>11

\* Shifting a block out and reading as much keeps the window full and puts it
\* at the packet behind the one handed over.
LEMMA NextBlockWindow ==
    ASSUME TypeOK, TypeOK', Window, Open, Fits(log), NextBlock,
           dealt' = Append(dealt, base), raw_log_remaining' = RemainingAfter, log' = log
    PROVE  Window'
<1>1. /\ MaxRawLog \in Nat /\ raw_block_size \in Nat /\ base \in Nat /\ log.size \in Nat
      /\ raw_log_remaining \in Nat /\ pos \in Nat
    BY FullWindow, LogAssumption DEF TypeOK
<1>2. ReadsAll /\ ToRead = raw_block_size /\ DataRefilled = MaxRawLog
    BY FullWindow DEF NextBlock
<1>3. base' = base + raw_block_size /\ base' \in log.marks /\ raw_data_size' = MaxRawLog
    BY <1>2, FullWindow DEF NextBlock
<1>4. pos' = base' + MaxRawLog /\ pos' <= log.size
    BY <1>1, <1>2, <1>3 DEF NextBlock, Window, ReadsAll
<1>5. WholeIn(base', ScanFrom, MaxRawLog) # {}
    BY <1>3, <1>4, FullBufferHoldsNext
<1>6. raw_block_size' = Least(WholeIn(base', ScanFrom, MaxRawLog))
    BY <1>2, <1>3, <1>5, FullWindow DEF NextBlock, BlockSizes, Found, MayMiss
<1>7. PB!Successor(base', base' + raw_block_size') /\ raw_block_size' + MagicLen <= MaxRawLog
    BY <1>1, <1>3, <1>5, <1>6, NextMark
<1>8. PB!Successor(base, base + raw_block_size)'
    BY <1>7 DEF PB!Successor
<1>9. /\ log.size - base' <= raw_log_remaining' /\ raw_log_remaining' <= log.size
    BY <1>1, <1>3, FullWindow DEF Window
<1>10. PB!NextInLine(base)'
  <2>1. dealt \in Seq(Nat)
      BY DEF TypeOK
  <2>2. Len(dealt') = Len(dealt) + 1 /\ dealt'[Len(dealt) + 1] = base /\ Len(dealt) \in Nat
      BY <1>1, <2>1
  <2>3. dealt' # <<>>
      BY <2>1, <2>2
  <2>4. PB!Successor(base, base')
      BY <1>3 DEF Window
  <2> QED
      BY <2>2, <2>3, <2>4 DEF PB!NextInLine, PB!Successor
<1> QED
    BY <1>3, <1>4, <1>7, <1>8, <1>9, <1>10 DEF Window

LEMMA NextWindow ==
    ASSUME IInv, [Next]_vars
    PROVE  IInv'
<1>1. TypeOK /\ Window /\ TypeOK'
    BY NextType DEF IInv
<1>2. ASSUME NEW ret \in {0, 1}, ~Open, open_raw_log(ret) PROVE Window'
  <2>1. CASE OpenSucceeds
    <3>1. log' = log /\ (Fits(log)' => Fits(log))
        BY <2>1 DEF OpenSucceeds, Fits
    <3> QED
        BY <1>1, <2>1, <3>1, OpenWindow DEF Window
  <2>2. CASE OpenFails
      BY <1>2, <2>2 DEF OpenFails, Window, Open
  <2> QED
      BY <1>2, <2>1, <2>2 DEF open_raw_log
<1>3. ASSUME NEW ret \in {0, 1}, get_next_block(ret), ~UNCHANGED vars PROVE Window'
  <2>1. /\ Open /\ log' = log /\ (Fits(log)' => Fits(log))
        /\ dealt' = Append(dealt, base) /\ raw_log_remaining' = RemainingAfter
        /\ NextBlock \/ BadRead
      BY <1>3 DEF get_next_block, Ready, Fits
  <2>2. CASE NextBlock
      BY <1>1, <2>1, <2>2, NextBlockWindow DEF Window
  <2>3. CASE BadRead
      BY <2>3 DEF BadRead, Window, Open
  <2> QED
      BY <2>1, <2>2, <2>3
<1>4. CASE clean_up_log
    BY <1>1, <1>4 DEF clean_up_log, IInv, Window, Open
<1>5. CASE UNCHANGED vars
  <2>1. Window' <=> Window
      BY <1>5 DEF vars, Window, Open, Fits, PB!NextInLine, PB!First, PB!Successor
  <2> QED
      BY <1>1, <2>1 DEF IInv
<1> QED
    BY <1>1, <1>2, <1>3, <1>4, <1>5 DEF IInv, Next

LEMMA InitWindow == Init => IInv
BY InitType DEF Init, IInv, Window, Open

LEMMA SpecIInv == Spec => []IInv
<1>1. Init => IInv
    BY InitWindow
<1>2. IInv /\ [Next]_vars => IInv'
    BY NextWindow
<1> QED
    BY <1>1, <1>2, PTL DEF Spec

\* The buffer of get_next_block continues at the file position, whatever the
\* sizes of the packets: what fread appends follows what the shift left.
THEOREM SpecWindowIsContiguous == Spec => []WindowIsContiguous
<1>1. IInv => WindowIsContiguous
    BY DEF IInv, Window, WindowIsContiguous
<1> QED
    BY <1>1, SpecIInv, PTL

-----------------------------------------------------------------------------
(* What the window is for *)

\* A step of the reader is a step of a playback, or none of its business.
LEMMA StepPlays ==
    ASSUME IInv, [Next]_vars
    PROVE  [PB!Next]_(PB!vars)
<1>1. TypeOK /\ Window
    BY DEF IInv
<1> DEFINE played == IF Fits(log) THEN dealt ELSE <<>>
<1>2. CASE dealt' = dealt /\ log' = log
  <2>1. UNCHANGED PB!vars
      BY <1>2 DEF PB!vars, Fits
  <2> QED
      BY <2>1
<1>3. CASE dealt' = <<>> /\ log' = log
    BY <1>3 DEF PB!Next, PB!Rewind, Fits
<1>4. CASE Open /\ dealt' = Append(dealt, base) /\ log' = log
  <2>1. CASE Fits(log)
    <3>1. base \in log.marks /\ PB!NextInLine(base)
        BY <1>1, <1>4, <2>1 DEF Window
    <3>2. PB!Play
        BY <1>4, <2>1, <3>1 DEF PB!Play, Fits
    <3> QED
        BY <3>2 DEF PB!Next
  <2>2. CASE ~Fits(log)
    <3>1. UNCHANGED PB!vars
        BY <1>4, <2>2 DEF PB!vars, Fits
    <3> QED
        BY <3>1
  <2> QED
      BY <2>1, <2>2
<1>5. ASSUME NEW ret \in {0, 1}, open_raw_log(ret)
      PROVE  log' = log /\ (dealt' = <<>> \/ dealt' = dealt)
    BY <1>5 DEF open_raw_log, OpenSucceeds, OpenFails
<1>6. ASSUME NEW ret \in {0, 1}, get_next_block(ret)
      PROVE  /\ log' = log
             /\ (Open /\ dealt' = Append(dealt, base)) \/ dealt' = dealt
    BY <1>6 DEF get_next_block, Ready, vars
<1>7. clean_up_log \/ UNCHANGED vars => log' = log /\ dealt' = dealt
    BY DEF clean_up_log, vars
<1> QED
    BY <1>2, <1>3, <1>4, <1>5, <1>6, <1>7 DEF Next

\* get_next_block hands the packets of a log that fits over in file order, from
\* the first one on, each once, however often the log is opened again.
THEOREM SpecPlaysInOrder == Spec => PlaysInOrder
<1>1. Init => PB!Init
    BY DEF Init, PB!Init
<1>2. IInv /\ [Next]_vars => [PB!Next]_(PB!vars)
    BY StepPlays
<1> QED
    BY <1>1, <1>2, SpecIInv, PTL DEF Spec, PlaysInOrder, PB!Spec

\* Running out of packets is a short read: the packet behind the last one dealt
\* with starts less than a buffer before the end of the file.
LEMMA StepLoses ==
    ASSUME IInv, Next, RunsOut, Fits(log),
           NEW m \in log.marks, PB!Successor(base, m)
    PROVE  log.size - m < MaxRawLog
<1>1. TypeOK /\ Window /\ Open
    BY DEF IInv, RunsOut
<1>2. BadRead
  <2>1. ASSUME NEW ret \in {0, 1}, get_next_block(ret) PROVE BadRead
    <3>1. BaseAfter # NoBuffer
        BY <1>1, FullWindow, LogAssumption
    <3> QED
        BY <2>1, <3>1 DEF get_next_block, RunsOut, Open, vars, NextBlock
  <2>2. ~clean_up_log
      BY DEF clean_up_log, RunsOut
  <2> QED
      BY <1>1, <2>1, <2>2 DEF Next
<1>3. ~ReadsAll
    BY <1>1, <1>2, FullWindow DEF BadRead
<1>4. /\ MaxRawLog \in Nat /\ raw_block_size \in Nat /\ base \in Nat /\ log.size \in Nat
      /\ m \in Nat
    BY <1>1, FullWindow, MarksType, LogAssumption
<1>5. m = base + raw_block_size
  <2>1. PB!Successor(base, base + raw_block_size)
      BY <1>1 DEF Window
  <2> QED
      BY <1>4, <2>1, FullWindow DEF PB!Successor
<1>6. log.size < base + MaxRawLog + ToRead /\ ToRead <= raw_block_size /\ ToRead \in Nat
    BY <1>1, <1>3, <1>4, SizesType DEF ReadsAll, Window
<1> QED
    BY <1>4, <1>5, <1>6

\* What get_next_block never hands over at the end of a log is less than a
\* buffer of bytes.
THEOREM SpecLossIsBounded == Spec => LossIsBounded
<1> DEFINE Lost == RunsOut /\ Fits(log) =>
               \A m \in log.marks : PB!Successor(base, m) => log.size - m < MaxRawLog
<1>1. IInv /\ [Next]_vars => [Lost]_vars
    BY StepLoses
<1> HIDE DEF Lost
<1>2. Spec => [][Lost]_vars
    BY <1>1, SpecIInv, PTL DEF Spec
<1> QED
    BY <1>2 DEF Lost, LossIsBounded


-----------------------------------------------------------------------------
(* The reader of the whole file *)

heads == W!Ordered(log.marks)
number == Cardinality(log.marks)

\* The first packet asked for, and whether there is a limit to them.
first == IF task.job = "split" /\ task.begin # 0 THEN task.begin ELSE 1
Limited == task.job = "split" /\ task.count # 0

\* The packets that have been dealt with when c heads were passed.
Past(c) == IF c > first THEN c - first ELSE 0

\* The search stands behind a head, and the packets in front of it are done.
Searches ==
    /\ packet_cnt \in 0 .. number
    /\ packet_cnt = 0 => i = 0 /\ bgn = 0
    /\ packet_cnt # 0 => bgn = heads[packet_cnt] /\ i = bgn + 1

PieceType == [from : Nat, len : Int]
TakenInOrder ==
    /\ out \in Seq(PieceType)
    /\ \A k \in 1 .. Len(out) : first - 1 + k <= number /\ out[k] = W!Log[first - 1 + k]
    /\ Limited => Len(out) <= task.count

Remains == number - first + 1
AllTaken ==
    \/ Limited /\ Remains >= task.count /\ Len(out) = task.count
    \/ ~(Limited /\ Remains >= task.count) /\ Remains >= 0 /\ Len(out) = Remains
    \/ Remains < 0 /\ Len(out) = 0

WholeInv ==
    /\ log \in Logs /\ task \in Tasks
    /\ pc \in {"open", "scan", "done"}
    /\ log.marks # {} =>
        /\ Searches /\ TakenInOrder
        /\ pc \in {"open", "scan"} =>
            /\ Len(out) = Past(packet_cnt)
            /\ Limited => Len(out) < task.count
        /\ pc = "done" /\ key = 0 => AllTaken

\* RawWhole orders and counts as SubseqProofs does.
LEMMA OrderIsOrder ==
    ASSUME NEW S
    PROVE  W!Cardinality(S) = Cardinality(S) /\ W!Ordered(S) = Ordered(S)
<1>1. W!Cardinality(S) = Cardinality(S)
    BY DEF W!Cardinality, Cardinality
<1> QED
    BY <1>1 DEF W!Ordered, Ordered

LEMMA HeadsInOrder ==
    ASSUME log \in Logs
    PROVE  /\ number \in Nat
           /\ heads \in [1 .. number -> log.marks]
           /\ \A k \in 1 .. number : heads[k] \in Nat /\ heads[k] # log.size
           /\ \A j, k \in 1 .. number : j < k => heads[j] < heads[k]
           /\ \A m \in log.marks : \E k \in 1 .. number : heads[k] = m
           /\ log.marks # {} => number # 0
           /\ log.size \in Nat
<1>1. LogOK(log) /\ MagicLen \in Nat \ {0}
    BY LogAssumption
<1>2. log.size \in Nat /\ log.marks \subseteq 0 .. log.size - MagicLen
    BY <1>1 DEF LogOK
<1>3. IsFiniteSet(log.marks) /\ log.marks \subseteq Nat
  <2>1. IsFiniteSet(0 .. log.size - MagicLen)
      BY <1>1, <1>2, FS_Interval
  <2> QED
      BY <1>1, <1>2, <2>1, FS_Subset
<1>4. heads = Ordered(log.marks)
    BY OrderIsOrder DEF heads
<1>5. /\ number \in Nat
      /\ heads \in [1 .. number -> log.marks]
      /\ \A j, k \in 1 .. number : j < k => heads[j] < heads[k]
      /\ \A m \in log.marks : \E k \in 1 .. number : heads[k] = m
    BY <1>3, <1>4, OrderedEnumerates DEF Enumerates, number
<1>6. \A m \in log.marks : m \in Nat /\ m # log.size
    BY <1>1, <1>2
<1>7. log.marks # {} => number # 0
    BY <1>5
<1> QED
    BY <1>2, <1>5, <1>6, <1>7

LEMMA LogShape ==
    ASSUME log \in Logs
    PROVE  /\ Len(W!Log) = number /\ W!Log \in Seq(PieceType)
           /\ \A k \in 1 .. number :
                W!Log[k] = [from |-> heads[k],
                            len |-> (IF k = number THEN log.size ELSE heads[k + 1]) - heads[k]]
<1> DEFINE End(k) == IF k = number THEN log.size ELSE heads[k + 1]
           s == [k \in 1 .. number |-> [from |-> heads[k], len |-> End(k) - heads[k]]]
<1>1. W!Log = s
  <2>1. W!Cardinality(log.marks) = number
      BY OrderIsOrder DEF number
  <2> QED
      BY <2>1 DEF W!Log, heads
<1>2. number \in Nat /\ log.size \in Nat /\ \A k \in 1 .. number : heads[k] \in Nat
    BY HeadsInOrder
<1>3. \A k \in 1 .. number : End(k) \in Nat
    BY <1>2
<1> HIDE DEF End
<1>4. \A k \in 1 .. number : s[k] = [from |-> heads[k], len |-> End(k) - heads[k]]
    OBVIOUS
<1>5. \A k \in 1 .. number : s[k] \in PieceType
    BY <1>2, <1>3, <1>4 DEF PieceType
<1>6. s \in [1 .. number -> PieceType]
    BY <1>5
<1>7. s \in Seq(PieceType) /\ Len(s) = number
    BY <1>2, <1>6
<1> HIDE DEF s
<1> QED
    BY <1>1, <1>4, <1>7 DEF End

\* The magic that the search comes to next is the next head.
LEMMA SearchFinds ==
    ASSUME log \in Logs, Searches
    PROVE  /\ \A m \in W!Ahead : W!NextMark(m) => packet_cnt < number /\ m = heads[packet_cnt + 1]
           /\ W!Ahead = {} => packet_cnt = number
<1> DEFINE c == packet_cnt
<1>1. /\ number \in Nat /\ heads \in [1 .. number -> log.marks]
      /\ \A k \in 1 .. number : heads[k] \in Nat
      /\ \A j, k \in 1 .. number : j < k => heads[j] < heads[k]
      /\ \A m \in log.marks : \E k \in 1 .. number : heads[k] = m
    BY HeadsInOrder
<1>2. c \in 0 .. number
    BY DEF Searches
<1>3. \A k \in 1 .. number : k > c => i <= heads[k]
  <2> SUFFICES ASSUME NEW k \in 1 .. number, k > c PROVE i <= heads[k]
      OBVIOUS
  <2>1. CASE c = 0
      BY <1>1, <2>1 DEF Searches
  <2>2. CASE c # 0
    <3>1. c \in 1 .. number /\ heads[c] < heads[k] /\ i = heads[c] + 1
        BY <1>1, <1>2, <2>2 DEF Searches
    <3> QED
        BY <1>1, <3>1
  <2> QED
      BY <2>1, <2>2
<1>4. \A k \in 1 .. number : i <= heads[k] => k > c
  <2> SUFFICES ASSUME NEW k \in 1 .. number, i <= heads[k], ~(k > c) PROVE FALSE
      OBVIOUS
  <2>1. c \in 1 .. number /\ k <= c /\ i = heads[c] + 1
      BY <1>2 DEF Searches
  <2>2. heads[k] <= heads[c]
      BY <1>1, <2>1
  <2> QED
      BY <1>1, <2>1, <2>2
<1>5. ASSUME NEW m \in W!Ahead, W!NextMark(m) PROVE c < number /\ m = heads[c + 1]
  <2>1. m \in log.marks /\ i <= m
      BY DEF W!Ahead
  <2>2. PICK k \in 1 .. number : heads[k] = m
      BY <1>1, <2>1
  <2>3. k > c /\ c + 1 \in 1 .. number
    <3>1. i <= heads[k]
        BY <2>1, <2>2
    <3>2. k > c /\ k \in Nat /\ k <= number
        BY <1>1, <1>4, <3>1
    <3> QED
        BY <1>1, <1>2, <3>2
  <2>4. heads[c + 1] \in W!Ahead
      BY <1>1, <1>2, <1>3, <2>3 DEF W!Ahead
  <2>5. m <= heads[c + 1]
      BY <1>5, <2>4 DEF W!NextMark
  <2>6. k = c + 1
    <3>1. ~(c + 1 < k)
        BY <1>1, <2>2, <2>3, <2>5
    <3> QED
        BY <1>1, <1>2, <2>3, <3>1
  <2>7. c < number
      BY <1>1, <1>2, <2>3
  <2> QED
      BY <2>2, <2>6, <2>7
<1>6. ASSUME W!Ahead = {} PROVE c = number
  <2>1. \A k \in 1 .. number : ~(i <= heads[k])
      BY <1>1, <1>6 DEF W!Ahead
  <2> QED
      BY <1>1, <1>2, <1>3, <2>1
<1> QED
    BY <1>5, <1>6

LEMMA WantedShape ==
    ASSUME log \in Logs, task \in Tasks
    PROVE  /\ W!Wanted \in Seq(PieceType)
           /\ Limited /\ Remains >= task.count => Len(W!Wanted) = task.count
           /\ ~(Limited /\ Remains >= task.count) =>
                Len(W!Wanted) = IF Remains > 0 THEN Remains ELSE 0
           /\ \A k \in 1 .. Len(W!Wanted) : W!Wanted[k] = W!Log[first - 1 + k]
<1> DEFINE lim == Limited /\ Remains >= task.count
           last == IF lim THEN first + task.count - 1 ELSE number
           s == W!Log
<1>1. /\ task.job \in {"play", "split"} /\ task.count \in Nat /\ task.begin \in Nat
      /\ number \in Nat /\ s \in Seq(PieceType) /\ Len(s) = number
    BY WholeAssumption, HeadsInOrder, LogShape
<1>2. first \in Nat \ {0} /\ Remains \in Int
    BY <1>1 DEF first, Remains
<1>3. W!Wanted = SubSeq(s, first, last)
  <2>1. CASE task.job = "play"
    <3>1. first = 1 /\ last = Len(s)
        BY <1>1, <2>1 DEF first, Limited
    <3>2. s = SubSeq(s, 1, Len(s))
        BY <1>1
    <3> QED
        BY <2>1, <3>1, <3>2 DEF W!Wanted
  <2>2. CASE task.job = "split"
    <3>1. first = IF task.begin = 0 THEN 1 ELSE task.begin
        BY <2>2 DEF first
    <3>2. W!Full(Len(s) - first + 1) <=> lim
        BY <1>1, <2>2 DEF W!Full, Limited, Remains
    <3>3. task.job # "play"
        BY <2>2
    <3> QED
        BY <1>1, <3>1, <3>2, <3>3 DEF W!Wanted
  <2> QED
      BY <1>1, <2>1, <2>2
<1> HIDE DEF s
<1>4. lim => last <= number
    BY <1>1, <1>2 DEF Remains
<1>5. last \in Int /\ last <= Len(s)
    BY <1>1, <1>2, <1>4
<1>6. lim => last - first + 1 = task.count
    BY <1>1, <1>2
<1>7. ~lim => last - first + 1 = Remains
    BY <1>1, <1>2 DEF Remains
<1> HIDE DEF last
<1>8. /\ SubSeq(s, first, last) \in Seq(PieceType)
      /\ Len(SubSeq(s, first, last)) = IF last - first + 1 > 0 THEN last - first + 1 ELSE 0
      /\ \A k \in 1 .. Len(SubSeq(s, first, last)) : SubSeq(s, first, last)[k] = s[first - 1 + k]
  <2> DEFINE t == [k \in 1 .. 1 + last - first |-> s[k + first - 1]]
  <2>1. SubSeq(s, first, last) = t
      BY <1>1, <1>2, <1>5
  <2>2. \A k \in 1 .. 1 + last - first : k + first - 1 \in 1 .. Len(s)
      BY <1>1, <1>2, <1>5
  <2>3. t \in [1 .. 1 + last - first -> PieceType]
      BY <1>1, <2>2
  <2> DEFINE w == IF last - first + 1 > 0 THEN last - first + 1 ELSE 0
  <2>6. w \in Nat /\ 1 .. 1 + last - first = 1 .. w
      BY <1>2, <1>5
  <2>4. t \in Seq(PieceType) /\ Len(t) = w
    <3>1. t \in [1 .. w -> PieceType]
        BY <2>6, <2>3
    <3> HIDE DEF t, w
    <3> QED
        BY <2>6, <3>1
  <2>5. \A k \in 1 .. Len(t) : t[k] = s[first - 1 + k]
    <3>1. \A k \in 1 .. w : k + first - 1 = first - 1 + k
        BY <1>2, <2>6
    <3>2. \A k \in 1 .. w : t[k] = s[k + first - 1]
        BY <2>6
    <3> QED
        BY <2>4, <3>1, <3>2
  <2> QED
      BY <2>1, <2>4, <2>5
<1>9. lim => last - first + 1 > 0
    BY <1>1, <1>6 DEF Limited
<1> HIDE DEF lim
<1> QED
    BY <1>3, <1>6, <1>7, <1>8, <1>9 DEF lim, s

LEMMA SeqsAlike ==
    ASSUME NEW E, NEW s \in Seq(E), NEW t \in Seq(E), Len(s) = Len(t),
           \A k \in 1 .. Len(s) : s[k] = t[k]
    PROVE  s = t
OBVIOUS

\* What was taken in order is the beginning of what was asked for.
LEMMA TakenWanted ==
    ASSUME log \in Logs, task \in Tasks, TakenInOrder
    PROVE  /\ W!IsPrefix(out, W!Wanted)
           /\ AllTaken => out = W!Wanted
<1> DEFINE t == W!Wanted
<1>1. /\ task.job \in {"play", "split"} /\ task.count \in Nat /\ task.begin \in Nat
      /\ number \in Nat /\ first \in Nat \ {0} /\ Remains \in Int
      /\ out \in Seq(PieceType) /\ Len(out) \in Nat
    BY WholeAssumption, HeadsInOrder DEF first, Remains, TakenInOrder
<1>2. /\ t \in Seq(PieceType) /\ Len(t) \in Nat
      /\ Limited /\ Remains >= task.count => Len(t) = task.count
      /\ ~(Limited /\ Remains >= task.count) => Len(t) = IF Remains > 0 THEN Remains ELSE 0
      /\ \A k \in 1 .. Len(t) : t[k] = W!Log[first - 1 + k]
    BY WantedShape
<1> HIDE DEF t
<1>3. Len(out) <= Len(t)
  <2>1. Len(out) # 0 => Len(out) <= Remains
      BY <1>1 DEF TakenInOrder, Remains
  <2>2. Limited => Len(out) <= task.count
      BY DEF TakenInOrder
  <2> QED
      BY <1>1, <1>2, <2>1, <2>2
<1>4. \A k \in 1 .. Len(out) : out[k] = t[k]
    BY <1>1, <1>2, <1>3 DEF TakenInOrder
<1>5. SubSeq(out, 1, Len(out)) = SubSeq(t, 1, Len(out))
    BY <1>1, <1>2, <1>3, <1>4
<1>6. ASSUME AllTaken PROVE out = t
  <2>1. Len(out) = Len(t)
      BY <1>1, <1>2, <1>6 DEF AllTaken
  <2>2. \A k \in 1 .. Len(out) : out[k] = t[k]
      BY <1>4
  <2> QED
      BY <1>1, <1>2, <2>1, <2>2, SeqsAlike
<1> QED
    BY <1>3, <1>5, <1>6 DEF W!IsPrefix, t

LEMMA WholeInvComplete == WholeInv => WholeReadIsComplete
BY TakenWanted DEF WholeInv, WholeReadIsComplete, W!WholeReadIsComplete

-----------------------------------------------------------------------------
(* One more packet *)

LEMMA NumbersType ==
    ASSUME log \in Logs, task \in Tasks, Searches, TakenInOrder
    PROVE  /\ number \in Nat /\ first \in Nat \ {0} /\ Remains \in Int
           /\ packet_cnt \in Nat /\ packet_cnt <= number
           /\ out \in Seq(PieceType) /\ Len(out) \in Nat
           /\ task.job \in {"play", "split"} /\ task.count \in Nat /\ task.begin \in Nat
           /\ log.size \in Nat
BY WholeAssumption, HeadsInOrder DEF first, Remains, TakenInOrder, Searches

\* The piece in front of the next head, or of the end, is the packet whose head was
\* passed last.
LEMMA PieceIsPacket ==
    ASSUME log \in Logs, task \in Tasks, Searches, TakenInOrder, packet_cnt # 0,
           NEW end, end = IF packet_cnt = number THEN log.size ELSE heads[packet_cnt + 1]
    PROVE  W!Piece(end) = W!Log[packet_cnt] /\ W!Log[packet_cnt] \in PieceType /\ end # bgn
<1>1. packet_cnt \in 1 .. number
    BY NumbersType
<1>2. bgn = heads[packet_cnt]
    BY DEF Searches
<1>3. end # bgn
  <2>1. CASE packet_cnt = number
      BY <1>1, <1>2, <2>1, HeadsInOrder
  <2>2. CASE packet_cnt # number
    <3>1. packet_cnt + 1 \in 1 .. number /\ packet_cnt < packet_cnt + 1 /\ end = heads[packet_cnt + 1]
        BY <1>1, <2>2, NumbersType
    <3>2. heads[packet_cnt] < heads[packet_cnt + 1] /\ heads[packet_cnt] \in Nat
        BY <1>1, <3>1, HeadsInOrder
    <3> QED
        BY <1>2, <3>1, <3>2
  <2> QED
      BY <2>1, <2>2
<1>4. W!Piece(end) = W!Log[packet_cnt]
    BY <1>1, <1>2, LogShape DEF W!Piece
<1>5. W!Log[packet_cnt] \in PieceType
    BY <1>1, LogShape
<1> QED
    BY <1>3, <1>4, <1>5

\* The next head is passed: what was taken stays the first packets asked for.
LEMMA PassNext ==
    ASSUME WholeInv, log.marks # {}, pc = "scan", NEW m \in W!Ahead, W!NextMark(m),
           W!Pass(m), UNCHANGED <<log, task>>
    PROVE  Searches' /\ packet_cnt' = packet_cnt + 1
<1>1. log \in Logs /\ task \in Tasks /\ Searches /\ TakenInOrder
    BY DEF WholeInv
<1>2. packet_cnt < number /\ m = heads[packet_cnt + 1] /\ number \in Nat /\ packet_cnt \in Nat
    BY <1>1, SearchFinds, NumbersType
<1>3. heads' = heads /\ number' = number
    BY DEF heads, number
<1>4. i' = m + 1 /\ bgn' = m /\ packet_cnt' = packet_cnt + 1
    BY DEF W!Pass
<1> QED
    BY <1>2, <1>3, <1>4 DEF Searches

LEMMA TakeNext ==
    ASSUME log \in Logs, task \in Tasks, Searches, TakenInOrder, UNCHANGED <<log, task>>,
           packet_cnt # 0, packet_cnt >= first, Len(out) = Past(packet_cnt), Limited => Len(out) < task.count,
           NEW end, end = IF packet_cnt = number THEN log.size ELSE heads[packet_cnt + 1],
           out' = Append(out, W!Piece(end))
    PROVE  TakenInOrder' /\ Len(out') = packet_cnt - first + 1 /\ Len(out') = Len(out) + 1
<1>1. W!Piece(end) = W!Log[packet_cnt] /\ W!Log[packet_cnt] \in PieceType
    BY PieceIsPacket
<1>2. /\ number \in Nat /\ first \in Nat \ {0} /\ packet_cnt \in Nat /\ packet_cnt <= number
      /\ out \in Seq(PieceType) /\ Len(out) \in Nat /\ task.count \in Nat
    BY NumbersType
<1>3. Len(out) = packet_cnt - first
    BY <1>2 DEF Past
<1>4. /\ out' \in Seq(PieceType) /\ Len(out') = Len(out) + 1
      /\ out'[Len(out) + 1] = W!Log[packet_cnt]
      /\ \A k \in 1 .. Len(out) : out'[k] = out[k]
    BY <1>1, <1>2
<1>5. heads' = heads /\ number' = number /\ first' = first /\ (Limited' <=> Limited) /\ W!Log' = W!Log
    BY DEF heads, number, first, Limited, W!Log
<1>6. \A k \in 1 .. Len(out') : first - 1 + k <= number /\ out'[k] = W!Log[first - 1 + k]
  <2> SUFFICES ASSUME NEW k \in 1 .. Len(out')
               PROVE  first - 1 + k <= number /\ out'[k] = W!Log[first - 1 + k]
      OBVIOUS
  <2>1. CASE k = Len(out) + 1
    <3>1. first - 1 + k = packet_cnt
        BY <1>2, <1>3, <2>1
    <3> QED
        BY <1>2, <1>4, <2>1, <3>1
  <2>2. CASE k # Len(out) + 1
    <3>1. k \in 1 .. Len(out)
        BY <1>2, <1>4, <2>2
    <3> QED
        BY <1>4, <3>1 DEF TakenInOrder
  <2> QED
      BY <2>1, <2>2
<1>7. Limited => Len(out') <= task.count
    BY <1>2, <1>4
<1>8. TakenInOrder'
    BY <1>4, <1>5, <1>6, <1>7 DEF TakenInOrder
<1> QED
    BY <1>2, <1>3, <1>4, <1>8

LEMMA TakenStays ==
    ASSUME TakenInOrder, UNCHANGED <<log, task, out>>
    PROVE  TakenInOrder'
BY DEF TakenInOrder, first, Limited, number, W!Log

LEMMA SearchStays ==
    ASSUME Searches, UNCHANGED <<log, i, bgn, packet_cnt>>
    PROVE  Searches'
BY DEF Searches, heads, number

-----------------------------------------------------------------------------
(* The steps *)

LEMMA WholeInit == BuildInit => WholeInv
<1> SUFFICES ASSUME BuildInit PROVE WholeInv
    OBVIOUS
<1>1. log \in Logs /\ task \in Tasks
    BY DEF BuildInit, Init, W!Init
<1>2. pc = "open" /\ i = 0 /\ bgn = 0 /\ packet_cnt = 0 /\ out = <<>>
    BY DEF BuildInit, W!Init
<1>3. number \in Nat /\ task.count \in Nat /\ task.begin \in Nat
    BY <1>1, HeadsInOrder, WholeAssumption
<1>4. Searches
    BY <1>2, <1>3 DEF Searches
<1>5. TakenInOrder
    BY <1>2, <1>3 DEF TakenInOrder
<1>6. Past(0) = 0
    BY <1>3 DEF Past, first
<1>7. Limited => task.count > 0
    BY <1>3 DEF Limited
<1> QED
    BY <1>1, <1>2, <1>4, <1>5, <1>6, <1>7 DEF WholeInv

LEMMA ReadFileInv == WholeInv /\ W!ReadFile => WholeInv'
<1> SUFFICES ASSUME WholeInv, W!ReadFile PROVE WholeInv'
    OBVIOUS
<1>a. W!scan' = W!scan /\ UNCHANGED <<log, task, out>>
    BY DEF W!ReadFile
<1>b. UNCHANGED <<i, bgn, packet_cnt>>
    BY <1>a DEF W!scan
<1>c. pc = "open" /\ (pc' = "scan" \/ (pc' = "done" /\ key' = 1))
    BY DEF W!ReadFile
<1>1. /\ UNCHANGED <<log, task, i, bgn, packet_cnt, out>>
      /\ pc = "open" /\ (pc' = "scan" \/ (pc' = "done" /\ key' = 1))
    BY <1>a, <1>b, <1>c
<1>2. log.marks # {} => Searches' /\ TakenInOrder'
    BY <1>1, TakenStays, SearchStays DEF WholeInv
<1>3. number' = number /\ first' = first /\ (Limited' <=> Limited) /\ Past(packet_cnt)' = Past(packet_cnt)
    BY <1>1 DEF number, first, Limited, Past
<1> QED
    BY <1>1, <1>2, <1>3 DEF WholeInv

\* A log without a magic is never looked at again, and one with some stays so.
LEMMA PlayPacketInv == WholeInv /\ W!PlayPacket => WholeInv'
<1> SUFFICES ASSUME WholeInv, W!PlayPacket PROVE WholeInv'
    OBVIOUS
<1>1. PICK m \in W!Ahead :
        /\ W!NextMark(m)
        /\ \/ W!StopsWaiting
           \/ /\ W!DealUpTo(m) /\ W!Pass(m)
              /\ (W!Stop(1) \/ W!Proceed)
    BY DEF W!PlayPacket
<1>2. pc = "scan" /\ task.job = "play" /\ UNCHANGED <<log, task>>
    BY DEF W!PlayPacket
<1>3. log.marks # {} /\ log \in Logs /\ task \in Tasks /\ Searches /\ TakenInOrder
    BY DEF WholeInv, W!Ahead
<1>4. Len(out) = Past(packet_cnt) /\ (Limited => Len(out) < task.count)
    BY <1>2, <1>3 DEF WholeInv
<1>5. first = 1 /\ first' = 1 /\ ~Limited /\ ~Limited'
    BY <1>2 DEF first, Limited
<1>6. CASE W!StopsWaiting
  <2>1. UNCHANGED <<i, bgn, packet_cnt, out>> /\ pc' = "done" /\ key' = 1
      BY <1>6 DEF W!StopsWaiting, W!Stop, W!scan
  <2>2. Searches' /\ TakenInOrder'
      BY <1>2, <1>3, <2>1, TakenStays, SearchStays
  <2> QED
      BY <1>2, <1>3, <2>1, <2>2 DEF WholeInv
<1>7. CASE W!DealUpTo(m) /\ W!Pass(m) /\ (W!Stop(1) \/ W!Proceed)
  <2>1. Searches' /\ packet_cnt' = packet_cnt + 1
      BY <1>1, <1>2, <1>3, <1>7, PassNext
  <2>2. (pc' = "done" /\ key' = 1) \/ pc' = "scan"
      BY <1>2, <1>7 DEF W!Stop, W!Proceed
  <2>3. /\ packet_cnt \in Nat /\ packet_cnt < number /\ m = heads[packet_cnt + 1]
        /\ out \in Seq(PieceType)
      BY <1>1, <1>3, SearchFinds, NumbersType
  <2>4. TakenInOrder' /\ Len(out') = Past(packet_cnt + 1)
    <3>1. CASE packet_cnt = 0
      <4>1. out' = out
          BY <1>7, <3>1 DEF W!DealUpTo, W!Deals
      <4>2. Past(0) = 0 /\ Past(1) = 0
          BY <1>5 DEF Past
      <4> QED
          BY <1>2, <1>3, <1>4, <3>1, <4>1, <4>2, TakenStays
    <3>2. CASE packet_cnt # 0
      <4>1. out' = Append(out, W!Piece(m))
          BY <1>7, <3>2 DEF W!DealUpTo, W!Deals
      <4>2. packet_cnt >= first /\ m = IF packet_cnt = number THEN log.size ELSE heads[packet_cnt + 1]
          BY <1>5, <2>3, <3>2
      <4>3. TakenInOrder' /\ Len(out') = packet_cnt - first + 1
          BY <1>2, <1>3, <1>4, <3>2, <4>1, <4>2, TakeNext
      <4> QED
          BY <1>5, <2>3, <3>2, <4>3 DEF Past
    <3> QED
        BY <3>1, <3>2
  <2>5. Past(packet_cnt)' = Past(packet_cnt + 1)
      BY <1>5, <2>1 DEF Past
  <2> QED
      BY <1>2, <1>3, <1>5, <2>1, <2>2, <2>4, <2>5 DEF WholeInv
<1> QED
    BY <1>1, <1>6, <1>7

LEMMA PlayLastInv == WholeInv /\ W!PlayLast => WholeInv'
<1> SUFFICES ASSUME WholeInv, W!PlayLast PROVE WholeInv'
    OBVIOUS
<1>1. /\ pc = "scan" /\ task.job = "play" /\ UNCHANGED <<log, task, i, bgn, packet_cnt>>
      /\ W!Ahead = {} /\ W!DealUpTo(log.size) /\ pc' = "done"
    BY DEF W!PlayLast, W!Stop, W!scan
<1>2. log \in Logs /\ task \in Tasks
    BY DEF WholeInv
<1>3. SUFFICES ASSUME log.marks # {} PROVE WholeInv'
    BY <1>1, <1>2 DEF WholeInv
<1>4. Searches /\ TakenInOrder /\ Len(out) = Past(packet_cnt) /\ (Limited => Len(out) < task.count)
    BY <1>1, <1>3 DEF WholeInv
<1>5. first = 1 /\ first' = 1 /\ ~Limited /\ ~Limited' /\ number' = number
    BY <1>1 DEF first, Limited, number
<1>6. packet_cnt = number /\ number \in Nat /\ number # 0
    BY <1>1, <1>2, <1>3, <1>4, SearchFinds, HeadsInOrder
<1>7. out' = Append(out, W!Piece(log.size))
    BY <1>1, <1>6 DEF W!DealUpTo, W!Deals
<1>8. TakenInOrder' /\ Len(out') = number
    BY <1>1, <1>2, <1>4, <1>5, <1>6, <1>7, TakeNext
<1>9. Searches'
    BY <1>1, <1>4, SearchStays
<1>10. AllTaken'
    BY <1>5, <1>6, <1>8 DEF AllTaken, Remains
<1> QED
    BY <1>1, <1>2, <1>8, <1>9, <1>10 DEF WholeInv

LEMMA CopyPacketInv == WholeInv /\ W!CopyPacket => WholeInv'
<1> SUFFICES ASSUME WholeInv, W!CopyPacket PROVE WholeInv'
    OBVIOUS
<1>1. PICK m \in W!Ahead :
        /\ W!NextMark(m)
        /\ \/ /\ W!Copies(m) /\ W!Stop(1)
              /\ UNCHANGED <<i, bgn, packet_cnt, out>>
           \/ /\ W!Copies(m) /\ out' = Append(out, W!Piece(m))
              /\ \/ W!Full(Len(out')) /\ W!Stop(0) /\ UNCHANGED <<i, bgn, packet_cnt>>
                 \/ ~W!Full(Len(out')) /\ W!Pass(m) /\ (W!Proceed \/ W!Stop(1))
           \/ /\ ~W!Copies(m) /\ W!Pass(m) /\ (W!Proceed \/ W!Stop(1))
              /\ UNCHANGED out
    BY DEF W!CopyPacket, W!scan
<1>2. pc = "scan" /\ task.job = "split" /\ UNCHANGED <<log, task>>
    BY DEF W!CopyPacket
<1>3. log.marks # {} /\ log \in Logs /\ task \in Tasks /\ Searches /\ TakenInOrder
    BY DEF WholeInv, W!Ahead
<1>4. Len(out) = Past(packet_cnt) /\ (Limited => Len(out) < task.count)
    BY <1>2, <1>3 DEF WholeInv
<1>5. /\ packet_cnt \in Nat /\ packet_cnt < number /\ m = heads[packet_cnt + 1]
      /\ number \in Nat /\ first \in Nat \ {0} /\ task.count \in Nat /\ task.begin \in Nat
      /\ out \in Seq(PieceType) /\ Len(out) \in Nat
    BY <1>1, <1>3, SearchFinds, NumbersType
<1>6. /\ number' = number /\ first' = first /\ (Limited' <=> Limited) /\ Remains' = Remains
      /\ (Limited <=> task.count # 0) /\ task'.count = task.count
      /\ first = IF task.begin = 0 THEN 1 ELSE task.begin
    BY <1>2 DEF number, first, Limited, Remains
<1>7. m = IF packet_cnt = number THEN log.size ELSE heads[packet_cnt + 1]
    BY <1>5
<1>8. W!Copies(m) <=> packet_cnt >= first
  <2>1. packet_cnt # 0 => m # bgn
      BY <1>3, <1>7, PieceIsPacket
  <2>2. packet_cnt >= first <=> packet_cnt # 0 /\ packet_cnt >= task.begin
      BY <1>5, <1>6
  <2> QED
      BY <2>1, <2>2 DEF W!Copies, W!Begins
<1>9. CASE W!Copies(m) /\ W!Stop(1) /\ UNCHANGED <<i, bgn, packet_cnt, out>>
  <2>1. pc' = "done" /\ key' = 1
      BY <1>9 DEF W!Stop
  <2>2. Searches' /\ TakenInOrder'
      BY <1>2, <1>3, <1>9, TakenStays, SearchStays
  <2> QED
      BY <1>2, <1>3, <2>1, <2>2 DEF WholeInv
<1>10. ASSUME W!Copies(m), out' = Append(out, W!Piece(m))
       PROVE  /\ TakenInOrder' /\ Len(out') = packet_cnt - first + 1 /\ packet_cnt >= first
              /\ Len(out') = Len(out) + 1
              /\ W!Full(Len(out')) <=> Limited /\ Len(out') = task.count
  <2>1. packet_cnt # 0 /\ packet_cnt >= first
      BY <1>5, <1>8, <1>10
  <2>2. TakenInOrder' /\ Len(out') = packet_cnt - first + 1 /\ Len(out') = Len(out) + 1
      BY <1>2, <1>3, <1>4, <1>7, <1>10, <2>1, TakeNext
  <2> QED
      BY <1>4, <1>5, <1>6, <2>1, <2>2 DEF W!Full
<1>11. CASE /\ W!Copies(m) /\ out' = Append(out, W!Piece(m))
            /\ W!Full(Len(out')) /\ W!Stop(0) /\ UNCHANGED <<i, bgn, packet_cnt>>
  <2>1. pc' = "done" /\ key' = 0
      BY <1>11 DEF W!Stop
  <2>2. Searches'
      BY <1>2, <1>3, <1>11, SearchStays
  <2>3. AllTaken'
      BY <1>5, <1>6, <1>10, <1>11 DEF AllTaken, Remains
  <2> QED
      BY <1>2, <1>3, <1>10, <1>11, <2>1, <2>2, <2>3 DEF WholeInv
<1>12. CASE /\ W!Copies(m) /\ out' = Append(out, W!Piece(m))
            /\ ~W!Full(Len(out')) /\ W!Pass(m) /\ (W!Proceed \/ W!Stop(1))
  <2>1. (pc' = "done" /\ key' = 1) \/ pc' = "scan"
      BY <1>2, <1>12 DEF W!Stop, W!Proceed
  <2>2. Searches' /\ packet_cnt' = packet_cnt + 1
      BY <1>1, <1>2, <1>3, <1>12, PassNext
  <2>3. Past(packet_cnt)' = packet_cnt - first + 1
      BY <1>5, <1>6, <1>10, <1>12, <2>2 DEF Past
  <2>4. Limited => Len(out') < task.count
      BY <1>4, <1>5, <1>10, <1>12
  <2> QED
      BY <1>2, <1>3, <1>6, <1>10, <1>12, <2>1, <2>2, <2>3, <2>4 DEF WholeInv
<1>13. CASE /\ ~W!Copies(m) /\ W!Pass(m) /\ (W!Proceed \/ W!Stop(1))
            /\ UNCHANGED out
  <2>1. (pc' = "done" /\ key' = 1) \/ pc' = "scan"
      BY <1>2, <1>13 DEF W!Stop, W!Proceed
  <2>2. Searches' /\ packet_cnt' = packet_cnt + 1
      BY <1>1, <1>2, <1>3, <1>13, PassNext
  <2>3. TakenInOrder'
      BY <1>2, <1>3, <1>13, TakenStays
  <2>4. Past(packet_cnt)' = 0 /\ Past(packet_cnt) = 0
      BY <1>5, <1>6, <1>8, <1>13, <2>2 DEF Past
  <2> QED
      BY <1>2, <1>3, <1>4, <1>6, <1>13, <2>1, <2>2, <2>3, <2>4 DEF WholeInv
<1> QED
    BY <1>1, <1>9, <1>11, <1>12, <1>13

LEMMA CopyLastInv == WholeInv /\ W!CopyLast => WholeInv'
<1> SUFFICES ASSUME WholeInv, W!CopyLast PROVE WholeInv'
    OBVIOUS
<1>1. /\ pc = "scan" /\ task.job = "split" /\ UNCHANGED <<log, task, i, bgn, packet_cnt>>
      /\ W!Ahead = {} /\ pc' = "done"
      /\ \/ W!CopiesLast /\ out' = Append(out, W!Piece(log.size))
         \/ out' = out /\ key' = 1
         \/ ~W!CopiesLast /\ out' = out
    BY DEF W!CopyLast, W!Stop, W!scan
<1>2. log \in Logs /\ task \in Tasks
    BY DEF WholeInv
<1>3. SUFFICES ASSUME log.marks # {} PROVE WholeInv'
    BY <1>1, <1>2 DEF WholeInv
<1>4. Searches /\ TakenInOrder /\ Len(out) = Past(packet_cnt) /\ (Limited => Len(out) < task.count)
    BY <1>1, <1>3 DEF WholeInv
<1>5. /\ number' = number /\ first' = first /\ (Limited' <=> Limited) /\ Remains' = Remains
      /\ (Limited <=> task.count # 0) /\ task'.count = task.count
      /\ first = IF task.begin = 0 THEN 1 ELSE task.begin
    BY <1>1 DEF number, first, Limited, Remains
<1>6. /\ packet_cnt = number /\ number \in Nat /\ number # 0
      /\ first \in Nat \ {0} /\ task.count \in Nat /\ task.begin \in Nat /\ Len(out) \in Nat
    BY <1>1, <1>2, <1>3, <1>4, SearchFinds, HeadsInOrder, NumbersType
<1>7. log.size # bgn
    BY <1>2, <1>4, <1>6, PieceIsPacket
<1>8. W!CopiesLast <=> number >= first
  <2>1. ~W!Full(Len(out))
      BY <1>4, <1>5, <1>6 DEF W!Full
  <2> QED
      BY <1>5, <1>6, <1>7, <2>1 DEF W!CopiesLast, W!Begins
<1>9. Searches'
    BY <1>1, <1>4, SearchStays
<1>10. CASE W!CopiesLast /\ out' = Append(out, W!Piece(log.size))
  <2>1. TakenInOrder' /\ Len(out') = number - first + 1 /\ Len(out') = Len(out) + 1
      BY <1>1, <1>2, <1>4, <1>6, <1>8, <1>10, TakeNext
  <2>2. AllTaken'
      BY <1>4, <1>5, <1>6, <2>1 DEF AllTaken, Remains
  <2> QED
      BY <1>1, <1>2, <1>9, <2>1, <2>2 DEF WholeInv
<1>11. CASE out' = out /\ key' = 1
  <2>1. TakenInOrder'
      BY <1>1, <1>4, <1>11, TakenStays
  <2> QED
      BY <1>1, <1>2, <1>9, <1>11, <2>1 DEF WholeInv
<1>12. CASE ~W!CopiesLast /\ out' = out
  <2>1. TakenInOrder'
      BY <1>1, <1>4, <1>12, TakenStays
  <2>2. number < first /\ Len(out') = 0
      BY <1>4, <1>6, <1>8, <1>12 DEF Past
  <2>3. AllTaken'
      BY <1>5, <1>6, <2>2 DEF AllTaken, Remains
  <2> QED
      BY <1>1, <1>2, <1>9, <2>1, <2>3 DEF WholeInv
<1> QED
    BY <1>1, <1>10, <1>11, <1>12

LEMMA WholeStutters ==
    WholeInv /\ UNCHANGED <<log, task, pc, i, bgn, packet_cnt, key, out>> => WholeInv'
BY TakenStays, SearchStays DEF WholeInv, Past, AllTaken, Remains, first, Limited, number

\* Neither reader writes to the log, and the reader of blocks leaves the other alone.
LEMMA WholeNext ==
    WholeInv /\ [main_test]_<<vars, whole, USE_WHOLE_READ>> => WholeInv'
<1> SUFFICES ASSUME WholeInv, [main_test]_<<vars, whole, USE_WHOLE_READ>> PROVE WholeInv'
    OBVIOUS
<1>1. CASE Blocks
  <2>1. log' = log
      BY <1>1 DEF Blocks, Next, open_raw_log, OpenSucceeds, OpenFails, get_next_block, vars, clean_up_log
  <2> QED
      BY <1>1, <2>1, WholeStutters DEF Blocks, whole
<1>2. CASE Whole
  <2>1. CASE W!Tick
      BY <2>1, WholeStutters DEF W!Tick, W!scan, W!clock
  <2> QED
      BY <1>2, <2>1, ReadFileInv, PlayPacketInv, PlayLastInv, CopyPacketInv, CopyLastInv DEF Whole, W!Next
<1>3. CASE UNCHANGED <<vars, whole, USE_WHOLE_READ>>
    BY <1>3, WholeStutters DEF vars, whole
<1> QED
    BY <1>1, <1>2, <1>3 DEF main_test

\* Whatever main_test calls, playing the whole log or copying any part of it, gets the
\* packets asked for, in order and whole, the last one included.
THEOREM WholeReadAlwaysComplete == BuildSpec => []WholeReadIsComplete
<1>1. BuildSpec => []WholeInv
    BY WholeInit, WholeNext, PTL DEF BuildSpec
<1> QED
    BY <1>1, WholeInvComplete, PTL

\* A build that reads block by block takes the steps of RawLog, and the other one
\* none of them: what is proved of the reader of blocks holds of either.
THEOREM BuildsReadBlocks == BuildSpec => Spec
<1>1. BuildInit => Init
    BY DEF BuildInit
<1>2. ASSUME [main_test]_<<vars, whole, USE_WHOLE_READ>> PROVE [Next]_vars
  <2>1. CASE Whole
    <3>1. log' = log
        BY <2>1 DEF Whole, W!Next, W!ReadFile, W!PlayPacket, W!PlayLast, W!CopyPacket, W!CopyLast, W!Tick
    <3> QED
        BY <2>1, <3>1 DEF Whole, vars, sizes
  <2> QED
      BY <1>2, <2>1 DEF main_test, Blocks
<1> QED
    BY <1>1, <1>2, PTL DEF BuildSpec, Spec
=============================================================================
