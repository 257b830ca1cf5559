--------------------------- MODULE RawPacketsProofs ---------------------------
(***************************************************************************)
(* Theorems about RawPackets, for every log, every packet and every size   *)
(* of the buffer: raw-log reads a log as RawLog specifies, and what it     *)
(* reports of its packets and of its flights adds up.                      *)
(***************************************************************************)
EXTENDS RawPackets, SubseqProofs

L == INSTANCE LogReadersProofs WITH ChecksHead <- FALSE, USE_WHOLE_READ <- FALSE,
        Tasks <- {}, TTL <- 0, StartTime <- 1, MaxTime <- 0, task <- 0, i <- 0, bgn <- 0,
        key <- 0, last_expire <- 0, last_json <- 0, out <- 0, now <- 0

-----------------------------------------------------------------------------
(* Sums *)

SumsUp(sum, f, n) ==
    /\ sum \in [0 .. n -> Int] /\ sum[0] = 0
    /\ \A k \in 1 .. n : sum[k] = sum[k - 1] + f[k]

\* The numbers of f are added up one after the other.
LEMMA SumShape ==
    ASSUME NEW n \in Nat, NEW f, \A k \in 1 .. n : f[k] \in Int
    PROVE  \E sum : SumsUp(sum, f, n) /\ SumTo(f, n) = sum[n]
<1> DEFINE Body(s) == [k \in 0 .. n |-> IF k = 0 THEN 0 ELSE s[k - 1] + f[k]]
           step == [y \in Nat \X Int |-> IF y[1] < n THEN y[2] + f[y[1] + 1] ELSE y[2]]
<1>1. step \in [Nat \X Int -> Int]
  <2> SUFFICES ASSUME NEW y \in Nat \X Int PROVE step[y] \in Int
      OBVIOUS
  <2>1. y[1] < n => y[1] + 1 \in 1 .. n
      OBVIOUS
  <2> QED
      BY <2>1
<1>2. PICK g \in [Nat -> Int] : Recurs(g, 0, step)
  <2>1. 0 \in Int
      OBVIOUS
  <2> HIDE DEF step
  <2> QED
      BY ONLY <1>1, <2>1, RecursionExists, Zenon
<1>3. \A k \in 0 .. n : g[k] \in Int /\ (k # 0 => g[k] = g[k - 1] + f[k])
  <2> SUFFICES ASSUME NEW k \in 0 .. n, k # 0 PROVE g[k] = g[k - 1] + f[k]
      BY <1>2
  <2>1. k - 1 \in Nat /\ k - 1 < n /\ (k - 1) + 1 = k /\ g[k - 1] \in Int
      BY <1>2
  <2>2. g[k] = step[<<k - 1, g[k - 1]>>]
      BY <1>2, <2>1 DEF Recurs
  <2> QED
      BY <2>1, <2>2
<1> HIDE DEF step
<1> DEFINE s0 == [k \in 0 .. n |-> g[k]]
<1>4. s0 = Body(s0)
  <2>1. \A k \in 0 .. n : k # 0 => s0[k - 1] = g[k - 1]
      OBVIOUS
  <2> QED
      BY <1>2, <1>3, <2>1 DEF Recurs
<1> DEFINE sum == CHOOSE s : s = Body(s)
<1>5. sum = Body(sum)
    BY <1>4
<1>6. SumTo(f, n) = sum[n]
    BY DEF SumTo
<1>7. \A k \in 0 .. n : sum[k] = IF k = 0 THEN 0 ELSE sum[k - 1] + f[k]
    BY <1>5
<1> HIDE DEF sum
<1>8. \A k \in Nat : k <= n => sum[k] \in Int
  <2> DEFINE Good == {k \in Nat : k <= n => sum[k] \in Int}
  <2>1. 0 \in Good
      BY <1>7
  <2>2. ASSUME NEW k \in Nat, k \in Good PROVE k + 1 \in Good
    <3>1. k + 1 <= n => k + 1 \in 1 .. n /\ sum[k] \in Int /\ (k + 1) - 1 = k
        BY <2>2
    <3> QED
        BY <1>7, <3>1
  <2>3. Nat \subseteq Good
      BY <2>1, <2>2, AllNaturals
  <2> QED
      BY <2>3
<1>9. sum \in [0 .. n -> Int]
    BY <1>5, <1>8
<1>10. SumsUp(sum, f, n)
  <2>1. 0 \in 0 .. n /\ \A k \in 1 .. n : k \in 0 .. n /\ k # 0
      OBVIOUS
  <2> QED
      BY <1>7, <1>9, <2>1 DEF SumsUp
<1> QED
    BY <1>6, <1>10

\* Two sums go on alike as long as their numbers are alike, but for a d that
\* is added once.
LEMMA SumsAlike ==
    ASSUME NEW n \in Nat, NEW m \in Nat, NEW f, NEW g, NEW s, NEW t,
           SumsUp(s, f, n), SumsUp(t, g, m), n <= m, NEW d \in Int, NEW j \in Nat \ {0},
           \A k \in 1 .. n : f[k] \in Int /\ g[k] = IF k = j THEN f[k] + d ELSE f[k]
    PROVE  t[n] = IF j <= n THEN s[n] + d ELSE s[n]
<1> DEFINE Good == {k \in Nat : k <= n => t[k] = IF j <= k THEN s[k] + d ELSE s[k]}
<1>1. 0 \in Good
    BY DEF SumsUp
<1>2. ASSUME NEW k \in Nat, k \in Good PROVE k + 1 \in Good
  <2> SUFFICES ASSUME k + 1 <= n
               PROVE  t[k + 1] = IF j <= k + 1 THEN s[k + 1] + d ELSE s[k + 1]
      OBVIOUS
  <2>1. /\ k + 1 \in 1 .. n /\ k + 1 \in 1 .. m /\ (k + 1) - 1 = k
        /\ k \in 0 .. n /\ k + 1 \in 0 .. n /\ k \in 0 .. m
      OBVIOUS
  <2>2. s[k] \in Int /\ s[k + 1] \in Int /\ t[k] \in Int
      BY <2>1 DEF SumsUp
  <2>3. s[k + 1] = s[k] + f[k + 1] /\ t[k + 1] = t[k] + g[k + 1]
      BY <2>1 DEF SumsUp
  <2>4. t[k] = IF j <= k THEN s[k] + d ELSE s[k]
      BY <1>2
  <2>5. f[k + 1] \in Int /\ g[k + 1] = IF k + 1 = j THEN f[k + 1] + d ELSE f[k + 1]
      BY <2>1
  <2> QED
      BY <2>2, <2>3, <2>4, <2>5
<1>3. Nat \subseteq Good
    BY <1>1, <1>2, AllNaturals
<1> QED
    BY <1>3

LEMMA SumOfZeros ==
    ASSUME NEW n \in Nat, NEW f, \A k \in 1 .. n : f[k] = 0
    PROVE  SumTo(f, n) = 0
<1>1. PICK s : SumsUp(s, f, n) /\ SumTo(f, n) = s[n]
    BY SumShape
<1> DEFINE Good == {k \in Nat : k <= n => s[k] = 0}
<1>2. 0 \in Good
    BY <1>1 DEF SumsUp
<1>3. ASSUME NEW k \in Nat, k \in Good PROVE k + 1 \in Good
  <2>1. k + 1 <= n => k + 1 \in 1 .. n /\ s[k] = 0 /\ (k + 1) - 1 = k
      BY <1>3
  <2> QED
      BY <1>1, <2>1 DEF SumsUp
<1>4. Nat \subseteq Good
    BY <1>2, <1>3, AllNaturals
<1> QED
    BY <1>1, <1>4

\* One of the numbers is one more, and so is the sum of those it is among.
LEMMA SumBumped ==
    ASSUME NEW n \in Nat, NEW f, \A k \in 1 .. n : f[k] \in Int, NEW j \in Nat \ {0}, NEW g,
           \A k \in 1 .. n : g[k] = IF k = j THEN f[k] + 1 ELSE f[k]
    PROVE  SumTo(g, n) = IF j <= n THEN SumTo(f, n) + 1 ELSE SumTo(f, n)
<1>1. PICK s : SumsUp(s, f, n) /\ SumTo(f, n) = s[n]
    BY SumShape
<1>2. \A k \in 1 .. n : g[k] \in Int
    OBVIOUS
<1>3. PICK t : SumsUp(t, g, n) /\ SumTo(g, n) = t[n]
    BY <1>2, SumShape
<1>4. t[n] = IF j <= n THEN s[n] + 1 ELSE s[n]
  <2>1. n <= n /\ 1 \in Int
      OBVIOUS
  <2>2. \A k \in 1 .. n : f[k] \in Int /\ g[k] = IF k = j THEN f[k] + 1 ELSE f[k]
      OBVIOUS
  <2> QED
      BY <1>1, <1>3, <2>1, <2>2, SumsAlike
<1> QED
    BY <1>1, <1>3, <1>4

\* One more number.
LEMMA SumLonger ==
    ASSUME NEW n \in Nat, NEW f, \A k \in 1 .. n : f[k] \in Int,
           NEW g, \A k \in 1 .. n : g[k] = f[k], g[n + 1] \in Int
    PROVE  SumTo(g, n + 1) = SumTo(f, n) + g[n + 1]
<1>1. PICK s : SumsUp(s, f, n) /\ SumTo(f, n) = s[n]
    BY SumShape
<1>2. \A k \in 1 .. n + 1 : g[k] \in Int
    OBVIOUS
<1>3. PICK t : SumsUp(t, g, n + 1) /\ SumTo(g, n + 1) = t[n + 1]
    BY <1>2, SumShape
<1>4. t[n] = s[n]
  <2>1. \A k \in 1 .. n : f[k] \in Int /\ g[k] = IF k = n + 1 THEN f[k] + 0 ELSE f[k]
      OBVIOUS
  <2>2. n + 1 \in Nat \ {0} /\ n <= n + 1 /\ ~(n + 1 <= n)
      OBVIOUS
  <2> QED
      BY <1>1, <1>3, <2>1, <2>2, SumsAlike
<1>5. t[n + 1] = t[(n + 1) - 1] + g[n + 1]
    BY <1>3 DEF SumsUp
<1> QED
    BY <1>1, <1>3, <1>4, <1>5

-----------------------------------------------------------------------------
(* The reader of raw-log and that of LogReadersProofs *)

LEMMA LogAssumed == L!LogAssumption /\ L!WholeAssumption
<1>1. L!LogAssumption
    BY PacketAssumption DEF R!LogAssumption, L!LogAssumption, R!LogOK, L!LogOK
<1>2. L!WholeAssumption
    BY DEF L!WholeAssumption
<1> QED
    BY <1>1, <1>2

LEMMA ReaderIsReader ==
    ASSUME NEW ret
    PROVE  /\ R!TypeOK <=> L!TypeOK
           /\ R!TypeOK' <=> L!TypeOK'
           /\ R!open_raw_log(ret) <=> L!open_raw_log(ret)
           /\ R!get_next_block(ret) <=> L!get_next_block(ret)
           /\ R!clean_up_log <=> L!clean_up_log
           /\ R!Open <=> L!Open
           /\ \A b, d : R!BlockSizes(b, d) = L!BlockSizes(b, d)
           /\ \A b, lo, d : R!Found(b, lo, d) = L!Found(b, lo, d)
BY Zenon DEF R!TypeOK, L!TypeOK, R!open_raw_log, L!open_raw_log, R!get_next_block,
    L!get_next_block, R!clean_up_log, L!clean_up_log, R!OpenSucceeds, L!OpenSucceeds,
    R!OpenFails, L!OpenFails, R!Open, L!Open, R!Found, L!Found, R!WholeIn, L!WholeIn,
    R!MagicsIn, L!MagicsIn, R!Least, L!Least, R!MayMiss, L!MayMiss,
    R!BlockSizes, L!BlockSizes, R!Ready, L!Ready, R!RemainingAfter, L!RemainingAfter,
    R!DataAfter, L!DataAfter, R!ToRead, L!ToRead, R!ReadsAll, L!ReadsAll,
    R!DataRefilled, L!DataRefilled, R!BaseAfter, L!BaseAfter, R!HasNext, L!HasNext,
    R!NextBlock, L!NextBlock, R!BadRead, L!BadRead, R!vars, L!vars, R!sizes, L!sizes

LEMMA ReadersAgree ==
    /\ R!Init <=> L!Init
    /\ [R!Next]_(R!vars) <=> [L!Next]_(L!vars)
    /\ R!WindowIsContiguous <=> L!WindowIsContiguous
    /\ R!PB!Init <=> L!PB!Init
    /\ [R!PB!Next]_(R!PB!vars) <=> [L!PB!Next]_(L!PB!vars)
<1>1. R!Fits(log) <=> L!Fits(log)
    BY DEF R!Fits, L!Fits
<1>2. R!vars = L!vars /\ (R!Init <=> L!Init) /\ (R!Next <=> L!Next)
    BY ReaderIsReader DEF R!vars, L!vars, R!Init, L!Init, R!Next, L!Next
<1>3. R!WindowIsContiguous <=> L!WindowIsContiguous
    BY <1>1, ReaderIsReader DEF R!WindowIsContiguous, L!WindowIsContiguous
<1>4. /\ R!PB!vars = L!PB!vars
      /\ R!PB!Init <=> L!PB!Init
      /\ R!PB!Next <=> L!PB!Next
      /\ (UNCHANGED R!PB!vars) <=> (UNCHANGED L!PB!vars)
    BY DEF R!Fits, L!Fits, R!PB!vars, L!PB!vars, R!PB!Init, L!PB!Init, R!PB!Next, L!PB!Next,
        R!PB!Play, L!PB!Play, R!PB!Rewind, L!PB!Rewind, R!PB!NextInLine, L!PB!NextInLine,
        R!PB!First, L!PB!First, R!PB!Successor, L!PB!Successor
<1>5. [R!Next]_(R!vars) <=> [L!Next]_(L!vars)
    BY <1>2 DEF R!vars, L!vars
<1>6. [R!PB!Next]_(R!PB!vars) <=> [L!PB!Next]_(L!PB!vars)
    BY <1>4
<1> QED
    BY <1>2, <1>3, <1>4, <1>5, <1>6

-----------------------------------------------------------------------------
(* The reader of raw-log is one RawLog specifies *)

\* Where process_log is, and what the reader and the counters are by then: the
\* log is opened once, and the reader is ready for each block.
Control ==
    /\ pc \in {"open", "play", "ids", "report", "done"}
    /\ pc = "open" =>
          ~R!Open /\ dealt = <<>> /\ packet_cnt = 0 /\ blk_cnt = 0 /\ reported = 0
    /\ pc = "play" => R!Ready /\ packet_cnt = blk_cnt
    /\ pc = "ids" => packet_cnt = blk_cnt + 1
    /\ pc = "report" => reported \in {0, packet_cnt}

LEMMA OpenReads ==
    ASSUME R!TypeOK, NEW ret \in {0, 1}, R!open_raw_log(ret)
    PROVE  /\ R!TypeOK' /\ log' = log
           /\ ret = 0 => R!Ready' /\ dealt' = <<>>
           /\ ret = 1 => dealt' = dealt
<1>1. R!TypeOK'
    BY ReaderIsReader, L!OpenType, LogAssumed
<1>2. log' = log /\ (ret = 1 => dealt' = dealt)
    BY DEF R!open_raw_log, R!OpenSucceeds, R!OpenFails
<1>3. CASE ret = 0
  <2>1. PICK bgn \in R!Found(0, 0, MaxRawLog) :
            base' = bgn /\ \E x \in R!Found(bgn, ScanFrom, MaxRawLog) : raw_block_size' = x
      BY <1>3 DEF R!open_raw_log, R!OpenSucceeds
  <2>2. /\ MaxRawLog \in Nat /\ ScanFrom \in Nat /\ ScanFrom # 0 /\ NoBuffer \notin Nat
      BY PacketAssumption DEF R!LogAssumption
  <2>3. bgn \in Nat
      BY <2>1, <2>2, LogAssumed, L!FoundType, ReaderIsReader
  <2>4. \A x \in R!Found(bgn, ScanFrom, MaxRawLog) : x >= ScanFrom
      BY <2>2, <2>3, LogAssumed, L!FoundType, ReaderIsReader
  <2>5. dealt' = <<>>
      BY <1>3 DEF R!open_raw_log, R!OpenSucceeds
  <2> QED
      BY <1>1, <1>2, <1>3, <2>1, <2>2, <2>3, <2>4, <2>5 DEF R!Ready, R!Open
<1> QED
    BY <1>1, <1>2, <1>3

LEMMA BlockReads ==
    ASSUME R!TypeOK, R!Ready, NEW ret \in {0, 1}, R!get_next_block(ret)
    PROVE  /\ R!TypeOK' /\ log' = log /\ dealt' = Append(dealt, base)
           /\ base \in Nat
           /\ ret = 1 => R!Ready'
<1>1. R!TypeOK'
    BY ReaderIsReader, L!BlockType, LogAssumed
<1>2. log' = log /\ dealt' = Append(dealt, base) /\ base \in Nat
    BY DEF R!get_next_block, R!Ready, R!Open, R!TypeOK
<1>3. CASE ret = 1
  <2>1. R!NextBlock
      BY <1>3 DEF R!get_next_block
  <2>2. base' = R!BaseAfter /\ R!BaseAfter \in Nat /\ raw_data_size' \in Nat
        /\ raw_data_size' = R!DataRefilled
      BY <1>1, <1>2, <2>1 DEF R!NextBlock, R!BaseAfter, R!TypeOK
  <2>3. raw_block_size' # 0
      BY <2>1, <2>2, LogAssumed, L!BlockSizesType, ReaderIsReader DEF R!NextBlock
  <2>4. NoBuffer \notin Nat
      BY PacketAssumption DEF R!LogAssumption
  <2> QED
      BY <1>1, <1>2, <1>3, <2>2, <2>3, <2>4 DEF R!Ready, R!Open
<1> QED
    BY <1>1, <1>2, <1>3

\* A block is read and the packet in it dealt with.
Block(ret, pt) ==
    /\ R!get_next_block(ret) /\ Tally(pt)
    /\ Deal_With_Packet(PacketAt(base), raw_block_size, pt)
    /\ IF ret = 1 THEN blk_cnt' = blk_cnt + 1 /\ pc' = "play" ELSE blk_cnt' = blk_cnt /\ pc' = "ids"
    /\ reported' = reported /\ packets' = packets

LEMMA PlayIsBlock ==
    ASSUME Control, Play
    PROVE  /\ R!Ready /\ packet_cnt = blk_cnt
           /\ \E ret \in {0, 1}, pt \in Packet_Type : Block(ret, pt)
<1>1. pc = "play" /\ R!Ready /\ packet_cnt = blk_cnt
    BY DEF Play, Control
<1>2. ASSUME NEW ret, get_next_block(ret)
      PROVE  /\ R!get_next_block(ret)
             /\ \E pt \in Packet_Type :
                    Deal_With_Packet(PacketAt(base), raw_block_size, pt) /\ Tally(pt)
    BY <1>1, <1>2 DEF get_next_block
<1>3. CASE get_next_block(1) /\ blk_cnt' = blk_cnt + 1 /\ UNCHANGED <<pc, reported>>
    BY <1>1, <1>2, <1>3 DEF Play, Block
<1>4. CASE get_next_block(0) /\ pc' = "ids" /\ UNCHANGED <<blk_cnt, reported>>
    BY <1>1, <1>2, <1>4 DEF Play, Block
<1> QED
    BY <1>1, <1>3, <1>4 DEF Play

LEMMA StepReads ==
    ASSUME R!TypeOK, Control, [Next]_vars
    PROVE  R!TypeOK' /\ Control' /\ [R!Next]_(R!vars)
<1>1. CASE UNCHANGED vars
    BY <1>1 DEF vars, reader, counters, R!TypeOK, Control, R!vars, R!Ready, R!Open
<1>2. ASSUME NEW ret \in {0, 1}, open_raw_log(ret)
      PROVE  R!TypeOK' /\ Control' /\ [R!Next]_(R!vars)
  <2>1. /\ pc = "open" /\ R!open_raw_log(ret) /\ ~R!Open /\ dealt = <<>>
        /\ pc' = AfterOpen(ret) /\ reported' = 0 /\ packet_cnt' = 0 /\ blk_cnt' = 0
      BY <1>2 DEF open_raw_log, Control, counters
  <2>2. R!TypeOK' /\ R!Next
      BY <2>1, OpenReads DEF R!Next
  <2>3. CASE ret = 0
      BY <2>1, <2>2, <2>3, OpenReads DEF AfterOpen, Control
  <2>4. CASE ret = 1
      BY <2>1, <2>2, <2>4 DEF AfterOpen, Control
  <2> QED
      BY <2>3, <2>4
<1>3. CASE Play
  <2>1. PICK ret \in {0, 1}, pt \in Packet_Type : Block(ret, pt)
      BY <1>3, PlayIsBlock
  <2>2. R!Ready /\ packet_cnt = blk_cnt /\ R!get_next_block(ret) /\ packet_cnt' = packet_cnt + 1
      BY <1>3, <2>1, PlayIsBlock DEF Block, Tally
  <2>3. R!TypeOK' /\ R!Next
      BY <2>2, BlockReads DEF R!Next
  <2>4. CASE ret = 1
    <3>1. pc' = "play" /\ blk_cnt' = blk_cnt + 1 /\ R!Ready'
        BY <2>1, <2>2, <2>4, BlockReads DEF Block
    <3> QED
        BY <2>2, <2>3, <3>1 DEF Control
  <2>5. CASE ret = 0
    <3>1. pc' = "ids" /\ blk_cnt' = blk_cnt
        BY <2>1, <2>5 DEF Block
    <3> QED
        BY <2>2, <2>3, <3>1 DEF Control
  <2> QED
      BY <2>4, <2>5
<1>4. CASE show_ids
  <2>1. /\ pc' = "report" /\ UNCHANGED reader /\ packet_cnt' = packet_cnt
        /\ packet_cnt = blk_cnt + 1 /\ reported' = IF blk_cnt = 0 THEN blk_cnt ELSE blk_cnt + 1
      BY <1>4 DEF show_ids, Control, Processed, counters
  <2>2. Control'
      BY <2>1 DEF Control
  <2> QED
      BY <2>1, <2>2 DEF reader, R!TypeOK, R!vars
<1>5. CASE clean_up
  <2>1. pc' = "done" /\ UNCHANGED reader
      BY <1>5 DEF clean_up
  <2>2. Control'
      BY <2>1 DEF Control
  <2> QED
      BY <2>1, <2>2 DEF reader, R!TypeOK, R!vars
<1> QED
    BY <1>1, <1>2, <1>3, <1>4, <1>5 DEF Next

LEMMA SpecReads == Spec => [](R!TypeOK /\ Control)
<1>1. Init => R!TypeOK /\ Control
  <2> SUFFICES ASSUME Init PROVE R!TypeOK /\ Control
      OBVIOUS
  <2>1. L!Init <=> R!Init
      BY ReadersAgree
  <2>2. R!TypeOK
      BY <2>1, LogAssumed, L!InitType, ReaderIsReader DEF Init
  <2>3. ~R!Open /\ dealt = <<>>
      BY DEF Init, R!Init, R!Open
  <2> QED
      BY <2>2, <2>3 DEF Init, Control
<1> QED
    BY <1>1, StepReads, PTL DEF Spec

\* raw-log reads a log as RawLog specifies: it opens it once, while none is open,
\* and whatever it does with a packet leaves the reader alone.
THEOREM ReportDrivesRawLog == Spec => R!Spec
<1>1. Init => R!Init
    BY DEF Init
<1> QED
    BY <1>1, StepReads, SpecReads, PTL DEF Spec, R!Spec

\* So its buffer follows the file, with the longer magic and no test of the head,
THEOREM ReportWindow == Spec => []R!WindowIsContiguous
<1>1. L!Spec => []L!WindowIsContiguous
    BY LogAssumed, L!SpecWindowIsContiguous
<1> QED
    BY <1>1, ReportDrivesRawLog, ReadersAgree, PTL DEF R!Spec, L!Spec

\* and it deals with the packets of a log whose packets fit its buffer in file
\* order, from the first one on, each once.
THEOREM ReportPlaysInOrder == Spec => R!PlaysInOrder
<1>1. L!Spec => L!PlaysInOrder
    BY LogAssumed, L!SpecPlaysInOrder
<1> QED
    BY <1>1, ReportDrivesRawLog, ReadersAgree, PTL DEF R!Spec, L!Spec,
        R!PlaysInOrder, L!PlaysInOrder, R!PB!Spec, L!PB!Spec

-----------------------------------------------------------------------------
(* The tallies *)

Own ==
    /\ blk_cnt \in Nat /\ reported \in Nat
    /\ packet_cnt \in Nat /\ failed_cnt \in Nat /\ pos_cnt \in Nat
    /\ chat_cnt \in Nat /\ same_count \in Nat
    /\ sPktStr \in [Packet_Type -> Nat]
    /\ got_sim_time \in BOOLEAN

Counts ==
    /\ packet_cnt = Len(dealt)
    /\ show_packet_stats =
          [PacketCount |-> packet_cnt, Bad_Packets |-> failed_cnt, DiscardCount |-> 0]
    /\ pos_cnt = sPktStr["Pos"] /\ chat_cnt = sPktStr["Chat"]

TallyInv == R!TypeOK /\ Control /\ Own /\ Counts

count == [k \in 1 .. pkt_Max - 1 |-> sPktStr[PacketTypes[k]]]

LEMMA CountType ==
    ASSUME sPktStr \in [Packet_Type -> Nat]
    PROVE  \A k \in 1 .. pkt_Max - 1 : count[k] = sPktStr[PacketTypes[k]] /\ count[k] \in Nat
BY DEF count, Packet_Type

\* A packet more of one type: one more in all, and among the bad ones if its
\* type is in front of "First".
LEMMA StatsBumped ==
    ASSUME sPktStr \in [Packet_Type -> Nat], NEW j \in 1 .. pkt_Max - 1,
           sPktStr' = [sPktStr EXCEPT ![PacketTypes[j]] = @ + 1]
    PROVE  /\ sPktStr' \in [Packet_Type -> Nat]
           /\ show_packet_stats'.PacketCount = show_packet_stats.PacketCount + 1
           /\ show_packet_stats'.Bad_Packets =
                 IF j < pkt_First THEN show_packet_stats.Bad_Packets + 1
                 ELSE show_packet_stats.Bad_Packets
           /\ show_packet_stats'.DiscardCount = sPktStr'["Discards"]
           /\ show_packet_stats' = [PacketCount |-> show_packet_stats'.PacketCount,
                                    Bad_Packets |-> show_packet_stats'.Bad_Packets,
                                    DiscardCount |-> show_packet_stats'.DiscardCount]
<1>1. PacketTypes[j] \in Packet_Type
    BY DEF Packet_Type
<1>2. sPktStr' \in [Packet_Type -> Nat]
    BY <1>1
<1>3. \A k \in 1 .. pkt_Max - 1 : PacketTypes[k] = PacketTypes[j] => k = j
    BY DEF PacketTypes, pkt_Max
<1>4. \A k \in 1 .. pkt_Max - 1 : count'[k] = sPktStr'[PacketTypes[k]]
    BY DEF count
<1>5. \A k \in 1 .. pkt_Max - 1 : count'[k] = IF k = j THEN count[k] + 1 ELSE count[k]
  <2> SUFFICES ASSUME NEW k \in 1 .. pkt_Max - 1
               PROVE  count'[k] = IF k = j THEN count[k] + 1 ELSE count[k]
      OBVIOUS
  <2>1. count[k] = sPktStr[PacketTypes[k]] /\ PacketTypes[k] \in Packet_Type
      BY CountType DEF Packet_Type
  <2>2. CASE k = j
      BY <1>4, <2>1, <2>2
  <2>3. CASE k # j
    <3>1. PacketTypes[k] # PacketTypes[j]
        BY <1>3, <2>3
    <3> QED
        BY <1>4, <2>1, <2>3, <3>1
  <2> QED
      BY <2>2, <2>3
<1>6. pkt_Max - 1 = 14 /\ pkt_First - 1 = 9 /\ j \in 1 .. 14 /\ j \in Nat \ {0}
    BY DEF pkt_Max, pkt_First
<1>7. \A n \in {9, 14} : SumTo(count', n) = IF j <= n THEN SumTo(count, n) + 1 ELSE SumTo(count, n)
  <2> SUFFICES ASSUME NEW n \in {9, 14}
               PROVE  SumTo(count', n) = IF j <= n THEN SumTo(count, n) + 1 ELSE SumTo(count, n)
      OBVIOUS
  <2>1. n \in Nat /\ \A k \in 1 .. n : k \in 1 .. pkt_Max - 1
      BY <1>6
  <2>2. \A k \in 1 .. n : count[k] \in Int
      BY <2>1, CountType
  <2>3. \A k \in 1 .. n : count'[k] = IF k = j THEN count[k] + 1 ELSE count[k]
      BY <1>5, <2>1
  <2> QED
      BY ONLY <1>6, <2>1, <2>2, <2>3, SumBumped
<1>8. /\ show_packet_stats = [PacketCount |-> SumTo(count, 14), Bad_Packets |-> SumTo(count, 9),
                              DiscardCount |-> sPktStr["Discards"]]
      /\ show_packet_stats' = [PacketCount |-> SumTo(count', 14), Bad_Packets |-> SumTo(count', 9),
                               DiscardCount |-> sPktStr'["Discards"]]
    BY <1>6 DEF show_packet_stats, count
<1>9. j < pkt_First <=> j <= 9
    BY <1>6 DEF pkt_First
<1> QED
    BY <1>2, <1>6, <1>7, <1>8, <1>9

\* What makes a packet a position of a flight.
IsPosition(p) == p.flaws = {} /\ p.id = "pos"

\* What the handler counts, by the type it returns.
LEMMA DealCounts ==
    ASSUME NEW p, NEW len, NEW pt \in Packet_Type, Deal_With_Packet(p, len, pt)
    PROVE  \/ /\ pt \in {"InvMag", "InvProto", "InvPos", "InvHgt", "Invalid"}
              /\ failed_cnt' = failed_cnt + 1
              /\ UNCHANGED <<pos_cnt, chat_cnt, same_count, table>> /\ ~IsPosition(p)
           \/ /\ pt = "Chat" /\ chat_cnt' = chat_cnt + 1
              /\ UNCHANGED <<failed_cnt, pos_cnt, same_count, table>> /\ ~IsPosition(p)
           \/ /\ pt = "Pos" /\ pos_cnt' = pos_cnt + 1 /\ UNCHANGED <<failed_cnt, chat_cnt>>
              /\ IsPosition(p)
              /\ UpdateFlight(p) \/ AddFlight(p)
<1>1. CASE Refused(p, pt) /\ Refuse(pt)
    BY <1>1 DEF Refused, Refuse, IsPosition
<1>2. CASE Chat(p, pt)
    BY <1>2 DEF Chat, IsPosition
<1>3. CASE Accept(p, len, pt)
    BY <1>3 DEF Accept, IsPosition
<1> QED
    BY <1>1, <1>2, <1>3 DEF Deal_With_Packet

LEMMA TallyInit == Init => TallyInv
<1> SUFFICES ASSUME Init PROVE TallyInv
    OBVIOUS
<1>1. R!TypeOK /\ Control
  <2>1. L!Init <=> R!Init
      BY ReadersAgree
  <2>2. R!TypeOK
      BY <2>1, LogAssumed, L!InitType, ReaderIsReader DEF Init
  <2>3. ~R!Open /\ dealt = <<>>
      BY DEF Init, R!Init, R!Open
  <2> QED
      BY <2>2, <2>3 DEF Init, Control
<1>2. Own
    BY DEF Init, Own
<1>3. \A pt \in Packet_Type : sPktStr[pt] = 0
    BY DEF Init
<1>4. \A k \in 1 .. pkt_Max - 1 : count[k] = 0
    BY <1>3 DEF count, Packet_Type
<1>5. pkt_Max - 1 = 14 /\ pkt_First - 1 = 9
    BY DEF pkt_Max, pkt_First
<1>6. \A n \in {9, 14} : SumTo(count, n) = 0
  <2> SUFFICES ASSUME NEW n \in {9, 14} PROVE SumTo(count, n) = 0
      OBVIOUS
  <2>1. n \in Nat /\ \A k \in 1 .. n : count[k] = 0
      BY <1>4, <1>5
  <2> QED
      BY ONLY <2>1, SumOfZeros
<1>7. /\ "Pos" \in Packet_Type /\ "Chat" \in Packet_Type /\ "Discards" \in Packet_Type
  <2>1. PacketTypes[11] = "Pos" /\ PacketTypes[12] = "Chat" /\ PacketTypes[14] = "Discards"
      BY DEF PacketTypes
  <2>2. \A k \in 1 .. 14 : PacketTypes[k] \in Packet_Type
      BY <1>5 DEF Packet_Type
  <2>3. 11 \in 1 .. 14 /\ 12 \in 1 .. 14 /\ 14 \in 1 .. 14
      OBVIOUS
  <2> QED
      BY <2>1, <2>2, <2>3
<1>8. show_packet_stats = [PacketCount |-> 0, Bad_Packets |-> 0, DiscardCount |-> 0]
    BY <1>3, <1>5, <1>6, <1>7 DEF show_packet_stats, count
<1>9. Counts
    BY <1>1, <1>3, <1>7, <1>8 DEF Counts, Init, R!Init
<1> QED
    BY <1>1, <1>2, <1>9 DEF TallyInv

\* A block is counted once, under its type, by the reader and by the handler.
LEMMA BlockTallied ==
    ASSUME TallyInv, Play
    PROVE  Own' /\ Counts'
<1>1. PICK ret \in {0, 1}, pt \in Packet_Type : Block(ret, pt)
    BY PlayIsBlock DEF TallyInv
<1> DEFINE p == PacketAt(base)
<1>2. Deal_With_Packet(p, raw_block_size, pt) /\ Tally(pt) /\ R!get_next_block(ret)
    BY <1>1 DEF Block
<1>3. dealt' = Append(dealt, base) /\ dealt \in Seq(Nat) /\ base \in Nat
    BY <1>2, PlayIsBlock, BlockReads DEF TallyInv, R!TypeOK
<1>4. packet_cnt' = packet_cnt + 1 /\ sPktStr' = [sPktStr EXCEPT ![pt] = @ + 1]
    BY <1>2 DEF Tally
<1>5. PICK j \in 1 .. pkt_Max - 1 : pt = PacketTypes[j]
    BY DEF Packet_Type
<1>6. /\ sPktStr' \in [Packet_Type -> Nat]
      /\ show_packet_stats'.PacketCount = show_packet_stats.PacketCount + 1
      /\ show_packet_stats'.Bad_Packets =
            IF j < pkt_First THEN show_packet_stats.Bad_Packets + 1
            ELSE show_packet_stats.Bad_Packets
      /\ show_packet_stats'.DiscardCount = sPktStr'["Discards"]
      /\ show_packet_stats' = [PacketCount |-> show_packet_stats'.PacketCount,
                               Bad_Packets |-> show_packet_stats'.Bad_Packets,
                               DiscardCount |-> show_packet_stats'.DiscardCount]
    BY <1>4, <1>5, StatsBumped DEF TallyInv, Own
<1>7. /\ show_packet_stats.PacketCount = packet_cnt /\ show_packet_stats.Bad_Packets = failed_cnt
      /\ show_packet_stats.DiscardCount = 0
    BY DEF TallyInv, Counts
<1>8. sPktStr["Discards"] = 0
    BY <1>7 DEF show_packet_stats
<1>9. \A t \in {"Pos", "Chat", "Discards"} :
          t \in Packet_Type /\ sPktStr'[t] = IF t = pt THEN sPktStr[t] + 1 ELSE sPktStr[t]
  <2>1. PacketTypes[11] = "Pos" /\ PacketTypes[12] = "Chat" /\ PacketTypes[14] = "Discards"
      BY DEF PacketTypes
  <2>2. \A k \in 1 .. 14 : PacketTypes[k] \in Packet_Type
      BY DEF Packet_Type, pkt_Max
  <2>3. 11 \in 1 .. 14 /\ 12 \in 1 .. 14 /\ 14 \in 1 .. 14
      OBVIOUS
  <2>4. "Pos" \in Packet_Type /\ "Chat" \in Packet_Type /\ "Discards" \in Packet_Type
      BY <2>1, <2>2, <2>3
  <2>5. \A t \in Packet_Type : sPktStr'[t] = IF t = pt THEN sPktStr[t] + 1 ELSE sPktStr[t]
      BY <1>4 DEF TallyInv, Own
  <2> QED
      BY <2>4, <2>5
<1>10. /\ pt \in {"InvMag", "InvProto", "InvPos", "InvHgt", "Invalid"} => j < pkt_First
       /\ pt \in {"Pos", "Chat"} => ~(j < pkt_First)
    BY <1>5 DEF PacketTypes, pkt_First, pkt_Max
<1>11. packet_cnt' = Len(dealt')
    BY <1>3, <1>4 DEF TallyInv, Counts
<1>12. blk_cnt' \in Nat /\ reported' = reported
    BY <1>1 DEF Block, TallyInv, Own
<1>13. got_sim_time' \in BOOLEAN
  <2>1. got_sim_time \in BOOLEAN
      BY DEF TallyInv, Own
  <2>2. UNCHANGED table \/ UpdateFlight(p) \/ AddFlight(p)
      BY <1>2, DealCounts
  <2> QED
      BY <2>1, <2>2 DEF table, UpdateFlight, AddFlight
<1>14. same_count' \in Nat
  <2>1. same_count \in Nat
      BY DEF TallyInv, Own
  <2>2. same_count' = same_count \/ UpdateFlight(p) \/ AddFlight(p)
      BY <1>2, DealCounts
  <2> QED
      BY <2>1, <2>2 DEF UpdateFlight, AddFlight
<1>15. CASE /\ pt \in {"InvMag", "InvProto", "InvPos", "InvHgt", "Invalid"}
            /\ failed_cnt' = failed_cnt + 1 /\ pos_cnt' = pos_cnt /\ chat_cnt' = chat_cnt
  <2>1. show_packet_stats' =
            [PacketCount |-> packet_cnt', Bad_Packets |-> failed_cnt', DiscardCount |-> 0]
      BY <1>4, <1>6, <1>7, <1>8, <1>9, <1>10, <1>15
  <2>2. pos_cnt' = sPktStr'["Pos"] /\ chat_cnt' = sPktStr'["Chat"]
      BY <1>9, <1>15 DEF TallyInv, Counts
  <2> QED
      BY <1>4, <1>6, <1>11, <1>12, <1>13, <1>14, <1>15, <2>1, <2>2 DEF Own, Counts, TallyInv
<1>16. CASE /\ pt = "Chat" /\ chat_cnt' = chat_cnt + 1
            /\ failed_cnt' = failed_cnt /\ pos_cnt' = pos_cnt
  <2>1. show_packet_stats' =
            [PacketCount |-> packet_cnt', Bad_Packets |-> failed_cnt', DiscardCount |-> 0]
      BY <1>4, <1>6, <1>7, <1>8, <1>9, <1>10, <1>16
  <2>2. pos_cnt' = sPktStr'["Pos"] /\ chat_cnt' = sPktStr'["Chat"]
      BY <1>9, <1>16 DEF TallyInv, Counts
  <2> QED
      BY <1>4, <1>6, <1>11, <1>12, <1>13, <1>14, <1>16, <2>1, <2>2 DEF Own, Counts, TallyInv
<1>17. CASE /\ pt = "Pos" /\ pos_cnt' = pos_cnt + 1
            /\ failed_cnt' = failed_cnt /\ chat_cnt' = chat_cnt
  <2>1. show_packet_stats' =
            [PacketCount |-> packet_cnt', Bad_Packets |-> failed_cnt', DiscardCount |-> 0]
      BY <1>4, <1>6, <1>7, <1>8, <1>9, <1>10, <1>17
  <2>2. pos_cnt' = sPktStr'["Pos"] /\ chat_cnt' = sPktStr'["Chat"]
      BY <1>9, <1>17 DEF TallyInv, Counts
  <2> QED
      BY <1>4, <1>6, <1>11, <1>12, <1>13, <1>14, <1>17, <2>1, <2>2 DEF Own, Counts, TallyInv
<1> QED
    BY <1>2, <1>15, <1>16, <1>17, DealCounts

LEMMA TallyNext ==
    ASSUME TallyInv, [Next]_vars
    PROVE  TallyInv'
<1>1. R!TypeOK' /\ Control'
    BY StepReads DEF TallyInv
<1>2. CASE UNCHANGED vars
    BY <1>1, <1>2 DEF vars, reader, counters, table, TallyInv, Own, Counts, show_packet_stats
<1>3. ASSUME NEW ret \in {0, 1}, open_raw_log(ret) PROVE TallyInv'
  <2>1. /\ dealt' = <<>> /\ dealt = <<>> /\ UNCHANGED <<counters, table, blk_cnt, reported>>
      BY <1>3, OpenReads DEF open_raw_log, Control, TallyInv
  <2> QED
      BY <1>1, <2>1 DEF counters, table, TallyInv, Own, Counts, show_packet_stats
<1>4. CASE Play
    BY <1>1, <1>4, BlockTallied DEF TallyInv
<1>5. CASE show_ids
  <2>1. /\ UNCHANGED <<reader, counters, table, blk_cnt>>
        /\ reported' = Processed
      BY <1>5 DEF show_ids
  <2>2. reported' \in Nat
      BY <2>1 DEF Processed, TallyInv, Own
  <2> QED
      BY <1>1, <2>1, <2>2 DEF reader, counters, table, TallyInv, Own, Counts, show_packet_stats
<1>6. CASE clean_up
    BY <1>1, <1>6 DEF clean_up, reader, counters, TallyInv, Own, Counts, show_packet_stats
<1> QED
    BY <1>2, <1>3, <1>4, <1>5, <1>6 DEF Next

LEMMA SpecTallies == Spec => []TallyInv
BY TallyInit, TallyNext, PTL DEF Spec

\* However many packets are refused, and for whichever reasons: the statistics
\* of the handler, those of the reader and the number reported tell the same
\* story, for every log and every buffer.
THEOREM ReportTalliesAgree == Spec => []TalliesAgree
<1>1. TallyInv => TalliesAgree
    BY DEF TallyInv, Own, Counts, Control, TalliesAgree, TypeOK
<1> QED
    BY <1>1, SpecTallies, PTL

-----------------------------------------------------------------------------
(* The flights *)

Flight ==
    [callsign : {Packet[n].callsign : n \in DOMAIN Packet},
     aircraft : {get_Model(Packet[n].model) : n \in DOMAIN Packet},
     sim_time : Int, prev_sim_time : Int, first_sim_time : Int, px : Int,
     packetCount : Nat, total : Nat]

Dealt(n) == PacketAt(dealt[n])

\* The n-th packet dealt with is the first position of the flight of e.
FirstOf(e, n) ==
    /\ n \in Accepted /\ SAME_FLIGHT(e, Dealt(n))
    /\ \A m \in Accepted : SAME_FLIGHT(e, Dealt(m)) => n <= m

Sum == SumTo([k \in DOMAIN vPilots |-> vPilots[k].packetCount], Len(vPilots))

\* The record shows the last packet, and knows how far the first one was.
Recorded(e) ==
    /\ e.sim_time - e.first_sim_time <= elapsed_sim_time
    /\ \E n \in Accepted : FirstOf(e, n) /\ e.total >= Abs(e.px - Dealt(n).px)

Apart ==
    \A j, k \in DOMAIN vPilots :
        vPilots[j].callsign = vPilots[k].callsign
            /\ vPilots[j].aircraft = vPilots[k].aircraft => j = k

Listed == {vPilots[k] : k \in DOMAIN vPilots}

\* Each accepted position has its flight in the table, and each flight there
\* its first position.
Flights ==
    /\ vPilots \in Seq(Flight) /\ elapsed_sim_time \in Nat
    /\ pos_cnt = same_count + Len(vPilots) /\ pos_cnt = Sum
    /\ Apart
    /\ \A e \in Listed : Recorded(e)
    /\ \A n \in Accepted : \E e \in Listed : SAME_FLIGHT(e, Dealt(n))

FlightInv ==
    /\ TallyInv
    /\ packets \in [log.heads -> DOMAIN Packet]
    /\ pc # "done" => Flights

\* One more block, that starts at b.
More(b) ==
    /\ packets \in [log.heads -> DOMAIN Packet]
    /\ dealt \in Seq(Nat) /\ b \in Nat /\ dealt' = Append(dealt, b)
    /\ packets' = packets /\ log' = log

LEMMA AbsType ==
    /\ \A n \in Int : Abs(n) \in Nat
    /\ \A a, b, c \in Int : Abs(a - c) <= Abs(b - c) + Abs(a - b)
BY DEF Abs

\* Only a packet that starts at a head is a position.
LEMMA PositionTyped ==
    ASSUME packets \in [log.heads -> DOMAIN Packet], NEW b, IsPosition(PacketAt(b))
    PROVE  /\ PacketAt(b).sim_time \in Int /\ PacketAt(b).px \in Int
           /\ PacketAt(b).callsign \in {Packet[n].callsign : n \in DOMAIN Packet}
           /\ get_Model(PacketAt(b).model) \in {get_Model(Packet[n].model) : n \in DOMAIN Packet}
<1>1. CASE b \in log.heads
  <2>1. packets[b] \in DOMAIN Packet /\ PacketAt(b) = Packet[packets[b]]
      BY <1>1 DEF PacketAt, Packets
  <2> QED
      BY <2>1, PacketAssumption
<1>2. CASE b \notin log.heads
  <2>1. PacketAt(b) = Garbage
      BY <1>2 DEF PacketAt, Otherwise
  <2> QED
      BY <2>1, PacketAssumption DEF IsPosition
<1> QED
    BY <1>1, <1>2

\* A block more that was dealt with: the positions so far stay what they are.
LEMMA AcceptedGrows ==
    ASSUME NEW b, More(b)
    PROVE  /\ \A n \in DOMAIN dealt : Dealt(n)' = Dealt(n)
           /\ \A n : n = Len(dealt) + 1 => Dealt(n)' = PacketAt(b)
           /\ \A n : n \in Accepted' <=>
                 n \in Accepted \/ (n = Len(dealt) + 1 /\ IsPosition(PacketAt(b)))
           /\ \A n \in Accepted : n \in DOMAIN dealt /\ n \in Nat /\ n < Len(dealt) + 1
           /\ Len(dealt) + 1 \in Nat
<1> USE DEF More
<1>1. /\ DOMAIN dealt' = 1 .. Len(dealt) + 1 /\ DOMAIN dealt = 1 .. Len(dealt)
      /\ Len(dealt) \in Nat /\ dealt'[Len(dealt) + 1] = b
      /\ \A n \in 1 .. Len(dealt) : dealt'[n] = dealt[n]
    OBVIOUS
<1>2. \A m : PacketAt(m)' = PacketAt(m)
    BY DEF PacketAt
<1>3. \A n \in DOMAIN dealt : Dealt(n)' = Dealt(n)
    BY <1>1, <1>2 DEF Dealt, PacketAt
<1>4. ASSUME NEW n, n = Len(dealt) + 1 PROVE Dealt(n)' = PacketAt(b)
  <2>1. dealt'[n] = b
      BY <1>1, <1>4
  <2> QED
      BY <2>1 DEF Dealt, PacketAt
<1>5. \A n : n \in Accepted <=> n \in DOMAIN dealt /\ IsPosition(Dealt(n))
    BY DEF Accepted, IsPosition, Dealt
<1>6. \A n : n \in Accepted' <=> n \in DOMAIN dealt' /\ IsPosition(Dealt(n)')
    BY DEF Accepted, IsPosition, Dealt
<1>7. ASSUME NEW n PROVE n \in Accepted' <=>
          n \in Accepted \/ (n = Len(dealt) + 1 /\ IsPosition(PacketAt(b)))
  <2>1. n \in DOMAIN dealt' <=> n \in DOMAIN dealt \/ n = Len(dealt) + 1
      BY <1>1
  <2>2. CASE n \in DOMAIN dealt
    <3>1. n # Len(dealt) + 1
        BY <1>1, <2>2
    <3> QED
        BY <1>3, <1>5, <1>6, <2>1, <2>2, <3>1
  <2>3. CASE n = Len(dealt) + 1
    <3>1. n \notin DOMAIN dealt
        BY <1>1, <2>3
    <3> QED
        BY <1>4, <1>5, <1>6, <2>1, <2>3, <3>1
  <2> QED
      BY <1>5, <1>6, <2>1, <2>2, <2>3
<1>8. \A n \in Accepted : n \in DOMAIN dealt /\ n \in Nat /\ n < Len(dealt) + 1
    BY <1>1, <1>5
<1> QED
    BY <1>1, <1>3, <1>4, <1>7, <1>8

\* The first position of a flight stays its first.
LEMMA FirstStays ==
    ASSUME NEW b, More(b), NEW e, NEW n, FirstOf(e, n)
    PROVE  n \in Accepted' /\ FirstOf(e, n)' /\ Dealt(n)' = Dealt(n)
<1>1. n \in Accepted /\ n \in DOMAIN dealt /\ n \in Nat /\ n < Len(dealt) + 1
    BY AcceptedGrows DEF FirstOf
<1>2. n \in Accepted' /\ Dealt(n)' = Dealt(n)
    BY <1>1, AcceptedGrows
<1>3. ASSUME NEW m \in Accepted', SAME_FLIGHT(e, Dealt(m)') PROVE n <= m
  <2>1. CASE m \in Accepted
    <3>1. Dealt(m)' = Dealt(m)
        BY <2>1, AcceptedGrows
    <3> QED
        BY <1>3, <2>1, <3>1 DEF FirstOf
  <2>2. CASE m = Len(dealt) + 1
      BY <1>1, <2>2, AcceptedGrows
  <2> QED
      BY <2>1, <2>2, AcceptedGrows
<1> QED
    BY <1>2, <1>3 DEF FirstOf, SAME_FLIGHT

\* A record whose flight keeps its name still knows where it began, and how
\* far it went, unless the elapsed time runs back.
LEMMA RecordedStays ==
    ASSUME NEW b, More(b),
           elapsed_sim_time \in Nat, elapsed_sim_time' \in Nat,
           elapsed_sim_time <= elapsed_sim_time',
           NEW e \in Flight, Recorded(e)
    PROVE  Recorded(e)'
<1>1. PICK n \in Accepted : FirstOf(e, n) /\ e.total >= Abs(e.px - Dealt(n).px)
    BY DEF Recorded
<1>2. n \in Accepted' /\ FirstOf(e, n)' /\ Dealt(n)' = Dealt(n)
    BY <1>1, FirstStays
<1>3. e.sim_time - e.first_sim_time <= elapsed_sim_time'
  <2>1. e.sim_time \in Int /\ e.first_sim_time \in Int
      BY DEF Flight
  <2>2. e.sim_time - e.first_sim_time <= elapsed_sim_time
      BY DEF Recorded
  <2> QED
      BY <2>1, <2>2
<1>4. (e.total >= Abs(e.px - Dealt(n).px))'
    BY <1>1, <1>2 DEF Abs
<1> QED
    BY <1>2, <1>3, <1>4 DEF Recorded

LEMMA NoneAccepted ==
    ASSUME Flights, NEW b, More(b), ~IsPosition(PacketAt(b)),
           UNCHANGED <<pos_cnt, same_count, table>>
    PROVE  Flights'
<1>1. /\ vPilots' = vPilots /\ elapsed_sim_time' = elapsed_sim_time /\ Listed' = Listed
      /\ vPilots \in Seq(Flight) /\ elapsed_sim_time \in Nat
    BY DEF table, Flights, Listed
<1>2. pos_cnt' = same_count' + Len(vPilots)' /\ pos_cnt' = Sum' /\ Apart'
    BY <1>1 DEF Flights, Sum, Apart
<1>3. \A e \in Listed' : Recorded(e)'
  <2> SUFFICES ASSUME NEW e \in Listed PROVE Recorded(e)'
      BY <1>1
  <2>1. e \in Flight /\ Recorded(e)
      BY <1>1 DEF Flights, Listed
  <2> QED
      BY <1>1, <2>1, RecordedStays
<1>4. ASSUME NEW n \in Accepted' PROVE \E e \in Listed' : SAME_FLIGHT(e, Dealt(n)')
    BY <1>1, AcceptedGrows DEF Flights
<1> QED
    BY <1>1, <1>2, <1>3, <1>4 DEF Flights, SAME_FLIGHT

\* The flight that is updated keeps its names, its start and its first position;
\* what it has flown covers the way to the new one.
LEMMA EntryRecorded ==
    ASSUME NEW b, More(b), IsPosition(PacketAt(b)),
           elapsed_sim_time \in Nat, NEW e \in Flight, Recorded(e), SAME_FLIGHT(e, PacketAt(b)),
           elapsed_sim_time' = Elapsed(e, PacketAt(b))
    PROVE  /\ Entry(e, PacketAt(b)) \in Flight
           /\ Entry(e, PacketAt(b)).packetCount = e.packetCount + 1
           /\ Entry(e, PacketAt(b)).callsign = e.callsign
           /\ Entry(e, PacketAt(b)).aircraft = e.aircraft
           /\ elapsed_sim_time' \in Nat /\ elapsed_sim_time <= elapsed_sim_time'
           /\ \A f : f = Entry(e, PacketAt(b)) => Recorded(f)'
<1>1. PICK p : p = PacketAt(b)
    OBVIOUS
<1>2. PICK f : f = Entry(e, p)
    OBVIOUS
<1>3. /\ p.sim_time \in Int /\ p.px \in Int
      /\ p.callsign \in {Packet[n].callsign : n \in DOMAIN Packet}
      /\ get_Model(p.model) \in {get_Model(Packet[n].model) : n \in DOMAIN Packet}
    BY <1>1, PositionTyped DEF More
<1>4. /\ e.sim_time \in Int /\ e.first_sim_time \in Int /\ e.px \in Int
      /\ e.packetCount \in Nat /\ e.total \in Nat
    BY DEF Flight
<1>5. e.callsign = p.callsign /\ e.aircraft = get_Model(p.model)
    BY <1>1 DEF SAME_FLIGHT
<1>6. Abs(p.px - e.px) \in Nat
    BY <1>3, <1>4, AbsType
<1>7. /\ f.callsign = e.callsign /\ f.aircraft = e.aircraft /\ f.sim_time = p.sim_time
      /\ f.first_sim_time = e.first_sim_time /\ f.px = p.px
      /\ f.packetCount = e.packetCount + 1 /\ f.total = e.total + Abs(p.px - e.px)
    BY <1>2, <1>5 DEF Entry
<1>8. f \in Flight
    BY <1>2, <1>3, <1>4, <1>6 DEF Entry, Flight
<1>9. /\ elapsed_sim_time' \in Nat /\ elapsed_sim_time <= elapsed_sim_time'
      /\ p.sim_time - e.first_sim_time <= elapsed_sim_time'
    BY <1>1, <1>3, <1>4 DEF Elapsed
<1>10. PICK n \in Accepted : FirstOf(e, n) /\ e.total >= Abs(e.px - Dealt(n).px)
    BY DEF Recorded
<1>11. n \in Accepted' /\ FirstOf(e, n)' /\ Dealt(n)' = Dealt(n)
    BY <1>10, FirstStays
<1>12. Dealt(n).px \in Int
    BY <1>10, PositionTyped DEF More, Accepted, IsPosition, Dealt
<1>13. FirstOf(f, n)'
    BY <1>7, <1>11 DEF FirstOf, SAME_FLIGHT
<1>14. f.total >= Abs(f.px - Dealt(n).px)
  <2>1. /\ Abs(p.px - Dealt(n).px) <= Abs(e.px - Dealt(n).px) + Abs(p.px - e.px)
        /\ Abs(p.px - Dealt(n).px) \in Nat /\ Abs(e.px - Dealt(n).px) \in Nat
      BY <1>3, <1>4, <1>12, AbsType
  <2> QED
      BY <1>4, <1>6, <1>7, <1>10, <2>1
<1>15. (f.total >= Abs(f.px - Dealt(n).px))'
    BY <1>11, <1>14 DEF Abs
<1>16. Recorded(f)'
    BY <1>7, <1>9, <1>11, <1>13, <1>15 DEF Recorded
<1> QED
    BY <1>1, <1>2, <1>7, <1>8, <1>9, <1>16

LEMMA UpdateKeeps ==
    ASSUME Flights, same_count \in Nat, pos_cnt \in Nat,
           NEW b, More(b), IsPosition(PacketAt(b)), UpdateFlight(PacketAt(b)),
           pos_cnt' = pos_cnt + 1
    PROVE  Flights'
<1> DEFINE p == PacketAt(b)
<1>1. PICK k \in DOMAIN vPilots :
          /\ SAME_FLIGHT(vPilots[k], p)
          /\ vPilots' = [vPilots EXCEPT ![k] = Entry(vPilots[k], p)]
          /\ elapsed_sim_time' = Elapsed(vPilots[k], p)
          /\ same_count' = same_count + 1
    BY DEF UpdateFlight
<1>2. PICK e : e = vPilots[k]
    OBVIOUS
<1>3. PICK f : f = Entry(e, p)
    OBVIOUS
<1>4. vPilots \in Seq(Flight) /\ elapsed_sim_time \in Nat /\ e \in Flight /\ Recorded(e)
    BY <1>2 DEF Flights, Listed
<1>5. /\ f \in Flight /\ f.packetCount = e.packetCount + 1
      /\ f.callsign = e.callsign /\ f.aircraft = e.aircraft
      /\ elapsed_sim_time' \in Nat /\ elapsed_sim_time <= elapsed_sim_time'
      /\ Recorded(f)'
    BY <1>1, <1>2, <1>3, <1>4, EntryRecorded
<1>6. vPilots' = [vPilots EXCEPT ![k] = f]
    BY <1>1, <1>2, <1>3
<1> HIDE DEF p
<1>7. /\ vPilots' \in Seq(Flight) /\ Len(vPilots') = Len(vPilots) /\ Len(vPilots) \in Nat
      /\ DOMAIN vPilots' = DOMAIN vPilots /\ DOMAIN vPilots = 1 .. Len(vPilots)
      /\ \A j \in DOMAIN vPilots : vPilots'[j] = IF j = k THEN f ELSE vPilots[j]
    BY <1>4, <1>5, <1>6
<1>8. pos_cnt' = same_count' + Len(vPilots')
    BY <1>1, <1>7 DEF Flights
<1>9. pos_cnt' = Sum'
  <2> DEFINE c == [j \in DOMAIN vPilots |-> vPilots[j].packetCount]
             d == [j \in DOMAIN vPilots' |-> vPilots'[j].packetCount]
             n == Len(vPilots)
  <2>1. n \in Nat /\ k \in Nat \ {0} /\ k <= n
      BY <1>7
  <2>2. \A j \in 1 .. n : c[j] \in Int
    <3> SUFFICES ASSUME NEW j \in 1 .. n PROVE vPilots[j].packetCount \in Int
        BY <1>7
    <3>1. vPilots[j] \in Flight
        BY <1>4, <1>7
    <3> QED
        BY <3>1 DEF Flight
  <2>3. \A j \in 1 .. n : d[j] = IF j = k THEN c[j] + 1 ELSE c[j]
    <3> SUFFICES ASSUME NEW j \in 1 .. n PROVE d[j] = IF j = k THEN c[j] + 1 ELSE c[j]
        OBVIOUS
    <3>1. d[j] = vPilots'[j].packetCount /\ c[j] = vPilots[j].packetCount
        BY <1>7
    <3>2. CASE j = k
        BY <1>2, <1>5, <1>7, <3>1, <3>2
    <3>3. CASE j # k
        BY <1>7, <3>1, <3>3
    <3> QED
        BY <3>2, <3>3
  <2>4. Sum = SumTo(c, n) /\ Sum' = SumTo(d, n)
      BY <1>7 DEF Sum
  <2> HIDE DEF c, d, n
  <2>5. SumTo(d, n) = SumTo(c, n) + 1
      BY ONLY <2>1, <2>2, <2>3, SumBumped
  <2> QED
      BY <2>4, <2>5 DEF Flights
<1>10. \A j \in DOMAIN vPilots :
           vPilots'[j].callsign = vPilots[j].callsign /\ vPilots'[j].aircraft = vPilots[j].aircraft
    BY <1>2, <1>5, <1>7
<1>11. Apart'
    BY <1>7, <1>10 DEF Apart, Flights
<1>12. ASSUME NEW g \in Listed' PROVE Recorded(g)'
  <2>1. PICK j \in DOMAIN vPilots : g = vPilots'[j]
      BY <1>7 DEF Listed
  <2>2. CASE j = k
      BY <1>5, <1>7, <2>1, <2>2
  <2>3. CASE j # k
    <3>1. g = vPilots[j]
        BY <1>7, <2>1, <2>3
    <3>2. g \in Flight /\ Recorded(g)
        BY <1>4, <3>1 DEF Flights, Listed
    <3> QED
        BY <1>4, <1>5, <3>2, RecordedStays
  <2> QED
      BY <2>2, <2>3
<1>13. f \in Listed' /\ \A g \in Listed : g = e \/ g \in Listed'
  <2>1. f = vPilots'[k] /\ k \in DOMAIN vPilots'
      BY <1>7
  <2>2. ASSUME NEW g \in Listed, g # e PROVE g \in Listed'
    <3>1. PICK j \in DOMAIN vPilots : g = vPilots[j]
        BY DEF Listed
    <3>2. g = vPilots'[j] /\ j \in DOMAIN vPilots'
        BY <1>2, <1>7, <2>2, <3>1
    <3> QED
        BY <3>2 DEF Listed
  <2> QED
      BY <2>1, <2>2 DEF Listed
<1>14. ASSUME NEW n \in Accepted' PROVE \E g \in Listed' : SAME_FLIGHT(g, Dealt(n)')
  <2>1. CASE n \in Accepted
    <3>1. PICK g \in Listed : SAME_FLIGHT(g, Dealt(n))
        BY <2>1 DEF Flights
    <3>2. Dealt(n)' = Dealt(n)
        BY <2>1, AcceptedGrows
    <3>3. SAME_FLIGHT(g, Dealt(n)') /\ (g = e => SAME_FLIGHT(f, Dealt(n)'))
        BY <1>5, <3>1, <3>2 DEF SAME_FLIGHT
    <3> QED
        BY <1>13, <3>3
  <2>2. CASE n = Len(dealt) + 1
    <3>1. Dealt(n)' = p
        BY <2>2, AcceptedGrows DEF p
    <3>2. SAME_FLIGHT(f, p)
        BY <1>1, <1>2, <1>5 DEF SAME_FLIGHT
    <3> QED
        BY <1>13, <3>1, <3>2
  <2> QED
      BY <2>1, <2>2, AcceptedGrows
<1> QED
    BY <1>5, <1>7, <1>8, <1>9, <1>11, <1>12, <1>14 DEF Flights, SAME_FLIGHT

\* A flight is added only when the table has none of its names, hence when no
\* position of it was dealt with before.
LEMMA AddKeeps ==
    ASSUME Flights, same_count \in Nat, pos_cnt \in Nat,
           NEW b, More(b), IsPosition(PacketAt(b)), AddFlight(PacketAt(b)),
           pos_cnt' = pos_cnt + 1
    PROVE  Flights'
<1>1. PICK p : p = PacketAt(b)
    OBVIOUS
<1>2. PICK f : f = NewEntry(p)
    OBVIOUS
<1>3. /\ \A k \in DOMAIN vPilots : ~SAME_FLIGHT(vPilots[k], p)
      /\ vPilots' = Append(vPilots, f)
      /\ elapsed_sim_time' = elapsed_sim_time /\ same_count' = same_count
    BY <1>1, <1>2 DEF AddFlight
<1>4. vPilots \in Seq(Flight) /\ elapsed_sim_time \in Nat
    BY DEF Flights
<1>5. /\ p.sim_time \in Int /\ p.px \in Int
      /\ p.callsign \in {Packet[n].callsign : n \in DOMAIN Packet}
      /\ get_Model(p.model) \in {get_Model(Packet[n].model) : n \in DOMAIN Packet}
    BY <1>1, PositionTyped DEF More
<1>6. f \in Flight
    BY <1>2, <1>5 DEF NewEntry, Flight
<1>7. /\ f.callsign = p.callsign /\ f.aircraft = get_Model(p.model) /\ f.packetCount = 1
      /\ f.sim_time = p.sim_time /\ f.first_sim_time = p.sim_time
      /\ f.px = p.px /\ f.total = 0
    BY <1>2 DEF NewEntry
<1>8. /\ vPilots' \in Seq(Flight) /\ Len(vPilots') = Len(vPilots) + 1 /\ Len(vPilots) \in Nat
      /\ DOMAIN vPilots' = 1 .. Len(vPilots) + 1 /\ DOMAIN vPilots = 1 .. Len(vPilots)
      /\ \A j \in 1 .. Len(vPilots) : vPilots'[j] = vPilots[j]
      /\ vPilots'[Len(vPilots) + 1] = f
    BY <1>3, <1>4, <1>6
<1>9. pos_cnt' = same_count' + Len(vPilots')
    BY <1>3, <1>8 DEF Flights
<1>10. pos_cnt' = Sum'
  <2> DEFINE c == [j \in DOMAIN vPilots |-> vPilots[j].packetCount]
             d == [j \in DOMAIN vPilots' |-> vPilots'[j].packetCount]
             n == Len(vPilots)
  <2>1. n \in Nat
      BY <1>8
  <2>2. \A j \in 1 .. n : c[j] \in Int /\ d[j] = c[j]
    <3> SUFFICES ASSUME NEW j \in 1 .. n
                 PROVE  vPilots[j].packetCount \in Int /\ d[j] = c[j]
        BY <1>8
    <3>1. vPilots[j] \in Flight /\ vPilots'[j] = vPilots[j] /\ j \in 1 .. Len(vPilots) + 1
        BY <1>4, <1>8
    <3> QED
        BY <1>8, <3>1 DEF Flight
  <2>3. d[n + 1] = 1
      BY <1>7, <1>8
  <2>4. Sum = SumTo(c, n) /\ Sum' = SumTo(d, n + 1)
      BY <1>8 DEF Sum
  <2> HIDE DEF c, d, n
  <2>5. \A j \in 1 .. n : c[j] \in Int
      BY <2>2
  <2>6. \A j \in 1 .. n : d[j] = c[j]
      BY <2>2
  <2>7. d[n + 1] \in Int
      BY <2>3
  <2>8. SumTo(d, n + 1) = SumTo(c, n) + d[n + 1]
      BY ONLY <2>1, <2>5, <2>6, <2>7, SumLonger
  <2> QED
      BY <2>3, <2>4, <2>8 DEF Flights
<1>11. Apart'
  <2> SUFFICES ASSUME NEW j \in 1 .. Len(vPilots) + 1, NEW k \in 1 .. Len(vPilots) + 1,
                      vPilots'[j].callsign = vPilots'[k].callsign,
                      vPilots'[j].aircraft = vPilots'[k].aircraft
               PROVE  j = k
      BY <1>8 DEF Apart
  <2>1. \A i \in 1 .. Len(vPilots) :
            ~(vPilots[i].callsign = p.callsign /\ vPilots[i].aircraft = get_Model(p.model))
      BY <1>3, <1>8 DEF SAME_FLIGHT
  <2>2. (j \in 1 .. Len(vPilots) \/ j = Len(vPilots) + 1)
        /\ (k \in 1 .. Len(vPilots) \/ k = Len(vPilots) + 1)
      BY <1>8
  <2>3. CASE j \in 1 .. Len(vPilots) /\ k \in 1 .. Len(vPilots)
      BY <1>8, <2>3 DEF Flights, Apart
  <2>4. CASE j \in 1 .. Len(vPilots) /\ k = Len(vPilots) + 1
      BY <1>7, <1>8, <2>1, <2>4
  <2>5. CASE j = Len(vPilots) + 1 /\ k \in 1 .. Len(vPilots)
      BY <1>7, <1>8, <2>1, <2>5
  <2> QED
      BY <2>2, <2>3, <2>4, <2>5
<1>12. PICK l : l = Len(dealt) + 1
    OBVIOUS
<1>13. l \in Accepted' /\ Dealt(l)' = p /\ \A n \in Accepted' : n \in Accepted \/ n = l
    BY <1>1, <1>12, AcceptedGrows
<1>14. \A n \in Accepted : ~SAME_FLIGHT(f, Dealt(n)) /\ Dealt(n)' = Dealt(n)
  <2> SUFFICES ASSUME NEW n \in Accepted, SAME_FLIGHT(f, Dealt(n)) PROVE FALSE
      BY AcceptedGrows
  <2>1. PICK k \in DOMAIN vPilots : SAME_FLIGHT(vPilots[k], Dealt(n))
      BY DEF Flights, Listed
  <2> QED
      BY <1>3, <1>7, <2>1 DEF SAME_FLIGHT
<1>15. FirstOf(f, l)'
  <2>1. SAME_FLIGHT(f, p)
      BY <1>7 DEF SAME_FLIGHT
  <2>2. l \in Nat
      BY <1>12, AcceptedGrows
  <2>3. ASSUME NEW m \in Accepted', SAME_FLIGHT(f, Dealt(m)') PROVE l <= m
      BY <1>13, <1>14, <2>2, <2>3
  <2> QED
      BY <1>13, <2>1, <2>3 DEF FirstOf, SAME_FLIGHT
<1>16. Recorded(f)'
  <2>1. (f.total >= Abs(f.px - Dealt(l).px))'
      BY <1>5, <1>7, <1>13 DEF Abs
  <2>2. f.sim_time - f.first_sim_time <= elapsed_sim_time'
      BY <1>3, <1>4, <1>5, <1>7
  <2> QED
      BY <1>13, <1>15, <2>1, <2>2 DEF Recorded
<1>17. ASSUME NEW g \in Listed' PROVE g = f \/ g \in Listed
    BY <1>8 DEF Listed
<1>18. f \in Listed' /\ \A g \in Listed : g \in Listed'
  <2>1. Len(vPilots) + 1 \in DOMAIN vPilots' /\ \A j \in DOMAIN vPilots : j \in DOMAIN vPilots'
      BY <1>8
  <2>2. \A j \in DOMAIN vPilots : vPilots[j] = vPilots'[j]
      BY <1>8
  <2> QED
      BY <1>8, <2>1, <2>2 DEF Listed
<1>19. ASSUME NEW g \in Listed' PROVE Recorded(g)'
  <2>1. ASSUME g \in Listed PROVE Recorded(g)'
    <3>1. g \in Flight /\ Recorded(g)
        BY <1>4, <2>1 DEF Flights, Listed
    <3>2. elapsed_sim_time <= elapsed_sim_time' /\ elapsed_sim_time' \in Nat
        BY <1>3, <1>4
    <3> QED
        BY <1>4, <3>1, <3>2, RecordedStays
  <2> QED
      BY <1>16, <1>17, <2>1
<1>20. ASSUME NEW n \in Accepted' PROVE \E g \in Listed' : SAME_FLIGHT(g, Dealt(n)')
  <2>1. CASE n \in Accepted
    <3>1. PICK g \in Listed : SAME_FLIGHT(g, Dealt(n))
        BY <2>1 DEF Flights
    <3> QED
        BY <1>14, <1>18, <2>1, <3>1
  <2>2. CASE n = l
    <3>1. SAME_FLIGHT(f, Dealt(n)')
        BY <1>7, <1>13, <2>2 DEF SAME_FLIGHT
    <3> QED
        BY <1>18, <3>1
  <2> QED
      BY <1>13, <2>1, <2>2
<1> QED
    BY <1>3, <1>4, <1>8, <1>9, <1>10, <1>11, <1>19, <1>20 DEF Flights, SAME_FLIGHT

LEMMA FlightInit == Init => FlightInv
<1> SUFFICES ASSUME Init PROVE FlightInv
    OBVIOUS
<1>1. /\ vPilots = <<>> /\ elapsed_sim_time = 0 /\ pos_cnt = 0 /\ same_count = 0
      /\ packets \in [log.heads -> DOMAIN Packet] /\ dealt = <<>>
    BY DEF Init, R!Init
<1>2. Accepted = {} /\ Listed = {} /\ Apart
    BY <1>1 DEF Accepted, Listed, Apart
<1>3. Sum = 0
    BY <1>1, SumOfZeros DEF Sum
<1>4. Flights
    BY <1>1, <1>2, <1>3 DEF Flights
<1> QED
    BY <1>1, <1>4, TallyInit DEF FlightInv

LEMMA BlockKeeps ==
    ASSUME FlightInv, Flights, Play
    PROVE  Flights'
<1>1. PICK ret \in {0, 1}, pt \in Packet_Type : Block(ret, pt)
    BY PlayIsBlock DEF FlightInv, TallyInv
<1>2. PICK b : b = base
    OBVIOUS
<1>3. More(b)
    BY <1>1, <1>2, PlayIsBlock, BlockReads DEF Block, FlightInv, TallyInv, R!TypeOK, More
<1>4. same_count \in Nat /\ pos_cnt \in Nat
    BY DEF FlightInv, TallyInv, Own
<1>5. Deal_With_Packet(PacketAt(b), raw_block_size, pt)
    BY <1>1, <1>2 DEF Block
<1>6. CASE UNCHANGED <<pos_cnt, same_count, table>> /\ ~IsPosition(PacketAt(b))
    BY <1>3, <1>6, NoneAccepted
<1>7. CASE pos_cnt' = pos_cnt + 1 /\ IsPosition(PacketAt(b)) /\ UpdateFlight(PacketAt(b))
    BY <1>3, <1>4, <1>7, UpdateKeeps
<1>8. CASE pos_cnt' = pos_cnt + 1 /\ IsPosition(PacketAt(b)) /\ AddFlight(PacketAt(b))
    BY <1>3, <1>4, <1>8, AddKeeps
<1> QED
    BY <1>5, <1>6, <1>7, <1>8, DealCounts

LEMMA FlightNext ==
    ASSUME FlightInv, [Next]_vars
    PROVE  FlightInv'
<1>1. TallyInv'
    BY TallyNext DEF FlightInv
<1>2. packets' = packets /\ log' = log
  <2>1. CASE UNCHANGED vars
      BY <2>1 DEF vars, reader
  <2>2. ASSUME NEW ret \in {0, 1}, open_raw_log(ret) PROVE packets' = packets /\ log' = log
      BY <2>2, OpenReads DEF open_raw_log, FlightInv, TallyInv
  <2>3. CASE Play
      BY <2>3, PlayIsBlock, BlockReads DEF Play, Block, FlightInv, TallyInv
  <2>4. CASE show_ids
      BY <2>4 DEF show_ids, reader
  <2>5. CASE clean_up
      BY <2>5 DEF clean_up, reader
  <2> QED
      BY <2>1, <2>2, <2>3, <2>4, <2>5 DEF Next
<1>3. ASSUME Flights, UNCHANGED <<dealt, pos_cnt, same_count, table>>
      PROVE  Flights'
  <2>1. /\ vPilots' = vPilots /\ elapsed_sim_time' = elapsed_sim_time /\ dealt' = dealt
        /\ pos_cnt' = pos_cnt /\ same_count' = same_count
      BY <1>3 DEF table
  <2>2. \A b : PacketAt(b)' = PacketAt(b)
      BY <1>2 DEF PacketAt
  <2>3. \A n : Dealt(n)' = Dealt(n)
      BY <1>2, <2>1 DEF Dealt, PacketAt
  <2>4. Accepted' = Accepted
      BY <1>2, <2>1 DEF Accepted, PacketAt
  <2>5. Listed' = Listed /\ Sum' = Sum /\ (Apart => Apart')
      BY <2>1 DEF Listed, Sum, Apart
  <2>6. ASSUME NEW e, Recorded(e) PROVE Recorded(e)'
    <3>1. PICK n \in Accepted : FirstOf(e, n) /\ e.total >= Abs(e.px - Dealt(n).px)
        BY <2>6 DEF Recorded
    <3>2. FirstOf(e, n)'
        BY <2>3, <2>4, <3>1 DEF FirstOf, SAME_FLIGHT
    <3>3. (e.total >= Abs(e.px - Dealt(n).px))'
        BY <2>3, <3>1 DEF Abs
    <3> QED
        BY <2>1, <2>4, <2>6, <3>2, <3>3 DEF Recorded
  <2>7. \A n \in Accepted' : \E e \in Listed' : SAME_FLIGHT(e, Dealt(n)')
      BY <1>3, <2>3, <2>4, <2>5 DEF Flights
  <2> QED
      BY <1>3, <2>1, <2>5, <2>6, <2>7 DEF Flights, SAME_FLIGHT
<1>4. ASSUME pc' # "done" PROVE Flights'
  <2>1. CASE UNCHANGED vars
      BY <1>3, <1>4, <2>1 DEF vars, reader, counters, FlightInv
  <2>2. ASSUME NEW ret \in {0, 1}, open_raw_log(ret) PROVE Flights'
    <3>1. pc = "open" /\ dealt' = <<>> /\ dealt = <<>> /\ UNCHANGED <<counters, table>>
        BY <2>2, OpenReads DEF open_raw_log, Control, FlightInv, TallyInv
    <3> QED
        BY <1>3, <3>1 DEF counters, FlightInv
  <2>3. CASE Play
      BY <2>3, BlockKeeps DEF Play, FlightInv
  <2>4. CASE show_ids
      BY <1>3, <2>4 DEF show_ids, reader, counters, FlightInv
  <2>5. CASE clean_up
      BY <1>4, <2>5 DEF clean_up
  <2> QED
      BY <2>1, <2>2, <2>3, <2>4, <2>5 DEF Next
<1> QED
    BY <1>1, <1>2, <1>4 DEF FlightInv

LEMMA SpecFlights == Spec => []FlightInv
BY FlightInit, FlightNext, PTL DEF Spec

\* The flights account for the positions, for every log and whatever the
\* packets name: each accepted position is counted by one flight, no two flights
\* have the same names, none lasted longer than the elapsed sim time, and none
\* is further from its first position than it flew.
THEOREM ReportFlightsAddUp == Spec => []FlightsAddUp
<1>1. FlightInv => FlightsAddUp
  <2> SUFFICES ASSUME FlightInv, Flights PROVE FlightsAddUp
      BY DEF FlightInv, FlightsAddUp
  <2>1. \A m \in Accepted : m \in Nat
    <3>1. DOMAIN dealt = 1 .. Len(dealt) /\ Len(dealt) \in Nat
        BY DEF FlightInv, TallyInv, R!TypeOK
    <3> QED
        BY <3>1 DEF Accepted
  <2>2. ASSUME NEW k \in DOMAIN vPilots
        PROVE  /\ vPilots[k].sim_time - vPilots[k].first_sim_time <= elapsed_sim_time
               /\ vPilots[k].total >= Abs(vPilots[k].px -
                      PacketAt(dealt[CHOOSE n \in Accepted :
                          /\ SAME_FLIGHT(vPilots[k], PacketAt(dealt[n]))
                          /\ \A m \in Accepted :
                                SAME_FLIGHT(vPilots[k], PacketAt(dealt[m])) => n <= m]).px)
    <3> DEFINE e == vPilots[k]
               first == CHOOSE n \in Accepted :
                          /\ SAME_FLIGHT(e, Dealt(n))
                          /\ \A m \in Accepted : SAME_FLIGHT(e, Dealt(m)) => n <= m
    <3>1. Recorded(e)
        BY DEF Flights, Listed
    <3>2. PICK n \in Accepted : FirstOf(e, n) /\ e.total >= Abs(e.px - Dealt(n).px)
        BY <3>1 DEF Recorded
    <3>3. FirstOf(e, first)
        BY <3>2 DEF FirstOf
    <3>4. first = n
        BY <2>1, <3>2, <3>3 DEF FirstOf
    <3>5. e.total >= Abs(e.px - Dealt(first).px)
        BY <3>2, <3>4
    <3> QED
        BY <3>1, <3>5 DEF Recorded, Dealt
  <2> QED
      BY <2>2 DEF FlightsAddUp, Flights, Sum, Apart
<1> QED
    BY <1>1, SpecFlights, PTL

=============================================================================
