----------------------------- MODULE StartupProofs -----------------------------
(***************************************************************************)
(* Theorems about Startup and the logging library of Sprtf, for every      *)
(* command line: what is said goes to the log asked for, no line of a file *)
(* is lost once it is appended to, and the server listens on the port it   *)
(* was told to, and on none when main is over.                             *)
(***************************************************************************)
EXTENDS Startup, SubseqProofs, SequenceTheorems

Messages ==
    {"ERROR", "WARNING", "line", "Set LOG file", "Unknown command", "Set", "Usage", "test",
     "Starting", "Failed", "on port", "destroyed", "Failed to set", "Server FAILED", "Ran for"}
LineType == [stamp : {"", "date", "time"}, msg : Messages]
LogType ==
    [logfile : Names \cup {NoName}, outfile : {Closed, Off, "open"}, mode : {"w", "a"},
     append_to_log : BOOLEAN, addstdout : BOOLEAN,
     addsysdate : BOOLEAN, addsystime : BOOLEAN, iNextBuf : 0 .. MX_BUFFERS - 1,
     text : [Names -> Seq(LineType)], screen : Seq(LineType), exited : BOOLEAN]

\* From l to m nothing that stands in a file opened for appending is lost.
KeepsText(l, m) ==
    l.mode = "a" => m.mode = "a" /\ \A f \in Names : IsPrefix(l.text[f], m.text[f])

-----------------------------------------------------------------------------
(* Prefixes *)

LEMMA PrefixAppend ==
    ASSUME NEW T, NEW s \in Seq(T), NEW e \in T
    PROVE  Append(s, e) \in Seq(T) /\ IsPrefix(s, s) /\ IsPrefix(s, Append(s, e))
<1>1. Len(Append(s, e)) = Len(s) + 1 /\ Len(s) \in Nat
    OBVIOUS
<1>2. SubSeq(Append(s, e), 1, Len(s)) = s /\ SubSeq(s, 1, Len(s)) = s
    OBVIOUS
<1> QED
    BY <1>1, <1>2 DEF IsPrefix

LEMMA PrefixTransitive ==
    ASSUME NEW T, NEW s \in Seq(T), NEW t \in Seq(T), NEW u \in Seq(T),
           IsPrefix(s, t), IsPrefix(t, u)
    PROVE  IsPrefix(s, u)
<1>1. Len(s) \in Nat /\ Len(t) \in Nat /\ Len(u) \in Nat /\ Len(s) <= Len(t) /\ Len(t) <= Len(u)
    BY DEF IsPrefix
<1>2. SubSeq(s, 1, Len(s)) = SubSeq(t, 1, Len(s)) /\ SubSeq(t, 1, Len(t)) = SubSeq(u, 1, Len(t))
    BY DEF IsPrefix
<1>3. \A k \in 1 .. Len(s) : s[k] = u[k]
  <2> TAKE k \in 1 .. Len(s)
  <2>1. SubSeq(s, 1, Len(s))[k] = s[k] /\ SubSeq(t, 1, Len(s))[k] = t[k]
      BY <1>1
  <2>2. SubSeq(t, 1, Len(t))[k] = t[k] /\ SubSeq(u, 1, Len(t))[k] = u[k]
      BY <1>1
  <2> QED
      BY <1>2, <2>1, <2>2
<1>4. SubSeq(s, 1, Len(s)) = SubSeq(u, 1, Len(s))
    BY <1>1, <1>3
<1> QED
    BY <1>1, <1>4 DEF IsPrefix

LEMMA KeepsTextTransitive ==
    ASSUME NEW l \in LogType, NEW m \in LogType, NEW n \in LogType,
           KeepsText(l, m), KeepsText(m, n)
    PROVE  KeepsText(l, n)
<1> SUFFICES ASSUME l.mode = "a", NEW f \in Names
             PROVE  n.mode = "a" /\ IsPrefix(l.text[f], n.text[f])
    BY DEF KeepsText
<1>1. l.text[f] \in Seq(LineType) /\ m.text[f] \in Seq(LineType) /\ n.text[f] \in Seq(LineType)
    BY DEF LogType
<1>2. n.mode = "a" /\ IsPrefix(l.text[f], m.text[f]) /\ IsPrefix(m.text[f], n.text[f])
    BY DEF KeepsText
<1> QED
    BY <1>1, <1>2, PrefixTransitive

LEMMA SameText ==
    ASSUME NEW l \in LogType, NEW m, l.mode = "a" => m.mode = "a", m.text = l.text
    PROVE  KeepsText(l, m)
<1>1. \A f \in Names : l.text[f] \in Seq(LineType)
    BY DEF LogType
<1>2. \A f \in Names : IsPrefix(l.text[f], l.text[f])
    BY <1>1 DEF IsPrefix
<1> QED
    BY <1>2 DEF KeepsText

-----------------------------------------------------------------------------
(* The operators of the library keep the type of the record, and the texts *)

LEMMA NamedKeeps ==
    ASSUME NEW l \in LogType
    PROVE  /\ Named(l) \in LogType /\ Named(l).logfile \in Names
           /\ KeepsText(l, Named(l))
           /\ l.logfile # NoName => Named(l) = l
<1>1. Named(l) \in LogType /\ Named(l).logfile \in Names
    BY SprtfAssumption DEF Named, LogType
<1>2. Named(l).text = l.text /\ Named(l).mode = l.mode
    BY DEF Named, LogType
<1> QED
    BY <1>1, <1>2, SameText DEF Named

LEMMA ShownKeeps ==
    ASSUME NEW l \in LogType, NEW line \in LineType
    PROVE  Shown(l, line) \in LogType /\ KeepsText(l, Shown(l, line))
<1>1. Append(l.screen, line) \in Seq(LineType)
    BY DEF LogType
<1>2. Shown(l, line) \in LogType /\ Shown(l, line).text = l.text /\ Shown(l, line).mode = l.mode
    BY <1>1 DEF Shown, LogType
<1> QED
    BY <1>2, SameText

LEMMA GivesUpKeeps ==
    ASSUME NEW l \in LogType, NEW msg \in Messages
    PROVE  GivesUp(l, msg) \in LogType /\ KeepsText(l, GivesUp(l, msg))
<1> DEFINE off == [l EXCEPT !.outfile = Off]
           shown == Shown(off, Line("", msg))
<1>1. off \in LogType /\ off.text = l.text /\ off.mode = l.mode
    BY DEF LogType
<1>2. Line("", msg) \in LineType
    BY DEF Line, LineType
<1> HIDE DEF off
<1>3. shown \in LogType /\ KeepsText(off, shown)
    BY <1>1, <1>2, ShownKeeps
<1> HIDE DEF shown
<1>4. [shown EXCEPT !.exited = TRUE] \in LogType
    BY <1>3 DEF LogType
<1>5. [shown EXCEPT !.exited = TRUE].text = shown.text /\ [shown EXCEPT !.exited = TRUE].mode = shown.mode
    BY <1>3 DEF LogType
<1>6. GivesUp(l, msg) = [shown EXCEPT !.exited = TRUE]
    BY DEF GivesUp, off, shown
<1> QED
    BY <1>1, <1>3, <1>4, <1>5, <1>6 DEF KeepsText

\* A text that is replaced by one that it is a prefix of.
LEMMA LongerText ==
    ASSUME NEW l \in LogType, NEW g, NEW t \in Seq(LineType),
           g \in Names /\ l.mode = "a" => IsPrefix(l.text[g], t)
    PROVE  /\ [l EXCEPT !.text[g] = t] \in LogType
           /\ KeepsText(l, [l EXCEPT !.text[g] = t])
<1> DEFINE text == [l.text EXCEPT ![g] = t]
<1>1. text \in [Names -> Seq(LineType)]
    BY DEF LogType
<1>2. \A f \in Names : text[f] = IF f = g THEN t ELSE l.text[f]
    BY DEF LogType
<1>3. \A f \in Names : l.text[f] \in Seq(LineType) /\ IsPrefix(l.text[f], l.text[f])
  <2> TAKE f \in Names
  <2>1. l.text[f] \in Seq(LineType)
      BY DEF LogType
  <2> QED
      BY <2>1 DEF IsPrefix
<1>4. [l EXCEPT !.text[g] = t] = [l EXCEPT !.text = text]
    BY DEF LogType
<1> HIDE DEF text
<1>5. /\ [l EXCEPT !.text = text] \in LogType
      /\ [l EXCEPT !.text = text].text = text
      /\ [l EXCEPT !.text = text].mode = l.mode
    BY <1>1 DEF LogType
<1> QED
    BY <1>2, <1>3, <1>4, <1>5 DEF KeepsText

LEMMA OpenKeeps ==
    ASSUME NEW l \in LogType
    PROVE  open_log_file(l) \in LogType /\ KeepsText(l, open_log_file(l))
<1> DEFINE m == [Named(l) EXCEPT !.mode = Mode(l)]
           o == [m EXCEPT !.outfile = "open"]
           t == IF m.mode = "a" THEN m.text[m.logfile] ELSE <<>>
<1>1. Named(l) \in LogType /\ Named(l).logfile \in Names /\ KeepsText(l, Named(l))
    BY NamedKeeps
<1>2. Mode(l) \in {"w", "a"} /\ (l.mode = "a" => Mode(l) = "a")
    BY DEF Mode, LogType
<1>3. m \in LogType /\ m.logfile \in Names /\ m.text = Named(l).text /\ m.mode = Mode(l)
    BY <1>1, <1>2 DEF LogType
<1>4. KeepsText(l, m)
    BY <1>1, <1>2, <1>3 DEF KeepsText
<1>5. CASE disk = "readonly"
  <2> HIDE DEF m
  <2>a. "ERROR" \in Messages
      BY DEF Messages
  <2>1. GivesUp(m, "ERROR") \in LogType /\ KeepsText(m, GivesUp(m, "ERROR"))
      BY <1>3, <2>a, GivesUpKeeps, Zenon
  <2>2. open_log_file(l) = GivesUp(m, "ERROR")
      BY <1>5 DEF open_log_file, m
  <2> QED
      BY <1>3, <1>4, <2>1, <2>2, KeepsTextTransitive
<1>6. CASE disk # "readonly"
  <2>1. open_log_file(l) = [o EXCEPT !.text[m.logfile] = t]
    <3>1. open_log_file(l) = [m EXCEPT !.outfile = "open",
                                       !.text[m.logfile] = IF m.mode = "a" THEN @ ELSE <<>>]
        BY <1>6 DEF open_log_file
    <3> HIDE DEF m
    <3> QED
        BY <3>1, <1>3 DEF LogType
  <2> HIDE DEF m
  <2>2. /\ o \in LogType /\ o.text = m.text /\ o.mode = m.mode /\ o.logfile = m.logfile
        /\ m.text[m.logfile] \in Seq(LineType)
      BY <1>3 DEF LogType
  <2>3. KeepsText(m, o)
      BY <1>3, <2>2, SameText
  <2>4. t \in Seq(LineType) /\ (o.mode = "a" => t = o.text[m.logfile] /\ IsPrefix(o.text[m.logfile], t))
    <3>1. t \in Seq(LineType) /\ (o.mode = "a" => t = o.text[m.logfile])
        BY <2>2
    <3> QED
        BY <2>2, <3>1 DEF IsPrefix
  <2> HIDE DEF o, t
  <2>5. [o EXCEPT !.text[m.logfile] = t] \in LogType /\ KeepsText(o, [o EXCEPT !.text[m.logfile] = t])
      BY <2>2, <2>4, LongerText
  <2> QED
      BY <1>3, <1>4, <2>1, <2>2, <2>3, <2>5, KeepsTextTransitive
<1> QED
    BY <1>5, <1>6

LEMMA StampedKeeps ==
    ASSUME NEW l \in LogType
    PROVE  /\ Stamped(l) \in LogType /\ KeepsText(l, Stamped(l))
           /\ Stamped(l).text = l.text /\ Stamped(l).logfile = l.logfile
           /\ Stamped(l).screen = l.screen /\ Stamped(l).outfile = l.outfile
           /\ Stamped(l).addstdout = l.addstdout /\ Stamped(l).exited = l.exited
<1>1. ASSUME NEW m \in LogType
      PROVE  /\ GetNxtBuf(m) \in LogType /\ GetNxtBuf(m).mode = m.mode
             /\ GetNxtBuf(m).text = m.text /\ GetNxtBuf(m).logfile = m.logfile
             /\ GetNxtBuf(m).screen = m.screen /\ GetNxtBuf(m).outfile = m.outfile
             /\ GetNxtBuf(m).addstdout = m.addstdout /\ GetNxtBuf(m).exited = m.exited
  <2>1. m.iNextBuf \in 0 .. MX_BUFFERS - 1 /\ MX_BUFFERS \in Nat \ {0}
      BY <1>1, SprtfAssumption DEF LogType
  <2>2. (m.iNextBuf + 1) % MX_BUFFERS \in 0 .. MX_BUFFERS - 1
      BY <2>1
  <2>3. GetNxtBuf(m) = [m EXCEPT !.iNextBuf = (m.iNextBuf + 1) % MX_BUFFERS]
      BY DEF GetNxtBuf
  <2> DEFINE n == (m.iNextBuf + 1) % MX_BUFFERS
  <2> HIDE DEF n
  <2> QED
      BY <1>1, <2>2, <2>3 DEF LogType, n
<1> DEFINE a == GetNxtBuf(l)
           b == GetNxtBuf(GetNxtBuf(l))
<1>2. a \in LogType /\ b \in LogType
    BY <1>1
<1>3. /\ b.mode = l.mode /\ b.text = l.text /\ b.logfile = l.logfile
      /\ b.screen = l.screen /\ b.outfile = l.outfile
      /\ b.addstdout = l.addstdout /\ b.exited = l.exited
    BY <1>1, <1>2
<1>4. Stamped(l) = l \/ Stamped(l) = b
    BY DEF Stamped
<1> HIDE DEF b
<1> QED
    BY <1>2, <1>3, <1>4, SameText

LEMMA WrittenKeeps ==
    ASSUME NEW l \in LogType, NEW msg \in Messages
    PROVE  Written(l, msg) \in LogType /\ KeepsText(l, Written(l, msg))
<1> DEFINE st == Stamped(l)
           line == Line(Stamp(l), msg)
           t == Append(st.text[st.logfile], line)
           longer == [st EXCEPT !.text[st.logfile] = t]
<1>1. st \in LogType /\ KeepsText(l, st) /\ st.text = l.text /\ st.logfile = l.logfile
    BY StampedKeeps
<1>2. line \in LineType
    BY DEF Line, LineType, Stamp
<1>3. CASE disk = "full"
  <2>1. "WARNING" \in Messages
      BY DEF Messages
  <2>2. GivesUp(st, "WARNING") \in LogType /\ KeepsText(st, GivesUp(st, "WARNING"))
      BY <1>1, <2>1, GivesUpKeeps, Zenon
  <2>3. Written(l, msg) = GivesUp(st, "WARNING")
      BY <1>3 DEF Written
  <2> QED
      BY <1>1, <2>2, <2>3, KeepsTextTransitive
<1>4. CASE disk # "full"
  <2>1. CASE l.logfile \in Names
    <3>1. st.text[st.logfile] \in Seq(LineType)
        BY <1>1, <2>1 DEF LogType
    <3>2. t \in Seq(LineType) /\ IsPrefix(st.text[st.logfile], t)
        BY <1>2, <3>1, PrefixAppend
    <3>3. Written(l, msg) = Shown(longer, line)
        BY <1>1, <1>4 DEF Written
    <3> HIDE DEF st, line, t
    <3>4. longer \in LogType /\ KeepsText(st, longer)
        BY <1>1, <3>2, LongerText
    <3> HIDE DEF longer
    <3>5. Shown(longer, line) \in LogType /\ KeepsText(longer, Shown(longer, line))
        BY <1>2, <3>4, ShownKeeps
    <3> QED
        BY <1>1, <3>3, <3>4, <3>5, KeepsTextTransitive
  <2>2. CASE l.logfile \notin Names
    <3>1. longer = st
        BY <1>1, <2>2 DEF LogType
    <3>2. Written(l, msg) = Shown(longer, line)
        BY <1>1, <1>4 DEF Written
    <3>3. Shown(st, line) \in LogType /\ KeepsText(st, Shown(st, line))
        BY <1>1, <1>2, ShownKeeps
    <3> QED
        BY <1>1, <3>1, <3>2, <3>3, KeepsTextTransitive
  <2> QED
      BY <2>1, <2>2
<1> QED
    BY <1>3, <1>4

LEMMA SprtfKeeps ==
    ASSUME NEW l \in LogType, NEW msg \in Messages
    PROVE  sprtf(l, msg) \in LogType /\ KeepsText(l, sprtf(l, msg))
<1> DEFINE o == IF l.outfile = Closed THEN open_log_file(l) ELSE l
<1>1. o \in LogType /\ KeepsText(l, o) /\ KeepsText(o, o)
    BY OpenKeeps, SameText
<1>2. Line("", msg) \in LineType
    BY DEF Line, LineType
<1>3. sprtf(l, msg) \in {l, o, Shown(o, Line("", msg)), Written(o, msg)}
    BY DEF sprtf, oi
<1> HIDE DEF o
<1>4. /\ Shown(o, Line("", msg)) \in LogType /\ KeepsText(o, Shown(o, Line("", msg)))
      /\ Written(o, msg) \in LogType /\ KeepsText(o, Written(o, msg))
    BY <1>1, <1>2, ShownKeeps, WrittenKeeps
<1>5. KeepsText(l, l)
    BY SameText
<1> QED
    BY <1>1, <1>3, <1>4, <1>5, KeepsTextTransitive

LEMMA RenameKeeps ==
    ASSUME NEW l \in LogType, NEW nf \in Names, NEW open \in BOOLEAN
    PROVE  set_log_file(l, nf, open) \in LogType /\ KeepsText(l, set_log_file(l, nf, open))
<1> DEFINE n == Named(l)
           renamed == [close_log_file(n) EXCEPT !.logfile = nf]
           off == [renamed EXCEPT !.outfile = Off]
<1>1. n \in LogType /\ KeepsText(l, n)
    BY NamedKeeps
<1>2. set_log_file(l, nf, open) \in {n, off, open_log_file(renamed), renamed}
    BY DEF set_log_file
<1> HIDE DEF n
<1>3. renamed \in LogType /\ renamed.text = n.text /\ renamed.mode = n.mode
    BY <1>1 DEF close_log_file, LogType
<1> HIDE DEF renamed
<1>4. off \in LogType /\ off.text = n.text /\ off.mode = n.mode
    BY <1>3 DEF LogType
<1>5. KeepsText(n, renamed) /\ KeepsText(n, off)
    BY <1>1, <1>3, <1>4, SameText
<1>6. open_log_file(renamed) \in LogType /\ KeepsText(renamed, open_log_file(renamed))
    BY <1>3, OpenKeeps
<1> HIDE DEF off
<1>7. KeepsText(n, open_log_file(renamed))
    BY <1>1, <1>3, <1>5, <1>6, KeepsTextTransitive
<1> QED
    BY <1>1, <1>2, <1>3, <1>4, <1>5, <1>6, <1>7, KeepsTextTransitive

LEMMA CloseKeeps ==
    ASSUME NEW l \in LogType
    PROVE  close_log_file(l) \in LogType /\ KeepsText(l, close_log_file(l))
<1>1. /\ close_log_file(l) \in LogType
      /\ close_log_file(l).text = l.text /\ close_log_file(l).mode = l.mode
    BY DEF close_log_file, LogType
<1> QED
    BY <1>1, SameText

-----------------------------------------------------------------------------
(* Types, and what a step says *)

Typed ==
    /\ log \in LogType /\ disk \in Disks
    /\ program \in Programs /\ argv \in ArgLists \cup {<<>>}
    /\ pc \in {"check", "parse", "open", "init", "serve", "main", "done", "client"}
    /\ i \in Nat \ {0} /\ log_file \in Names
    /\ pc = "client" <=> program = "client"

LEMMA ArgsNamed ==
    ASSUME Typed, NEW k \in DOMAIN argv
    PROVE  k \in Nat \ {0} /\ k <= Len(argv) /\ Len(argv) \in Nat /\ LogNames[argv[k]] \in Names
<1>1. argv \in Seq(Arg)
    BY StartupAssumption DEF Typed
<1>2. argv # <<>>
    OBVIOUS
<1> QED
    BY <1>1, <1>2, StartupAssumption DEF Typed

LEMMA NewLogType == NewLog \in LogType
BY SprtfAssumption DEF NewLog, LogType

LEMMA InitTyped == StartupInit => Typed
<1> SUFFICES ASSUME StartupInit PROVE Typed
    OBVIOUS
<1>1. log \in LogType /\ disk \in Disks
    BY NewLogType DEF StartupInit, Init
<1>2. log_file \in Names
    BY StartupAssumption DEF StartupInit
<1>3. program \in Programs /\ argv \in ArgLists \cup {<<>>}
    BY DEF StartupInit
<1> QED
    BY <1>1, <1>2, <1>3, StartupAssumption DEF StartupInit, Typed

\* The first pass: the name is taken, and nothing is said until its end.
LEMMA CheckSays ==
    ASSUME Typed, Check
    PROVE  /\ \/ log' = log
              \/ log' = set_log_file(log, log_file, FALSE)
              \/ log' = sprtf(set_log_file(log, log_file, FALSE), "Set LOG file")
           /\ log_file' \in Names /\ i' \in Nat \ {0}
           /\ pc' \in {"check", "main", "done", "parse"}
<1>1. CASE TakeLog
  <2>1. i + 1 \in DOMAIN argv
      BY <1>1 DEF TakeLog, HasValue, Typed
  <2>2. LogNames[argv[i + 1]] \in Names
      BY <2>1, ArgsNamed
  <2> QED
      BY <1>1, <2>2 DEF TakeLog, Value, Typed, Check
<1>2. CASE LogMissing
    BY <1>2 DEF LogMissing, Return, Typed, Check
<1>3. CASE PassArg
    BY <1>3 DEF PassArg, Typed, Check
<1>4. CASE SetLog
  <2>1. \/ log' = set_log_file(log, log_file, FALSE)
        \/ log' = sprtf(set_log_file(log, log_file, FALSE), "Set LOG file")
      BY <1>4 DEF SetLog, SayThen
  <2>2. pc' = "done" \/ pc' = "parse"
      BY <1>4 DEF SetLog, SayThen
  <2>3. i' = 1 /\ log_file' = log_file /\ log_file \in Names
      BY <1>4 DEF SetLog, Typed
  <2>4. i' \in Nat \ {0}
      BY <2>3
  <2> QED
      BY <2>1, <2>2, <2>3, <2>4, Zenon
<1> QED
    BY <1>1, <1>2, <1>3, <1>4 DEF Check

LEMMA ParseTyped ==
    ASSUME Typed, Parse
    PROVE  /\ log' = log \/ \E msg \in Messages : log' = sprtf(log, msg)
           /\ i' \in Nat \ {0} /\ pc' \in {"parse", "open", "main", "done"}
<1>1. pc = "parse" /\ i \in Nat \ {0} /\ \A n \in Nat : i + n \in Nat \ {0}
    BY DEF Parse, Typed
<1>2. "Set" \in Messages /\ "Usage" \in Messages /\ "Unknown command" \in Messages
    BY DEF Messages
<1>3. ASSUME Refuse
      PROVE  /\ \E msg \in Messages : log' = sprtf(log, msg)
             /\ i' = i /\ pc' \in {"done", "main"}
    BY <1>2, <1>3 DEF Refuse
<1>4. ASSUME NEW msg \in Messages, NEW next, SayThen(sprtf(log, msg), next)
      PROVE  /\ log' = sprtf(log, msg) /\ pc' \in {"done", next}
    BY <1>4 DEF SayThen
<1>5. CASE parse_commands
  <2>1. CASE Number \/ RawLogFile
    <3>1. SayThen(sprtf(log, "Set"), "parse") /\ i' = i + 2
        BY <2>1 DEF Number, RawLogFile, Consume
    <3> QED
        BY <1>1, <1>2, <1>4, <3>1
  <2>2. CASE Verbosity \/ VerbosityAgain
    <3>1. log' = log /\ pc' = pc /\ (i' = i + 1 \/ i' = i)
        BY <2>2 DEF Verbosity, VerbosityAgain, Consume
    <3> QED
        BY <1>1, <3>1
  <2>3. CASE SkipLog
    <3>1. log' = log /\ pc' = pc /\ (i' = i + 1 \/ i' = i + 2)
        BY <2>3 DEF SkipLog, SkipsLog, Consume
    <3> QED
        BY <1>1, <3>1
  <2>4. CASE Help(2)
    <3>1. log' = log /\ pc' = "main" /\ i' = i
        BY <2>4 DEF Help
    <3> QED
        BY <1>1, <3>1
  <2>5. CASE Refuse
      BY <1>1, <1>3, <2>5
  <2>6. CASE ~More /\ pc' = "open" /\ UNCHANGED <<log, status, i, options>>
      BY <1>1, <2>6
  <2> QED
      BY <1>5, <2>1, <2>2, <2>3, <2>4, <2>5, <2>6 DEF parse_commands
<1>6. CASE parse_args
  <2>1. CASE Verbose \/ PacketTest \/ Input
    <3>1. log' = log /\ pc' = pc /\ i' = i + 1
        BY <2>1 DEF Verbose, PacketTest, Input, Consume
    <3> QED
        BY <1>1, <3>1
  <2>2. CASE SkipLog
    <3>1. log' = log /\ pc' = pc /\ (i' = i + 1 \/ i' = i + 2)
        BY <2>2 DEF SkipLog, SkipsLog, Consume
    <3> QED
        BY <1>1, <3>1
  <2>3. CASE SayThen(sprtf(log, "Usage"), "main") /\ UNCHANGED <<i, options>>
      BY <1>1, <1>2, <1>4, <2>3
  <2>4. CASE Refuse
      BY <1>1, <1>3, <2>4
  <2>5. CASE pc' = "open" /\ UNCHANGED <<log, status, i, options>>
      BY <1>1, <2>5
  <2> QED
      BY <1>6, <2>1, <2>2, <2>3, <2>4, <2>5 DEF parse_args
<1> QED
    BY <1>5, <1>6 DEF Parse

\* The calls of main after the second pass, and what each of them says.
LEMMA CallSays ==
    ASSUME Typed, Open \/ http_init \/ Leave \/ Finish
    PROVE  /\ \/ log' = log
              \/ \E msg \in Messages : log' = sprtf(log, msg)
              \/ log' = sprtf(sprtf(sprtf(log, "destroyed"), "Failed to set"), "Server FAILED")
           /\ i' = i /\ pc' \in {"main", "done", "init", "serve"}
           /\ UNCHANGED <<program, argv, disk, log_file, port, raw_log>>
<1>1. \A msg \in {"test", "Starting", "Failed", "on port", "destroyed", "Ran for"} : msg \in Messages
    BY DEF Messages
<1>2. ASSUME NEW msg \in Messages, NEW next, SayThen(sprtf(log, msg), next)
      PROVE  /\ log' = sprtf(log, msg) /\ pc' \in {"done", next}
    BY <1>2 DEF SayThen
<1>3. CASE Open
  <2>1. /\ \E msg \in {"test", "Starting", "Failed"} : log' = sprtf(log, msg)
        /\ pc' \in {"main", "done", "init"}
      BY <1>3 DEF Open, SayThen
  <2>2. i' = i /\ UNCHANGED <<program, argv, disk, log_file, port, raw_log>>
      BY <1>3 DEF Open, fixed, options
  <2> QED
      BY <1>1, <2>1, <2>2
<1>4. CASE http_init
  <2>1. i' = i /\ UNCHANGED <<program, argv, disk, log_file, port, raw_log>>
      BY <1>4 DEF http_init, fixed, options
  <2>2. \/ SayThen(sprtf(log, "on port"), "serve")
        \/ /\ log' = sprtf(sprtf(sprtf(log, "destroyed"), "Failed to set"), "Server FAILED")
           /\ pc' \in {"done", "main"}
      BY <1>4 DEF http_init
  <2> QED
      BY <1>1, <1>2, <2>1, <2>2
<1>5. CASE Leave
  <2>1. i' = i /\ UNCHANGED <<program, argv, disk, log_file, port, raw_log>>
      BY <1>5 DEF Leave, fixed, options
  <2> QED
      BY <1>1, <1>2, <1>5, <2>1 DEF Leave
<1>6. CASE Finish
  <2>1. i' = i /\ UNCHANGED <<program, argv, disk, log_file, port, raw_log>>
      BY <1>6 DEF Finish, fixed, options
  <2> QED
      BY <1>1, <1>6, <2>1 DEF Finish
<1> QED
    BY <1>3, <1>4, <1>5, <1>6

LEMMA StepTyped == Typed /\ StartupNext => Typed' /\ KeepsText(log, log')
<1> SUFFICES ASSUME Typed, StartupNext PROVE Typed' /\ KeepsText(log, log')
    OBVIOUS
<1>1. ASSUME NEW m \in LogType, KeepsText(log, m), NEW msg \in Messages
      PROVE  sprtf(m, msg) \in LogType /\ KeepsText(log, sprtf(m, msg))
    BY <1>1, SprtfKeeps, KeepsTextTransitive DEF Typed
<1>2. log \in LogType /\ KeepsText(log, log) /\ log_file \in Names
    BY SameText DEF Typed
<1>3. \A msg \in {"line", "Set LOG file", "destroyed", "Failed to set", "Server FAILED"} : msg \in Messages
    BY DEF Messages
<1>4. CASE Check
  <2>1. /\ set_log_file(log, log_file, FALSE) \in LogType
        /\ KeepsText(log, set_log_file(log, log_file, FALSE))
      BY <1>2, RenameKeeps
  <2>2. log' \in LogType /\ KeepsText(log, log')
      BY <1>1, <1>2, <1>3, <1>4, <2>1, CheckSays
  <2>3. UNCHANGED <<disk, program, argv>> /\ pc # "client"
      BY <1>4 DEF Check, fixed
  <2>4. log_file' \in Names /\ i' \in Nat \ {0} /\ pc' \in {"check", "main", "done", "parse"}
      BY <1>4, CheckSays
  <2> QED
      BY <2>2, <2>3, <2>4 DEF Typed
<1>5. CASE Parse
  <2>1. log' \in LogType /\ KeepsText(log, log')
      BY <1>1, <1>2, <1>5, ParseTyped
  <2>2. UNCHANGED <<disk, program, argv>> /\ log_file' = log_file /\ pc # "client"
      BY <1>5 DEF Parse, fixed
  <2>3. i' \in Nat \ {0} /\ pc' \in {"parse", "open", "main", "done"}
      BY <1>5, ParseTyped
  <2> QED
      BY <2>1, <2>2, <2>3 DEF Typed
<1>6. CASE Open \/ http_init \/ Leave \/ Finish
  <2>1. log' \in LogType /\ KeepsText(log, log')
      BY <1>1, <1>2, <1>3, <1>6, CallSays
  <2>2. pc # "client" /\ UNCHANGED <<disk, program, argv, log_file>> /\ i' = i
      BY <1>6, CallSays DEF Open, http_init, Leave, Finish
  <2>3. pc' \in {"main", "done", "init", "serve"}
      BY <1>6, CallSays
  <2> QED
      BY <2>1, <2>2, <2>3 DEF Typed
<1>7. CASE Client
  <2>1. UNCHANGED <<program, argv, pc, i, log_file, disk>>
      BY <1>7 DEF Client, Next
  <2>2. log' \in LogType /\ KeepsText(log, log')
    <3>1. ASSUME NEW m \in LogType, m.text = log.text, m.mode = log.mode
          PROVE  KeepsText(log, m)
        BY <1>2, <3>1, SameText
    <3>2. CASE add_append_log \/ add_sys_date \/ add_sys_time
      <4>1. /\ log' \in LogType /\ log'.text = log.text /\ log'.mode = log.mode
          BY <1>2, <3>2 DEF add_append_log, add_sys_date, add_sys_time, LogType
      <4> QED
          BY <3>1, <4>1
    <3>3. CASE Rename
        BY <1>2, <3>3, RenameKeeps DEF Rename
    <3>4. CASE AskName
      <4>1. log' = Named(log)
          BY <3>4 DEF AskName, get_log_file
      <4> QED
          BY <1>2, <4>1, NamedKeeps
    <3>5. CASE Close
        BY <1>2, <3>5, CloseKeeps DEF Close
    <3>6. CASE Say
        BY <1>1, <1>2, <1>3, <3>6 DEF Say
    <3> QED
        BY <1>7, <3>2, <3>3, <3>4, <3>5, <3>6 DEF Client, Next
  <2> QED
      BY <2>1, <2>2 DEF Typed
<1> QED
    BY <1>4, <1>5, <1>6, <1>7 DEF StartupNext, Run

\* Whatever sets, renames, closes or fails in between, a line that stands in a
\* file the library has opened for appending is never lost.
THEOREM StartupAppendingKeeps == StartupSpec => AppendingKeeps
<1>1. StartupInit => Typed
    BY InitTyped
<1>2. Typed /\ [StartupNext]_vars => Typed'
  <2>1. Typed /\ UNCHANGED vars => Typed'
      BY DEF Typed, vars, options, server
  <2> QED
      BY <2>1, StepTyped
<1>3. Typed /\ [StartupNext]_vars =>
        [log.mode = "a" => \A f \in Names : IsPrefix(log.text[f], log'.text[f])]_log
  <2>1. UNCHANGED vars => log' = log
      BY DEF vars
  <2> QED
      BY <2>1, StepTyped DEF KeepsText
<1> QED
    BY <1>1, <1>2, <1>3, PTL DEF StartupSpec, AppendingKeeps

\* The static record of the library keeps its type, whoever calls it.
THEOREM StartupTypeOK == StartupSpec => []TypeOK
<1>1. Typed /\ [StartupNext]_vars => Typed'
  <2>1. Typed /\ UNCHANGED vars => Typed'
      BY DEF Typed, vars, options, server
  <2> QED
      BY <2>1, StepTyped
<1>2. Typed => TypeOK
    BY DEF Typed, TypeOK, LogType
<1> QED
    BY InitTyped, <1>1, <1>2, PTL DEF StartupSpec

-----------------------------------------------------------------------------
(* The port *)

\* Only a server that serves listens, on the port of its options.
Served ==
    /\ pc \in {"check", "parse", "open", "init", "main"} => listening = 0
    /\ pc = "serve" =>
          \E free \in FreePorts :
              listening = ns_bind(free) /\ told = IF port = 0 THEN ns_bind(free) ELSE port
    /\ pc = "done" /\ ~log.exited => listening = 0

ListenInv == Typed /\ Served

LEMMA CheckServed == ListenInv /\ Check => Served'
<1> SUFFICES ASSUME ListenInv, Check PROVE Served'
    OBVIOUS
<1>1. pc = "check" /\ listening' = listening
    BY DEF Check, server
<1>2. pc' \in {"check", "main", "done", "parse"}
    BY CheckSays DEF ListenInv
<1> QED
    BY <1>1, <1>2 DEF ListenInv, Served

LEMMA ParseServed == ListenInv /\ Parse => Served'
<1> SUFFICES ASSUME ListenInv, Parse PROVE Served'
    OBVIOUS
<1>1. pc = "parse" /\ listening' = listening
    BY DEF Parse, server
<1>2. pc' \in {"parse", "open", "main", "done"}
    BY ParseTyped DEF ListenInv
<1> QED
    BY <1>1, <1>2 DEF ListenInv, Served

LEMMA CallServed == ListenInv /\ (Open \/ http_init \/ Leave \/ Finish) => Served'
<1> SUFFICES ASSUME ListenInv, Open \/ http_init \/ Leave \/ Finish PROVE Served'
    OBVIOUS
<1>1. CASE Open
  <2>1. pc = "open" /\ listening' = listening /\ pc' \in {"main", "done", "init"}
      BY <1>1 DEF Open, SayThen, server
  <2> QED
      BY <2>1 DEF ListenInv, Served
<1>2. CASE http_init
  <2>1. CASE http_close
    <3>1. listening' = 0
        BY <2>1 DEF http_close
    <3>2. pc' = "done" \/ pc' = "main" \/ (pc' = "serve" /\ \E free \in FreePorts : mg_set_option(free))
        BY <1>2 DEF http_init, SayThen
    <3>3. port' = port
        BY <1>2 DEF http_init, options
    <3> QED
        BY <3>1, <3>2, <3>3 DEF Served, mg_set_option, ns_bind, PortBound, FreePorts
  <2>2. CASE \E free \in FreePorts : mg_set_option(free) /\ SayThen(sprtf(log, "on port"), "serve")
    <3>1. PICK free \in FreePorts : mg_set_option(free) /\ SayThen(sprtf(log, "on port"), "serve")
        BY <2>2
    <3>2. port' = port
        BY <1>2 DEF http_init, options
    <3>3. pc' = "serve" \/ (pc' = "done" /\ log'.exited)
        BY <3>1 DEF SayThen
    <3>4. ns_bind(free)' = ns_bind(free)
        BY <3>2 DEF ns_bind, PortBound
    <3>5. listening' = ns_bind(free) /\ told' = IF port = 0 THEN ns_bind(free) ELSE port
        BY <3>1 DEF mg_set_option
    <3> QED
        BY <3>2, <3>3, <3>4, <3>5 DEF Served, ns_bind, PortBound, FreePorts
  <2> QED
      BY <1>2, <2>1, <2>2 DEF http_init
<1>3. CASE Leave
  <2>1. listening' = 0 /\ pc' \in {"done", "main"}
      BY <1>3 DEF Leave, http_close, SayThen
  <2> QED
      BY <2>1 DEF Served
<1>4. CASE Finish
  <2>1. pc = "main" /\ listening' = listening /\ pc' = "done"
      BY <1>4 DEF Finish, server
  <2> QED
      BY <2>1 DEF ListenInv, Served
<1> QED
    BY <1>1, <1>2, <1>3, <1>4

LEMMA StartupListenInv == StartupSpec => []ListenInv
<1>1. StartupInit => ListenInv
  <2>1. StartupInit => Served
      BY DEF StartupInit, Served
  <2> QED
      BY <2>1, InitTyped DEF ListenInv
<1>2. ListenInv /\ [StartupNext]_vars => ListenInv'
  <2>1. ListenInv /\ UNCHANGED vars => ListenInv'
      BY DEF ListenInv, Typed, Served, vars, options, server, ns_bind, PortBound, FreePorts
  <2>2. ListenInv /\ Client => Served'
      BY DEF Client, ListenInv, Served
  <2>3. ListenInv /\ StartupNext => Served'
      BY <2>2, CheckServed, ParseServed, CallServed DEF StartupNext, Run
  <2> QED
      BY <2>1, <2>3, StepTyped DEF ListenInv
<1> QED
    BY <1>1, <1>2, PTL DEF StartupSpec

\* The port of the command line is the one the server listens on and the one
\* it reports, however often it was set; for zero the one the system picked.
THEOREM StartupListensWhereAsked == StartupSpec => []ListensWhereAsked
<1>1. ListenInv => ListensWhereAsked
  <2> SUFFICES ASSUME ListenInv PROVE ListensWhereAsked
      OBVIOUS
  <2>1. ASSUME pc = "serve", port \in 0 .. PortSpan - 1
        PROVE  listening = told /\ (port = 0 \/ listening = port)
    <3>1. PortBound = port
        BY <2>1, StartupAssumption DEF PortBound
    <3> QED
        BY <2>1, <3>1 DEF ListenInv, Served, ns_bind
  <2>2. ASSUME pc \in {"main", "done"}, ~log.exited
        PROVE  listening = 0
      BY <2>2 DEF ListenInv, Served
  <2> QED
      BY <2>1, <2>2 DEF ListensWhereAsked
<1> QED
    BY <1>1, StartupListenInv, PTL

-----------------------------------------------------------------------------
(* The log file *)

\* What l has said so far went to f and to the screen, and what it says next
\* will; a program whose disk fails exits.
SaysTo(l, f) ==
    /\ l.logfile = f /\ l.addstdout
    /\ \A g \in Names : g # f \/ f = "none" => l.text[g] = <<>>
    /\ f = "none" => l.outfile = Off
    /\ f # "none" /\ ~l.exited => l.outfile # Off
    /\ l.outfile = Closed => l.text[f] = <<>> /\ l.screen = <<>>
    /\ disk = "fine" => ~l.exited /\ (f # "none" => l.text[f] = l.screen)

LEMMA GivesUpTo ==
    ASSUME NEW l \in LogType, NEW f \in Names, SaysTo(l, f), f # "none", disk # "fine",
           NEW msg \in Messages
    PROVE  SaysTo(GivesUp(l, msg), f)
<1>1. GivesUp(l, msg) = [l EXCEPT !.outfile = Off, !.screen = Append(@, Line("", msg)), !.exited = TRUE]
    BY DEF GivesUp, Shown, SaysTo, LogType
<1> DEFINE screen == Append(l.screen, Line("", msg))
<1> HIDE DEF screen
<1>2. GivesUp(l, msg) = [l EXCEPT !.outfile = Off, !.screen = screen, !.exited = TRUE]
    BY <1>1 DEF screen, LogType
<1> QED
    BY <1>2 DEF SaysTo, LogType, Off, Closed

LEMMA OpenSaysTo ==
    ASSUME NEW l \in LogType, NEW f \in Names, SaysTo(l, f), l.outfile = Closed, ~l.exited
    PROVE  /\ SaysTo(open_log_file(l), f)
           /\ open_log_file(l).exited \/ open_log_file(l).outfile = "open"
<1>1. f # "none" /\ l.logfile = f /\ l.text[f] = <<>> /\ l.screen = <<>>
    BY DEF SaysTo, Closed, Off
<1>2. Named(l) = l
    BY <1>1, SprtfAssumption DEF Named
<1> DEFINE m == [l EXCEPT !.mode = Mode(l)]
<1>3. m \in LogType /\ SaysTo(m, f) /\ m.logfile = f /\ m.text = l.text
  <2>1. Mode(l) \in {"w", "a"}
      BY DEF Mode, LogType
  <2> QED
      BY <1>1, <2>1 DEF LogType, SaysTo
<1>4. CASE disk = "readonly"
  <2>1. open_log_file(l) = GivesUp(m, "ERROR")
      BY <1>2, <1>4 DEF open_log_file
  <2>2. "ERROR" \in Messages
      BY DEF Messages
  <2> HIDE DEF m
  <2>3. SaysTo(GivesUp(m, "ERROR"), f)
      BY <1>1, <1>3, <1>4, <2>2, GivesUpTo
  <2>4. Shown([m EXCEPT !.outfile = Off], Line("", "ERROR")) \in LogType
    <3>1. [m EXCEPT !.outfile = Off] \in LogType
        BY <1>3 DEF LogType
    <3>2. Line("", "ERROR") \in LineType
        BY <2>2 DEF Line, LineType
    <3> QED
        BY <3>1, <3>2, ShownKeeps
  <2>5. GivesUp(m, "ERROR").exited
      BY <2>4 DEF GivesUp, LogType
  <2> QED
      BY <2>1, <2>3, <2>5
<1>5. CASE disk # "readonly"
  <2>1. open_log_file(l) = [m EXCEPT !.outfile = "open",
                                     !.text[f] = IF m.mode = "a" THEN @ ELSE <<>>]
      BY <1>1, <1>2, <1>3, <1>5 DEF open_log_file
  <2>2. open_log_file(l) = [m EXCEPT !.outfile = "open"]
    <3> HIDE DEF m
    <3>1. m.text \in [Names -> Seq(LineType)] /\ m.text[f] = <<>>
        BY <1>1, <1>3 DEF LogType
    <3>2. [m.text EXCEPT ![f] = IF m.mode = "a" THEN @ ELSE <<>>] = m.text
        BY <3>1
    <3> QED
        BY <1>3, <2>1, <3>2 DEF LogType
  <2> HIDE DEF m
  <2> QED
      BY <1>1, <1>3, <2>2 DEF SaysTo, LogType, Off, Closed
<1> QED
    BY <1>4, <1>5

LEMMA WrittenTo ==
    ASSUME NEW l \in LogType, NEW f \in Names, SaysTo(l, f), l.outfile = "open", ~l.exited,
           NEW msg \in Messages
    PROVE  SaysTo(Written(l, msg), f)
<1> DEFINE st == Stamped(l)
           line == Line(Stamp(l), msg)
<1>1. f # "none" /\ l.logfile = f /\ l.addstdout
    BY DEF SaysTo, Off
<1>2. st \in LogType /\ SaysTo(st, f) /\ st.logfile = f /\ st.addstdout /\ st.outfile = "open" /\ ~st.exited
    BY <1>1, StampedKeeps DEF SaysTo
<1>3. CASE disk = "full"
  <2>1. "WARNING" \in Messages
      BY DEF Messages
  <2>2. Written(l, msg) = GivesUp(st, "WARNING")
      BY <1>3 DEF Written
  <2> HIDE DEF st
  <2> QED
      BY <1>1, <1>2, <1>3, <2>1, <2>2, GivesUpTo
<1>4. CASE disk # "full"
  <2>1. Written(l, msg) = Shown([st EXCEPT !.text[f] = Append(@, line)], line)
      BY <1>1, <1>4 DEF Written
  <2> HIDE DEF st, line
  <2>2. Written(l, msg) = [st EXCEPT !.text[f] = Append(@, line), !.screen = Append(@, line)]
      BY <1>2, <2>1 DEF Shown, LogType
  <2> DEFINE text == [st.text EXCEPT ![f] = Append(@, line)]
             screen == Append(st.screen, line)
  <2>3. Written(l, msg) = [st EXCEPT !.text = text, !.screen = screen]
      BY <1>2, <2>2 DEF LogType
  <2>4. \A g \in Names : text[g] = IF g = f THEN Append(st.text[f], line) ELSE st.text[g]
      BY <1>2 DEF LogType
  <2>5. disk = "fine" => text[f] = screen
      BY <1>1, <1>2, <2>4 DEF SaysTo
  <2> HIDE DEF text, screen
  <2> QED
      BY <1>1, <1>2, <2>3, <2>4, <2>5 DEF SaysTo, LogType, Closed, Off
<1> QED
    BY <1>3, <1>4

LEMMA SprtfSaysTo ==
    ASSUME NEW l \in LogType, NEW f \in Names, SaysTo(l, f), NEW msg \in Messages
    PROVE  SaysTo(sprtf(l, msg), f)
<1>1. CASE l.exited
    BY <1>1 DEF sprtf
<1>2. CASE ~l.exited /\ l.outfile = Closed
  <2> DEFINE o == open_log_file(l)
  <2>1. SaysTo(o, f) /\ o \in LogType /\ (o.exited \/ o.outfile = "open")
      BY <1>2, OpenSaysTo, OpenKeeps
  <2>2. sprtf(l, msg) = IF o.exited THEN o
                        ELSE IF o.outfile = Off THEN Shown(o, Line("", msg)) ELSE Written(o, msg)
      BY <1>2 DEF sprtf, oi
  <2> HIDE DEF o
  <2>3. ~o.exited => o.outfile # Off /\ SaysTo(Written(o, msg), f)
      BY <2>1, WrittenTo DEF Off
  <2> QED
      BY <2>1, <2>2, <2>3
<1>3. CASE ~l.exited /\ l.outfile = Off
  <2>1. sprtf(l, msg) = Shown(l, Line("", msg))
      BY <1>3 DEF sprtf, oi, Off, Closed
  <2>2. f = "none" /\ l.addstdout
      BY <1>3 DEF SaysTo
  <2>3. sprtf(l, msg) = [l EXCEPT !.screen = Append(@, Line("", msg))]
      BY <2>1, <2>2 DEF Shown
  <2> DEFINE screen == Append(l.screen, Line("", msg))
  <2> HIDE DEF screen
  <2>4. sprtf(l, msg) = [l EXCEPT !.screen = screen]
      BY <2>3 DEF screen
  <2> QED
      BY <1>3, <2>2, <2>4 DEF SaysTo, LogType, Off, Closed
<1>4. CASE ~l.exited /\ l.outfile = "open"
  <2>1. sprtf(l, msg) = Written(l, msg)
      BY <1>4 DEF sprtf, oi, Off, Closed
  <2> QED
      BY <1>4, <2>1, WrittenTo
<1> QED
    BY <1>1, <1>2, <1>3, <1>4 DEF LogType

\* The name behind the last -l in front of argument k.
LogsBefore(k) == {n \in DOMAIN argv : n < k /\ argv[n].letter = "l"}
AskedOf(ls) ==
    IF ls = {} THEN (IF program = "cf-log" THEN "temphttp.txt" ELSE "tempraw.txt")
    ELSE LogNames[argv[(CHOOSE k \in ls : \A n \in ls : n <= k) + 1]]

\* The argument the loop is at is no name of a log.
AtOption == i # 1 => i - 1 \in DOMAIN argv /\ argv[i - 1].letter # "l"

NamedInv ==
    /\ pc \in {"check", "parse"} => AtOption
    /\ pc = "check" => log = NewLog /\ log_file = AskedOf(LogsBefore(i)) /\ i <= Len(argv) + 1
    /\ pc # "check" => SaysTo(log, Asked)
    /\ raw_log \in Nat /\ (raw_log \notin {0, 1} => argv[raw_log - 1].letter # "l")

LogInv == Typed /\ (program # "client" /\ Tidy => NamedInv)

\* No name that is asked for is the default one but for the case.
NamesApart ==
    \A f \in {"temphttp.txt", "tempraw.txt"} \cup
              UNION {{LogNames[a[k]] : k \in DOMAIN a} : a \in ArgLists} :
        Upper[f] = Upper[def_log] => f = def_log

LEMMA NewLogSaysTo ==
    ASSUME NEW f \in Names, Upper[f] = Upper[def_log] => f = def_log
    PROVE  SaysTo(set_log_file(NewLog, f, FALSE), f)
<1> DEFINE l == Named(NewLog)
<1>1. l = [NewLog EXCEPT !.logfile = def_log] /\ l \in LogType
    BY NewLogType, NamedKeeps DEF Named, NewLog
<1>2. f # NoName /\ def_log # "none"
    BY SprtfAssumption
<1>3. /\ NewLog.outfile = Closed /\ NewLog.screen = <<>> /\ NewLog.addstdout /\ ~NewLog.exited
      /\ NewLog.text = [g \in Names |-> <<>>]
    BY DEF NewLog
<1>4. /\ l.logfile = def_log /\ l.outfile = Closed /\ l.screen = <<>> /\ l.addstdout /\ ~l.exited
      /\ \A g \in Names : l.text[g] = <<>>
    BY <1>1, <1>3, NewLogType DEF LogType
<1>5. set_log_file(NewLog, f, FALSE) =
        IF Upper[f] = Upper[l.logfile] THEN l
        ELSE IF f = "none" THEN [[close_log_file(l) EXCEPT !.logfile = f] EXCEPT !.outfile = Off]
        ELSE [close_log_file(l) EXCEPT !.logfile = f]
    BY <1>2 DEF set_log_file
<1> HIDE DEF l
<1>6. CASE f = def_log
  <2>1. set_log_file(NewLog, f, FALSE) = l
      BY <1>4, <1>5, <1>6
  <2> QED
      BY <1>2, <1>4, <1>6, <2>1 DEF SaysTo, Off, Closed
<1>7. CASE f # def_log
  <2>1. set_log_file(NewLog, f, FALSE) =
            IF f = "none" THEN [[close_log_file(l) EXCEPT !.logfile = f] EXCEPT !.outfile = Off]
            ELSE [close_log_file(l) EXCEPT !.logfile = f]
      BY <1>4, <1>5, <1>7
  <2> DEFINE m == set_log_file(NewLog, f, FALSE)
  <2>2. /\ m.logfile = f /\ m.screen = <<>> /\ m.addstdout /\ ~m.exited /\ m.text = l.text
        /\ m.outfile = IF f = "none" THEN Off ELSE Closed
      BY <1>1, <1>4, <2>1 DEF close_log_file, LogType
  <2> HIDE DEF m
  <2>3. SaysTo(m, f)
      BY <1>4, <2>2 DEF SaysTo, Off, Closed
  <2> QED
      BY <2>3 DEF m
<1> QED
    BY <1>6, <1>7

LEMMA ArgvType ==
    ASSUME Typed
    PROVE  argv \in Seq(Arg) /\ Len(argv) \in Nat /\ DOMAIN argv = 1 .. Len(argv)
<1>1. argv \in ArgLists \/ argv = <<>>
    BY DEF Typed
<1>2. <<>> \in Seq(Arg)
    OBVIOUS
<1>3. argv \in Seq(Arg)
    BY <1>1, <1>2, StartupAssumption
<1> QED
    BY <1>3

\* A set of numbers of arguments has a greatest one.
LEMMA GreatestExists ==
    ASSUME NEW w \in Nat, NEW S, S \subseteq 1 .. w, S # {}
    PROVE  \E k \in S : \A n \in S : n <= k
<1> DEFINE R == {w - k : k \in S}
<1>1. R \subseteq Nat /\ R # {}
  <2>1. ASSUME NEW k \in S PROVE w - k \in Nat
    <3>1. k \in Nat /\ k <= w
        OBVIOUS
    <3> QED
        BY <3>1
  <2> QED
      BY <2>1
<1>2. PICK m \in R : \A n \in R : m <= n
  <2> HIDE DEF R
  <2> QED
      BY <1>1, LeastExists
<1>3. PICK k \in S : m = w - k
    OBVIOUS
<1>4. ASSUME NEW n \in S PROVE n <= k
  <2>1. w - n \in R
      OBVIOUS
  <2>2. w - k <= w - n
      BY <1>2, <1>3, <2>1
  <2> HIDE DEF R
  <2>3. n \in Int /\ k \in Int /\ w \in Int
      OBVIOUS
  <2> QED
      BY <2>2, <2>3
<1> HIDE DEF R
<1> QED
    BY <1>4

LEMMA AskedAll ==
    ASSUME Typed, i = Len(argv) + 1
    PROVE  AskedOf(LogsBefore(i)) = Asked
<1> DEFINE ls == {k \in DOMAIN argv : argv[k].letter = "l"}
<1>1. LogsBefore(i) = ls
    BY ArgvType DEF LogsBefore
<1>2. Asked = AskedOf(ls)
    BY DEF Asked, AskedOf
<1> QED
    BY <1>1, <1>2

\* The name asked for is one the library can tell from its default.
LEMMA AskedName ==
    ASSUME Typed, NamesApart, program # "client", Tidy
    PROVE  Asked \in Names /\ (Upper[Asked] = Upper[def_log] => Asked = def_log)
<1> DEFINE ls == {k \in DOMAIN argv : argv[k].letter = "l"}
           last == CHOOSE k \in ls : \A n \in ls : n <= k
<1>1. CASE ls = {}
  <2>1. Asked \in {"temphttp.txt", "tempraw.txt"}
      BY <1>1 DEF Asked
  <2> QED
      BY <2>1, StartupAssumption DEF NamesApart
<1>2. CASE ls # {}
  <2>1. last \in ls
    <3>1. ls \subseteq 1 .. Len(argv)
        BY ArgvType
    <3>2. \E k \in ls : \A n \in ls : n <= k
        BY <1>2, <3>1, ArgvType, GreatestExists
    <3> QED
        BY <3>2
  <2>2. last \in 1 .. Len(argv) /\ argv[last].letter = "l"
      BY <2>1, ArgvType
  <2>a. last + 1 \in DOMAIN argv
    <3> HIDE DEF last, ls
    <3>1. last < Len(argv)
        BY <2>2, ArgvType DEF Tidy
    <3> QED
        BY <2>2, <3>1, ArgvType
  <2>3. Asked = LogNames[argv[last + 1]]
      BY <1>2, Zenon DEF Asked
  <2> HIDE DEF last
  <2>4. argv \in ArgLists
      BY <2>a DEF Typed
  <2>5. Asked \in Names
      BY <2>a, <2>3, ArgsNamed
  <2>6. Asked \in UNION {{LogNames[a[k]] : k \in DOMAIN a} : a \in ArgLists}
      BY <2>a, <2>3, <2>4
  <2> QED
      BY <2>5, <2>6 DEF NamesApart
<1> QED
    BY <1>1, <1>2

\* What is asked for does not change, nor does the disk.
LEMMA FixedSays ==
    ASSUME UNCHANGED <<disk, program, argv>>
    PROVE  /\ Asked' = Asked /\ (Tidy' <=> Tidy)
           /\ (SaysTo(log', Asked) => SaysTo(log, Asked)')
<1>1. Asked' = Asked
    BY DEF Asked
<1>2. Tidy' <=> Tidy
    BY DEF Tidy
<1> QED
    BY <1>1, <1>2 DEF SaysTo

LEMMA CheckNamed ==
    ASSUME Typed, NamedInv, NamesApart, program # "client", Tidy, Check
    PROVE  NamedInv'
<1>1. /\ pc = "check" /\ AtOption /\ log = NewLog /\ log_file = AskedOf(LogsBefore(i))
      /\ i <= Len(argv) + 1 /\ i \in Nat \ {0}
    BY DEF Check, NamedInv, Typed
<1>2. UNCHANGED <<disk, program, argv>> /\ raw_log' = raw_log
    BY DEF Check, fixed, options
<1>3. Len(argv) \in Nat /\ DOMAIN argv = 1 .. Len(argv) /\ i \in Nat /\ i >= 1 /\ i <= Len(argv) + 1
    BY <1>1, ArgvType
<1>n. /\ i <= Len(argv) => i \in DOMAIN argv
      /\ i < Len(argv) => i + 1 \in DOMAIN argv /\ i <= Len(argv)
      /\ (i + 1) - 1 = i /\ (i + 2) - 1 = i + 1
    BY <1>3
<1>4. \A k : AskedOf(k)' = AskedOf(k) /\ LogsBefore(k)' = LogsBefore(k)
    BY <1>2 DEF AskedOf, LogsBefore
<1>5. raw_log' \in Nat /\ (raw_log' \notin {0, 1} => argv'[raw_log' - 1].letter # "l")
    BY <1>2 DEF NamedInv
<1>6. CASE TakeLog
  <2>1. argv[i].letter = "l" /\ i < Len(argv) /\ i' = i + 2 /\ log' = log /\ pc' = pc
        /\ log_file' = LogNames[argv[i + 1]]
      BY <1>6 DEF TakeLog, NamesLog, HasValue, More, Value, arg
  <2>2. argv[i + 1].letter = ""
    <3>1. i \in DOMAIN argv /\ argv[i].letter = "l"
        BY <1>3, <2>1
    <3> QED
        BY <3>1 DEF Tidy
  <2>3. LogsBefore(i + 2) = LogsBefore(i) \cup {i}
    <3>1. \A n \in DOMAIN argv : n < i + 2 <=> n < i \/ n = i \/ n = i + 1
        BY <1>3
    <3>2. argv[i + 1].letter # "l"
        BY <2>2
    <3>3. i \in DOMAIN argv
        BY <1>n, <2>1
    <3> QED
        BY <2>1, <3>1, <3>2, <3>3 DEF LogsBefore
  <2>4. (CHOOSE k \in LogsBefore(i + 2) : \A n \in LogsBefore(i + 2) : n <= k) = i
    <3> DEFINE S == LogsBefore(i + 2)
    <3>1. S \subseteq Nat /\ i \in S /\ \A n \in S : n <= i
        BY <1>1, <1>3, <2>3 DEF LogsBefore
    <3> HIDE DEF S
    <3>2. \A k \in S : (\A n \in S : n <= k) => k = i
        BY <1>1, <3>1
    <3>3. (CHOOSE k \in S : \A n \in S : n <= k) \in S
          /\ \A n \in S : n <= (CHOOSE k \in S : \A m \in S : m <= k)
        BY <3>1
    <3> QED
        BY <3>2, <3>3 DEF S
  <2>5. AskedOf(LogsBefore(i + 2)) = LogNames[argv[i + 1]]
      BY <2>3, <2>4 DEF AskedOf
  <2>6. log_file' = AskedOf(LogsBefore(i))'
      BY <1>4, <2>1, <2>5, <1>2 DEF AskedOf, LogsBefore
  <2>7. AtOption'
    <3>1. (i + 2) - 1 = i + 1 /\ i + 1 \in DOMAIN argv
        BY <1>3, <2>1
    <3> QED
        BY <1>2, <2>1, <2>2, <3>1 DEF AtOption
  <2>8. (log = NewLog)' /\ (i <= Len(argv) + 1)' /\ (pc = "check")'
      BY <1>1, <1>2, <1>3, <2>1 DEF NewLog
  <2> QED
      BY <1>5, <2>6, <2>7, <2>8, Zenon DEF NamedInv
<1>7. CASE LogMissing
  <2>1. argv[i].letter = "l" /\ i <= Len(argv) /\ ~(i < Len(argv))
      BY <1>7 DEF LogMissing, NamesLog, HasValue, More, arg
  <2>2. i \in DOMAIN argv
      BY <1>n, <2>1
  <2>3. i < Len(argv)
      BY <2>1, <2>2 DEF Tidy
  <2> QED
      BY <2>1, <2>3
<1>8. CASE PassArg
  <2>1. argv[i].letter # "l" /\ i <= Len(argv) /\ i' = i + 1 /\ UNCHANGED <<log, pc, log_file>>
      BY <1>8 DEF PassArg, NamesLog, More, arg
  <2>2. LogsBefore(i + 1) = LogsBefore(i)
    <3>1. \A n \in DOMAIN argv : n < i + 1 <=> n < i \/ n = i
        BY <1>3
    <3> QED
        BY <2>1, <3>1 DEF LogsBefore
  <2>3. log_file' = AskedOf(LogsBefore(i))'
    <3>1. LogsBefore(i)' = LogsBefore(i')
        BY <1>2 DEF LogsBefore
    <3>2. AskedOf(LogsBefore(i))' = AskedOf(LogsBefore(i)')
        BY <1>2 DEF AskedOf
    <3> QED
        BY <1>1, <2>1, <2>2, <3>1, <3>2
  <2>4. AtOption'
    <3>1. (i + 1) - 1 = i /\ i \in DOMAIN argv
        BY <1>3, <2>1
    <3> QED
        BY <1>2, <2>1, <3>1 DEF AtOption
  <2>5. (log = NewLog)' /\ (i <= Len(argv) + 1)' /\ (pc = "check")'
      BY <1>1, <1>2, <1>3, <2>1 DEF NewLog
  <2> QED
      BY <1>5, <2>3, <2>4, <2>5 DEF NamedInv
<1>9. CASE SetLog
  <2>a. ~(i <= Len(argv)) /\ i' = 1
      BY <1>9 DEF SetLog, More
  <2>1. i = Len(argv) + 1 /\ i' = 1
      BY <1>3, <2>a
  <2>2. log_file = Asked
      BY <1>1, <2>1, AskedAll
  <2> DEFINE set == set_log_file(NewLog, Asked, FALSE)
  <2>3. SaysTo(set, Asked) /\ set \in LogType
      BY AskedName, NewLogSaysTo, NewLogType, RenameKeeps
  <2>4. /\ log' = set \/ log' = sprtf(set, "Set LOG file")
        /\ pc' = "parse" \/ pc' = "done"
      BY <1>1, <1>9, <2>2 DEF SetLog, SayThen
  <2> HIDE DEF set
  <2>5. "Set LOG file" \in Messages
      BY DEF Messages
  <2>6. SaysTo(log', Asked)
      BY <2>3, <2>4, <2>5, AskedName, SprtfSaysTo
  <2>7. SaysTo(log, Asked)' /\ AtOption'
      BY <1>2, <2>1, <2>6, FixedSays DEF AtOption
  <2> QED
      BY <1>5, <2>4, <2>7 DEF NamedInv
<1> QED
    BY <1>6, <1>7, <1>8, <1>9 DEF Check

LEMMA ParseNamed ==
    ASSUME Typed, NamedInv, NamesApart, program # "client", Tidy, Parse
    PROVE  NamedInv'
<1>1. /\ pc = "parse" /\ AtOption /\ SaysTo(log, Asked) /\ i \in Nat \ {0}
      /\ raw_log \in Nat /\ (raw_log \notin {0, 1} => argv[raw_log - 1].letter # "l")
    BY DEF Parse, NamedInv, Typed
<1>2. UNCHANGED <<disk, program, argv>>
    BY DEF Parse, fixed
<1>3. Len(argv) \in Nat /\ DOMAIN argv = 1 .. Len(argv) /\ i \in Nat /\ i >= 1
    BY <1>1, ArgvType
<1>n. /\ i <= Len(argv) => i \in DOMAIN argv
      /\ i < Len(argv) => i + 1 \in DOMAIN argv /\ i <= Len(argv)
      /\ (i + 1) - 1 = i /\ (i + 2) - 1 = i + 1
    BY <1>3
<1>4. SaysTo(log', Asked)
    BY <1>1, ParseTyped, AskedName, SprtfSaysTo DEF Typed
<1>5. SaysTo(log, Asked)' /\ pc' \in {"parse", "open", "main", "done"}
    BY <1>2, <1>4, FixedSays, ParseTyped
<1>6. /\ raw_log' \in Nat /\ (raw_log' \notin {0, 1} => argv[raw_log' - 1].letter # "l")
      /\ pc' = "parse" => AtOption'
  <2>1. ASSUME More
        PROVE  /\ i \in DOMAIN argv
               /\ arg.letter \in {"p", "s", "t", "r"} /\ program = "cf-log" =>
                     argv[i + 1].letter = ""
               /\ (arg.letter = "l" => HasValue /\ argv[i + 1].letter = "")
    <3>1. i \in DOMAIN argv
        BY <1>1, <1>3, <2>1 DEF More
    <3> QED
        BY <1>3, <3>1 DEF Tidy, arg, HasValue
  <2>2. ASSUME i' = i + 1, More, arg.letter # "l" PROVE AtOption'
    <3>1. (i + 1) - 1 = i /\ i \in DOMAIN argv
        BY <1>n, <2>1, <2>2
    <3> QED
        BY <1>2, <2>2, <3>1 DEF AtOption, arg
  <2>3. ASSUME i' = i + 2, HasValue, argv[i + 1].letter = "" PROVE AtOption'
    <3>1. (i + 2) - 1 = i + 1 /\ i + 1 \in DOMAIN argv
        BY <1>n, <2>3 DEF HasValue
    <3> QED
        BY <1>2, <2>3, <3>1 DEF AtOption
  <2>4. CASE parse_commands
    <3>1. CASE More /\ Number
        BY <1>1, <2>1, <2>3, <2>4, <3>1 DEF Number, Consume, parse_commands
    <3>2. CASE More /\ RawLogFile
      <4>1. raw_log' = i + 1 /\ i' = i + 2 /\ arg.letter = "r" /\ HasValue /\ program = "cf-log"
          BY <2>4, <3>2 DEF RawLogFile, Consume, parse_commands
      <4>2. AtOption'
          BY <2>1, <2>3, <3>2, <4>1
      <4>3. (i + 1) - 1 = i /\ raw_log' \in Nat
          BY <1>3, <4>1
      <4> QED
          BY <4>1, <4>2, <4>3 DEF arg
    <3>3. CASE More /\ Verbosity
        BY <1>1, <2>2, <3>3 DEF Verbosity, Consume
    <3>4. CASE More /\ VerbosityAgain
        BY <1>1, <1>2, <3>4 DEF VerbosityAgain, AtOption
    <3>5. CASE More /\ SkipLog
        BY <1>1, <2>1, <2>3, <2>4, <3>5 DEF SkipLog, SkipsLog, Consume, parse_commands, options
    <3>6. CASE Help(2)
        BY <1>1, <3>6 DEF Help, options
    <3>7. CASE Refuse
        BY <1>1, <3>7 DEF Refuse, options
    <3>8. CASE pc' = "open" /\ UNCHANGED <<log, status, i, options>>
        BY <1>1, <3>8 DEF options
    <3> QED
        BY <2>4, <3>1, <3>2, <3>3, <3>4, <3>5, <3>6, <3>7, <3>8 DEF parse_commands
  <2>5. CASE parse_args
    <3>1. CASE More /\ (Verbose \/ PacketTest)
        BY <1>1, <2>2, <3>1 DEF Verbose, PacketTest, Consume
    <3>2. CASE More /\ Input
      <4>1. raw_log' = i /\ i' = i + 1 /\ arg.letter = ""
          BY <3>2 DEF Input, Consume
      <4> QED
          BY <1>1, <2>2, <3>2, <4>1 DEF AtOption
    <3>3. CASE More /\ SkipLog
        BY <1>1, <2>1, <2>3, <3>3 DEF SkipLog, SkipsLog, Consume, options
    <3>4. CASE More /\ SayThen(sprtf(log, "Usage"), "main") /\ UNCHANGED <<i, options>>
        BY <1>1, <1>2, <3>4 DEF options, AtOption
    <3>5. CASE Refuse
        BY <1>1, <3>5 DEF Refuse, options
    <3>6. CASE pc' = "open" /\ UNCHANGED <<log, status, i, options>>
        BY <1>1, <3>6 DEF options
    <3> QED
        BY <2>5, <3>1, <3>2, <3>3, <3>4, <3>5, <3>6 DEF parse_args
  <2> QED
      BY <2>4, <2>5 DEF Parse
<1> QED
    BY <1>2, <1>5, <1>6 DEF NamedInv

LEMMA CallNamed ==
    ASSUME Typed, NamedInv, NamesApart, program # "client", Tidy,
           Open \/ http_init \/ Leave \/ Finish
    PROVE  NamedInv'
<1>1. /\ SaysTo(log, Asked) /\ log \in LogType
      /\ raw_log \in Nat /\ (raw_log \notin {0, 1} => argv[raw_log - 1].letter # "l")
    BY DEF Open, http_init, Leave, Finish, NamedInv, Typed
<1>2. /\ pc' \in {"main", "done", "init", "serve"}
      /\ UNCHANGED <<program, argv, disk, raw_log>>
    BY CallSays
<1>3. \A msg \in {"destroyed", "Failed to set", "Server FAILED"} : msg \in Messages
    BY DEF Messages
<1>4. ASSUME NEW m \in LogType, SaysTo(m, Asked), NEW msg \in Messages
      PROVE  SaysTo(sprtf(m, msg), Asked) /\ sprtf(m, msg) \in LogType
    BY <1>4, AskedName, SprtfSaysTo, SprtfKeeps
<1>5. SaysTo(log', Asked)
    BY <1>1, <1>3, <1>4, CallSays
<1>6. SaysTo(log, Asked)'
    BY <1>2, <1>5, FixedSays
<1> QED
    BY <1>1, <1>2, <1>6 DEF NamedInv

\* Where the names that may be asked for differ from the library's own by more
\* than the case, what a program says goes to the file asked for last.
THEOREM StartupLogWhereAsked ==
    ASSUME NamesApart
    PROVE  StartupSpec => []LogWhereAsked
<1>1. StartupInit => LogInv
  <2> SUFFICES ASSUME StartupInit, program # "client" PROVE NamedInv
      BY InitTyped DEF LogInv
  <2>1. pc = "check" /\ i = 1 /\ log = NewLog /\ raw_log = 0
        /\ log_file = IF program = "cf-log" THEN "temphttp.txt" ELSE "tempraw.txt"
      BY DEF StartupInit, Init
  <2>2. LogsBefore(1) = {} /\ 1 <= Len(argv) + 1
      BY InitTyped, ArgvType DEF LogsBefore
  <2> QED
      BY <2>1, <2>2 DEF NamedInv, AtOption, AskedOf
<1>2. LogInv /\ [StartupNext]_vars => LogInv'
  <2> SUFFICES ASSUME LogInv, [StartupNext]_vars PROVE LogInv'
      OBVIOUS
  <2>1. CASE UNCHANGED vars
    <3>1. UNCHANGED <<log, disk, program, argv, pc, i, log_file, raw_log>>
        BY <2>1 DEF vars, options
    <3>2. Typed' <=> Typed
        BY <3>1 DEF Typed
    <3>3. /\ (AtOption' <=> AtOption) /\ AskedOf(LogsBefore(i))' = AskedOf(LogsBefore(i))
        BY <3>1 DEF AtOption, AskedOf, LogsBefore
    <3>4. NamedInv => NamedInv'
        BY <3>1, <3>3, FixedSays DEF NamedInv, NewLog
    <3> QED
        BY <3>1, <3>2, <3>4, FixedSays DEF LogInv
  <2>2. CASE StartupNext
    <3>1. Typed'
        BY <2>2, StepTyped DEF LogInv
    <3>2. UNCHANGED <<disk, program, argv>>
        BY <2>2, CallSays DEF StartupNext, Run, Check, Parse, Open,
            http_init, Leave, Finish, Client, Next, fixed
    <3>3. (Tidy' <=> Tidy) /\ program' = program
        BY <3>2, FixedSays
    <3>4. program # "client" => ~Client
        BY DEF Client, LogInv, Typed
    <3>5. program # "client" /\ Tidy => NamedInv'
        BY <2>2, <3>4, CheckNamed, ParseNamed, CallNamed DEF StartupNext, Run, LogInv
    <3> QED
        BY <3>1, <3>3, <3>5 DEF LogInv
  <2> QED
      BY <2>1, <2>2
<1>3. LogInv => LogWhereAsked
  <2> SUFFICES ASSUME LogInv, program # "client", Tidy
               PROVE  /\ \A f \in Names : log.text[f] # <<>> => f = Asked /\ f # "none"
                      /\ disk = "fine" /\ Asked # "none" => log.text[Asked] = log.screen
                      /\ raw_log # 0 /\ raw_log # 1 => argv[raw_log - 1].letter # "l"
      BY DEF LogWhereAsked
  <2>1. Asked \in Names
      BY AskedName DEF LogInv
  <2>2. CASE pc = "check"
    <3>1. log = NewLog /\ \A f \in Names : log.text[f] = <<>>
        BY <2>2 DEF LogInv, NamedInv, NewLog
    <3>2. log.screen = <<>>
        BY <3>1 DEF NewLog
    <3> QED
        BY <2>1, <3>1, <3>2 DEF LogInv, NamedInv
  <2>3. CASE pc # "check"
    <3>1. SaysTo(log, Asked)
        BY <2>3 DEF LogInv, NamedInv
    <3> QED
        BY <3>1 DEF LogInv, NamedInv, SaysTo
  <2> QED
      BY <2>2, <2>3
<1> QED
    BY <1>1, <1>2, <1>3, PTL DEF StartupSpec
=============================================================================
