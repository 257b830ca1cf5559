-------------------------------- MODULE Sprtf --------------------------------
(***************************************************************************)
(* The logging library (src/cf_lib/sprtf.cxx): every program says its      *)
(* lines with sprtf, which sends them to the screen and to a log file that *)
(* is only opened when the first line is due.  What a call leaves behind   *)
(* is a function of what it found, the record `log' of the module's        *)
(* statics and of the files; a failure of the disk ends the program.       *)
(*                                                                         *)
(* A line is a message and its stamp.  The list view and the screen list   *)
(* of old Windows builds are compiled out, and so is what they are sent.   *)
(***************************************************************************)
EXTENDS Integers, SequencesExt

CONSTANTS
    Names,      \* names of log files, def_log and "none" among them
    def_log,
    NoName,     \* logfile[0] == 0
    Upper,      \* strcmpi compares these
    MX_BUFFERS, \* static buffers handed out in turn
    Disks,      \* what may become of it: "fine", "readonly" or "full"
    MaxLines    \* bound of the exploration

ASSUME SprtfAssumption ==
    /\ {def_log, "none"} \subseteq Names /\ def_log # "none" /\ NoName \notin Names
    /\ DOMAIN Upper = Names
    /\ MX_BUFFERS \in Nat \ {0}
    /\ Disks \subseteq {"fine", "readonly", "full"}
    /\ MaxLines \in Nat

VARIABLES log, disk

Off == "off"     \* (FILE *)-1
Closed == "NULL"

NewLog ==
    [logfile |-> NoName, outfile |-> Closed, mode |-> "w",
     append_to_log |-> FALSE, addstdout |-> TRUE,
     addsysdate |-> FALSE, addsystime |-> FALSE, iNextBuf |-> 0,
     text |-> [f \in Names |-> <<>>],  \* the files
     screen |-> <<>>,
     exited |-> FALSE]                 \* exit(1)

\* The type invariant.
TypeOK ==
    /\ log.logfile \in Names \cup {NoName}
    /\ log.outfile \in {Closed, Off, "open"}
    /\ log.mode \in {"w", "a"}
    /\ log.iNextBuf \in 0 .. MX_BUFFERS - 1
    /\ disk \in Disks

-----------------------------------------------------------------------------
(* Naming, opening and closing the file *)

Named(l) == IF l.logfile = NoName THEN [l EXCEPT !.logfile = def_log] ELSE l

close_log_file(l) == [l EXCEPT !.outfile = Closed]

\* Variant: the mode follows the setting back.
ModeNow(l) == IF l.append_to_log THEN "a" ELSE "w"

\* The mode is a static, and nothing sets it back.
Mode(l) == IF l.append_to_log THEN "a" ELSE l.mode

Shown(l, line) == IF l.addstdout THEN [l EXCEPT !.screen = Append(@, line)] ELSE l
Line(stamp, msg) == [stamp |-> stamp, msg |-> msg]

\* What the program says of the log file, with the file out of use, before
\* it exits.
GivesUp(l, msg) == [Shown([l EXCEPT !.outfile = Off], Line("", msg)) EXCEPT !.exited = TRUE]

\* fopen in mode "w" empties the file.
open_log_file(l0) ==
    LET l == [Named(l0) EXCEPT !.mode = Mode(l0)] IN
    IF disk = "readonly" THEN GivesUp(l, "ERROR")
    ELSE [l EXCEPT !.outfile = "open",
                   !.text[l.logfile] = IF l.mode = "a" THEN @ ELSE <<>>]

\* get_log_file returns the name, or "none" when the log is off.
get_log_file(l) == [log |-> Named(l), name |-> IF l.outfile = Off THEN "none" ELSE Named(l).logfile]

\* Nothing happens when the name stays the same, be the file open or not.
set_log_file(l0, nf, open) ==
    LET l == Named(l0)
        renamed == [close_log_file(l) EXCEPT !.logfile = nf]
    IN IF nf = NoName \/ Upper[nf] = Upper[l.logfile] THEN l
       ELSE IF nf = "none" THEN [renamed EXCEPT !.outfile = Off]
       ELSE IF open THEN open_log_file(renamed) ELSE renamed

-----------------------------------------------------------------------------
(* Saying a line *)

GetNxtBuf(l) == [l EXCEPT !.iNextBuf = (@ + 1) % MX_BUFFERS]

\* A stamped line is put together in one static buffer, its stamp in the next.
Stamp(l) == IF l.addsysdate THEN "date" ELSE IF l.addsystime THEN "time" ELSE ""
Stamped(l) == IF Stamp(l) = "" THEN l ELSE GetNxtBuf(GetNxtBuf(l))

\* fwrite, with the line as the file and the screen get it; when the disk is
\* full neither does.
Written(l, msg) ==
    LET line == Line(Stamp(l), msg) IN
    IF disk = "full" THEN GivesUp(Stamped(l), "WARNING")
    ELSE Shown([Stamped(l) EXCEPT !.text[l.logfile] = Append(@, line)], line)

\* oi, of a message that is not empty; a log that is off leaves the screen.
oi(l0, msg) ==
    LET l == IF l0.outfile = Closed THEN open_log_file(l0) ELSE l0 IN
    IF l.exited THEN l
    ELSE IF l.outfile = Off THEN Shown(l, Line("", msg))
    ELSE Written(l, msg)

\* A program that has exited says nothing more.
sprtf(l, msg) == IF l.exited THEN l ELSE oi(l, msg)

-----------------------------------------------------------------------------
(* Any program that uses the library *)

Bounded == Len(log.screen) < MaxLines

add_append_log == \E val \in BOOLEAN : log' = [log EXCEPT !.append_to_log = val]
add_sys_date == \E val \in BOOLEAN : log' = [log EXCEPT !.addsysdate = val]
add_sys_time == \E val \in BOOLEAN : log' = [log EXCEPT !.addsystime = val]
Rename == \E nf \in Names, open \in BOOLEAN : log' = set_log_file(log, nf, open)
AskName == log' = get_log_file(log).log
Close == log' = close_log_file(log)
Say == Bounded /\ log' = sprtf(log, "line")

Init == log = NewLog /\ disk \in Disks

Next ==
    /\ ~log.exited
    /\ add_append_log \/ add_sys_date \/ add_sys_time \/ Rename \/ AskName \/ Close \/ Say
    /\ UNCHANGED disk

-----------------------------------------------------------------------------
(* Properties *)

\* "anything previous written is 'lost'" (sprtf.cxx:182) is true only until a
\* log is first opened for appending: from then on no line of any file is
\* lost again, however often the log is renamed, closed and opened.
AppendingKeeps ==
    [][log.mode = "a" => \A f \in Names : IsPrefix(log.text[f], log'.text[f])]_log
=============================================================================
