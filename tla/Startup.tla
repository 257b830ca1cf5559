------------------------------- MODULE Startup -------------------------------
(***************************************************************************)
(* From the command line to the first packet: main of cf-log (server_main, *)
(* check_log_file, parse_commands, http_init; src/cf-server.cxx) and of    *)
(* raw-log (chk_log_file, parse_args; src/raw-log.cxx).  Both look through *)
(* the arguments twice, first for the log file, so that what they say of   *)
(* the others is already logged.  A step is one argument, or one call.     *)
(*                                                                         *)
(* An argument is what the loops tell apart: the letter behind the dashes  *)
(* (none for a bare argument), what follows the letter, and the number     *)
(* atoi reads from it.  As a file name it stands for itself.               *)
(***************************************************************************)
EXTENDS Sprtf

CONSTANTS
    Programs,  \* "cf-log", "raw-log", or any "client" of the logging library
    ArgLists,  \* the command lines, the program's name left out
    Existing,  \* arguments that name a file
    LogNames,  \* the name of a log file an argument stands for
    PortSpan,  \* 2^16
    VerbSpan   \* 2^32

Arg == [letter : {"", "0", "r", "h", "l", "p", "s", "t", "v", "x"},
        tail : {"", "v", "digits", "other"}, num : Int]

ASSUME StartupAssumption ==
    /\ Programs \subseteq {"cf-log", "raw-log", "client"}
    /\ ArgLists \subseteq Seq(Arg)
    /\ \A argv \in ArgLists : \A i \in DOMAIN argv : LogNames[argv[i]] \in Names
    /\ {"temphttp.txt", "tempraw.txt"} \subseteq Names
    /\ PortSpan \in Nat \ {0} /\ VerbSpan \in Nat \ {0}

VARIABLES
    program, argv,
    pc,         \* "check", "parse", "open", "init", "serve", "main", "done"
    i,          \* the argument the loop is at
    log_file,   \* the name of the log: log_file, or def_log of raw-log
    port, sleep_ms, timeout_ms, verbosity,
    raw_log,    \* index of the argument that names the log to play, or 0
    do_packet_test,
    listening,  \* the port the server listens on, 0 for none
    told,       \* the option listening_port, as it is reported
    status      \* what main returns

options == <<port, sleep_ms, timeout_ms, verbosity, raw_log, do_packet_test>>
server == <<listening, told>>
vars == <<log, disk, program, argv, pc, i, log_file, options, server, status>>
fixed == <<disk, program, argv>>

DEF_SERVER_PORT == 5555
DEF_SLEEP_MS == 10
DEF_TIMEOUT_MS == 50

StartupInit ==
    /\ Init
    /\ program \in Programs
    /\ argv \in IF program = "client" THEN {<<>>} ELSE ArgLists
    /\ pc = IF program = "client" THEN "client" ELSE "check"
    /\ i = 1
    /\ log_file = IF program = "cf-log" THEN "temphttp.txt" ELSE "tempraw.txt"
    /\ port = DEF_SERVER_PORT /\ sleep_ms = DEF_SLEEP_MS
    /\ timeout_ms = DEF_TIMEOUT_MS
    /\ verbosity = IF program = "raw-log" THEN 1 ELSE 0
    /\ raw_log = 0 /\ do_packet_test = FALSE
    /\ listening = 0 /\ told = 0 /\ status = 0

More == i <= Len(argv)
arg == argv[i]
HasValue == i < Len(argv)
Value == argv[i + 1]

\* SPRTF, which may be the end of the program; otherwise it goes on at next.
SayThen(l, next) ==
    /\ log' = l
    /\ IF l.exited THEN pc' = "done" /\ status' = 1 ELSE pc' = next /\ UNCHANGED status

Return(ret) == status' = ret /\ pc' = "main" /\ UNCHANGED log

-----------------------------------------------------------------------------
(* check_log_file, chk_log_file *)

NamesLog == More /\ arg.letter = "l"

\* The last -l counts; whether another option takes it as its value is not
\* looked at.
TakeLog ==
    /\ NamesLog /\ HasValue
    /\ log_file' = LogNames[Value]
    /\ i' = i + 2
    /\ UNCHANGED <<log, pc, status>>

LogMissing ==
    /\ NamesLog /\ ~HasValue
    /\ Return(1)
    /\ UNCHANGED <<i, log_file>>

PassArg ==
    /\ More /\ ~NamesLog
    /\ i' = i + 1
    /\ UNCHANGED <<log, pc, status, log_file>>

\* cf-log says so when the name was given.
SetLog ==
    /\ ~More
    /\ LET set == set_log_file(log, log_file, FALSE) IN
       SayThen(IF program = "cf-log" /\ \E k \in DOMAIN argv : argv[k].letter = "l"
               THEN sprtf(set, "Set LOG file") ELSE set, "parse")
    /\ i' = 1
    /\ UNCHANGED log_file

Check ==
    /\ pc = "check"
    /\ TakeLog \/ LogMissing \/ PassArg \/ SetLog
    /\ UNCHANGED <<fixed, options, server>>

-----------------------------------------------------------------------------
(* parse_commands of cf-log, one argument *)

\* Bad_CMD, or a value that is missing.
Refuse ==
    /\ LET said == sprtf(log, "Unknown command") IN
       log' = said /\ pc' = IF said.exited THEN "done" ELSE "main"
    /\ status' = 1
    /\ UNCHANGED <<i, options>>

Consume(n) == i' = i + n

\* -p, -s and -t set a number.
Number ==
    /\ arg.letter \in {"p", "s", "t"} /\ HasValue
    /\ port' = IF arg.letter = "p" THEN Value.num ELSE port
    /\ sleep_ms' = IF arg.letter = "s" THEN Value.num ELSE sleep_ms
    /\ timeout_ms' = IF arg.letter = "t" THEN Value.num ELSE timeout_ms
    /\ SayThen(sprtf(log, "Set"), "parse")
    /\ Consume(2)
    /\ UNCHANGED <<verbosity, raw_log, do_packet_test>>

RawLogFile ==
    /\ arg.letter = "r" /\ HasValue /\ Value \in Existing
    /\ raw_log' = i + 1
    /\ SayThen(sprtf(log, "Set"), "parse")
    /\ Consume(2)
    /\ UNCHANGED <<port, sleep_ms, timeout_ms, verbosity, do_packet_test>>

Verbosity ==
    /\ arg.letter = "v" /\ arg.tail \in {"", "digits"}
    /\ verbosity' = IF arg.tail = "digits" THEN arg.num ELSE verbosity + 1
    /\ Consume(1)
    /\ UNCHANGED <<log, pc, status, port, sleep_ms, timeout_ms, raw_log, do_packet_test>>

\* while (*sarg == 'v') { verbosity++; arg++; } looks at the same v again.
VerbosityAgain ==
    /\ arg.letter = "v" /\ arg.tail = "v"
    /\ verbosity' = (verbosity + 1) % VerbSpan
    /\ UNCHANGED <<log, pc, status, i, port, sleep_ms, timeout_ms, raw_log, do_packet_test>>

\* Variant: the name of the log is not skipped.
SkipsLogNot == 1
\* Already handled: the name of the log is skipped, if there is one.
SkipsLog == IF program = "cf-log" \/ HasValue THEN 2 ELSE 1

SkipLog ==
    /\ arg.letter = "l"
    /\ Consume(SkipsLog)
    /\ UNCHANGED <<log, pc, status, options>>

Help(ret) ==
    /\ arg.letter = "h"
    /\ status' = ret
    /\ pc' = "main"
    /\ UNCHANGED <<log, i, options>>

Refused ==
    \/ arg.letter \in {"", "0", "x"}
    \/ arg.letter \in {"p", "s", "t", "r"} /\ ~HasValue
    \/ arg.letter = "r" /\ HasValue /\ Value \notin Existing
    \/ arg.letter = "v" /\ arg.tail = "other"

parse_commands ==
    /\ program = "cf-log"
    /\ \/ More /\ (Number \/ RawLogFile \/ Verbosity \/ VerbosityAgain \/ SkipLog)
       \/ More /\ Help(2)
       \/ More /\ Refused /\ Refuse
       \/ ~More /\ pc' = "open" /\ UNCHANGED <<log, status, i, options>>

-----------------------------------------------------------------------------
(* parse_args of raw-log, one argument *)

\* A v more adds one, digits set, and anything else is passed over.
Verbose ==
    /\ arg.letter = "v"
    /\ verbosity' = CASE arg.tail = "digits" -> arg.num
                      [] arg.tail = "v" -> verbosity + 2
                      [] OTHER -> verbosity + 1
    /\ Consume(1)
    /\ UNCHANGED <<log, pc, status, port, sleep_ms, timeout_ms, raw_log, do_packet_test>>

PacketTest ==
    /\ arg.letter = "t"
    /\ do_packet_test' = TRUE
    /\ Consume(1)
    /\ UNCHANGED <<log, pc, status, port, sleep_ms, timeout_ms, verbosity, raw_log>>

\* The one bare argument is the log to read.
Input ==
    /\ arg.letter = "" /\ raw_log = 0
    /\ raw_log' = i
    /\ Consume(1)
    /\ UNCHANGED <<log, pc, status, port, sleep_ms, timeout_ms, verbosity, do_packet_test>>

Unknown ==
    \/ arg.letter \in {"0", "x", "p", "r", "s"}
    \/ arg.letter = "" /\ raw_log # 0

parse_args ==
    /\ program = "raw-log"
    /\ \/ More /\ (Verbose \/ PacketTest \/ Input \/ SkipLog)
       \/ More /\ arg.letter = "h" /\ SayThen(sprtf(log, "Usage"), "main") /\ UNCHANGED <<i, options>>
       \/ More /\ Unknown /\ Refuse
       \/ ~More /\ raw_log = 0 /\ ~do_packet_test /\ Refuse
       \/ ~More /\ (raw_log # 0 \/ do_packet_test) /\ pc' = "open"
          /\ UNCHANGED <<log, status, i, options>>

Parse ==
    /\ pc = "parse"
    /\ parse_commands \/ parse_args
    /\ UNCHANGED <<fixed, log_file, server>>

-----------------------------------------------------------------------------
(* The rest of main *)

\* open_raw_log finds a log to play or says why not; raw-log's packet test
\* says what it did and exits.
Open ==
    /\ pc = "open"
    /\ IF do_packet_test
       THEN log' = sprtf(log, "test") /\ pc' = "done" /\ status' = 1
       ELSE \/ SayThen(sprtf(log, "Starting"), IF program = "cf-log" THEN "init" ELSE "main")
            \/ /\ LET said == sprtf(log, "Failed") IN
                  log' = said /\ pc' = IF said.exited THEN "done" ELSE "main"
               /\ status' = 1
    /\ UNCHANGED <<fixed, i, log_file, options, server>>

\* ns_parse_port_string reads the number back as an unsigned one and keeps
\* its lower half; nobody looks at what it says of a number too large.
PortBound == port % PortSpan

\* Bound to the port; for zero the system picks one.
ns_bind(free) == IF PortBound = 0 THEN free ELSE PortBound

\* The option is the port as it was given, or the one the system picked.
mg_set_option(free) ==
    /\ listening' = ns_bind(free)
    /\ told' = IF port = 0 THEN ns_bind(free) ELSE port

\* Variant: a server that could not listen is left behind.
AbandonedLeft == UNCHANGED server
\* http_close
http_close == listening' = 0 /\ told' = 0

\* http_init, with the default port of the system's choice.
FreePorts == {PortSpan - 1}
http_init ==
    /\ pc = "init"
    /\ \/ \E free \in FreePorts : mg_set_option(free) /\ SayThen(sprtf(log, "on port"), "serve")
       \/ /\ http_close
          /\ log' = sprtf(sprtf(sprtf(log, "destroyed"), "Failed to set"), "Server FAILED")
          /\ pc' = IF log'.exited THEN "done" ELSE "main"
          /\ status' = 1
    /\ UNCHANGED <<fixed, i, log_file, options>>

\* run_server ends; what it returns is not looked at.
Leave ==
    /\ pc = "serve"
    /\ http_close
    /\ SayThen(sprtf(log, "destroyed"), "main")
    /\ UNCHANGED <<fixed, i, log_file, options>>

\* cf-log says how long it ran.
Finish ==
    /\ pc = "main"
    /\ IF program = "cf-log" THEN log' = sprtf(log, "Ran for") ELSE UNCHANGED log
    /\ pc' = "done"
    /\ status' = IF log'.exited THEN 1 ELSE status
    /\ UNCHANGED <<fixed, i, log_file, options, server>>

Client ==
    /\ pc = "client"
    /\ Next
    /\ UNCHANGED <<program, argv, pc, i, log_file, options, server, status>>

Run == Check \/ Parse \/ Open \/ http_init \/ Leave \/ Finish
StartupNext == Run \/ Client

StartupSpec == StartupInit /\ [][StartupNext]_vars
FairSpec == StartupSpec /\ WF_vars(Run)

-----------------------------------------------------------------------------
(* Properties *)

\* Every -l has a name behind it and no option that takes a value is
\* followed by another option.
Tidy ==
    \A k \in DOMAIN argv :
        argv[k].letter \in {"l"} \cup (IF program = "cf-log" THEN {"p", "s", "t", "r"} ELSE {}) =>
            k < Len(argv) /\ argv[k + 1].letter = ""

\* What stands behind the last -l.
Asked ==
    LET ls == {k \in DOMAIN argv : argv[k].letter = "l"} IN
    IF ls = {} THEN (IF program = "cf-log" THEN "temphttp.txt" ELSE "tempraw.txt")
    ELSE LogNames[argv[(CHOOSE k \in ls : \A n \in ls : n <= k) + 1]]

\* "All output will be written to stdout, and the log file" (cf-server.cxx:133):
\* the first line a program says and every other one goes to the file the
\* command line names, whatever else it says and wherever it says it; and the
\* second pass over the arguments takes that name for nothing else.
LogWhereAsked ==
    program # "client" /\ Tidy =>
        /\ \A f \in Names : log.text[f] # <<>> => f = Asked /\ f # "none"
        /\ disk = "fine" /\ Asked # "none" => log.text[Asked] = log.screen
        /\ raw_log # 0 /\ raw_log # 1 => argv[raw_log - 1].letter # "l"

\* "Set port" (cf-server.cxx:120): the server listens on the port it was told
\* to, or on the one it then reports when it was told zero; when main is over
\* nothing listens any more, however it ended.
ListensWhereAsked ==
    /\ pc = "serve" /\ port \in 0 .. PortSpan - 1 =>
        listening = told /\ (port = 0 \/ listening = port)
    /\ pc \in {"main", "done"} /\ ~log.exited => listening = 0

\* "-v  = Bump or set verbosity" (cf-server.cxx:125): whatever the arguments,
\* the command line is parsed to its end.
ParsingEnds == pc = "parse" ~> pc # "parse"
=============================================================================
