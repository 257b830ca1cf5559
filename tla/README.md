# A TLA+ model of cf-log

cf-log replays a log of raw multiplayer UDP packets as if they arrived from the
network, keeps a table of the flights they describe, and serves that table as
JSON and XML over HTTP. A second program, raw-log, plays such a log once and
reports what is in it. This directory models the programs in `src/src`, checks
them with TLC on small instances and proves with TLAPS, for every value of the
constants, what matters most about the flight table, the readers of the log,
the documents, the server that composes them, the HTTP connections, the command
line with the log files it names, and the report of raw-log.

Paths below are relative to the repository. `PROJECT.json` lists the runs, the
definitions with the source lines they stand for, the hazards and the theorems.

## Inventory

Both programs are one thread. Nothing runs concurrently with cf-log except the
clock and the clients of its HTTP server, which it polls. What is hard is therefore
not locking but order and time: every step reads the clock for itself, a sweep and a
restart are waits counted in seconds of a loop whose turns may take longer than a
second, requests and answers wait in buffers across polls, and the replay depends on
sizes and statics that must stay in step for hours.

| component | state | operations | interacts with | what makes it correct |
|---|---|---|---|---|
| flight table, `cf-pilot.cxx` | `vPilots`, `m_ExpiredCnt`, `elapsed_sim_time`, `got_sim_time`, four counters | `Deal_With_Packet`, `Expire_Pilots`, `clean_up_pilots` | called by the reader and the loop; calls `get_epoch_id` | one entry per flight; ids unique and never issued twice; live flights go only when silent; the record follows the packets; no packet lost count of |
| flight ids, `get_epoch_id` in `cf_lib/cf_misc.cxx` | `prev`, `eq_count` | `get_epoch_id` | called for a new and for a revived flight | as above |
| feed documents, `cf-pilot.cxx` | `_s_pJsonStg`, `_s_pXmlStg` | `Write_JSON`, `Write_XML`, `Get_JSON`, `Get_XML` | read `vPilots`; read by the HTTP handlers | buffers stay bounded, the text is well formed, both list the same flights |
| raw log readers, `cf-log.cxx` | file and buffer pointers, `raw_data_size`, `raw_block_size`, `raw_log_remaining` | `open_raw_log`, `get_next_block`, `clean_up_log`; `open_raw_log_whole`, `split_raw_log_whole` | hand each packet to `Deal_With_Packet` | each packet once, in order, whole; the log ends at its end |
| server loop, `cf-server.cxx`, `main` | `need_reset`, `reset_time`, `last_expire`, `last_json`, `curr` | `server_main`, `run_server`, `event_handler`, `http_*` | drives all of the above | expiry in time, a clean restart, the pacing, progress |
| command line and start, `cf-server.cxx`, `raw-log.cxx` | the options, the port, the log file's name | `check_log_file`, `parse_commands`, `chk_log_file`, `parse_args`, `http_init`, `http_close` | logging library, mongoose | lines go to the log asked for, the port is the one asked for, parsing ends |
| logging, `cf_lib/sprtf.cxx` | `outfile`, `logfile`, `mode`, ring of text buffers | `sprtf`, `set_log_file`, `open_log_file`, `close_log_file` | used by every component | what was appended to stays; one file per name asked for |
| HTTP server, `mongoose/mongoose.c` (vendored) | per connection: two buffers, flags, the request being answered | `mg_poll_server` and what it calls | calls `event_handler`; reads the feed documents through it | answers in order, whole, none forgotten, from the feed of the moment |
| raw-log, `raw-log.cxx` | its own reader, a simpler flight table, counts per property id | `process_log`, `Deal_With_Packet`, the property decoder, the report | logging library, XDR | counts add up; properties are decoded as they were sent |
| packet test of raw-log | a message, an encoder and a decoder over one table | `Create_Prop_Packet`, `Test_Prop_Packet` | XDR | decoded as sent; a cut packet still serves the first version |
| XDR, `tiny_xdr.hxx`, `xdr_lib/tiny_xdr.cxx` | none (functions) | encode and decode 1 to 8 bytes | used on each packet | both implementations agree on either host |
| dates, `cf_lib/strptime_win.cxx` | none | `strptime`, `timegm` | built for Windows only; no caller here | a date printed is read back |
| `cf_misc`, `mpKeyboard` | | formatting, output, keyboard | used everywhere | not modelled, except `get_epoch_id` and `is_digits` |
| `cf_sqlite`, `cf_postgres`, `netSocket`, `daemon`, `test_data` | | in the tree, in no build target | none | not modelled |
| geometry, Euler, geod | none (functions) | floating point | used on each packet | not modelled |

## Modules

`PilotTable` is the flight table with the ids. One action stands for each call:
`ReceivePacket` for a `Deal_With_Packet` together with the two tallies
`get_next_block` keeps of it, `Expire_Pilots`, `EndOfLog` (the part of
`run_server`'s end-of-log block that belongs here) and `Tick`. A packet is
abstracted to what the handler tells apart: the tests it fails (`flaws`: a wrong
magic or protocol, a length too short, a position at the origin, a height out of
range), its id, callsign and aircraft, its sim time, and a reading per axis of
motion. Speed, heading, altitude and distance are all compared with a threshold in
the same way, so `Axes` and `MinChange` stand for the four; `"dist"` is the one that
adds up to `total_nm`. `Refuse`, `Chat`, `FirstPosition`, `UpdatePosition` and
`DiscardPosition` are the ways out of the handler. `Entry` builds a whole record, because
the code does: it zeroes a new record, carries some fields over, and replaces the old one.
Fields that are only printed are left out.

`PilotHistory` adds a history variable, what the packets accepted from each flight
amount to, and compares the table with it.

`RawLog` is the reader with the sliding buffer. The file is its size and the offsets of
its magics; the buffer is the file offset of its first byte, with the sizes the code keeps. The scan for
a magic compares four bytes at indices where fewer are left in the buffer. What lies
behind is not the program's data, so the model lets it see or miss a magic that is cut
there. `raw_log_remaining` is a `size_t` and wraps (`SizeMod`). `ScanFrom` and `ChecksHead`
are where the reader of raw-log differs. `RawWhole` is the reader that takes the file whole,
and the function that splits a log; `LogReaders` is the choice between the readers that
`main_test` makes when it is built. `Playback` is the abstract specification of a reader: the
packets of the log in file order, each once. `RawLog` implements it (`PlaysInOrder`).

`Feed` is the two documents: a buffer has a size, a length in bytes and a text that is a
sequence of pieces. `Grown` is `Realloc_JSON_Buf`. Model names are sequences
of parts, so that `get_Model` cutting off the last one is visible.

`CfServer` composes `PilotTable`, `RawLog` and `Feed` by `INSTANCE` (`P`, `R`, `F`) with a
program counter: one action per step of `run_server`'s loop, so that the clock can tick and
requests can be served between any two. It calls the operations of the other modules
(`R!get_next_block` with `P!Deal_With_Packet` inside, `P!Expire_Pilots`, `F!WriteFeed`).

`Connections` is what lies behind a request being served: `ns_server_poll` in three parts
(`Poll`, `Select`, a `Handle` per connection and `Sweep`), with the parser, the event handler, chunked answers and the
close at their ends as operators on one connection. A request is cut into parts, several
to the head and to the body, and an answer too; a buffer is a stretch of its stream. Clients send, read, shut down and wait
between any two steps; `Rewrite` is the server loop writing the feed between polls.

`Sprtf` is the logging library: its statics are one record `log`, and a call of `sprtf` is a
function from one to the next. `Startup` extends it with the two programs' command lines, which
are both looked through twice, and with the start and the end of the HTTP server. A step is one
argument or one call. The program `"client"` is any caller of the library: it names, appends, closes and says lines in any order.

`Xdr` is the external data representation, byte by byte, for either host. `Props` is the
table of properties of `raw-log.cxx` with the encoding and decoding of one of them; `PropPacket`
is the packet test that encodes all and decodes them; `RawPackets` is `process_log`, with `RawLog`
as its reader (`R`), its own flight table, and the properties behind each position, up to the report.

`Strptime` is `strptime`, an item of the format a step, and `timegm`.

`Subseqs` is what a loop leaves that passes over some of the elements of a vector or a list: the expired
flights in a document (`Listed`), the connections still open at the end of a poll. `SelectSeq` says the same by recursion;
`SubseqAt` names the places that stay, which can be reasoned about, and `Ordered` lists a set of numbers in increasing order: the packets of
a log, by their magics (`Log` of `RawWhole`). For the same reason the doublings of a buffer
(`Grown`, by powers of `Four`) and the calls `process_request` makes of itself are recursive functions over numbers.

Eight modules hold theorems: one beside each component, `PilotProofs` (of `PilotTable` and `PilotHistory`), `LogReadersProofs` (of `RawLog`, `RawWhole` and `LogReaders`),
`FeedProofs`, `CfServerProofs`, `ConnectionsProofs`, `StartupProofs` (of `Startup` and `Sprtf`) and `RawPacketsProofs`, and `SubseqProofs`, the facts about numbers, iteration and subsequences that they share.
`MCPackets` and the `MC*` modules give the
constants their values. The operators marked `Variant` (`KnownLive`, `SweptEarly`, `PacedShort`, ...) are
the definition that follows with a plausible mistake; no action uses them. `PROJECT.json`
says under "mutants" which property notices each.

## Runs

| run | question | instance |
|---|---|---|
| `PilotTable_joins` | do entries and ids stay unique, do only silent flights go? | three flights (two aircraft under one callsign), 5 packets, 6 seconds, TTL 1, erasure above 1, 2 ids a second |
| `PilotHistory_moves` | does a record follow its pilot, and do the counters agree? | one flight, sim times 0, 1, 3 in any order, three distances, two altitudes; every kind of refusal, with two flaws at once; 4 packets, 5 seconds |
| `RawLog_window` | is the log read in order and whole? | every file of 4 to 11 bytes with every placement of 2-byte magics; 6-byte buffer, or whole, or split with any count and first packet up to 2 |
| `RawLog_tail` | is the end of the log the end? (no) | the same |
| `Feed_buffers` | do the documents stay bounded and parse? | every table of up to three entries, 4-byte initial buffers |
| `CfServer_runs` | is the whole server safe, and is the log played and restarted? | a log of six one-byte packets, two pilots, the second run of the log begun, 7 seconds, fair |
| `Connections_polls` | are requests answered in order, whole, freshly, at all? | eight scripts of up to three requests, and two clients at the same time; 2-part receives and wires, one rewrite of the feed, fair |
| `Startup_options` | do lines and port go where they were asked for? | every command line of up to 3 of 13 arguments, three programs, a disk that is fine, read-only or full |
| `Startup_verbosity` | does the command line get parsed? (no) | `-v` and `-vv`, fair |
| `PropPacket_table` | is everything decoded as it was encoded? | the whole table in packets of seven sizes, from no room to all |
| `RawPackets_report` | do the counts of raw-log add up? | six logs of up to four of nine packets, 3-byte magics, 8-byte buffer, fair |
| `Strptime_dates` | do dates come back? | ten dates in six formats, every text of up to 3 of 11 characters in every conversion |

The bounds are chosen for the cases to happen. Five packets are enough for a flight to join, expire, be
revived, expire again and be joined by another; with `MaxExpired = 1` two expired entries
are erased, also when they are neighbours or on both sides of a live one. Two ids a second
make a second run out of ids. The log of the server run ends, the wait of `TTL + 3` seconds passes and the
second run is fed before the clock stops; the
log is long enough for a pilot who showed up once to overstay if nothing swept him. The files of the reader's runs are nearly twice the
buffer, with magics at, before and across its end. The buffers of `Feed` start so small that
they must grow three times. A client may have a second request in the buffer when the first is parsed, half a request,
one too long, or one with a body that has not come; the wire is shorter than an answer, so that every answer is written in pieces, and
one second of silence makes a connection idle. The command lines contain a port of 0, one that fits and one
that does not, a file that exists and one that does not, options with and without the value they need, and the same options in either order. The
packet sizes put the cut before the first property, inside either partition, at the size raw-log uses,
before the last property, and nowhere: with 1584 bytes the whole table would leave one word free and is cut, with 1588 it is not. `MaxPackets`, `MaxTime`, `MaxSize`, `MaxFeed`, `MaxLines`, `MaxArgs` and `MaxText` are the only bounds of
exploration; the others are parameters of the programs made small.

What the runs show beyond types:

* `OneEntryPerFlight`, `UniqueFlightIds`, `IdsNeverReissued`: the identity of a flight.
* `LiveUntilSilent`, `ExpiredWithinWatermark`: the sweep and the erasure by index take
  the silent flights and no others.
* `TalliesAgree` (`PilotTable`): five failure exits, two sets of counters, one story.
* `RecordTracksLatest`, `EntryCountsPackets`, `ElapsedReachesLatest`:
  most packets are discarded, yet nothing is lost. Differences are taken from the recorded packet, so a slow drift cannot add up.
* `WindowIsContiguous`, `PlaysInOrder`, `LossIsBounded`: the sliding buffer. They are stated for
  logs whose packets fit the buffer (`Fits`), as every packet of the protocol does. `WholeReadIsComplete`: the other
  reader gives the packets asked for, the last one included.
* `JsonParsesWithFlights`, `BuffersStayBounded`, `FeedsAgree`: the documents.
* `NoFlightOverstays`: the loop's waits add up to at most twice the TTL of its own time.
* `ResetIsClean`, `DrivesRawLog`: the restart. `DrivesRawLog` is `R!Spec`: the server as a
  refinement of the reader's specification, in which a log is opened only while none is open.
* `FirstRunIsPaced`: what `use_sim_time2` promises. `LogIsPlayed`, `LogRestarts`: that it also makes progress.
* `AnswersInOrder`, `NoneForgotten`, `DeliversWhole`, `FreshAnswers`, `AnswerComes`: pipelined requests are each answered once, in
  their order; none waits for bytes that are already there; an answer is flushed before its connection is closed; it shows the feed
  as it was when the request was sent, or later; and it comes, as long as client and server stay.
* `CrashOnlyWhenStalled`: a connection closed as idle still gets an event when its client did not take the answer; in no other case
  does an event reach a released connection.
* `LogWhereAsked`, `ListensWhereAsked`, `AppendingKeeps`: both passes over the arguments agree; the port is the one asked for, and the socket is
  released whatever failed; lines appended to a file are not lost by a later name or close.
* `DecodedAsSent`, `TruncatesToVersion1`: encoder, table, binary search and decoder fit each other. What is sent is a beginning of the table, its first version
  first, so that an old client can use it; it is cut exactly when the whole table would leave no more than one word free, although the last property, of
  one word, would still fit there (`src/src/raw-log.cxx:2365` asks for two words and something behind them).
* `TalliesAgree`, `FlightsAddUp`, `CountsWhatWasSent` (`RawPackets`): the report is about the packets of the log. The property counts are those
  sent, save that a property of no list that was packed in one word costs the next one, which the decoder takes for its value, and no other.
* `EventuallyDone`: no file keeps raw-log from its end.
* `DatesComeBack`: two halves of a year in either order, leap years, and `timegm` against a count of days that is not its own.

There are two refinements. `DrivesRawLog`: `R` is an `INSTANCE` with the same variables, so the mapping is the
identity. `PlaysInOrder`: `PB` is `Playback` with `played` mapped to the packets dealt with since the log was opened.
That raw-log refines `R` too is proved only (`ReportDrivesRawLog`).
The second and later failures of an allocation, and of reading a file that could be opened, are in the models where the code tests for them.

Types are `TypeOK`. It is a theorem of every module that has one (of `Connections` and `RawPackets` as part of `AnswersInOrder` and
`TalliesAgree`) but `PropPacket`, whose run checks it.

### Disagreements

Two runs show that the code does something else than it says:

1. The log is ended with up to a buffer of packets not dealt with
   (`src/README.md:47`, `src/src/cf-log.cxx:147`): `RawLog_tail`.
2. `-vv` never ends (`src/src/cf-server.cxx:216`): the loop tests `*sarg` and advances `arg`: `Startup_verbosity`.

Others are visible in the models, which follow the code, and have no run of their own:

* `cumm_nm` ("get cummulative nm", `src/src/cf-pilot.cxx:526`) holds the last
  flight's distance only and is reset to 0 by the next update (`RevivedEntry`, `MovedEntry`).
* A last packet that fills the buffer is dealt with again, with length 4, though `src/src/cf-log.cxx:108` says 1 means that a next packet was found (`BaseAfter`).
  The handler of cf-log reads no length outside its logging, so it sees the whole packet once more (`get_next_block` of `CfServer`).
* With only expired entries the `[` of the JSON list is blanked (`src/src/cf-pilot.cxx:946`, `BlankLast`).
* The XML list cuts a dotted model name twice (`src/src/cf-pilot.cxx:857`, `XmlText`).
* `elapsed_sim_time` survives the restart "of the sim timing" (`src/src/cf-server.cxx:529`), so
  the second run of the log is not paced until a flight outlasts the first run (`EndOfLog`).
* The help names the options in a long form (`--verb[num]`); the loops look at the first letter behind the dashes and take what follows for digits, so `--verb` is refused.
* A port above 65535 is cut to 16 bits by mongoose while cf-log reports the one asked for; `ListensWhereAsked` is stated for ports that fit.
* A log file whose name equals the current one but for case is not taken over by `set_log_file` (`Upper`).

An empty table is a JSON list without flights and an XML 404 (`src/src/cf-pilot.cxx:824`);
`FeedsAgree` says just that.

### Fairness

`CfServer` assumes weak fairness of the loop's actions together and of the
clock. The loop is justified by the code: it has no blocking call, since `http_poll` returns after
`timeout_ms`, the sleep is finite and files are local. `Serve` gets none: no client has
to ask. Nor does the choice of ESC. The clock goes on by itself; it ticks at any point
and any number of times between two steps, so the loop may skip any
second. The bound on the clock is taken into account by the properties: they speak of waits that end
before `MaxTime`.

`Connections` assumes that the polling loop goes on, that a poll visits the connections it has to, and that a client that stays reads
what it was sent. Nobody has to send, to shut down or to rewrite the feed. `RawPackets` assumes that the program takes its next step, and
`Startup`'s fair specification, used by `Startup_verbosity` only, that it does so on the command line.

`CHECK_DEADLOCK FALSE` is set where the program ends: for the server (ESC, or a log that cannot be opened), the start, raw-log, its packet test,
`strptime`, the whole read, and the connections (the server stops, and the clients' scripts are finite).

### Assumptions about the environment

* No more than `IdSpan` flights (1000 in the code) are new or revived in one second (`IdAvailable`); a
  turn of the loop handles one packet.
* The clock does not go back.
* A log file does not change while it is open, magics do not overlap, and none is cut by the end of the file.
* Reopening and reading may fail in the ways `open_raw_log` tests for. Memory running out
  while a document is written ends the program and is left out.
* The parts of a request arrive in order. A client does not read what it was not sent.
* What a block without a packet at its head is read as (`Garbage`) fails the first test of the handler.
* A block holds the properties of the packet at its head and none behind them (`PropsOf`): no packet without a magic lies in it, and none is cut
  by the end of the buffer.

## Proofs

The theorems hold for all constants that satisfy the assumption of their module, and these ask for no more than the program gives:

* `TableAssumption`: any axes with any thresholds, any packets of the type, any TTL and watermark, at least one id per second, a clock
  that does not start at 0.
* `LogAssumption`: any logs whose magics do not overlap and are not cut by the end, and whose length fits a `size_t`; a buffer longer
  than a magic; `ScanFrom` within the first magic.
* `FeedAssumption`: any finite set of tables, any positive lengths of the texts and of the first buffer. (The set is finite so that there is a
  longest text, which `BuffersStayBounded` names.)
* `ServerAssumption`: the three together, and a packet at every magic.
* `WholeAssumption`: a whole read starts with a count and a first packet that are not negative, as the program's do.
* `StartupAssumption`, `SprtfAssumption`: any command lines, any names for the arguments, any way of comparing names without case; the default
  name is not `none`.
* `PacketAssumption`: any logs as for `LogAssumption`, any packets whose times and places are numbers; a block that starts with no packet fails
  the test of the magic.
* `ConnectionAssumption`: any clients, any scripts of requests, a `recv` and a wire of at least one part, any limit of
  a request and of idling.

The bounds of exploration (`MaxPackets`, `MaxTime`, `MaxFeed`) are any numbers too.

### Flight table

`PilotProofs` proves of `PilotTable`:

* `TypeCorrect`: `Spec => []TypeOK`
* `FlightsAreUnique`: `Spec => []OneEntryPerFlight`
* `IdsAreUnique`: `Spec => []UniqueFlightIds`
* `IdsAreNeverReissued`: `Spec => IdsNeverReissued`, an action property
* `TalliesAlwaysAgree`: `Spec => []TalliesAgree`
* `WatermarkHolds`: `Spec => []ExpiredWithinWatermark`
* `LiveFlightsStay`: `Spec => LiveUntilSilent`, an action property

The inductive invariant is `IInv == TypeOK /\ OneEntryPerFlight /\ UniqueFlightIds /\
IdsInv`. `UniqueFlightIds` alone is not inductive: without `IdsInv` (`prev <= now` and
`eq_count < IdSpan`) the next id could fall into the range of a second already used. With it
`NewIdAbove` shows that an id just issued is above all earlier ones, which is all the table
needs. `OneEntryPerFlight` rests on the search of the whole vector before a push.

The table changes in four ways, each with a lemma: a push (`Pushed`), a replacement of one record by
one of the same flight (`Replaced`), a relabelling of the records in place (`Relabelled`, the sweep) and
the selection of some of them (`ErasedTable`, where the selection is
increasing and hence takes none twice). The handlers and the sweep are then instances of
these. `IdsAreNeverReissued` goes over the same four ways with `Keeps`.

`TalliesAgree` and `ExpiredWithinWatermark` are inductive together with `IInv`. For the first a packet raises one count of
`sPktStr` and the counter of its kind; a refusal needs that its type is one of the five bad ones. For the second the handlers can only
shrink the set of expired entries (`ReceiveExpired`), and `Expire_Pilots` recounts it or leaves it empty. `LiveUntilSilent` needs that
the erasure drops no entry that is to stay: an increasing list of as many places as there are entries to keep names each of them
(`ErasedKeeps`, by counting).

and of `PilotHistory`:

* `RecordsTrackLatest`: `HSpec => []RecordTracksLatest`
* `EntriesCountPackets`: `HSpec => []EntryCountsPackets`
* `ElapsedTimeReachesLatest`: `HSpec => []ElapsedReachesLatest`
* `HistoryWatches`: `HSpec => Spec`, so that the history adds nothing to what the table does

The invariant is `HInv == IInv /\ HistoryInv`: each record sums up what was heard of its flight (`SumsUp`), `elapsed_sim_time` has reached
the last packet (`Reaches`) and is not zero while it paces. Neither part is inductive without `OneEntryPerFlight`:
the history has one place per flight, so a second record of it would be compared with packets it never got. The history of a
flight that is not listed may be anything, since the next entry starts it afresh.

### Readers

`LogReadersProofs` proves of `RawLog`:

* `SpecTypeOK`: `Spec => []TypeOK`
* `SpecWindowIsContiguous`: `Spec => []WindowIsContiguous`
* `SpecPlaysInOrder`: `Spec => PlaysInOrder`, the refinement of `Playback`
* `SpecLossIsBounded`: `Spec => LossIsBounded`, an action property

`IInv == TypeOK /\ Window`. `WindowIsContiguous` says that the buffer ends where the file is read next. For a step to keep it `Window` also says, of a
log that fits, that the buffer is full and within the file, starts at the packet next in line and holds all of it, and that `raw_log_remaining`
covers the file from the buffer on: the program takes the end of the log from that number, and the number wraps. The type is kept
for logs that do not fit, too, and for either choice of `ScanFrom` and `ChecksHead`, so it covers the reader of raw-log.

Of the choice `main_test` makes when it is built, and of the reader that takes the file whole, it proves:

* `BuildsReadBlocks`: `BuildSpec => Spec`, whichever reader the build has, so that the four theorems above hold of it
* `WholeReadAlwaysComplete`: `BuildSpec => []WholeReadIsComplete`

The invariant `WholeInv` counts: `packet_cnt` magics lie before the search, `bgn` is the last of them, and what was dealt with, or copied, is
as long as the loop has passed packets that were wanted, each of them the piece from one magic to the next. That a magic the search passed is the
next of the list `Log` is the enumeration of a set of numbers in order (`OrderedEnumerates`).

### Documents

`FeedProofs` proves of `Feed`:

* `JsonAlwaysParses`: `Spec => []JsonParsesWithFlights`
* `BuffersAlwaysBounded`: `Spec => []BuffersStayBounded`

The invariant adds that a text ends within its buffer (`Sized`). The shape of a document of n flights is stated piece by piece (`JsonShape`),
and a buffer grows by the least power of four that makes it fit, so that it was too small by the one before.

### The server

`CfServerProofs` proves of the composition:

* `ServerTypeOK`: `Spec => []TypeOK`
* `ResetsAreClean`: `Spec => []ResetIsClean`
* `FlightsDoNotOverstay`: `Spec => []NoFlightOverstays`
* `FeedsAlwaysAgree`: `Spec => []FeedsAgree`
* `FirstRunStaysPaced`: `Spec => FirstRunIsPaced`, an action property
* `ServerDrivesRawLog`: `Spec => DrivesRawLog`, the refinement of `RawLog`
* `ServerWindow`, `ServerPlaysInOrder`, `ServerKeepsFlightsApart`, `ServerJsonParses`: what the parts promise holds in the server

The proof modules of the parts are themselves instantiated (`T`, `L`, `W`), so their lemmas and theorems are cited, not repeated. Every step of the loop is shown
to be a step of the reader or to leave it alone; `RawLog` and, through it, `Playback` then follow by transitivity. Of the table, the invariant `T!IInv` is
kept because the loop calls the operations whose lemmas are already there. (A stand-alone `PilotTable` bounds the packets it gets
and the server does not; no lemma used here is about that bound, and `T` may give it any value.)

The invariant is `IInv == T!IInv /\ ReaderInv /\ OwnType /\ Control /\ Clean /\ Times /\ Pace`. `Control` relates the program
counter to the log and to `need_reset`; `Clean` is what the end of the log leaves. `Times` is why no flight overstays: a sweep at
`last_expire` leaves only flights heard at `last_expire - TTL` or later, and the loop writes only when the next sweep is not due, so
the two waits add up to `2 * TTL` of its own time. `Pace`
says that the pacing is off during the first run only while nothing has elapsed. `FeedsAgree` needs besides that both documents were
written from one table in one step (`SameFlights`).

### Connections

`ConnectionsProofs` proves of `Connections`:

* `BuffersHold`: `Spec => []TypeOK`
* `AnswersKeepOrder`: `Spec => []AnswersInOrder`
* `NoRequestForgotten`: `Spec => []NoneForgotten`
* `AnswersAreFresh`: `Spec => []FreshAnswers`
* `CrashesOnlyWhenStalled`: `Spec => []CrashOnlyWhenStalled`
* `AnswersAreDelivered`: `Spec => DeliversWhole`, an action property

The invariant is `Inv == Types /\ (\A c \in Clients : Held(c)) /\ Lists /\ Control`. `Held` says of one connection that it is

* `Sound`: its buffers are stretches of their streams, the answers are in order, fresh, and none is left out;
* `Whole`, while it has data: what is buffered begins where a request does, or behind a refused one, and every
  request before that has its answer;
* at rest (`Rests`): nothing it has received could be answered without another `recv`;
* and, if it is to stay, answered last by an answer that lets it (`LastKept`).

`AnswersInOrder` alone is not inductive: a parser that starts amid a request could answer it twice, so `Whole` is needed; and a buffer left with a
request in it would break `NoneForgotten` at the next poll, so `Rests` is. An event runs `process_request` again
and again; the proof shows what one call keeps, and that it calls
itself once for each request at most, since it does so only behind the head of one.
`Lists` ties the list of connections to those open, and to those the second loop has still to visit. `Control` (with `Steered`) says, for each place of
`ns_server_poll`, which connections may be flagged or released: this is what `CrashOnlyWhenStalled` and `DeliversWhole` need.

### Command line and log files

`StartupProofs` proves of `Startup`:

* `StartupTypeOK`: `StartupSpec => []TypeOK`
* `StartupAppendingKeeps`: `StartupSpec => AppendingKeeps`, an action property
* `StartupListensWhereAsked`: `StartupSpec => []ListensWhereAsked`
* `StartupLogWhereAsked`: `StartupSpec => []LogWhereAsked`, from the hypothesis `NamesApart`

Every call of the library is a function from one state of its statics to the next. Each is shown to keep the text of a file opened for
appending (`KeepsText`), and a step is then a sequence of calls. `ListenInv` says, for each place of the start, what the socket and the report
are by then. `LogInv` is what makes two passes agree: while the arguments are checked the name is the one behind the last
`-l` so far (`LogsBefore`), nothing has been written and the argument the loop is at is no option's value; from the second
pass on every line goes to that one name (`SaysTo`). `NamesApart`: no name that is asked for, and no default of a program, is the library's default name but for case;
`set_log_file` would take such a name for the current one, which is among the disagreements above.

### raw-log

`RawPacketsProofs` proves of `RawPackets`:

* `ReportDrivesRawLog`: `Spec => R!Spec`, the refinement of `RawLog`, and through it
* `ReportWindow` and `ReportPlaysInOrder`: `Spec => []R!WindowIsContiguous` and `Spec => R!PlaysInOrder`
* `ReportTalliesAgree`: `Spec => []TalliesAgree`
* `ReportFlightsAddUp`: `Spec => []FlightsAddUp`

`L` instantiates `LogReadersProofs` with the reader of raw-log; `ReaderIsReader` says that it is the same as `R`, so the lemmas about a reader are
cited, not repeated. `TallyInv == R!TypeOK /\ Control /\ Own /\ Counts`. `Control` ties the place of `process_log` to the reader: it is ready for
every block, so each is dealt with, and when the log ends `blk_cnt` is one behind, which the `+ 1` of the report makes good.
`Counts` is what the statistics say; that one packet more changes two sums of the
enumeration by one or by none is `StatsBumped`, from lemmas on numbers that are added up in turn (`SumShape`, `SumBumped`, `SumLonger`).

`FlightInv` adds `Flights`. `FlightsAddUp` alone is not inductive. Its distance is measured from a flight's first position, so
a record must have one among the packets accepted (`Recorded`); and a flight that is added must have none before it, so every accepted position
needs a record by its name (the last conjunct of `Flights`). A block more leaves the packets dealt with before it as they are (`AcceptedGrows`), and the first
position of a flight stays its first (`FirstStays`).

### Shared lemmas

The library's induction takes an operator, which the provers cannot instantiate. `SubseqProofs` therefore puts it as the least counterexample in a
set of numbers (`LeastExists`, `AllNaturals`), and a recursion over numbers as the iteration of a step, which exists, is
unique, and keeps what each step keeps (`IterationExists`, `IteratesAlike`, `IterationKeeps`). `OrderedEnumerates` and `SubseqKeeps`
say what a subsequence has of the sequence.

### Model-checked only

* All liveness: `LogRestarts`, `LogIsPlayed`, `AnswerComes`, `EventuallyDone`. It rests on fairness, which is out of the prover's reach.
* `DecodedAsSent`, `TruncatesToVersion1`, `CountsWhatWasSent`, `DatesComeBack`: what the recursive definitions of `Xdr`, `Props` and `Strptime`
  compute of their data is out of reach, and with it the invariants of `PropPacket` (its `TypeOK` included) and `Strptime`.
* The two disagreements, each shown by a behaviour.

## Not modelled

* The floating-point geodesy of `fg_geometry`, `cf_euler` and `geod`; a position is a reading per axis.
* Of mongoose, what cf-log's handler never reaches: websockets, CGI, WebDAV, SSI, files and directories, authorization, SSL, forwarding, the client side, Lua,
  and the options other than the port.
* Of raw-log, the decoder that is compiled out (`!USE_PROTO_2`) and the printing of values.
* The file copy of the JSON; formatting, statistics; the helpers `cf_String` and `InStr`; the screen lists of old Windows builds in `sprtf`.
* The conversions of `strptime` by the names of a locale, which its Windows build compiles out.
* `cf_sqlite`, `cf_postgres`, `netSocket` and `daemon`: in no build target and called from nowhere.
* The exit code of `server_main`, which drops what `run_server` returns (`src/src/cf-server.cxx:596`), and the length of a line in a text buffer
  (`src/src/cf_lib/sprtf.cxx:63`) are hazards without a property.

## Plan

1. Done: the models and their runs, as listed above.
2. Done: the theorems above: the flight table and its history, both readers and the refinement of `Playback`, the documents, the composed server,
   the connections, the command line and the log files, and the report of raw-log.
3. Left: a decoder whose recursion is a fold over the properties of a block, so that `CountsWhatWasSent` and `DecodedAsSent` can be proved property by
   property.
