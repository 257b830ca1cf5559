---------------------------- MODULE MCRawPackets ----------------------------
(* Short logs of packets as FlightGear makes them, read through a buffer that *)
(* holds two: whole ones, one behind some junk, one with more junk than the   *)
(* buffer holds, one whose last packet fills it, and one that is too small.   *)
EXTENDS RawPackets

-----------------------------------------------------------------------------
(* What FlightGear sends: a property packed in one word, or in two; a text    *)
(* byte by byte, or a word for each character and padded.                      *)

Unit(id, bytes) == [id |-> id, bytes |-> bytes]
Packed(id, v) == Unit(id, ShortInts(id, v))
Long(id, v) == Unit(id, Uint32(id) \o Uint32(v))
LongFloat(id, tenths) == Unit(id, Uint32(id) \o Float(tenths))
Text(id, t) == Unit(id, ShortInts(id, Len(t)) \o t)
\* Each character, and what pads them, is a word.
LongText(id, t) ==
    LET n == ((Len(t) + 3) \div 4) * 4
        f[k \in Nat] == IF k > n THEN <<>>
                        ELSE Uint32(IF k <= Len(t) THEN t[k] ELSE 0) \o f[k + 1]
    IN Unit(id, Uint32(id) \o Uint32(Len(t)) \o f[1])

Joined(us) ==
    LET f[k \in Nat] == IF k > Len(us) THEN <<>> ELSE us[k].bytes \o f[k + 1] IN f[1]

UnlistedId == 5000

\* Version 1.1 and 2017.2 property lists, with properties of no list between;
\* the last one packs such properties in one word, two of them in a row.
Old == <<Long(1100, 7), LongText(1101, <<65, 66>>), Long(UnlistedId, 1), LongFloat(900, 3),
         LongText(1200, <<>>)>>
New == <<Packed(10, 2), Text(905, <<65>>), Packed(100, -32767), Text(1101, <<>>), Long(1100, -2)>>
Odd == <<Packed(UnlistedId, 1), Packed(100, 5), Packed(1006, 1), Packed(UnlistedId, 2),
         Packed(UnlistedId, 3), Packed(900, 4)>>

-----------------------------------------------------------------------------
(* Packets and logs *)

Made(flaws, id, callsign, name, s, px, us) ==
    [flaws |-> flaws, id |-> id, callsign |-> callsign, model |-> name, sim_time |-> s,
     px |-> px, units |-> us, props |-> Joined(us)]
Heli == [dir |-> <<"Aircraft">>, name |-> <<"bo105", "xml">>]
Heli2 == [dir |-> <<"Models", "bo105">>, name |-> <<"bo105", "ac">>]
Glider == [dir |-> <<>>, name |-> <<"ask21">>]

Flies(m, s, px, us) == Made({}, "pos", "ANN", m, s, px, us)
Bad1(flaw) == Made({flaw}, "pos", "ANN", Heli, 3, 1, Old)
MCPacket ==
    [old |-> Flies(Heli, 0, 1, Old), new |-> Flies(Heli2, 2, 3, New),
     odd |-> Flies(Glider, 1, 0, Odd), bare |-> Flies(Heli2, 1, 2, <<>>),
     origin |-> Bad1("origin"), height |-> Bad1("height"),
     proto |-> Bad1("proto"), chat |-> Made({}, "chat", "BOB", Glider, 0, 0, <<>>),
     other |-> Made({}, "other", "BOB", Glider, 0, 0, <<>>)]
MCGarbage == Made({"magic"}, "other", "BOB", Glider, 0, 0, <<>>)

Log(size, marks, heads) == [size |-> size, marks |-> marks, heads |-> marks \cup heads]
MCLogs ==
    {Log(16, {0, 4, 8, 12}, {}),  \* four packets
     Log(19, {1, 5, 10}, {}),     \* behind some junk
     Log(16, {0, 4, 8}, {}),      \* the last one fills the buffer
     Log(30, {0, 4}, {}),         \* more junk than the buffer holds
     Log(30, {0, 4}, {12}),       \* the same, another protocol's behind it
     Log(8, {0}, {})}             \* too small
=============================================================================
