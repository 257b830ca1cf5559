------------------------------ MODULE MCStrptime ------------------------------
(* Dates around the turns of months, leap years and centuries, printed in a *)
(* few formats; and every short text for every conversion.                  *)
EXTENDS Strptime

CONSTANT MaxText

Date(y, mo, d, h, mi, s) ==
    [year |-> y - 1900, mon |-> mo - 1, mday |-> d, hour |-> h, min |-> mi, sec |-> s]

Dates ==
    {Date(1970, 1, 1, 0, 0, 0), Date(1999, 12, 31, 23, 59, 59), Date(2000, 2, 29, 12, 0, 1),
     Date(2000, 3, 1, 1, 30, 0), Date(2001, 3, 1, 0, 0, 10), Date(2037, 12, 31, 20, 5, 7),
     Date(2016, 10, 12, 9, 9, 9)}

\* Those that two digits of the year do not tell.
FarDates == {Date(1950, 6, 30, 4, 5, 6), Date(2096, 2, 29, 7, 8, 9), Date(1804, 1, 1, 0, 0, 0)}

\* strftime: the items of a format as it prints them.
Two(n) == <<Digits[(n \div 10) + 1], Digits[(n % 10) + 1]>>
Four(n) == Two(n \div 100) \o Two(n % 100)
PrintedItem(it, d) ==
    IF "char" \in DOMAIN it THEN <<it.char>>
    ELSE CASE it.conv = "Y" -> Four(d.year + 1900)
           [] it.conv = "C" -> Two((d.year + 1900) \div 100)
           [] it.conv = "y" -> Two((d.year + 1900) % 100)
           [] it.conv = "m" -> Two(d.mon + 1)
           [] it.conv = "d" -> Two(d.mday)
           [] it.conv = "H" -> Two(d.hour)
           [] it.conv = "M" -> Two(d.min)
           [] it.conv = "S" -> Two(d.sec)
           [] it.conv = "D" -> Two(d.mon + 1) \o <<"/">> \o Two(d.mday) \o <<"/">> \o Two((d.year + 1900) % 100)
           [] it.conv = "F" -> Four(d.year + 1900) \o <<"-">> \o Two(d.mon + 1) \o <<"-">> \o Two(d.mday)
           [] it.conv = "R" -> Two(d.hour) \o <<":">> \o Two(d.min)
           [] it.conv = "T" -> Two(d.hour) \o <<":">> \o Two(d.min) \o <<":">> \o Two(d.sec)
           [] it.conv = "z" -> <<"+", "0", "1", ":", "3", "0">>
           [] it.conv = "Z" -> <<"G", "M", "T">>

Printed(f, d) ==
    LET p[k \in 0 .. Len(f)] == IF k = 0 THEN <<>> ELSE p[k - 1] \o PrintedItem(f[k], d) IN p[Len(f)]

Format(s) == [k \in DOMAIN s |-> IF s[k] \in {" ", ":", "-"} THEN Plain(s[k]) ELSE Conv(s[k])]

FarFormats ==
    {Format(s) : s \in {<<"F", " ", "T">>, <<"Y", "m", "d", "H", "M", "S", "Z">>,
                        <<"C", "y", "m", "d", " ", "T">>, <<"y", "C", "m", "d", " ", "T">>}}
Formats ==
    FarFormats
    \cup {Format(s) : s \in {<<"D", " ", "R", ":", "S">>, <<"T", " ", "D", " ", "z">>}}

Chars == {"0", "1", "3", "9", " ", ":", "+", "E", "D", "T", "M"}
Texts == UNION {[1 .. n -> Chars] : n \in 0 .. MaxText}

Conversions ==
    {Conv(c) : c \in Known \cup {"Q"}} \cup {Plain(":"), Plain(" ")}
    \cup {[conv |-> c, alt |-> a] : c \in {"d", "Y", "C", "T", "n"}, a \in {<<"E">>, <<"O">>, <<"E", "O">>}}

Zones == {<<"E", "S", "T">>, <<"M", "D", "T">>, <<"U", "T">>, <<"-", "0", "8">>, <<"+", "9", "9", "6", "0">>}

MCCalls ==
    {[fmt |-> f, text |-> Printed(f, d), date |-> d] : f \in Formats, d \in Dates}
    \cup {[fmt |-> f, text |-> Printed(f, d), date |-> d] : f \in FarFormats, d \in FarDates}
    \cup {[fmt |-> <<it>>, text |-> t, date |-> NoDate] : it \in Conversions, t \in Texts}
    \cup {[fmt |-> <<Conv("z")>>, text |-> t, date |-> NoDate] : t \in Zones}

MCtzname == <<<<"T", "D">>, <<"T">>>>
=============================================================================
