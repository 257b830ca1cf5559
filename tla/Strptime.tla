------------------------------- MODULE Strptime -------------------------------
(***************************************************************************)
(* strptime and timegm, which the library brings along for Windows         *)
(* (src/cf_lib/strptime_win.cxx): the date a text gives in a format.  A    *)
(* step is one item of the format.                                         *)
(*                                                                         *)
(* A text is a sequence of characters.  An item of a format is a           *)
(* character that must match, white space, or a conversion: its letter and *)
(* the modifiers before it.  Conversions by the words of a locale are      *)
(* compiled out of a Windows build, and so are offsets and names of zones  *)
(* in struct tm.                                                           *)
(***************************************************************************)
EXTENDS Integers, Sequences, FiniteSets

CONSTANTS
    Calls,    \* [fmt, text, date]: what strptime is called with; the date the
              \* text was printed from, or NoDate
    NoDate,
    NULL,     \* the null pointer
    tzname,   \* the two names of the local time zone
    TIME_MAX

VARIABLES
    call,
    fmt, bp,      \* what is left of the format, and of the text
    tm, split_year,
    outer         \* the caller's fmt and split_year, inside a complex conversion

vars == <<call, fmt, bp, tm, split_year, outer>>

Fields == {"sec", "min", "hour", "mday", "mon", "year", "wday", "yday", "isdst"}
Unset == [f \in Fields |-> 0]

Init ==
    /\ call \in Calls
    /\ fmt = call.fmt /\ bp = call.text
    /\ tm = [Unset EXCEPT !["mday"] = 1]
    /\ split_year = FALSE
    /\ outer = <<>>

-----------------------------------------------------------------------------
(* Reading the text *)

Digits == <<"0", "1", "2", "3", "4", "5", "6", "7", "8", "9">>
Value(c) == (CHOOSE d \in DOMAIN Digits : Digits[d] = c) - 1
IsDigit(s, n) == n <= Len(s) /\ \E d \in DOMAIN Digits : Digits[d] = s[n]
From(s, n) == SubSeq(s, n, Len(s))
StartsWith(s, p) == Len(p) <= Len(s) /\ SubSeq(s, 1, Len(p)) = p

\* The first n characters as a number.
Number(s, n) ==
    LET f[k \in 0 .. n] == IF k = 0 THEN 0 ELSE 10 * f[k - 1] + Value(s[k]) IN f[n]

\* The limit also determines the number of digits that are taken.
Enough(s, n, ulim) ==
    \/ Number(s, n) * 10 > ulim
    \/ ulim \div 10 ^ n = 0
    \/ ~IsDigit(s, n + 1)

\* [num, rest], or NULL.
conv_num(s, llim, ulim) ==
    IF ~IsDigit(s, 1) THEN NULL
    ELSE LET n == CHOOSE n \in 1 .. Len(s) :
                    /\ Enough(s, n, ulim)
                    /\ \A k \in 1 .. n - 1 : ~Enough(s, k, ulim)
         IN IF Number(s, n) \in llim .. ulim
            THEN [num |-> Number(s, n), rest |-> From(s, n + 1)]
            ELSE NULL

\* Which of the names the text starts with, case apart, and the text behind
\* it; or NULL.
find_string(s, names) ==
    LET found == {i \in DOMAIN names : StartsWith(s, names[i])} IN
    IF found = {} THEN NULL
    ELSE LET i == CHOOSE i \in found : \A j \in found : i <= j IN
         [num |-> i - 1, rest |-> From(s, Len(names[i]) + 1)]

Spaces(s) ==
    CHOOSE n \in 0 .. Len(s) :
        /\ \A k \in 1 .. n : s[k] = " "
        /\ n = Len(s) \/ s[n + 1] # " "
SkipSpaces(s) == From(s, Spaces(s) + 1)

-----------------------------------------------------------------------------
(* Formats *)

Conv(c) == [conv |-> c, alt |-> <<>>]
Plain(c) == [char |-> c]
Item == Head(fmt)
IsConv(c) == "conv" \in DOMAIN Item /\ Item.conv = c /\ Len(Item.alt) <= 1
Running == bp # NULL /\ fmt # <<>>

\* return NULL, out of the caller too; or go on with the rest of the format.
Fail == bp' = NULL /\ fmt' = <<>> /\ outer' = <<>> /\ UNCHANGED split_year
Go(s) == bp' = s /\ fmt' = Tail(fmt) /\ UNCHANGED outer
Proceed(r) == IF r = NULL THEN Fail ELSE Go(r.rest) /\ UNCHANGED split_year

\* LEGAL_ALT
Legal(alts) == Item.alt = <<>> \/ \E a \in alts : Item.alt = <<a>>

-----------------------------------------------------------------------------
(* White space and characters *)

White ==
    /\ Running
    /\ \/ Item = Plain(" ")
       \/ (IsConv("n") \/ IsConv("t")) /\ Legal({})
    /\ Go(SkipSpaces(bp))
    /\ UNCHANGED <<call, tm, split_year>>

Literal ==
    /\ Running
    /\ "char" \in DOMAIN Item /\ Item.char # " "
    /\ IF StartsWith(bp, <<Item.char>>) THEN Go(Tail(bp)) /\ UNCHANGED split_year ELSE Fail
    /\ UNCHANGED <<call, tm>>

-----------------------------------------------------------------------------
(* Numbers *)

Field(f, llim, ulim, alts) == [field |-> f, llim |-> llim, ulim |-> ulim, alts |-> alts]

\* Conversions that are a number within limits.
Numeric ==
    [d |-> Field("mday", 1, 31, {"O"}), e |-> Field("mday", 1, 31, {"O"}),
     H |-> Field("hour", 0, 23, {"O"}), k |-> Field("hour", 0, 23, {"O"}),
     I |-> Field("hour", 1, 12, {"O"}), l |-> Field("hour", 1, 12, {"O"}),
     j |-> Field("yday", 1, 366, {}), M |-> Field("min", 0, 59, {"O"}),
     m |-> Field("mon", 1, 12, {"O"}), S |-> Field("sec", 0, 61, {"O"}),
     U |-> Field("none", 0, 53, {"O"}), W |-> Field("none", 0, 53, {"O"}),
     w |-> Field("wday", 0, 6, {"O"}), u |-> Field("wday", 1, 7, {"O"}),
     g |-> Field("none", 0, 99, {"E", "O"}), V |-> Field("none", 0, 53, {"E", "O"}),
     Y |-> Field("year", 0, 9999, {"E"}), s |-> Field("none", 0, TIME_MAX, {"E", "O"})]

TM_YEAR_BASE == 1900

\* The field a number stands for.
Meaning(c, n) ==
    CASE c \in {"j", "m"} -> n - 1
      [] c \in {"I", "l"} -> n % 12
      [] c = "u" -> n % 7
      [] c = "Y" -> n - TM_YEAR_BASE
      [] OTHER -> n

\* What some conversions write when there is no number.
Default(c) ==
    CASE c \in {"j", "m"} -> 1 [] c = "Y" -> TM_YEAR_BASE [] OTHER -> 0

Write(f, n) == tm' = IF f = "none" THEN tm ELSE [tm EXCEPT ![f] = n]

ConvertNumber ==
    /\ Running
    /\ \E c \in DOMAIN Numeric :
        LET row == Numeric[c]
            r == conv_num(bp, row.llim, row.ulim)
        IN /\ IsConv(c)
           /\ c \in {"k", "l"} => Legal({})
           /\ IF r # NULL THEN Write(row.field, Meaning(c, r.num))
              ELSE IF c \in {"j", "m", "u", "Y"} THEN Write(row.field, Meaning(c, Default(c)))
              ELSE UNCHANGED tm
           /\ IF Legal(row.alts) THEN Proceed(r) ELSE Fail
    /\ UNCHANGED call

-----------------------------------------------------------------------------
(* A year in two halves *)

Century(n) == n * 100 - TM_YEAR_BASE
TwoDigits(n) == IF n <= 68 THEN n + 2000 - TM_YEAR_BASE ELSE n + 1900 - TM_YEAR_BASE

\* C's division rounds towards zero.
Quotient(a, b) == IF a < 0 THEN -((-a) \div b) ELSE a \div b
Rest(a, b) == a - Quotient(a, b) * b

\* Variant: the century is lost when the year follows it.
YearAlone(n) == TwoDigits(n)

\* The second of the two keeps what the first one gave.
YearOf(n) == IF split_year THEN n + Quotient(tm["year"], 100) * 100 ELSE TwoDigits(n)
CenturyOf(n) == IF split_year THEN Century(n) + Rest(tm["year"], 100) ELSE Century(n)

ConvertYear ==
    /\ Running
    /\ \E c \in {"C", "y"} :
        LET r == conv_num(bp, 0, 99) IN
        /\ IsConv(c)
        /\ tm' = [tm EXCEPT !["year"] =
                    IF c = "y" THEN YearOf(IF r = NULL THEN 0 ELSE r.num)
                    ELSE CenturyOf(IF r = NULL THEN 20 ELSE r.num)]
        /\ IF r # NULL /\ (c = "y" \/ Legal({"E"}))
           THEN Go(r.rest) /\ split_year' = TRUE
           ELSE Fail
    /\ UNCHANGED call

\* The ISO year is passed over, its first character unseen; at the end of the
\* text that is the terminating zero, and what lies behind it is read.
SkipYear ==
    /\ Running /\ IsConv("G")
    /\ IF bp = <<>> THEN Go(<<>>) \/ Go(<<"0">>)
       ELSE Go(From(bp, CHOOSE n \in 2 .. Len(bp) + 1 :
                            /\ \A k \in 2 .. n - 1 : IsDigit(bp, k)
                            /\ ~IsDigit(bp, n)))
    /\ UNCHANGED <<call, tm, split_year>>

-----------------------------------------------------------------------------
(* Time zones *)

nast == <<<<"E", "S", "T">>, <<"C", "S", "T">>, <<"M", "S", "T">>, <<"P", "S", "T">>>>
nadt == <<<<"E", "D", "T">>, <<"C", "D", "T">>, <<"M", "D", "T">>, <<"P", "D", "T">>>>
Military == {"A", "B", "C", "D", "E", "F", "G", "H", "I", "L", "M", "N", "O", "P",
             "Q", "R", "S", "T", "U", "V", "W", "X", "Y"}

ZoneName ==
    /\ Running /\ IsConv("Z")
    /\ LET r == IF StartsWith(bp, <<"G", "M", "T">>)
                THEN [num |-> 0, rest |-> From(bp, 4)]
                ELSE find_string(bp, tzname)
       IN /\ tm' = IF r = NULL THEN tm ELSE [tm EXCEPT !["isdst"] = r.num]
          /\ Proceed(r)
    /\ UNCHANGED call

\* hh, hhmm or hh:mm behind the sign; the minutes are minutes.
DigitsAhead(s, most) ==
    CHOOSE n \in 0 .. most : (\A k \in 1 .. n : IsDigit(s, k)) /\ (n = most \/ ~IsDigit(s, n + 1))
Colons(s) ==
    CHOOSE n \in 0 .. Len(s) : (\A k \in 1 .. n : s[k] = ":") /\ (n = Len(s) \/ s[n + 1] # ":")
Offset(s) ==
    LET hours == DigitsAhead(s, 4)
        behind == From(s, 3)
        mins == From(behind, Colons(behind) + 1)
        tail == IF hours = 4 THEN behind ELSE mins
        n == DigitsAhead(tail, 2)
    IN IF hours \notin {2, 4} \/ n = 1 THEN NULL
       ELSE IF n = 0 THEN [num |-> 0, rest |-> tail]
       ELSE IF Number(tail, 2) < 60 THEN [num |-> 0, rest |-> From(tail, 3)]
       ELSE NULL

Utc == {<<"G", "M", "T">>, <<"U", "T">>, <<"Z">>}

\* [num, rest]; num is what tm_isdst becomes, or -1 when it stays.
ZoneAt(s) ==
    IF \E z \in Utc : StartsWith(s, z)
    THEN [num |-> 0, rest |-> From(s, Len(CHOOSE z \in Utc : StartsWith(s, z)) + 1)]
    ELSE IF s # <<>> /\ Head(s) \in {"G", "U"} THEN NULL
    ELSE IF s # <<>> /\ Head(s) \in {"+", "-"} THEN Offset(Tail(s))
    ELSE IF find_string(s, nast) # NULL THEN [num |-> -1, rest |-> find_string(s, nast).rest]
    ELSE IF find_string(s, nadt) # NULL THEN [num |-> 1, rest |-> find_string(s, nadt).rest]
    ELSE IF s # <<>> /\ Head(s) \in Military THEN [num |-> -1, rest |-> Tail(s)]
    ELSE NULL

ZoneOffset ==
    /\ Running /\ IsConv("z")
    /\ LET r == ZoneAt(SkipSpaces(bp)) IN
       /\ tm' = IF r = NULL \/ r.num = -1 THEN tm ELSE [tm EXCEPT !["isdst"] = r.num]
       /\ Proceed(r)
    /\ UNCHANGED call

-----------------------------------------------------------------------------
(* Complex conversions recurse, with a split_year of their own. *)

Complex ==
    [D |-> <<Conv("m"), Plain("/"), Conv("d"), Plain("/"), Conv("y")>>,
     F |-> <<Conv("Y"), Plain("-"), Conv("m"), Plain("-"), Conv("d")>>,
     R |-> <<Conv("H"), Plain(":"), Conv("M")>>,
     T |-> <<Conv("H"), Plain(":"), Conv("M"), Plain(":"), Conv("S")>>]

Recurse ==
    /\ Running
    /\ \E c \in DOMAIN Complex :
        /\ IsConv(c) /\ Legal({})
        /\ fmt' = Complex[c]
        /\ outer' = <<[fmt |-> Tail(fmt), split_year |-> split_year]>>
    /\ split_year' = FALSE
    /\ UNCHANGED <<call, bp, tm>>

Return ==
    /\ bp # NULL /\ fmt = <<>> /\ outer # <<>>
    /\ fmt' = outer[1].fmt /\ split_year' = outer[1].split_year
    /\ outer' = <<>>
    /\ UNCHANGED <<call, bp, tm>>

\* A conversion there is none of, or with a modifier that is looked at before
\* the text is; two modifiers never go together.
Known == DOMAIN Numeric \cup DOMAIN Complex \cup {"n", "t", "C", "y", "G", "Z", "z"}
Unknown ==
    /\ Running
    /\ "conv" \in DOMAIN Item
    /\ \/ Item.conv \notin Known
       \/ Item.conv \in DOMAIN Complex \cup {"n", "t", "k", "l"} /\ ~Legal({})
       \/ Len(Item.alt) > 1
    /\ Fail
    /\ UNCHANGED <<call, tm>>

Next ==
    \/ White \/ Literal \/ ConvertNumber \/ ConvertYear \/ SkipYear
    \/ ZoneName \/ ZoneOffset \/ Recurse \/ Return \/ Unknown

Spec == Init /\ [][Next]_vars

-----------------------------------------------------------------------------
(* timegm *)

is_leap(y) ==
    LET year == y + 1900 IN year % 4 = 0 /\ (year % 100 # 0 \/ year % 400 = 0)
ndays(y) == <<31, IF is_leap(y) THEN 29 ELSE 28, 31, 30, 31, 30, 31, 31, 30, 31, 30, 31>>

Total(s) == LET f[k \in 0 .. Len(s)] == IF k = 0 THEN 0 ELSE f[k - 1] + s[k] IN f[Len(s)]

timegm(t) ==
    LET years == [k \in 1 .. t["year"] - 70 |-> IF is_leap(69 + k) THEN 366 ELSE 365]
        months == SubSeq(ndays(t["year"]), 1, t["mon"])
        days == Total(years) + Total(months) + t["mday"] - 1
    IN ((days * 24 + t["hour"]) * 60 + t["min"]) * 60 + t["sec"]

-----------------------------------------------------------------------------
(* Properties *)

Accepted == bp # NULL /\ fmt = <<>> /\ outer = <<>>

\* Days since 1970-01-01 of a date of the Gregorian calendar, by Zeller's
\* count of the days before a month that begins in March.
DayNumber(y, m, d) ==
    LET year == IF m <= 2 THEN y - 1 ELSE y
        month == IF m <= 2 THEN m + 9 ELSE m - 3
    IN 365 * year + year \div 4 - year \div 100 + year \div 400
       + (153 * month + 2) \div 5 + d - 1 - 719468

Limits ==
    [sec |-> 0 .. 61, min |-> 0 .. 59, hour |-> 0 .. 23, mday |-> 1 .. 31,
     mon |-> 0 .. 11, year |-> -1900 .. 8099, wday |-> 0 .. 6, yday |-> 0 .. 365,
     isdst |-> 0 .. 1]

\* Bound: until 2037, where the seconds still are in TLC's integers.
TimeYears == 70 .. 137

\* What is accepted is within the limits of the calendar, whatever the text.  A
\* date that was printed in a format and is read in the same one comes back
\* whole, in two halves of a year or in one, with nothing of the text left
\* over; and from 1970 on timegm gives the seconds since the epoch that the
\* calendar says.
DatesComeBack ==
    /\ Accepted => \A f \in Fields : tm[f] \in Limits[f]
    /\ call.date # NoDate =>
        /\ bp # NULL
        /\ Accepted =>
            /\ bp = <<>>
            /\ \A f \in DOMAIN call.date : tm[f] = call.date[f]
            /\ tm["year"] \in TimeYears =>
               LET day == DayNumber(tm["year"] + 1900, tm["mon"] + 1, tm["mday"]) IN
               timegm(tm) = day * 86400 + tm["hour"] * 3600 + tm["min"] * 60 + tm["sec"]
=============================================================================
