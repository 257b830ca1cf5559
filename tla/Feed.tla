--------------------------------- MODULE Feed ---------------------------------
(***************************************************************************)
(* The two documents the server hands out, built from vPilots into heap    *)
(* buffers that grow on demand (src/cf-pilot.cxx): Write_JSON, Write_XML   *)
(* and the Get_ functions the HTTP handlers read them with.                *)
(*                                                                         *)
(* A buffer's text is a sequence of pieces, one per format string or       *)
(* separator, and `used' its length in bytes.  A flight in a document is   *)
(* the record printed for it.  The optional copy of the JSON text in a     *)
(* file is not modelled: no other part of the program reads it.            *)
(***************************************************************************)
EXTENDS Integers, Sequences, FiniteSets, Subseqs

CONSTANTS
    InitSize,  \* DEF_JSON_SIZE
    HeadLen, ItemLen, TailLen, \* bytes of the head, of a flight, of the tail
    Tables     \* what the table may hold, when nothing else drives it

ASSUME FeedAssumption ==
    /\ InitSize \in Nat \ {0}
    /\ HeadLen \in Nat \ {0} /\ ItemLen \in Nat \ {0} /\ TailLen \in Nat \ {0}
    /\ IsFiniteSet(Tables)
    /\ \A v \in Tables : Len(v) \in Nat /\ DOMAIN v = 1 .. Len(v)

VARIABLES
    vPilots,               \* the table of flights, written elsewhere
    _s_pJsonStg, _s_pXmlStg \* [size, used, buf], or NoStg

fvars == <<_s_pJsonStg, _s_pXmlStg>>

\* The buffer was not allocated yet.
NoStg == <<>>

Init == vPilots = <<>> /\ _s_pJsonStg = NoStg /\ _s_pXmlStg = NoStg

-----------------------------------------------------------------------------
(* JSONSTR *)

\* The buffer as it was left, or a new one.
Stg(stg) == IF stg = NoStg THEN [size |-> InitSize, used |-> 0, buf |-> <<>>] ELSE stg

\* The k-th power of four.
Four[k \in Nat] == IF k = 0 THEN 1 ELSE 4 * Four[k - 1]

\* Variant: do ... while instead of while.
GrownAtLeastOnce(size, need) ==
    size * Four[CHOOSE k \in 1 .. need + 1 :
                    /\ need < size * Four[k]
                    /\ k = 1 \/ need >= size * Four[k - 1]]

\* As often by four as it takes, and no more often.
Grown(size, need) ==
    size * Four[CHOOSE k \in 0 .. need :
                    /\ need < size * Four[k]
                    /\ k = 0 \/ need >= size * Four[k - 1]]

Larger(a, b) == IF a > b THEN a ELSE b

Live(e) == ~e.expired
Listed == SubseqAt(vPilots, {i \in DOMAIN vPilots : Live(vPilots[i])})

-----------------------------------------------------------------------------
(* Write_JSON *)

Txt(t) == [text |-> t]

JsonFlight(e) ==
    [fid |-> e.flight_id, callsign |-> e.callsign, model |-> e.aircraft]

\* Every flight is followed by a comma.
JsonItems(fs) ==
    [k \in 1 .. 2 * Len(fs) |->
        IF k % 2 = 1 THEN JsonFlight(fs[(k + 1) \div 2]) ELSE Txt("comma")]

\* Variant: off by one.
BlankBeforeLast(s) == [s EXCEPT ![Len(s) - 1] = Txt("blank")]

\* "convert last comma to space": whatever stands before the last newline.
BlankLast(s) == [s EXCEPT ![Len(s)] = Txt("blank")]

JsonText ==
    LET body == <<Txt("head"), Txt("open")>> \o JsonItems(Listed) IN
    (IF vPilots = <<>> THEN body ELSE BlankLast(body)) \o <<Txt("close"), [count |-> Len(Listed)]>>

\* Add_JSON_Head makes room behind the text of the last time, which it then
\* overwrites; the rest is appended piece by piece.
Write_JSON ==
    LET stg == Stg(_s_pJsonStg)
        used == HeadLen + Len(Listed) * ItemLen + TailLen IN
    _s_pJsonStg' =
        [size |-> Grown(stg.size, Larger(stg.used + HeadLen, used)),
         used |-> used, buf |-> JsonText]

-----------------------------------------------------------------------------
(* Write_XML *)

\* A model name is a sequence of parts with dots between them; get_Model cuts
\* the last one off as a file extension.
get_Model(name) ==
    IF Len(name) > 1 THEN SubSeq(name, 1, Len(name) - 1) ELSE name

XmlMark(e) == [callsign |-> e.callsign, model |-> get_Model(e.aircraft)]

\* Variant: expired entries are listed too.
XmlTextWithExpired ==
    <<Txt("fg_server"), [count |-> Len(vPilots)]>>
    \o [k \in 1 .. Len(vPilots) |-> XmlMark(vPilots[k])]
    \o <<Txt("/fg_server")>>

XmlText ==
    <<Txt("fg_server"), [count |-> Len(Listed)]>>
    \o [k \in 1 .. Len(Listed) |-> XmlMark(Listed[k])]
    \o <<Txt("/fg_server")>>

\* With no entry in the table the text stays empty.
Write_XML ==
    LET stg == Stg(_s_pXmlStg)
        used == HeadLen + Len(Listed) * ItemLen + TailLen IN
    _s_pXmlStg' =
        IF vPilots = <<>>
        THEN [stg EXCEPT !.used = 0, !.buf = <<>>]
        ELSE [size |-> Grown(stg.size, used), used |-> used, buf |-> XmlText]

-----------------------------------------------------------------------------
(* Get_JSON and Get_XML, and what sendJSON and sendXML make of them: the     *)
(* text, or MG_FALSE when there is none, which mongoose answers with a 404.  *)

MG_FALSE == <<>>
Answer(stg) == IF stg = NoStg \/ Stg(stg).used = 0 THEN MG_FALSE ELSE stg.buf

-----------------------------------------------------------------------------
(* The feed on its own: the table changes in any way between two writes. *)

TableChanges == vPilots' \in Tables /\ UNCHANGED fvars

\* run_server writes both documents, one after the other.
WriteFeed == Write_JSON /\ Write_XML

Next == TableChanges \/ (WriteFeed /\ UNCHANGED vPilots)

vars == <<vPilots, fvars>>

Spec == Init /\ [][Next]_vars

-----------------------------------------------------------------------------
(* Properties *)

\* The text of n flights as a JSON reader wants it, blanks apart: an open
\* bracket, the flights with a comma between each two, the closing bracket.
JsonOf(buf, n) ==
    LET last == 2 * n + 2 IN
    /\ Len(buf) = last + 2
    /\ buf[1] = Txt("head") /\ buf[2] = Txt("open")
    /\ \A k \in 3 .. last :
        IF k % 2 = 1 THEN "fid" \in DOMAIN buf[k]
        ELSE buf[k] = Txt(IF k = last THEN "blank" ELSE "comma")
    /\ buf[last + 1] = Txt("close") /\ buf[last + 2] = [count |-> n]

\* As long as one flight is live the commas and the bracket are right, and
\* the count is that of the flights listed.
JsonParsesWithFlights ==
    _s_pJsonStg # NoStg =>
        LET buf == _s_pJsonStg.buf
            n == buf[Len(buf)].count IN
        n > 0 => JsonOf(buf, n)

\* Each text ends inside its buffer, the terminating zero included, whatever
\* the buffer's size was before and however long the texts before it were; and
\* making room behind the old text does not let a buffer grow with every
\* write: it stays within four times the longest text and a head.
BuffersStayBounded ==
    LET lengths == {Len(v) : v \in Tables \cup {<<>>}}
        most == CHOOSE n \in lengths : \A m \in lengths : m <= n
    IN \A stg \in {_s_pJsonStg, _s_pXmlStg} \ {NoStg} :
        /\ stg.used < stg.size
        /\ stg.size <= Larger(InitSize, 4 * (2 * HeadLen + most * ItemLen + TailLen))

=============================================================================
