-------------------------------- MODULE Props --------------------------------
(***************************************************************************)
(* The properties of a multiplayer packet (src/raw-log.cxx): the table of  *)
(* their ids, the look up, and the two directions of the 2017.2 encoding,  *)
(* one property at a time.                                                 *)
(*                                                                         *)
(* A double counts tenths, since those Create_Prop_Packet makes are 0.1    *)
(* apart.  The bytes of a float are kept apart from those of numbers.      *)
(***************************************************************************)
EXTENDS Xdr, Bags
LOCAL INSTANCE SequencesExt

CONSTANT Host \* the byte order of the machine the program runs on

ASSUME HostAssumption == Host \in Hosts

Word == 4 \* sizeof(xdr_data_t)
MAX_TEXT_SIZE == 128

-----------------------------------------------------------------------------
(* The table *)

\* n rows with ids from first on.
Rows(first, n, type, as, version) ==
    [k \in 1 .. n |->
        [id |-> first + k - 1, type |-> type, TransmitAs |-> as, version |-> version]]

\* The rows first + step, .. of k groups of n ids.
Groups[k \in Nat, first \in Nat, n \in Nat, as \in STRING] ==
    IF k = 0 THEN <<>>
    ELSE Groups[k - 1, first, n, as] \o Rows(first + 10 * (k - 1), n, "FLOAT", as, 1)

SurfaceProperties ==
    Rows(10, 1, "INT", "SHORTINT", 1)
    \o Rows(100, 8, "FLOAT", "NORM", 1)
    \o Rows(108, 1, "STRING", "ASIS", 2)
    \o Rows(109, 4, "FLOAT", "NORM", 1)
    \o Groups[5, 200, 2, "NORM"]

EngineProperties ==
    Groups[10, 300, 3, "F1"]
    \o Rows(800, 2, "FLOAT", "F1", 1)
    \o Groups[2, 810, 4, "F3"]
    \o Rows(830, 2, "FLOAT", "F3", 1)

TowProperties ==
    Rows(900, 4, "FLOAT", "ASIS", 1)
    \o Rows(904, 1, "BOOL", "ASIS", 1)
    \o Rows(905, 1, "STRING", "ASIS", 2)
    \o Rows(906, 4, "FLOAT", "ASIS", 1)
    \o Rows(930, 1, "BOOL", "ASIS", 1)
    \o Rows(931, 1, "FLOAT", "ASIS", 1)
    \o Rows(932, 1, "BOOL", "ASIS", 1)
    \o Rows(933, 3, "FLOAT", "ASIS", 1)
    \o Rows(1001, 4, "FLOAT", "F4", 1)
    \o Rows(1005, 1, "FLOAT", "F3", 1)
    \o Rows(1006, 1, "BOOL", "SHORTINT", 1)
    \o Rows(1100, 1, "INT", "ASIS", 1)
    \o Rows(1101, 1, "STRING", "ASIS", 2)
    \o Rows(1200, 1, "STRING", "ASIS", 2)
    \o Rows(1201, 1, "INT", "SHORTINT", 1)
    \o Rows(1300, 1, "INT", "SHORTINT", 1)
    \o Rows(1400, 1, "STRING", "ASIS", 2)
    \o Rows(1500, 1, "INT", "SHORTINT", 1)
    \o Rows(1501, 1, "INT", "ASIS", 1)
    \o Rows(1502, 1, "BOOL", "SHORTINT", 1)
    \o Rows(1503, 1, "INT", "SHORTINT", 1)

GenericProperties ==
    Rows(10001, 2, "STRING", "ASIS", 2)
    \o Rows(10100, 20, "STRING", "ASIS", 2)
    \o Rows(10200, 40, "FLOAT", "ASIS", 1)
    \o Rows(10300, 20, "INT", "ASIS", 1)

ShortProperties == Rows(10500, 80, "INT", "SHORTINT", 2)

sIdPropertyList ==
    SurfaceProperties \o EngineProperties \o TowProperties \o GenericProperties
    \o ShortProperties
numProperties == Len(sIdPropertyList)

NoProperty == [id |-> 0, type |-> "NONE", TransmitAs |-> "ASIS", version |-> 0]

\* Where std::equal_range ends: the first row of lo .. hi - 1 not below id.
LowerBound(id) ==
    LET f[lo \in Nat, hi \in Nat] ==
        IF lo >= hi THEN lo
        ELSE LET mid == (lo + hi) \div 2
             IN IF sIdPropertyList[mid].id < id THEN f[mid + 1, hi] ELSE f[lo, mid]
    IN f[1, numProperties + 1]

\* What the search found is the row, or the next one.
RowAt(k, id) ==
    IF k <= numProperties /\ sIdPropertyList[k].id = id
    THEN sIdPropertyList[k] ELSE NoProperty
findProperty(id) == RowAt(LowerBound(id), id)

-----------------------------------------------------------------------------
(* Values *)

\* The scale of a float sent as a short: FLOAT_1 .. FLOAT_4, FLOAT_NORM.
Scale == [F1 |-> 10, F2 |-> 100, F3 |-> 1000, F4 |-> 10000, NORM |-> 32767]

\* Variant: wraps instead of clamping.
ScaledWraps(tenths, scale) == ((tenths * scale) \div 10) % 32768

\* Doubles are positive here, so only the upper end is met.
get_scaled_short(tenths, scale) ==
    IF tenths * scale >= 327670 THEN 32767 ELSE (tenths * scale) \div 10

\* The four bytes of a float, by its number of tenths.
FloatBits(tenths) == [k \in 1 .. 4 |-> 252 + 4 * tenths + k]
Tenths(b) == (b[1] - 253) \div 4

\* A word as it lies in the message.
InMessage(w) == Memory(Host, w)
ShortInts(id, v) == InMessage(XDR_encode_shortints32(Host, id, v))
Uint32(v) == InMessage(XDR_encode(Host, v, Word))
Float(tenths) == InMessage(XDR_encode_float(Host, FloatBits(tenths)))

-----------------------------------------------------------------------------
(* Deal_With_Properties: one turn of its loop *)

\* Beyond the message lies the fill of the buffer.
WordAt(m, at) == InMessage([k \in 1 .. Word |-> IF at + k <= Len(m) THEN m[at + k] ELSE 238])

Bits(w) == XDR_decode(Host, w, Word)

\* "a short int encoded value (by the upper word being non-zero)"
IsShort(w) == Bits(w)[1] # 0 \/ Bits(w)[2] # 0
PropertyId(w) ==
    IF IsShort(w) THEN XDR_decode_shortints32(Host, w)[1] ELSE Signed(Low(Bits(w), 3))

\* What is read of a property: where the next starts and what it says; a float
\* is a number of the unit that "of" names.
IntegerAt(m, at, w) ==
    IF IsShort(w)
    THEN [next |-> at + Word, val |-> XDR_decode_shortints32(Host, w)[2], of |-> "INT"]
    ELSE [next |-> at + 2 * Word, val |-> Signed(Bits(WordAt(m, at + Word))), of |-> "INT"]

\* A short for a float that is sent as it is says nothing.
FloatAt(m, at, w, row) ==
    IF ~IsShort(w)
    THEN [next |-> at + 2 * Word, of |-> "FLOAT",
          val |-> Tenths(XDR_decode_float(Host, WordAt(m, at + Word)))]
    ELSE IF row.TransmitAs \in DOMAIN Scale
    THEN [next |-> at + Word, val |-> XDR_decode_shortints32(Host, w)[2], of |-> row.TransmitAs]
    ELSE [next |-> at + Word, val |-> 0, of |-> "FLOAT"]

\* "Padding to the nearest 4-bytes", of one word for each character.
Padded(n) == ((n + 3) \div 4) * 4

\* The length in the first word, the text behind it byte by byte; or a length
\* of its own and a word for each character.
StringAt(m, at, w) ==
    IF IsShort(w)
    THEN LET n == XDR_decode_shortints32(Host, w)[2]
         IN [next |-> at + Word + n, val |-> SubSeq(m, at + Word + 1, at + Word + n), of |-> "STRING"]
    ELSE LET length == Signed(Low(Bits(WordAt(m, at + Word)), 3))
             n == IF length > MAX_TEXT_SIZE THEN MAX_TEXT_SIZE ELSE length
         IN [next |-> at + (2 + Padded(n)) * Word, of |-> "STRING",
             val |-> [k \in 1 .. n |-> Bits(WordAt(m, at + (1 + k) * Word))[4]]]

\* An id that is not in the list is taken to have a word behind it.
PropertyOf(m, at, w, row) ==
    CASE row.type \in {"INT", "BOOL"} -> IntegerAt(m, at, w)
      [] row.type = "FLOAT" -> FloatAt(m, at, w, row)
      [] row.type = "STRING" -> StringAt(m, at, w)
      [] OTHER -> [next |-> at + 2 * Word, val |-> 0, of |-> "NONE"]
PropertyAt(m, at) == PropertyOf(m, at, WordAt(m, at), findProperty(PropertyId(WordAt(m, at))))

IdAt(m, at) == PropertyId(WordAt(m, at))

-----------------------------------------------------------------------------
(* add_2_ids: what is kept of the ids read *)

add_id_count(counts, id) == counts (+) SetToBag({id})

\* add_2_ids and add_2_list: a list without duplicates.
AddNew(list, e) == IF Contains(list, e) THEN list ELSE Append(list, e)

=============================================================================
