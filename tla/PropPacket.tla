------------------------------ MODULE PropPacket ------------------------------
(***************************************************************************)
(* Create_Prop_Packet (src/raw-log.cxx): the packet test of raw-log.  It   *)
(* fills a packet with every property of the table, as many as fit, one    *)
(* partition after the other, and then decodes what it made.               *)
(*                                                                         *)
(* One action is one turn of a loop.  Msg is the part of the message       *)
(* behind the header and the position that is written.                     *)
(***************************************************************************)
EXTENDS Props
LOCAL INSTANCE SequencesExt

CONSTANTS
    PacketSizes, \* values of MAX_PACKET_SIZE
    PropsAt      \* msgHdr + posMsg, bytes

protocolVersion == 2

ASSUME SizeAssumption ==
    /\ PropsAt \in Nat
    /\ \A n \in PacketSizes : n \in Nat /\ n >= PropsAt /\ (n - PropsAt) % Word = 0

VARIABLES
    maxPacketSize,      \* MAX_PACKET_SIZE
    partition, i,       \* the loops; i counts from 1
    overflow,
    Msg,
    next_int, next_dbl, \* the statics of get_nxt_int and get_nxt_dbl (in tenths)
    partcount,
    vIdsAdded,
    sent,               \* history: where each property starts, and its value
    xdr,                \* the decoder's place in Msg, 0 based; -1 before it starts
    prop_cnt,
    vIdsUsed, mIdCounts,
    shown               \* what the decoder prints

encoder == <<partition, i, overflow, Msg, next_int, next_dbl, partcount, vIdsAdded, sent>>
decoder == <<xdr, prop_cnt, vIdsUsed, mIdCounts, shown>>
vars == <<maxPacketSize, encoder, decoder>>

Ids == {sIdPropertyList[k].id : k \in 1 .. numProperties}

\* The type invariant: the message stays in its buffer.
TypeOK ==
    /\ maxPacketSize \in PacketSizes
    /\ partition \in 1 .. protocolVersion + 1
    /\ i \in 1 .. numProperties + 1
    /\ overflow \in BOOLEAN
    /\ Msg \in Seq(Nat) /\ PropsAt + Len(Msg) <= maxPacketSize
    /\ next_int \in Nat /\ next_dbl \in Nat
    /\ partcount \in [1 .. protocolVersion -> Nat]
    /\ vIdsAdded \in Seq(Ids)
    /\ xdr \in -1 .. Len(Msg) /\ prop_cnt \in Nat
    /\ vIdsUsed \in Seq(Ids) /\ IsABag(mIdCounts)

Init ==
    /\ maxPacketSize \in PacketSizes
    /\ partition = 1 /\ i = 1
    /\ overflow = FALSE
    /\ Msg = <<>>
    /\ next_int = 0 /\ next_dbl = 0
    /\ partcount = [p \in 1 .. protocolVersion |-> 0]
    /\ vIdsAdded = <<>> /\ sent = <<>>
    /\ xdr = -1 /\ prop_cnt = 0
    /\ vIdsUsed = <<>> /\ mIdCounts = EmptyBag
    /\ shown = <<>>

-----------------------------------------------------------------------------
(* Encoding *)

Encoding == partition <= protocolVersion /\ ~overflow
propDef == sIdPropertyList[i]

\* Variant: for every partition.
DueAlways == TRUE
Due == propDef.version = partition \/ propDef.version > protocolVersion

\* Variant: room for nothing but the id.
RoomForId == PropsAt + Len(Msg) + Word <= maxPacketSize
\* ptr + 2 >= msgEnd is an overflow.
Room == PropsAt + Len(Msg) + 2 * Word < maxPacketSize

\* The loops go to the next row, or to the next partition.
NextRow ==
    IF i < numProperties
    THEN i' = i + 1 /\ UNCHANGED partition
    ELSE i' = 1 /\ partition' = partition + 1

\* The bookkeeping that every case of the switch repeats, and what was sent.
Add(bytes, value) ==
    /\ Msg' = Msg \o bytes
    /\ partcount' = [partcount EXCEPT ![partition] = @ + 1]
    /\ vIdsAdded' = Append(vIdsAdded, propDef.id)
    /\ sent' = Append(sent, [id |-> propDef.id, at |-> Len(Msg), value |-> value])

transmit_type == IF propDef.TransmitAs = "ASIS" THEN propDef.type ELSE propDef.TransmitAs

EncodeShortInt ==
    LET ival == IF propDef.id = 10 THEN protocolVersion ELSE next_int + 1
    IN /\ transmit_type = "SHORTINT"
       /\ Add(ShortInts(propDef.id, ival), ival)
       /\ next_int' = IF propDef.id = 10 THEN next_int ELSE next_int + 1
       /\ UNCHANGED next_dbl

EncodeShortFloat ==
    /\ transmit_type \in DOMAIN Scale
    /\ next_dbl' = next_dbl + 1
    /\ Add(ShortInts(propDef.id, get_scaled_short(next_dbl + 1, Scale[transmit_type])),
           next_dbl + 1)
    /\ UNCHANGED next_int

EncodeInteger ==
    /\ transmit_type \in {"INT", "BOOL"}
    /\ next_int' = next_int + 1
    /\ Add(Uint32(propDef.id) \o Uint32(next_int + 1), next_int + 1)
    /\ UNCHANGED next_dbl

EncodeFloat ==
    /\ transmit_type = "FLOAT"
    /\ next_dbl' = next_dbl + 1
    /\ Add(Uint32(propDef.id) \o Float(next_dbl + 1), next_dbl + 1)
    /\ UNCHANGED next_int

\* The text is always empty here: the id with a length of 0.
EncodeString ==
    /\ transmit_type = "STRING"
    /\ Add(ShortInts(propDef.id, 0), <<>>)
    /\ UNCHANGED <<next_int, next_dbl>>

Encode ==
    /\ Encoding /\ Due /\ Room
    /\ \/ EncodeShortInt
       \/ EncodeShortFloat
       \/ EncodeInteger
       \/ EncodeFloat
       \/ EncodeString
    /\ NextRow
    /\ UNCHANGED <<maxPacketSize, overflow, decoder>>

Skip ==
    /\ Encoding /\ ~Due
    /\ NextRow
    /\ UNCHANGED <<maxPacketSize, overflow, Msg, next_int, next_dbl, partcount,
                   vIdsAdded, sent, decoder>>

\* "Multiplayer packet truncated"
Truncate ==
    /\ Encoding /\ Due /\ ~Room
    /\ overflow' = TRUE
    /\ UNCHANGED <<maxPacketSize, partition, i, Msg, next_int, next_dbl, partcount,
                   vIdsAdded, sent, decoder>>

-----------------------------------------------------------------------------
(* Decoding *)

StartDecode ==
    /\ ~Encoding /\ xdr = -1
    /\ xdr' = 0
    /\ UNCHANGED <<maxPacketSize, encoder, prop_cnt, vIdsUsed, mIdCounts, shown>>

Decode ==
    /\ xdr \in 0 .. Len(Msg) - 1
    /\ LET id == IdAt(Msg, xdr)
           got == PropertyAt(Msg, xdr)
       IN /\ xdr' = got.next
          /\ IF got.of = "NONE"
             THEN UNCHANGED <<prop_cnt, vIdsUsed, mIdCounts, shown>>
             ELSE /\ prop_cnt' = prop_cnt + 1
                  /\ mIdCounts' = add_id_count(mIdCounts, id)
                  /\ vIdsUsed' = AddNew(vIdsUsed, id)
                  /\ shown' = Append(shown, [id |-> id, at |-> xdr, of |-> got.of, val |-> got.val])
    /\ UNCHANGED <<maxPacketSize, encoder>>

\* exit(1)
Done == xdr = Len(Msg)

Next == Encode \/ Skip \/ Truncate \/ StartDecode \/ Decode

Spec == Init /\ [][Next]_vars

-----------------------------------------------------------------------------
(* Properties *)

\* A reading of a value v: exact, or the multiple of the unit next below it,
\* or the end of the range of a short.
Reads(got, v) ==
    IF got.of \notin DOMAIN Scale THEN got.val = v
    ELSE LET n == v * Scale[got.of] \* in tenths of the unit
         IN \/ 10 * got.val <= n /\ n < 10 * got.val + 10
            \/ got.val = 32767 /\ n >= 327670

\* The templates of cf-log, which go through a union in memory, make of a word
\* what the library makes of it, and back; a number shorter than the word only
\* where the first bytes of memory are the low ones.
TemplatesAgree(w) ==
    LET half == SubSeq(w, 1, 2)
        double == w \o Reverse(w)
    IN /\ TemplateEncode(Host, XDR_decode(Host, w, Word), Word, 0) = w
       /\ \A n \in 1 .. Word :
             Host = "little" \/ n = Word =>
                 /\ TemplateDecode(Host, w, n) = XDR_decode(Host, w, n)
                 /\ NET_decode(Host, w, n) = XDR_decode(Host, w, n)
       /\ TemplateDecode(Host, double, 8) = XDR_decode_float(Host, double)
       /\ \A v \in {<<w[1]>>, half, w, double} :
             NET_encode(Host, NET_decode(Host, v, Len(v)), Len(v), 0) = v

\* What was encoded is decoded: the properties printed are those sent, in
\* their order, each with its value up to the resolution of its encoding, and
\* the decoder ends exactly where the message does.  The words are read alike
\* by the library raw-log uses and by the templates cf-log is built with.
DecodedAsSent ==
    /\ Len(shown) <= Len(sent)
    /\ \A k \in DOMAIN shown :
          /\ shown[k].id = sent[k].id
          /\ shown[k].at = sent[k].at
          /\ Reads(shown[k], sent[k].value)
    /\ shown # <<>> => TemplatesAgree(WordAt(Msg, shown[Len(shown)].at))
    /\ Done => Len(shown) = Len(sent) /\ prop_cnt = Len(vIdsAdded)

\* The table in the order of its versions, and the bytes all of it takes: an id
\* with its value packed in, or a word for each.
InTurn ==
    LET Of(v) == SelectSeq(sIdPropertyList, LAMBDA row : row.version = v) IN Of(1) \o Of(2)
TakesTwo(row) == row.TransmitAs = "ASIS" /\ row.type \in {"INT", "BOOL", "FLOAT"}
TableLength == Word * (numProperties + Len(SelectSeq(sIdPropertyList, TakesTwo)))

\* "The packet can simply be truncated at the first V2 property": whatever the
\* size, what is sent is a beginning of the table in the order of its versions,
\* each property once and none left out, so that the prefix is all an old client
\* can use.  A packet is cut exactly when the whole table would leave no more
\* than a word of it free: the room is asked for two words and something behind
\* them, though the last property takes one.
TruncatesToVersion1 ==
    /\ IsPrefix([k \in DOMAIN sent |-> sent[k].id], [k \in DOMAIN InTurn |-> InTurn[k].id])
    /\ xdr >= 0 /\ ~overflow => Len(sent) = Len(InTurn)
    /\ xdr >= 0 => (overflow <=> PropsAt + TableLength + Word >= maxPacketSize)

=============================================================================
