--------------------------------- MODULE Xdr ---------------------------------
(***************************************************************************)
(* The external data representation of the protocol: the library raw-log   *)
(* is built with (src/xdr_lib/tiny_xdr.cxx) and the templates cf-log uses  *)
(* (src/tiny_xdr.hxx).                                                     *)
(*                                                                         *)
(* A number of n bytes is the sequence of its bytes, the most significant  *)
(* first; what it looks like in memory depends on the host.  A byte of a   *)
(* message is in 0 .. 255, or above 255 for a byte of a float, of which    *)
(* only the identity matters.                                              *)
(***************************************************************************)
EXTENDS Integers, Sequences
LOCAL INSTANCE SequencesExt

Hosts == {"little", "big"}

-----------------------------------------------------------------------------
(* Numbers and their bytes *)

\* static_cast of a number to n bytes, the sign extended or the top cut off.
Bytes(v, n) ==
    [k \in 1 .. n |->
        IF n - k > 3 THEN (IF v < 0 THEN 255 ELSE 0)
        ELSE (v \div 256^(n - k)) % 256]

\* The number up to four bytes stand for, as a signed one.
Signed(b) ==
    FoldLeft(LAMBDA v, byte : 256 * v + byte,
             IF Head(b) >= 128 THEN Head(b) - 256 ELSE Head(b), Tail(b))

Low(b, n) == SubSeq(b, Len(b) - n + 1, Len(b))

-----------------------------------------------------------------------------
(* Words in memory *)

\* What a word looks like in memory, and which word memory holds.
Memory(host, w) == IF host = "little" THEN Reverse(w) ELSE w

\* Two steps: the bytes of each half, then the halves.
sg_bswap_16(w) == <<w[2], w[1]>>
sg_bswap_32(w) == sg_bswap_16(SubSeq(w, 3, 4)) \o sg_bswap_16(SubSeq(w, 1, 2))
sg_bswap_64(w) == sg_bswap_32(SubSeq(w, 5, 8)) \o sg_bswap_32(SubSeq(w, 1, 4))

\* SWAP16, SWAP32, SWAP64
SWAP(host, w) ==
    IF host # "little" THEN w
    ELSE CASE Len(w) = 2 -> sg_bswap_16(w)
           [] Len(w) = 4 -> sg_bswap_32(w)
           [] OTHER -> sg_bswap_64(w)

-----------------------------------------------------------------------------
(* xdr_lib: a number is cast to a word and swapped *)

\* XDR_encode_int8 .. XDR_encode_int32 (n = 4), XDR_encode_int64 (n = 8)
XDR_encode(host, v, n) == SWAP(host, Bytes(v, n))

\* XDR_decode_int8 .. XDR_decode_int64, to a number of n bytes.
XDR_decode(host, w, n) == Low(SWAP(host, w), n)

\* A float or a double goes through a union with an integer of its width.
XDR_encode_float(host, f) == SWAP(host, f)
XDR_decode_float(host, w) == SWAP(host, w)

\* "Anything outside the bounds of a short will simply be the max/min value"
XDR_convert_int_to_short(v) ==
    IF v < -32767 THEN -32767 ELSE IF v > 32767 THEN 32767 ELSE v

XDR_encode_shortints32(host, v1, v2) ==
    SWAP(host, Bytes(XDR_convert_int_to_short(v1), 2) \o Bytes(XDR_convert_int_to_short(v2), 2))

XDR_decode_shortints32(host, w) ==
    LET v == SWAP(host, w) IN <<Signed(SubSeq(v, 1, 2)), Signed(SubSeq(v, 3, 4))>>

-----------------------------------------------------------------------------
(* The templates: a number of any width shares a union with the word *)

\* The n bytes of the number come first in the memory of the union, whatever
\* was on the stack fills the rest.
Union(host, b, width, rest) ==
    Memory(host, Memory(host, b) \o [k \in 1 .. width - Len(b) |-> rest])

\* XDR_encode, XDR_encode64
TemplateEncode(host, b, width, rest) == SWAP(host, Union(host, b, width, rest))

\* XDR_decode, XDR_decode64: the first n bytes of the union.
TemplateDecode(host, w, n) ==
    Memory(host, SubSeq(Memory(host, SWAP(host, w)), 1, n))

\* NET_encode8 .. NET_encode64 and NET_decode8 .. NET_decode64; a single byte
\* stays as it is.
NET_encode(host, b, width, rest) ==
    IF width = 1 THEN Union(host, b, width, rest) ELSE TemplateEncode(host, b, width, rest)
NET_decode(host, w, n) == IF Len(w) = 1 THEN w ELSE TemplateDecode(host, w, n)

=============================================================================
