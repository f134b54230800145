-------------------------------- MODULE Codecs --------------------------------
(***************************************************************************)
(* The codecs of tsx/compress.cpp on words of W bits (64 in the code): the *)
(* bit and varint primitives, and per type an encoder of the non-NULL      *)
(* values of a column and a decoder of one value that carries a cursor.    *)
(* A bit stream is a sequence of bits, a varint stream one of bytes; a     *)
(* byte is a continuation mark and VarintBits bits.  Words are numbers.    *)
(***************************************************************************)
EXTENDS Integers, Sequences, SequencesExt

CONSTANTS W,          \* bits of a word: 64
          VarintBits, \* payload bits of a varint byte: 7
          LeadBits,   \* bits of the leading-zero field: 5, too few for W - 1
          LengthBits  \* bits of the length field: 6, so that W is stored as 0

\* 1 << n.
Pow2[n \in Nat] == IF n = 0 THEN 1 ELSE 2 * Pow2[n - 1]

ASSUME CodecAssumption ==
    /\ {W, VarintBits, LeadBits, LengthBits} \subseteq Nat \ {0}
    /\ W % 2 = 0 /\ Pow2[LengthBits] = W /\ Pow2[LeadBits] <= W

Word == Pow2[W]

\* put_bits(v, n) and get_bits(n): most significant bit first.
BitsOf(v, n) == [i \in 1 .. n |-> (v \div Pow2[n - i]) % 2]
BitsValue(bits) == FoldLeft(LAMBDA v, b : 2 * v + b, 0, bits)

GetBits(stream, pos, n) == BitsValue(SubSeq(stream, pos + 1, pos + n))

\* Whole bytes are written: flush() fills the last one with zeros.
Flush(bits) == bits \o [i \in 1 .. (-Len(bits)) % 8 |-> 0]

Xor(a, b) == BitsValue([i \in 1 .. W |-> (BitsOf(a, W)[i] + BitsOf(b, W)[i]) % 2])

\* countl_zero and countr_zero of a word that is not 0.
LeadZeros(x) == CHOOSE n \in 0 .. W - 1 : Pow2[W - 1 - n] <= x /\ x < Pow2[W - n]
TrailZeros(x) == CHOOSE n \in 0 .. W - 1 : x % Pow2[n] = 0 /\ x % Pow2[n + 1] # 0

\* put_varint: least significant group first, all but the last marked.
Varint(v) ==
    LET n == CHOOSE k \in 1 .. W : v < Pow2[k * VarintBits]
                                   /\ (k > 1 => v >= Pow2[(k - 1) * VarintBits])
    IN  [i \in 1 .. n |-> [more |-> i < n,
                           bits |-> (v \div Pow2[(i - 1) * VarintBits]) % Pow2[VarintBits]]]

\* get_varint at byte position pos: the value, and the position after it.
GetVarint(stream, pos) ==
    LET n == CHOOSE k \in 1 .. Len(stream) - pos :
                 ~stream[pos + k].more /\ \A j \in 1 .. k - 1 : stream[pos + j].more
    IN  [val |-> FoldLeft(LAMBDA v, i : (v + stream[pos + i].bits * Pow2[(i - 1) * VarintBits]) % Word,
                          0, [i \in 1 .. n |-> i]),
         pos |-> pos + n]

\* (u << 1) ^ -(u >> (W - 1)), and its inverse.
ZigZag(u)   == IF u < Word \div 2 THEN 2 * u ELSE 2 * (Word - u) - 1
UnZigZag(z) == IF z % 2 = 0 THEN z \div 2 ELSE Word - 1 - z \div 2

\* An I32 has half a word; read_bits sign-extends it.
Half == Pow2[W \div 2]
SignExtend(v) == IF v < Half \div 2 THEN v ELSE Word - Half + v
-----------------------------------------------------------------------------
(* The encoders: a fold over the values that are not NULL.                 *)

\* One value of encode_dod: a difference of differences, modulo 2^W.
DodStep(a, cur) ==
    LET delta == (cur - a.prev) % Word
    IN  [prev |-> cur, delta |-> delta, out |-> a.out \o Varint(ZigZag((delta - a.delta) % Word))]

EncodeDod(vals) == FoldLeft(DodStep, [prev |-> 0, delta |-> 0, out |-> <<>>], vals)

EncodeZigZag(vals) == FlattenSeq([i \in DOMAIN vals |-> Varint(ZigZag(SignExtend(vals[i])))])

\* One value of encode_gorilla: equal to the last one, inside the last
\* window of meaningful bits, or with a window of its own.
GorillaStep(a, cur) ==
    LET x     == Xor(cur, a.prev)
        lead  == LeadZeros(x)
        trail == TrailZeros(x)
        L     == IF lead > Pow2[LeadBits] - 1 THEN Pow2[LeadBits] - 1 ELSE lead
        mean  == W - L - trail
    IN  IF x = 0 THEN [a EXCEPT !.out = Append(@, 0)]
        ELSE IF a.window /\ lead >= a.lead /\ trail >= a.trail
          THEN [a EXCEPT !.prev = cur,
                         !.out = @ \o <<1, 0>> \o BitsOf(x \div Pow2[a.trail], a.mean)]
          ELSE [prev |-> cur, lead |-> L, trail |-> trail, mean |-> mean, window |-> TRUE,
                out |-> a.out \o <<1, 1>> \o BitsOf(L, LeadBits)
                        \o BitsOf(mean % Pow2[LengthBits], LengthBits)
                        \o BitsOf(x \div Pow2[trail], mean)]

\* The first value is written raw.
EncodeGorilla(vals) ==
    IF vals = <<>> THEN [prev |-> 0, lead |-> 0, trail |-> 0, mean |-> 0, window |-> FALSE, out |-> <<>>]
    ELSE FoldLeft(GorillaStep,
                  [prev |-> vals[1], lead |-> 0, trail |-> 0, mean |-> 0, window |-> FALSE,
                   out |-> BitsOf(vals[1], W)],
                  Tail(vals))

EncodeBool(vals) == Flush(vals)

\* The values stream of a column.
Encode(type, vals) ==
    CASE type \in {"I64", "TS"} -> EncodeDod(vals).out
      [] type = "I32"           -> EncodeZigZag(vals)
      [] type = "F64"           -> Flush(EncodeGorilla(vals).out)
      [] type = "BOOL"          -> EncodeBool(vals)
-----------------------------------------------------------------------------
(* The decoders: one value at the cursor, and the cursor after it.         *)

NewCursor == [pos |-> 0, prev |-> 0, delta |-> 0, trail |-> 0, mean |-> 0, started |-> FALSE,
              val |-> 0]

\* decode_int_window, one value.
DecodeDod(stream, cc) ==
    LET word  == GetVarint(stream, cc.pos)
        delta == (cc.delta + UnZigZag(word.val)) % Word
        val   == (cc.prev + delta) % Word
    IN  [cc EXCEPT !.pos = word.pos, !.delta = delta, !.prev = val, !.val = val]

DecodeZigZag(stream, cc) ==
    LET word == GetVarint(stream, cc.pos)
    IN  [cc EXCEPT !.pos = word.pos, !.val = UnZigZag(word.val) % Half]

\* Mutant of LengthOf: a full-length run is taken for an empty one.
LengthOfRaw(m) == m % W

LengthOf(m) == IF m = 0 THEN W ELSE m

\* decode_f64_window, one value.
DecodeGorilla(stream, cc) ==
    LET Bit(k) == stream[cc.pos + k]
        L     == GetBits(stream, cc.pos + 2, LeadBits)
        m     == LengthOf(GetBits(stream, cc.pos + 2 + LeadBits, LengthBits))
        at    == cc.pos + 2 + LeadBits + LengthBits
        trail == W - L - m
        Next(c, x) == [c EXCEPT !.prev = Xor(cc.prev, x), !.val = Xor(cc.prev, x)]
    IN  IF ~cc.started
          THEN [cc EXCEPT !.started = TRUE, !.pos = @ + W,
                          !.prev = GetBits(stream, cc.pos, W), !.val = GetBits(stream, cc.pos, W)]
        ELSE IF Bit(1) = 0
          THEN [cc EXCEPT !.pos = @ + 1, !.val = cc.prev]
        ELSE IF Bit(2) = 0
          THEN Next([cc EXCEPT !.pos = @ + 2 + cc.mean],
                    GetBits(stream, cc.pos + 2, cc.mean) * Pow2[cc.trail])
        ELSE Next([cc EXCEPT !.pos = at + m, !.trail = trail, !.mean = m],
                  GetBits(stream, at, m) * Pow2[trail])

DecodeBool(stream, cc) == [cc EXCEPT !.pos = @ + 1, !.val = stream[cc.pos + 1]]

Decode(type, stream, cc) ==
    CASE type \in {"I64", "TS"} -> DecodeDod(stream, cc)
      [] type = "I32"           -> DecodeZigZag(stream, cc)
      [] type = "F64"           -> DecodeGorilla(stream, cc)
      [] type = "BOOL"          -> DecodeBool(stream, cc)
===============================================================================
