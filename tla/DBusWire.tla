------------------------------ MODULE DBusWire ------------------------------
(***************************************************************************)
(* internal/dbus, marshal.go: the values of a message as bytes and back.   *)
(* A D-Bus implementation by the standard lays values out in the same way, *)
(* with the alignments of StandardAlignment where slfhst uses alignmentOf. *)
(*                                                                         *)
(* A signature is a sequence of type codes.  A Go value is a record with   *)
(* its Go type; a string is a sequence of bytes; a map is the sequence of  *)
(* its entries in the order range takes them.  Integers are those TLC has: *)
(* 64-bit ones are encoded in full width but are small.  buf is the bytes  *)
(* so far, so that an offset is its length.  An operator that fails        *)
(* returns Err.                                                            *)
(***************************************************************************)
EXTENDS Integers, Sequences, FiniteSetsExt

Go(type, v) == [go |-> type, v |-> v]
Str(bytes) == Go("string", bytes)
Variant(sig, val) == [go |-> "Variant", sig |-> sig, v |-> val]

Err == [ok |-> FALSE]
Ok(buf) == [ok |-> TRUE, buf |-> buf]
Got(pos, val) == [ok |-> TRUE, pos |-> pos, val |-> val]

(* if err != nil { return err } *)
Then(r, F(_)) == IF r.ok THEN F(r) ELSE Err

---------------------------------------------------------------------------
(* Signatures.                                                             *)

(* The fixed-size codes: Go type and width. *)
Scalars == [y |-> <<"byte", 1>>, b |-> <<"bool", 4>>, n |-> <<"int16", 2>>,
            q |-> <<"uint16", 2>>, i |-> <<"int32", 4>>, u |-> <<"uint32", 4>>,
            x |-> <<"int64", 8>>, t |-> <<"uint64", 8>>, d |-> <<"float64", 8>>]

Alphabet == <<"y", "b", "n", "q", "i", "u", "x", "t", "d",
              "s", "o", "g", "v", "a", "(", ")", "{", "}", "h">>
Codes == {Alphabet[k] : k \in DOMAIN Alphabet}
Ord(c) == 32 + CHOOSE k \in DOMAIN Alphabet : Alphabet[k] = c

alignmentOf ==
  [c \in Codes |-> CASE c \in {"n", "q"} -> 2
                     [] c \in {"b", "i", "u", "s", "o", "a"} -> 4
                     [] c \in {"x", "t", "d", "(", "{", "v"} -> 8
                     [] OTHER -> 1]

(* The table of the D-Bus specification: a variant starts with a signature. *)
StandardAlignment == [alignmentOf EXCEPT !["v"] = 1, !["h"] = 4]

Count(sig, c, k) == Cardinality({j \in 1..k : sig[j] = c})

(* Where the bracket that sig starts with is closed, 0 if nowhere. *)
Closing(sig, close) ==
  LET ends == {k \in DOMAIN sig : Count(sig, sig[1], k) = Count(sig, close, k)}
  IN  IF ends = {} THEN 0 ELSE Min(ends)

(* splitSig: the length of the first complete type, 0 for an error. *)
RECURSIVE firstLen(_)
firstLen(sig) ==
  CASE sig = << >> -> 0
    [] sig # << >> /\ sig[1] = "a" -> LET k == firstLen(Tail(sig))
                                      IN  IF k = 0 THEN 0 ELSE k + 1
    [] sig # << >> /\ sig[1] = "(" -> Closing(sig, ")")
    [] sig # << >> /\ sig[1] = "{" -> Closing(sig, "}")
    [] OTHER -> 1

(* The complete types of a signature; << >>, which nothing can encode or   *)
(* decode, stands where splitSig fails.                                    *)
RECURSIVE Types(_)
Types(sig) ==
  LET k == firstLen(sig)
  IN  IF sig = << >> THEN << >>
      ELSE IF k = 0 THEN << << >> >>
      ELSE <<SubSeq(sig, 1, k)>> \o Types(SubSeq(sig, k + 1, Len(sig)))

Inner(sig) == SubSeq(sig, 2, Len(sig) - 1)

(* splitDictEntry: an entry {kv} is laid out like a struct (kv). *)
Entry(sig) == LET ts == Types(Inner(sig)) IN <<"(">> \o ts[1] \o ts[2] \o <<")">>

---------------------------------------------------------------------------
(* Encoding.  al is the alignment table in use.                            *)

Aligned(pos, a) == pos + ((a - (pos % a)) % a)

(* encoder.align *)
Pad(buf, a) == buf \o [k \in 1..(Aligned(Len(buf), a) - Len(buf)) |-> 0]

(* Mutant: an integer is written as one byte and zeros. *)
Mut_LE(v, w) == <<v>> \o [k \in 1..(w - 1) |-> 0]

RECURSIVE LE(_, _)
LE(v, w) == IF w = 0 THEN << >> ELSE <<v % 256>> \o LE(v \div 256, w - 1)

putUint(buf, v, w) == Pad(buf, w) \o LE(v, w)
putStringLike(buf, s) == putUint(buf, Len(s), 4) \o s \o <<0>>
putSignature(buf, s) == buf \o <<Len(s)>> \o [k \in DOMAIN s |-> Ord(s[k])] \o <<0>>

Bits(val) == IF val.go # "bool" THEN val.v ELSE IF val.v THEN 1 ELSE 0

(* toAnySlice: slices of any, of string and of byte; dicts are maps. *)
Items(elem, val) ==
  CASE elem[1] = "{" /\ val.go = "map" -> [ok |-> TRUE, v |-> val.v]
    [] elem[1] # "{" /\ val.go = "[]any" -> [ok |-> TRUE, v |-> val.v]
    [] elem[1] # "{" /\ val.go = "[]string" ->
         [ok |-> TRUE, v |-> [k \in DOMAIN val.v |-> Str(val.v[k])]]
    [] elem[1] # "{" /\ val.go = "[]byte" ->
         [ok |-> TRUE, v |-> [k \in DOMAIN val.v |-> Go("byte", val.v[k])]]
    [] OTHER -> Err

(* Mutant: the padding before the first element is counted. *)
Mut_arrayLengthPadded(count, start, buf) == Len(buf) - Len(count)

arrayLength(count, start, buf) == Len(buf) - Len(start)

RECURSIVE encodeValue(_, _, _, _), encodeMembers(_, _, _, _)

encodeMembers(al, r, ts, vals) ==
  CASE ~r.ok \/ ts = << >> -> r
    [] r.ok /\ ts # << >> /\ vals = << >> -> Err
    [] OTHER -> encodeMembers(al, encodeValue(al, r.buf, Head(ts), Head(vals)),
                              Tail(ts), Tail(vals))

(* The length is a placeholder until the elements are written. *)
encodeArray(al, buf, sig, val) ==
  LET elem == Tail(sig)
      items == Items(elem, val)
      count == putUint(buf, 0, 4)
      start == Pad(count, al[elem[1]])
      ts == [k \in DOMAIN items.v |-> IF elem[1] = "{" THEN Entry(elem) ELSE elem]
      r == IF items.ok THEN encodeMembers(al, Ok(start), ts, items.v) ELSE Err
  IN  IF ~r.ok THEN Err
      ELSE Ok(SubSeq(count, 1, Len(count) - 4)
              \o LE(arrayLength(count, start, r.buf), 4)
              \o SubSeq(r.buf, Len(count) + 1, Len(r.buf)))

(* A value whose Go type is not the one the code stands for is an error. *)
encodeValue(al, buf, sig, val) ==
  LET c == IF sig = << >> THEN "h" ELSE sig[1] IN
  CASE c \in DOMAIN Scalars /\ val.go = Scalars[c][1] -> Ok(putUint(buf, Bits(val), Scalars[c][2]))
    [] c \in {"s", "o"} /\ val.go = "string" -> Ok(putStringLike(buf, val.v))
    [] c = "g" /\ val.go = "string" -> Ok(putSignature(buf, val.v))
    [] c = "v" /\ val.go = "Variant" -> encodeValue(al, putSignature(buf, val.sig), val.sig, val.v)
    [] c = "a" -> encodeArray(al, buf, sig, val)
    [] c = "(" /\ val.go = "[]any" -> encodeMembers(al, Ok(Pad(buf, 8)), Types(Inner(sig)), val.v)
    [] OTHER -> Err

---------------------------------------------------------------------------
(* Decoding.  pos counts the bytes of buf that were consumed.              *)

(* decoder.align and need: Aligned(pos, a) is where the next bytes start,  *)
(* and n of them are there.                                                *)
need(buf, pos, n) == pos + n <= Len(buf)

RECURSIVE FromLE(_)
FromLE(bytes) == IF bytes = << >> THEN 0 ELSE Head(bytes) + 256 * FromLE(Tail(bytes))

(* The two's complement of the same bits. *)
SignedLE(bytes) ==
  LET w == Len(bytes)
  IN  FromLE([bytes EXCEPT ![w] = IF @ >= 128 THEN @ - 256 ELSE @])

getUint(buf, pos, w) ==
  LET p == Aligned(pos, w)
  IN  IF need(buf, p, w) THEN Got(p + w, FromLE(SubSeq(buf, p + 1, p + w))) ELSE Err

FromBits(type, bytes) ==
  CASE type = "bool" -> \E k \in DOMAIN bytes : bytes[k] # 0
    [] type \in {"int16", "int32", "int64"} -> SignedLE(bytes)
    [] OTHER -> FromLE(bytes)

(* Mutant: the NUL behind a string is not asked for. *)
Mut_withNul(n) == n

withNul(n) == n + 1

(* getStringLike and getSignature: a length of w bytes, the bytes, a NUL. *)
getString(buf, pos, w) ==
  Then(getUint(buf, pos, w), LAMBDA n :
    IF need(buf, n.pos, withNul(n.val))
    THEN Got(n.pos + n.val + 1, SubSeq(buf, n.pos + 1, n.pos + n.val)) ELSE Err)

getSignature(buf, pos) ==
  Then(getString(buf, pos, 1), LAMBDA s :
    IF \A k \in DOMAIN s.val : s.val[k] - 32 \in DOMAIN Alphabet
    THEN Got(s.pos, [k \in DOMAIN s.val |-> Alphabet[s.val[k] - 32]]) ELSE Err)

Tagged(type, r) == IF r.ok THEN Got(r.pos, Go(type, r.val)) ELSE Err

getScalar(buf, p, type, w) ==
  IF need(buf, p, w) THEN Got(p + w, Go(type, FromBits(type, SubSeq(buf, p + 1, p + w)))) ELSE Err

RECURSIVE decodeValue(_, _, _, _), decodeMembers(_, _, _, _, _), decodeElements(_, _, _, _, _, _)

decodeMembers(al, buf, pos, ts, out) ==
  IF ts = << >> THEN Got(pos, out)
  ELSE Then(decodeValue(al, buf, pos, Head(ts)), LAMBDA r :
         decodeMembers(al, buf, r.pos, Tail(ts), Append(out, r.val)))

(* decodeArrayElements; a map's keys must be strings. *)
decodeElements(al, buf, pos, elem, end, out) ==
  IF pos >= end THEN Got(pos, out)
  ELSE Then(decodeValue(al, buf, pos, IF elem[1] = "{" THEN Entry(elem) ELSE elem), LAMBDA r :
         IF elem[1] = "{" => r.val.v[1].go = "string"
         THEN decodeElements(al, buf, r.pos, elem, end, Append(out, r.val)) ELSE Err)

(* n bytes of elements from p on. *)
decodeCounted(al, buf, p, elem, n) ==
  IF need(buf, p, n)
  THEN Tagged(IF elem[1] = "{" THEN "map" ELSE "[]any",
              decodeElements(al, buf, p, elem, p + n, << >>))
  ELSE Err

decodeArray(al, buf, pos, elem) ==
  Then(getUint(buf, pos, 4), LAMBDA n :
    decodeCounted(al, buf, Aligned(n.pos, al[elem[1]]), elem, n.val))

decodeVariant(al, buf, pos) ==
  Then(getSignature(buf, pos), LAMBDA s :
    Then(decodeValue(al, buf, s.pos, s.val), LAMBDA r : Got(r.pos, Variant(s.val, r.val))))

decodeStruct(al, buf, p, ts) ==
  IF need(buf, p, 0) THEN Tagged("[]any", decodeMembers(al, buf, p, ts, << >>)) ELSE Err

(* For the empty signature the code panics. *)
decodeValue(al, buf, pos, sig) ==
  LET c == IF sig = << >> THEN "h" ELSE sig[1] IN
  CASE c \in DOMAIN Scalars ->
         getScalar(buf, Aligned(pos, Scalars[c][2]), Scalars[c][1], Scalars[c][2])
    [] c \in {"s", "o"} -> Tagged("string", getString(buf, pos, 4))
    [] c = "g" -> Tagged("string", getSignature(buf, pos))
    [] c = "v" -> decodeVariant(al, buf, pos)
    [] c = "a" -> decodeArray(al, buf, pos, Tail(sig))
    [] c = "(" -> decodeStruct(al, buf, Aligned(pos, 8), Types(Inner(sig)))
    [] OTHER -> Err
=============================================================================
