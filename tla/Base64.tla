-------------------------------- MODULE Base64 --------------------------------
(* base64.c: encoding and decoding, plain and for URLs.  Bytes and text are *)
(* sequences of numbers below 256.                                         *)
(* Operators with an underscore in their name are faulty variants.         *)
EXTENDS Integers, Sequences

Pad == 61       \* '='
NoValue == 77   \* the entry of a character outside of the alphabet
NGX_ERROR == "error"

(* basis64 of the encoders: A-Z, a-z, 0-9, and + / or - _ for URLs.         *)
Symbol(v, url) ==
  CASE v < 26 -> 65 + v
    [] v \in 26 .. 51 -> 97 + v - 26
    [] v \in 52 .. 61 -> 48 + v - 52
    [] v = 62 -> IF url THEN 45 ELSE 43
    [] OTHER -> IF url THEN 95 ELSE 47

(* basis64 of the decoders.                                                 *)
Value(c, url) ==
  CASE c \in 65 .. 90 -> c - 65
    [] c \in 97 .. 122 -> c - 97 + 26
    [] c \in 48 .. 57 -> c - 48 + 52
    [] c = (IF url THEN 45 ELSE 43) -> 62
    [] c = (IF url THEN 95 ELSE 47) -> 63
    [] OTHER -> NoValue

(* The six-bit groups of up to three bytes, the last filled up with zeros.  *)
Groups(s) ==
  CASE Len(s) = 0 -> <<>>
    [] Len(s) = 1 -> <<s[1] \div 4, (s[1] % 4) * 16>>
    [] Len(s) = 2 -> <<s[1] \div 4, (s[1] % 4) * 16 + s[2] \div 16, (s[2] % 16) * 4>>
    [] OTHER -> <<s[1] \div 4, (s[1] % 4) * 16 + s[2] \div 16,
                  (s[2] % 16) * 4 + s[3] \div 64, s[3] % 64>>

Padding(len, url) ==
  CASE url \/ len = 0 -> <<>>
    [] len = 1 -> <<Pad, Pad>>
    [] len = 2 -> <<Pad>>

Tail_(s, n) == SubSeq(s, n + 1, Len(s))

RECURSIVE Encode(_, _)
Encode(s, url) ==
  LET g == Groups(s)
      text == [k \in 1 .. Len(g) |-> Symbol(g[k], url)]
  IN  text \o (IF Len(s) > 2 THEN Encode(Tail_(s, 3), url) ELSE Padding(Len(s), url))

(* The bytes of up to four values.                                          *)
Bytes(v) ==
  LET one == (v[1] * 4 + v[2] \div 16) % 256
      two == (v[2] * 16 + v[3] \div 4) % 256
      three == (v[3] * 64 + v[4]) % 256
  IN  CASE Len(v) < 2 -> <<>>
        [] Len(v) = 2 -> <<one>>
        [] Len(v) = 3 -> <<one, two>>
        [] OTHER -> <<one, two, three>>

RECURSIVE Decoded(_)
Decoded(v) == Bytes(v) \o (IF Len(v) > 3 THEN Decoded(Tail_(v, 4)) ELSE <<>>)

(* How far the text goes: to the first '='.                                 *)
TextLength(text) ==
  CHOOSE n \in 0 .. Len(text) :
    /\ n < Len(text) => text[n + 1] = Pad
    /\ \A k \in 1 .. n : text[k] # Pad

Decode_AnyLength(text, url) ==
  LET len == TextLength(text)
      v == [k \in 1 .. len |-> Value(text[k], url)]
  IN  IF \E k \in 1 .. len : v[k] = NoValue THEN NGX_ERROR ELSE Decoded(v)

Decode(text, url) ==
  LET len == TextLength(text)
      v == [k \in 1 .. len |-> Value(text[k], url)]
  IN  IF len % 4 = 1 \/ \E k \in 1 .. len : v[k] = NoValue THEN NGX_ERROR ELSE Decoded(v)

ngx_base64_encoded_length(len) == ((len + 2) \div 3) * 4
ngx_base64_decoded_length(len) == ((len + 3) \div 4) * 3

-----------------------------------------------------------------------------
(* Decoding gives back what was encoded, and neither direction writes more  *)
(* than the macros in base64.h tell the caller to provide.                  *)
RoundTrip(s) ==
  \A url \in BOOLEAN :
    /\ Decode(Encode(s, url), url) = s
    /\ Len(Encode(s, url)) <= ngx_base64_encoded_length(Len(s))

(* Text is refused, or decodes to bytes whose encoding begins like the text *)
(* (the bits after the last whole byte are ignored).                        *)
DecodesOrRefuses(text) ==
  \A url \in BOOLEAN :
    LET bytes == Decode(text, url)
        whole == (TextLength(text) \div 4) * 4
    IN  bytes # NGX_ERROR =>
          /\ Len(bytes) <= ngx_base64_decoded_length(Len(text))
          /\ Len(bytes) = (TextLength(text) * 6) \div 8
          /\ SubSeq(Encode(bytes, url), 1, whole) = SubSeq(text, 1, whole)
          /\ TextLength(text) % 4 # 0 => Len(bytes) % 3 # 0
=============================================================================
