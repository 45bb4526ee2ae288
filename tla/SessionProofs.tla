---------------------------- MODULE SessionProofs ----------------------------
(***************************************************************************)
(* Proofs about sources, and about sessions and results.                   *)
(*                                                                         *)
(* Sources: the line table holds the ends of the newlines and no others,   *)
(* has room for its end, and the position told for a byte is the one that  *)
(* the newlines before it make it.                                         *)
(*                                                                         *)
(* Sessions: whatever fails, and whatever the hooks of one analysis start, *)
(* the memory in use is that of what lives, the types of a tree are alive  *)
(* and a missing tree is explained.                                        *)
(***************************************************************************)
EXTENDS Session, Induction, FiniteSetTheorems, SequenceTheorems

Tabled  == [starts : Seq(Nat), end : Nat, room : Nat]
Sourced == [bytes : Seq(Byte), flags : SUBSET Newlines, table : Tabled]

LEMMA SourceTyped ==
  ASSUME NEW s \in Sourced
  PROVE  /\ s.bytes \in Seq(Byte) /\ Len(s.bytes) \in Nat /\ s.flags \subseteq Newlines
         /\ s.table \in Tabled
         /\ \A i \in 1..Len(s.bytes) : s.bytes[i] \in 0..255
         /\ \A p \in 0..Len(s.bytes) - 1 : s.bytes[p + 1] \in 0..255
<1>1. s.bytes \in Seq(Byte) /\ s.flags \subseteq Newlines /\ s.table \in Tabled
  BY DEF Sourced
<1> DEFINE b == s.bytes
<1>2. \A i \in 1..Len(b) : b[i] \in 0..255
  <2> HIDE DEF b
  <2>1. \A i \in 1..Len(b) : b[i] \in Byte
    BY <1>1, ElementOfSeq, Zenon DEF b
  <2> QED BY <2>1 DEF Byte
<1>3. Len(b) \in Nat
  <2> HIDE DEF b
  <2> QED BY <1>1 DEF b
<1>4. \A p \in 0..Len(b) - 1 : p + 1 \in 1..Len(b)
  BY <1>3
<1> QED BY <1>1, <1>2, <1>3, <1>4
-----------------------------------------------------------------------------
(* What the decoder makes of the bytes at p.                               *)
CodePoint(bytes, p, len) ==
  LET cp[k \in 0..3] == IF k = 0 THEN bytes[p + 1] % Payload[len]
                        ELSE (cp[k - 1] * 64) + (bytes[p + 1 + k] % 64)
  IN  cp

LEMMA CodePoints ==
  ASSUME NEW bytes, NEW p, NEW len
  PROVE  LET cp == CodePoint(bytes, p, len)
         IN  /\ cp[0] = bytes[p + 1] % Payload[len]
             /\ cp[1] = (cp[0] * 64) + (bytes[p + 1 + 1] % 64)
             /\ cp[2] = (cp[1] * 64) + (bytes[p + 1 + 2] % 64)
             /\ cp[3] = (cp[2] * 64) + (bytes[p + 1 + 3] % 64)
<1> DEFINE a0 == bytes[p + 1] % Payload[len]
           a1 == (a0 * 64) + (bytes[p + 1 + 1] % 64)
           a2 == (a1 * 64) + (bytes[p + 1 + 2] % 64)
           a3 == (a2 * 64) + (bytes[p + 1 + 3] % 64)
           f  == [k \in 0..3 |-> IF k = 0 THEN a0 ELSE IF k = 1 THEN a1 ELSE IF k = 2 THEN a2 ELSE a3]
           Is(g) == g = [k \in 0..3 |-> IF k = 0 THEN bytes[p + 1] % Payload[len]
                                        ELSE (g[k - 1] * 64) + (bytes[p + 1 + k] % 64)]
           cp == CodePoint(bytes, p, len)
<1>1. Is(f)
  <2> SUFFICES ASSUME NEW k \in 0..3
               PROVE  f[k] = IF k = 0 THEN bytes[p + 1] % Payload[len]
                             ELSE (f[k - 1] * 64) + (bytes[p + 1 + k] % 64)
    OBVIOUS
  <2>1. k = 0 \/ k = 1 \/ k = 2 \/ k = 3
    OBVIOUS
  <2>2. f[0] = a0 /\ f[1] = a1 /\ f[2] = a2 /\ f[3] = a3
    OBVIOUS
  <2>3. CASE k = 0
    BY <2>2, <2>3
  <2>4. CASE k = 1
    BY <2>2, <2>4
  <2>5. CASE k = 2
    BY <2>2, <2>5
  <2>6. CASE k = 3
    BY <2>2, <2>6
  <2> QED BY <2>1, <2>3, <2>4, <2>5, <2>6
<1>2. cp = CHOOSE g : Is(g)
  BY DEF CodePoint
<1>3. Is(cp)
  <2> HIDE DEF Is, f, cp
  <2> QED BY <1>1, <1>2
<1>4. cp[0] = a0 /\ \A k \in 1..3 : cp[k] = (cp[k - 1] * 64) + (bytes[p + 1 + k] % 64)
  <2> HIDE DEF cp
  <2> QED BY <1>3
<1> HIDE DEF cp
<1>5. cp[1] = (cp[0] * 64) + (bytes[p + 1 + 1] % 64)
  <2>1. cp[1] = (cp[1 - 1] * 64) + (bytes[p + 1 + 1] % 64)
    BY <1>4, 1 \in 1..3, Zenon
  <2> QED BY <2>1, 1 - 1 = 0
<1>6. cp[2] = (cp[1] * 64) + (bytes[p + 1 + 2] % 64)
  <2>1. cp[2] = (cp[2 - 1] * 64) + (bytes[p + 1 + 2] % 64)
    BY <1>4, 2 \in 1..3, Zenon
  <2> QED BY <2>1, 2 - 1 = 1
<1>7. cp[3] = (cp[2] * 64) + (bytes[p + 1 + 3] % 64)
  <2>1. cp[3] = (cp[3 - 1] * 64) + (bytes[p + 1 + 3] % 64)
    BY <1>4, 3 \in 1..3, Zenon
  <2> QED BY <2>1, 3 - 1 = 2
<1> QED BY <1>4, <1>5, <1>6, <1>7, Zenon DEF cp

\* What is left of a byte whose tag is masked away.
LEMMA Masked7 == ASSUME NEW x \in 0..127 PROVE x % 128 = x
OBVIOUS

LEMMA Masked5 == ASSUME NEW x \in 194..223 PROVE x % 32 = x - 192
<1>1. x = 6 * 32 + (x - 192) /\ x - 192 \in 0..31
  OBVIOUS
<1> QED BY <1>1

LEMMA Masked4 == ASSUME NEW x \in 224..239 PROVE x % 16 = x - 224
<1>1. x = 14 * 16 + (x - 224) /\ x - 224 \in 0..15
  OBVIOUS
<1> QED BY <1>1

LEMMA Masked6 == ASSUME NEW x \in 128..191 PROVE x % 64 = x - 128
<1>1. x = 2 * 64 + (x - 128) /\ x - 128 \in 0..63
  OBVIOUS
<1> QED BY <1>1

\* The three code points that are newlines, by their bytes.
Nel(bytes, p) == bytes[p + 1] = 194 /\ p + 2 <= Len(bytes) /\ bytes[p + 2] = 133
Sep(bytes, p) == bytes[p + 1] = 226 /\ p + 3 <= Len(bytes) /\ bytes[p + 2] = 128 /\ bytes[p + 3] \in {168, 169}

LeadIs(b, len) ==
  /\ len \in 0..4
  /\ len = 0 => b # 194 /\ b # 226
  /\ len = 1 => b \in 0..127
  /\ len = 2 => b \in 194..223
  /\ len = 3 => b \in 224..239
  /\ len = 4 => b \in 240..244

LEMMA LeadLens == ASSUME NEW b \in 0..255 PROVE LeadIs(b, LeadLen(b))
<1> USE DEF LeadIs
<1>1. CASE b < 128
  <2>1. LeadLen(b) = 1
    BY <1>1 DEF LeadLen
  <2> QED BY <1>1, <2>1
<1>2. CASE b \in 194..223
  <2>1. LeadLen(b) = 2
    BY <1>2 DEF LeadLen
  <2> QED BY <1>2, <2>1
<1>3. CASE b \in 224..239
  <2>1. LeadLen(b) = 3
    BY <1>3 DEF LeadLen
  <2> QED BY <1>3, <2>1
<1>4. CASE b \in 240..244
  <2>1. LeadLen(b) = 4
    BY <1>4 DEF LeadLen
  <2> QED BY <1>4, <2>1
<1>5. CASE b >= 128 /\ b \notin 194..223 /\ b \notin 224..239 /\ b \notin 240..244
  <2>1. LeadLen(b) = 0
    BY <1>5 DEF LeadLen
  <2> QED BY <1>5, <2>1
<1> QED BY <1>1, <1>2, <1>3, <1>4, <1>5

\* The code points of two and of three bytes, their tags left out.
Two(x, y)      == (x - 192) * 64 + (y - 128)
Three(x, y, z) == (x - 224) * 4096 + (y - 128) * 64 + (z - 128)
Newline(cp)    == cp \in {133, 8232, 8233}
AtLeast(cp, n) == cp >= n

Ascii     == 0..127
LeadOfTwo == 194..223
LeadOfThree == 224..239
TailByte  == 128..191

LEMMA NewlineFacts ==
  /\ Newline(133) /\ Newline(8232) /\ Newline(8233) /\ ~Newline(0)
  /\ \A cp : Newline(cp) => cp \in {133, 8232, 8233}
BY SMT DEF Newline

LEMMA NotNewline ==
  /\ \A cp \in Ascii : ~Newline(cp) /\ cp # 194 /\ cp # 226
  /\ \A cp : AtLeast(cp, 65536) => ~Newline(cp)
BY SMT DEF Newline, Ascii, AtLeast

LEMMA TwoBytes ==
  /\ \A x \in LeadOfTwo, y \in TailByte : Newline(Two(x, y)) => x = 194 /\ y = 133
  /\ Two(194, 133) = 133 /\ 133 \in TailByte
  /\ \A x \in LeadOfTwo : x # 226
BY SMT DEF Newline, Two, LeadOfTwo, TailByte

LEMMA ThreeBytes ==
  /\ \A x \in LeadOfThree, y \in TailByte, z \in TailByte :
       Newline(Three(x, y, z)) /\ AtLeast(Three(x, y, z), 2048) => x = 226 /\ y = 128 /\ z \in {168, 169}
  /\ Three(226, 128, 168) = 8232 /\ Three(226, 128, 169) = 8233
  /\ {128, 168, 169} \subseteq TailByte
  /\ \A x \in LeadOfThree : x # 194
BY SMT DEF Newline, Three, AtLeast, LeadOfThree, TailByte

\* What a code point of so many bytes must be.
Fits(cp, least) == cp >= least /\ cp <= 1114111 /\ cp \notin 55296..57343

LEMMA FitsFacts ==
  /\ Fits(133, 128) /\ Fits(8232, 2048) /\ Fits(8233, 2048)
  /\ \A cp, n : Fits(cp, n) => AtLeast(cp, n)
BY SMT DEF Fits, AtLeast

LEMMA DecodeNewlines ==
  ASSUME NEW bytes \in Seq(Byte), NEW p \in 0..Len(bytes) - 1
  PROVE  /\ Newline(Decode(bytes, p).cp) <=> Nel(bytes, p) \/ Sep(bytes, p)
         /\ Nel(bytes, p) => Decode(bytes, p).len = 2
         /\ Sep(bytes, p) => Decode(bytes, p).len = 3
<1> DEFINE b0  == bytes[p + 1]
           b1  == bytes[p + 1 + 1]
           b2  == bytes[p + 1 + 2]
           len == LeadLen(b0)
           cp  == CodePoint(bytes, p, len)
           tails == \A k \in 1..len - 1 : bytes[p + 1 + k] \in TailByte
           last == cp[len - 1]
           formed == /\ len # 0 /\ p + len <= Len(bytes) /\ tails
                     /\ Fits(last, LeastFor[len])
           d == Decode(bytes, p)
<1>1. d = IF formed THEN [len |-> len, cp |-> last] ELSE [len |-> 0, cp |-> 0]
  BY DEF Decode, CodePoint, Fits, TailByte
<1>2. Len(bytes) \in Nat /\ b0 \in 0..255
  <2>1. \A i \in 1..Len(bytes) : bytes[i] \in Byte
    BY ElementOfSeq, Zenon
  <2>2. Len(bytes) \in Nat /\ p + 1 \in 1..Len(bytes)
    OBVIOUS
  <2> QED BY <2>1, <2>2 DEF Byte
<1>3. /\ len \in 0..4
      /\ len = 0 => b0 # 194 /\ b0 # 226
      /\ len = 1 => b0 \in Ascii
      /\ len = 2 => b0 \in LeadOfTwo
      /\ len = 3 => b0 \in LeadOfThree
      /\ len = 4 => b0 # 194 /\ b0 # 226
  <2>1. LeadIs(b0, len)
    BY <1>2, LeadLens
  <2> HIDE DEF b0, len
  <2> QED BY <2>1 DEF LeadIs, Ascii, LeadOfTwo, LeadOfThree
<1>4. /\ cp[0] = b0 % Payload[len]
      /\ cp[1] = (cp[0] * 64) + (b1 % 64)
      /\ cp[2] = (cp[1] * 64) + (b2 % 64)
  <2> HIDE DEF len
  <2> QED BY CodePoints
<1>5. /\ Payload[1] = 128 /\ Payload[2] = 32 /\ Payload[3] = 16
      /\ LeastFor[2] = 128 /\ LeastFor[3] = 2048 /\ LeastFor[4] = 65536
  BY DEF Payload, LeastFor
<1>6. /\ Nel(bytes, p) <=> b0 = 194 /\ b1 = 133 /\ p + 2 <= Len(bytes)
      /\ Sep(bytes, p) <=> b0 = 226 /\ b1 = 128 /\ b2 \in {168, 169} /\ p + 3 <= Len(bytes)
  <2>1. p + 1 + 1 = p + 2 /\ p + 1 + 2 = p + 3
    OBVIOUS
  <2> QED BY <2>1 DEF Nel, Sep
<1>7. /\ len = 2 => (tails <=> b1 \in TailByte)
      /\ len = 3 => (tails <=> b1 \in TailByte /\ b2 \in TailByte)
  <2> HIDE DEF len
  <2>1. len = 2 => (tails <=> b1 \in TailByte)
    <3>1. 1..2 - 1 = {1}
      OBVIOUS
    <3> QED BY <3>1
  <2>2. len = 3 => (tails <=> b1 \in TailByte /\ b2 \in TailByte)
    <3>1. 1..3 - 1 = {1, 2}
      OBVIOUS
    <3> QED BY <3>1
  <2> QED BY <2>1, <2>2
<1> HIDE DEF b0, b1, b2, len, cp, tails, d
<1>8. CASE len = 0
  BY <1>1, <1>3, <1>6, <1>8, NewlineFacts DEF d
<1>9. CASE len = 1
  <2>1. b0 \in Ascii /\ last = b0
    <3>1. b0 \in Ascii /\ Payload[len] = 128
      BY <1>3, <1>5, <1>9
    <3>2. b0 % 128 = b0
      BY <3>1, Masked7 DEF Ascii
    <3>3. cp[0] = b0 % 128
      BY <1>4, <3>1
    <3> QED BY <1>9, <3>1, <3>2, <3>3
  <2> HIDE DEF last, formed
  <2>2. b0 # 194 /\ b0 # 226 /\ ~Newline(d.cp)
    BY <1>1, <2>1, NotNewline, NewlineFacts
  <2> QED BY <1>6, <2>2 DEF d
<1>10. CASE len = 2
  <2>1. b0 \in LeadOfTwo /\ cp[0] = b0 - 192
    <3>1. b0 \in LeadOfTwo /\ Payload[len] = 32
      BY <1>3, <1>5, <1>10
    <3>2. b0 % 32 = b0 - 192
      BY <3>1, Masked5 DEF LeadOfTwo
    <3>3. cp[0] = b0 % 32
      BY <1>4, <3>1
    <3> QED BY <1>10, <3>1, <3>2, <3>3
  <2>2. b1 \in TailByte => last = Two(b0, b1)
    <3>1. b1 \in TailByte => b1 % 64 = b1 - 128
      BY Masked6 DEF TailByte
    <3> QED BY <1>4, <1>10, <2>1, <3>1 DEF Two, LeadOfTwo, TailByte
  <2>3. formed <=> p + 2 <= Len(bytes) /\ b1 \in TailByte /\ Fits(last, 128)
    <3> HIDE DEF last
    <3> QED BY <1>5, <1>7, <1>10
  <2> HIDE DEF last, formed
  <2>4. formed /\ Newline(last) => Nel(bytes, p)
    BY <1>6, <2>1, <2>2, <2>3, TwoBytes
  <2>5. Nel(bytes, p) => formed /\ last = 133
    <3> SUFFICES ASSUME Nel(bytes, p) PROVE formed /\ last = 133
      OBVIOUS
    <3>1. last = 133
      BY <1>6, <2>2, TwoBytes
    <3> QED BY <1>6, <2>3, <3>1, FitsFacts, TwoBytes
  <2>6. ~Sep(bytes, p)
    BY <1>6, <2>1, TwoBytes
  <2> QED BY <1>1, <1>10, <2>4, <2>5, <2>6, NewlineFacts, SMT DEF d
<1>11. CASE len = 3
  <2>1. b0 \in LeadOfThree /\ cp[0] = b0 - 224
    <3>1. b0 \in LeadOfThree /\ Payload[len] = 16
      BY <1>3, <1>5, <1>11
    <3>2. b0 % 16 = b0 - 224
      BY <3>1, Masked4 DEF LeadOfThree
    <3>3. cp[0] = b0 % 16
      BY <1>4, <3>1
    <3> QED BY <1>11, <3>1, <3>2, <3>3
  <2>2. b1 \in TailByte /\ b2 \in TailByte => last = Three(b0, b1, b2)
    <3>1. /\ b1 \in TailByte => b1 % 64 = b1 - 128
          /\ b2 \in TailByte => b2 % 64 = b2 - 128
      BY Masked6 DEF TailByte
    <3>2. b1 \in TailByte => cp[1] = (b0 - 224) * 64 + (b1 - 128)
      BY <1>4, <2>1, <3>1 DEF TailByte, LeadOfThree
    <3>3. b1 \in TailByte /\ b2 \in TailByte => cp[2] = ((b0 - 224) * 64 + (b1 - 128)) * 64 + (b2 - 128)
      BY <1>4, <2>1, <3>1, <3>2 DEF TailByte, LeadOfThree
    <3>4. last = cp[2]
      BY <1>11
    <3> HIDE DEF last
    <3> QED BY <2>1, <3>3, <3>4, SMT DEF Three, LeadOfThree, TailByte
  <2>3. formed <=> p + 3 <= Len(bytes) /\ b1 \in TailByte /\ b2 \in TailByte /\ Fits(last, 2048)
    <3> HIDE DEF last
    <3> QED BY <1>5, <1>7, <1>11
  <2> HIDE DEF last, formed
  <2>4. formed /\ Newline(last) => Sep(bytes, p)
    <3> SUFFICES ASSUME formed, Newline(last) PROVE Sep(bytes, p)
      OBVIOUS
    <3>1. AtLeast(last, 2048)
      BY <2>3, FitsFacts
    <3>2. b0 = 226 /\ b1 = 128 /\ b2 \in {168, 169}
      BY <2>1, <2>2, <2>3, <3>1, ThreeBytes
    <3> QED BY <1>6, <2>3, <3>2
  <2>5. Sep(bytes, p) => formed /\ last \in {8232, 8233}
    <3> SUFFICES ASSUME Sep(bytes, p) PROVE formed /\ last \in {8232, 8233}
      OBVIOUS
    <3>1. last \in {8232, 8233}
      BY <1>6, <2>2, ThreeBytes
    <3> QED BY <1>6, <2>3, <3>1, FitsFacts, ThreeBytes
  <2>6. ~Nel(bytes, p)
    BY <1>6, <2>1, ThreeBytes
  <2> QED BY <1>1, <1>11, <2>4, <2>5, <2>6, NewlineFacts, SMT DEF d
<1>12. CASE len = 4
  <2> HIDE DEF last
  <2>1. formed => AtLeast(last, 65536)
    BY <1>5, <1>12, FitsFacts
  <2>2. b0 # 194 /\ b0 # 226
    BY <1>3, <1>12
  <2>3. d.cp = 0 \/ (d.cp = last /\ AtLeast(last, 65536))
    BY <1>1, <2>1
  <2>4. ~Newline(d.cp)
    <3>1. ~Newline(0)
      BY NewlineFacts
    <3> QED BY <2>3, <3>1, NotNewline
  <2> QED BY <1>6, <2>2, <2>4, SMT DEF d
<1> QED BY <1>3, <1>8, <1>9, <1>10, <1>11, <1>12
-----------------------------------------------------------------------------
(* Newlines by their bytes: one of n bytes begins at position i.           *)
NewlineAt(s, i, n) ==
  LET b == s.bytes
  IN  /\ i + n <= Len(b)
      /\ \/ n = 1 /\ b[i + 1] = 10 /\ "LF" \in s.flags
         \/ n = 1 /\ b[i + 1] = 13 /\ "CR" \in s.flags
         \/ n = 2 /\ b[i + 1] = 13 /\ b[i + 2] = 10 /\ "CRLF" \in s.flags
         \/ n = 2 /\ b[i + 1] = 194 /\ b[i + 2] = 133 /\ "UNICODE" \in s.flags
         \/ n = 3 /\ b[i + 1] = 226 /\ b[i + 2] = 128 /\ b[i + 3] \in {168, 169} /\ "UNICODE" \in s.flags

\* The newline that ends at e is the CR of a CRLF.
HalfCrlf(s, e) == /\ "CRLF" \in s.flags /\ e + 1 <= Len(s.bytes)
                  /\ s.bytes[e] = 13 /\ s.bytes[e + 1] = 10

LEMMA NewlineLenOK ==
  ASSUME NEW s \in Sourced, NEW p \in 0..Len(s.bytes) - 1
  PROVE  /\ NewlineLen(s, p) \in 0..3
         /\ NewlineLen(s, p) # 0 => NewlineAt(s, p, NewlineLen(s, p))
         /\ \A n \in 1..3 : NewlineAt(s, p, n) => n <= NewlineLen(s, p)
<1> DEFINE b == s.bytes
           len == NewlineLen(s, p)
           d == Decode(b, p)
<1>1. b \in Seq(Byte) /\ Len(b) \in Nat
  BY SourceTyped
<1>2. /\ Newline(d.cp) <=> Nel(b, p) \/ Sep(b, p)
      /\ Nel(b, p) => d.len = 2
      /\ Sep(b, p) => d.len = 3
  BY <1>1, DecodeNewlines
<1>3. /\ Nel(b, p) <=> b[p + 1] = 194 /\ p + 2 <= Len(b) /\ b[p + 2] = 133
      /\ Sep(b, p) <=> b[p + 1] = 226 /\ p + 3 <= Len(b) /\ b[p + 2] = 128 /\ b[p + 3] \in {168, 169}
  BY DEF Nel, Sep
<1> HIDE DEF len
<1>4. CASE b[p + 1] = 13
  <2>1. len = IF "CRLF" \in s.flags /\ p + 1 < Len(b) /\ b[p + 2] = 10 THEN 2
              ELSE IF "CR" \in s.flags THEN 1 ELSE 0
    BY <1>4 DEF len, NewlineLen
  <2>2. len \in 0..3 /\ (len # 0 => NewlineAt(s, p, len))
    BY <1>1, <1>4, <2>1 DEF NewlineAt
  <2>3. \A n \in 1..3 : NewlineAt(s, p, n) => n <= len
    BY <1>1, <1>4, <2>1 DEF NewlineAt
  <2> QED BY <2>2, <2>3 DEF len
<1>5. CASE b[p + 1] = 10
  <2>1. len = IF "LF" \in s.flags THEN 1 ELSE 0
    BY <1>5 DEF len, NewlineLen
  <2>2. len \in 0..3 /\ (len # 0 => NewlineAt(s, p, len))
    BY <1>1, <1>5, <2>1 DEF NewlineAt
  <2>3. \A n \in 1..3 : NewlineAt(s, p, n) => n <= len
    BY <1>1, <1>5, <2>1 DEF NewlineAt
  <2> QED BY <2>2, <2>3 DEF len
<1>6. CASE b[p + 1] # 13 /\ b[p + 1] # 10
  <2>1. len = IF "UNICODE" \in s.flags /\ Newline(d.cp) THEN d.len ELSE 0
    BY <1>6 DEF len, NewlineLen, Newline
  <2> HIDE DEF d
  <2>2. len \in 0..3 /\ (len # 0 => NewlineAt(s, p, len))
    BY <1>1, <1>2, <1>3, <2>1 DEF NewlineAt
  <2>3. \A n \in 1..3 : NewlineAt(s, p, n) => n <= len
    BY <1>1, <1>2, <1>3, <1>6, <2>1 DEF NewlineAt
  <2> QED BY <2>2, <2>3 DEF len
<1> QED BY <1>4, <1>5, <1>6

LEMMA SubSeqOf ==
  ASSUME NEW b \in Seq(Byte), NEW m \in 1..Len(b), NEW e \in m..Len(b), NEW k, k = e - m + 1
  PROVE  /\ SubSeq(b, m, e) \in Seq(Byte) /\ Len(SubSeq(b, m, e)) = k
         /\ \A i \in 1..k : SubSeq(b, m, e)[i] = b[m + i - 1]
<1>1. Len(b) \in Nat /\ \A i \in 1..Len(b) : b[i] \in Byte
  BY ElementOfSeq
<1>2. m \in Int /\ e \in Int /\ m <= e /\ \A i \in m..e : b[i] \in Byte
  BY <1>1
<1> QED BY <1>2, SubSeqProperties

(* The texts of the newlines, and what it is to end with one.              *)
IsOne(text, x)         == text = <<x>>
IsTwo(text, x, y)      == text = <<x, y>>
IsThree(text, x, y, z) == text = <<x, y, z>>

EndsWith(b, e, text) == /\ e >= Len(text) /\ e <= Len(b)
                        /\ SubSeq(b, e - Len(text) + 1, e) = text

LEMMA EndsOne ==
  ASSUME NEW b \in Seq(Byte), NEW e \in 1..Len(b), NEW x, NEW text, IsOne(text, x)
  PROVE  EndsWith(b, e, text) <=> b[e] = x
<1>1. Len(b) \in Nat /\ \A i \in 1..Len(b) : b[i] \in Byte
  BY ElementOfSeq
<1>2. Len(text) = 1 /\ text[1] = x
  BY DEF IsOne
<1>3. CASE e < 1
  BY <1>1, <1>2, <1>3 DEF EndsWith
<1>4. CASE e >= 1
  <2> DEFINE t == SubSeq(b, e, e)
             u == <<b[e]>>
  <2>1. e - 1 + 1 = e
    BY <1>1
  <2>2. EndsWith(b, e, text) <=> t = text
    BY <1>1, <1>2, <1>4, <2>1 DEF EndsWith
  <2>3. t \in Seq(Byte) /\ Len(t) = 1 /\ \A i \in 1..1 : t[i] = b[e + i - 1]
    <3>1. e \in 1..Len(b) /\ e \in (e)..Len(b) /\ 1 = e - (e) + 1
      BY <1>1, <1>4
    <3> QED BY <3>1, SubSeqOf
  <2>4. t[1] = b[e]
    BY <1>1, <2>3
  <2> HIDE DEF t
  <2>5. t = text => b[e] = x
    BY <1>2, <2>4
  <2>6. u \in Seq(Byte) /\ Len(u) = 1 /\ \A i \in 1..1 : u[i] = t[i]
    BY <1>1, <1>4, <2>4
  <2>7. t = u
    <3> HIDE DEF u
    <3> QED BY <2>3, <2>6, SeqEqual
  <2>8. b[e] = x => t = text
    BY <2>7 DEF IsOne
  <2> QED BY <1>4, <2>2, <2>5, <2>8
<1> QED BY <1>1, <1>3, <1>4

LEMMA EndsTwo ==
  ASSUME NEW b \in Seq(Byte), NEW e \in 1..Len(b), NEW x, NEW y, NEW text, IsTwo(text, x, y)
  PROVE  EndsWith(b, e, text) <=> e >= 2 /\ b[e - 1] = x /\ b[e] = y
<1>1. Len(b) \in Nat /\ \A i \in 1..Len(b) : b[i] \in Byte
  BY ElementOfSeq
<1>2. Len(text) = 2 /\ text[1] = x /\ text[2] = y
  BY DEF IsTwo
<1>3. CASE e < 2
  BY <1>1, <1>2, <1>3 DEF EndsWith
<1>4. CASE e >= 2
  <2> DEFINE t == SubSeq(b, e - 1, e)
             u == <<b[e - 1], b[e]>>
  <2>1. e - 2 + 1 = e - 1
    BY <1>1
  <2>2. EndsWith(b, e, text) <=> t = text
    BY <1>1, <1>2, <1>4, <2>1 DEF EndsWith
  <2>3. t \in Seq(Byte) /\ Len(t) = 2 /\ \A i \in 1..2 : t[i] = b[e - 1 + i - 1]
    <3>1. e - 1 \in 1..Len(b) /\ e \in (e - 1)..Len(b) /\ 2 = e - (e - 1) + 1
      BY <1>1, <1>4
    <3> QED BY <3>1, SubSeqOf
  <2>4. t[1] = b[e - 1] /\ t[2] = b[e]
    BY <1>1, <2>3
  <2> HIDE DEF t
  <2>5. t = text => b[e - 1] = x /\ b[e] = y
    BY <1>2, <2>4
  <2>6. u \in Seq(Byte) /\ Len(u) = 2 /\ \A i \in 1..2 : u[i] = t[i]
    BY <1>1, <1>4, <2>4
  <2>7. t = u
    <3> HIDE DEF u
    <3> QED BY <2>3, <2>6, SeqEqual
  <2>8. b[e - 1] = x /\ b[e] = y => t = text
    BY <2>7 DEF IsTwo
  <2> QED BY <1>4, <2>2, <2>5, <2>8
<1> QED BY <1>1, <1>3, <1>4

LEMMA EndsThree ==
  ASSUME NEW b \in Seq(Byte), NEW e \in 1..Len(b), NEW x, NEW y, NEW z, NEW text, IsThree(text, x, y, z)
  PROVE  EndsWith(b, e, text) <=> e >= 3 /\ b[e - 2] = x /\ b[e - 1] = y /\ b[e] = z
<1>1. Len(b) \in Nat /\ \A i \in 1..Len(b) : b[i] \in Byte
  BY ElementOfSeq
<1>2. Len(text) = 3 /\ text[1] = x /\ text[2] = y /\ text[3] = z
  BY DEF IsThree
<1>3. CASE e < 3
  BY <1>1, <1>2, <1>3 DEF EndsWith
<1>4. CASE e >= 3
  <2> DEFINE t == SubSeq(b, e - 2, e)
             u == <<b[e - 2], b[e - 1], b[e]>>
  <2>1. e - 3 + 1 = e - 2
    BY <1>1
  <2>2. EndsWith(b, e, text) <=> t = text
    BY <1>1, <1>2, <1>4, <2>1 DEF EndsWith
  <2>3. t \in Seq(Byte) /\ Len(t) = 3 /\ \A i \in 1..3 : t[i] = b[e - 2 + i - 1]
    <3>1. e - 2 \in 1..Len(b) /\ e \in (e - 2)..Len(b) /\ 3 = e - (e - 2) + 1
      BY <1>1, <1>4
    <3> QED BY <3>1, SubSeqOf
  <2>4. t[1] = b[e - 2] /\ t[2] = b[e - 1] /\ t[3] = b[e]
    BY <1>1, <2>3
  <2> HIDE DEF t
  <2>5. t = text => b[e - 2] = x /\ b[e - 1] = y /\ b[e] = z
    BY <1>2, <2>4
  <2>6. u \in Seq(Byte) /\ Len(u) = 3 /\ \A i \in 1..3 : u[i] = t[i]
    BY <1>1, <1>4, <2>4
  <2>7. t = u
    <3> HIDE DEF u
    <3> QED BY <2>3, <2>6, SeqEqual
  <2>8. b[e - 2] = x /\ b[e - 1] = y /\ b[e] = z => t = text
    BY <2>7 DEF IsThree
  <2> QED BY <1>4, <2>2, <2>5, <2>8
<1> QED BY <1>1, <1>3, <1>4

Lf      == <<10>>
Cr      == <<13>>
Crlf    == <<13, 10>>
NelText == <<194, 133>>
SepText == <<226, 128, 168>>
ParText == <<226, 128, 169>>

LEMMA TextsAre ==
  ASSUME NEW flags
  PROVE  /\ \A text : text \in NewlineTexts(flags) <=>
              \/ "LF" \in flags /\ text = Lf
              \/ "CR" \in flags /\ text = Cr
              \/ "CRLF" \in flags /\ text = Crlf
              \/ "UNICODE" \in flags /\ (text = NelText \/ text = SepText \/ text = ParText)
         /\ Crlf \in NewlineTexts(flags) <=> "CRLF" \in flags
<1>1. NewlineTexts(flags) =
        (IF "LF" \in flags THEN {Lf} ELSE {}) \cup (IF "CR" \in flags THEN {Cr} ELSE {})
          \cup (IF "CRLF" \in flags THEN {Crlf} ELSE {})
          \cup (IF "UNICODE" \in flags THEN {NelText, SepText, ParText} ELSE {})
  BY DEF NewlineTexts, Lf, Cr, Crlf, NelText, SepText, ParText
<1>2. Crlf # Lf /\ Crlf # Cr /\ Crlf # NelText /\ Crlf # SepText /\ Crlf # ParText
  BY DEF Lf, Cr, Crlf, NelText, SepText, ParText
<1>3. \A text : text \in NewlineTexts(flags) <=>
        \/ "LF" \in flags /\ text = Lf
        \/ "CR" \in flags /\ text = Cr
        \/ "CRLF" \in flags /\ text = Crlf
        \/ "UNICODE" \in flags /\ (text = NelText \/ text = SepText \/ text = ParText)
  BY <1>1
<1> QED BY <1>2, <1>3

LEMMA TextsEnd ==
  ASSUME NEW b \in Seq(Byte), NEW e \in 1..Len(b)
  PROVE  /\ EndsWith(b, e, Lf) <=> b[e] = 10
         /\ EndsWith(b, e, Cr) <=> b[e] = 13
         /\ EndsWith(b, e, Crlf) <=> e >= 2 /\ b[e - 1] = 13 /\ b[e] = 10
         /\ EndsWith(b, e, NelText) <=> e >= 2 /\ b[e - 1] = 194 /\ b[e] = 133
         /\ EndsWith(b, e, SepText) <=> e >= 3 /\ b[e - 2] = 226 /\ b[e - 1] = 128 /\ b[e] = 168
         /\ EndsWith(b, e, ParText) <=> e >= 3 /\ b[e - 2] = 226 /\ b[e - 1] = 128 /\ b[e] = 169
<1>1. /\ IsOne(Lf, 10) /\ IsOne(Cr, 13) /\ IsTwo(Crlf, 13, 10) /\ IsTwo(NelText, 194, 133)
      /\ IsThree(SepText, 226, 128, 168) /\ IsThree(ParText, 226, 128, 169)
  BY DEF IsOne, IsTwo, IsThree, Lf, Cr, Crlf, NelText, SepText, ParText
<1>2. (EndsWith(b, e, Lf) <=> b[e] = 10) /\ (EndsWith(b, e, Cr) <=> b[e] = 13)
  BY <1>1, EndsOne
<1>3. /\ EndsWith(b, e, Crlf) <=> e >= 2 /\ b[e - 1] = 13 /\ b[e] = 10
      /\ EndsWith(b, e, NelText) <=> e >= 2 /\ b[e - 1] = 194 /\ b[e] = 133
  BY <1>1, EndsTwo
<1>4. /\ EndsWith(b, e, SepText) <=> e >= 3 /\ b[e - 2] = 226 /\ b[e - 1] = 128 /\ b[e] = 168
      /\ EndsWith(b, e, ParText) <=> e >= 3 /\ b[e - 2] = 226 /\ b[e - 1] = 128 /\ b[e] = 169
  BY <1>1, EndsThree
<1> QED BY <1>2, <1>3, <1>4

\* The ends of the newlines by their bytes.
LEMMA EndsAre ==
  ASSUME NEW s \in Sourced, NEW e \in 1..Len(s.bytes)
  PROVE  e \in Ends(s) <=> /\ \E n \in 1..3 : n <= e /\ NewlineAt(s, e - n, n)
                           /\ ~HalfCrlf(s, e)
<1> DEFINE b == s.bytes
           whole == NewlineTexts(s.flags)
<1>1. b \in Seq(Byte) /\ Len(b) \in Nat
  BY SourceTyped
<1>2. e \in Ends(s) <=> /\ \E text \in whole : EndsWith(b, e, text)
                        /\ ~(Crlf \in whole /\ EndsWith(b, e, Cr) /\ EndsWith(b, e + 1, Crlf))
  BY DEF Ends, EndsWith, Cr, Crlf
<1>3. EndsWith(b, e + 1, Crlf) <=> e + 1 <= Len(b) /\ b[e] = 13 /\ b[e + 1] = 10
  <2>1. CASE e + 1 <= Len(b)
    <3> DEFINE f == e + 1
    <3>1. f \in 1..Len(b) /\ f >= 2
      BY <1>1, <2>1
    <3>2. f - 1 = e
      OBVIOUS
    <3> HIDE DEF f
    <3>3. EndsWith(b, f, Crlf) <=> f >= 2 /\ b[f - 1] = 13 /\ b[f] = 10
      BY <1>1, <3>1, TextsEnd
    <3> QED BY <2>1, <3>1, <3>2, <3>3 DEF f
  <2>2. CASE ~(e + 1 <= Len(b))
    BY <2>2 DEF EndsWith
  <2> QED BY <2>1, <2>2
<1>4. (\E text \in whole : EndsWith(b, e, text)) <=>
        \/ "LF" \in s.flags /\ EndsWith(b, e, Lf)
        \/ "CR" \in s.flags /\ EndsWith(b, e, Cr)
        \/ "CRLF" \in s.flags /\ EndsWith(b, e, Crlf)
        \/ "UNICODE" \in s.flags /\ \/ EndsWith(b, e, NelText)
                                    \/ EndsWith(b, e, SepText) \/ EndsWith(b, e, ParText)
  <2> DEFINE At(text) == EndsWith(b, e, text)
  <2> HIDE DEF whole, b, At
  <2>1. (\E text \in whole : At(text)) <=>
          \/ "LF" \in s.flags /\ At(Lf)
          \/ "CR" \in s.flags /\ At(Cr)
          \/ "CRLF" \in s.flags /\ At(Crlf)
          \/ "UNICODE" \in s.flags /\ (At(NelText) \/ At(SepText) \/ At(ParText))
    BY TextsAre DEF whole
  <2> QED BY <2>1 DEF At
<1>5. (\E n \in 1..3 : n <= e /\ NewlineAt(s, e - n, n)) <=>
        \/ "LF" \in s.flags /\ b[e] = 10
        \/ "CR" \in s.flags /\ b[e] = 13
        \/ "CRLF" \in s.flags /\ e >= 2 /\ b[e - 1] = 13 /\ b[e] = 10
        \/ "UNICODE" \in s.flags /\ \/ e >= 2 /\ b[e - 1] = 194 /\ b[e] = 133
                                    \/ e >= 3 /\ b[e - 2] = 226 /\ b[e - 1] = 128 /\ b[e] \in {168, 169}
  <2>1. NewlineAt(s, e - 1, 1) <=> ("LF" \in s.flags /\ b[e] = 10) \/ ("CR" \in s.flags /\ b[e] = 13)
    BY <1>1 DEF NewlineAt
  <2>2. NewlineAt(s, e - 2, 2) <=> \/ "CRLF" \in s.flags /\ b[e - 1] = 13 /\ b[e] = 10
                                   \/ "UNICODE" \in s.flags /\ b[e - 1] = 194 /\ b[e] = 133
    BY <1>1 DEF NewlineAt
  <2>3. NewlineAt(s, e - 3, 3) <=> "UNICODE" \in s.flags /\ b[e - 2] = 226 /\ b[e - 1] = 128 /\ b[e] \in {168, 169}
    BY <1>1 DEF NewlineAt
  <2>4. 1..3 = {1, 2, 3}
    OBVIOUS
  <2> QED BY <2>1, <2>2, <2>3, <2>4
<1>6. /\ EndsWith(b, e, Lf) <=> b[e] = 10
      /\ EndsWith(b, e, Cr) <=> b[e] = 13
      /\ EndsWith(b, e, Crlf) <=> e >= 2 /\ b[e - 1] = 13 /\ b[e] = 10
      /\ EndsWith(b, e, NelText) <=> e >= 2 /\ b[e - 1] = 194 /\ b[e] = 133
      /\ EndsWith(b, e, SepText) <=> e >= 3 /\ b[e - 2] = 226 /\ b[e - 1] = 128 /\ b[e] = 168
      /\ EndsWith(b, e, ParText) <=> e >= 3 /\ b[e - 2] = 226 /\ b[e - 1] = 128 /\ b[e] = 169
  BY <1>1, TextsEnd
<1>7. (\E text \in whole : EndsWith(b, e, text)) <=> \E n \in 1..3 : n <= e /\ NewlineAt(s, e - n, n)
  <2> HIDE DEF whole
  <2> QED BY <1>4, <1>5, <1>6
<1>8. HalfCrlf(s, e) <=> Crlf \in whole /\ EndsWith(b, e, Cr) /\ EndsWith(b, e + 1, Crlf)
  BY <1>3, <1>6, TextsAre DEF HalfCrlf
<1> QED BY <1>2, <1>7, <1>8
-----------------------------------------------------------------------------
(* What is known of the bytes of one newline.                              *)
LEMMA NewlineBytes ==
  ASSUME NEW s, NEW i \in Nat, NEW n \in 1..3, NewlineAt(s, i, n)
  PROVE  LET b == s.bytes
         IN  /\ i + n <= Len(b)
             /\ b[i + 1] \in {10, 13, 194, 226}
             /\ n = 1 => b[i + 1] \in {10, 13}
             /\ n = 2 => b[i + 2] \in {10, 133}
             /\ n = 3 => b[i + 2] = 128 /\ b[i + 3] \in {168, 169}
             /\ b[i + 1] = 10 => n = 1
BY DEF NewlineAt

(* The pass goes from newline to newline: none is entered in its middle.   *)
Within(s, a) == \E i \in 0..a - 1, n \in 1..3 : i + n > a /\ NewlineAt(s, i, n)

LEMMA PassesOne ==
  ASSUME NEW s \in Sourced, NEW a \in 0..Len(s.bytes) - 1, ~Within(s, a),
         NEW next, next = IF NewlineLen(s, a) = 0 THEN a + 1 ELSE a + NewlineLen(s, a)
  PROVE  /\ next \in a + 1..Len(s.bytes) /\ ~Within(s, next)
         /\ \A e \in a + 1..next : e \in Ends(s) <=> NewlineLen(s, a) # 0 /\ e = next
<1> DEFINE b == s.bytes
           n == NewlineLen(s, a)
<1>1. Len(b) \in Nat
  BY SourceTyped
<1>2. /\ n \in 0..3 /\ (n # 0 => NewlineAt(s, a, n))
      /\ \A m \in 1..3 : NewlineAt(s, a, m) => m <= n
  BY NewlineLenOK
<1> HIDE DEF n
<1>3. next \in a + 1..Len(b) /\ next <= a + 3
  BY <1>1, <1>2 DEF NewlineAt, n
<1>4. ASSUME NEW i \in 0..next - 1, NEW m \in 1..3, i + m > next, NewlineAt(s, i, m) PROVE FALSE
  <2>1. i >= a
    BY <1>3, <1>4 DEF Within
  <2>2. i # a
    BY <1>2, <1>3, <1>4 DEF n
  <2>3. n \in {2, 3} /\ NewlineAt(s, a, n) /\ next = a + n /\ i \in {a + 1, a + 2} /\ i < a + n
    BY <1>2, <1>3, <2>1, <2>2 DEF n
  <2>4. b[i + 1] \in {10, 133, 128, 168, 169}
    BY <2>3 DEF NewlineAt
  <2>5. b[i + 1] = 10 /\ m = 1
    <3>n. i \in Nat /\ m \in 1..3 /\ NewlineAt(s, i, m)
      BY <1>3, <1>4
    <3>1. b[i + 1] \in {10, 13, 194, 226} /\ (b[i + 1] = 10 => m = 1)
      <4>1. \A j \in Nat, k \in 1..3 : NewlineAt(s, j, k) =>
               s.bytes[j + 1] \in {10, 13, 194, 226} /\ (s.bytes[j + 1] = 10 => k = 1)
        BY NewlineBytes
      <4> QED BY <3>n, <4>1
    <3> QED BY <2>4, <3>1
  <2> QED BY <1>4, <2>5
<1>5. ASSUME NEW e \in a + 1..next PROVE e \in Ends(s) <=> n # 0 /\ e = next
  <2>1. e \in 1..Len(b)
    BY <1>1, <1>3
  <2>2. ASSUME e \in Ends(s) PROVE n # 0 /\ e = next
    <3>1. PICK m \in 1..3 : m <= e /\ NewlineAt(s, e - m, m)
      BY <2>1, <2>2, EndsAre
    <3>2. ~HalfCrlf(s, e)
      BY <2>1, <2>2, EndsAre
    <3>3. e - m >= a
      BY <1>3, <3>1 DEF Within
    <3>4. CASE e - m = a
      <4>1. m <= n /\ n # 0 /\ NewlineAt(s, a, m) /\ NewlineAt(s, a, n)
        BY <1>2, <3>1, <3>4
      <4>2. CASE m = n
        BY <3>4, <4>1, <4>2 DEF n
      <4>3. CASE m # n
        <5>1. b[a + 1] = 13 /\ b[a + 2] = 10 /\ "CRLF" \in s.flags /\ m = 1 /\ n = 2
          BY <1>2, <4>1, <4>3 DEF NewlineAt
        <5>2. e = a + 1 /\ a + 2 <= Len(b)
          BY <3>4, <4>1, <5>1 DEF NewlineAt
        <5> QED BY <3>2, <5>1, <5>2 DEF HalfCrlf
      <4> QED BY <4>2, <4>3
    <3>5. CASE e - m > a
      <4>1. n \in {2, 3} /\ NewlineAt(s, a, n) /\ next = a + n /\ e - m \in {a + 1, a + 2} /\ e <= a + n
        BY <1>2, <1>3, <3>5 DEF n
      <4>2. b[e - m + 1] \in {10, 133, 128, 168, 169} /\ (b[e - m + 1] = 10 => n = 2)
        BY <4>1 DEF NewlineAt
      <4>3. b[e - m + 1] = 10 /\ m = 1
        BY <3>1, <4>2 DEF NewlineAt
      <4> QED BY <4>1, <4>2, <4>3
    <3> QED BY <3>3, <3>4, <3>5
  <2>3. ASSUME n # 0, e = next PROVE e \in Ends(s)
    <3>1. e = a + n /\ NewlineAt(s, a, n) /\ e - n = a /\ n \in 1..3 /\ n <= e
      BY <1>2, <2>3 DEF n
    <3>2. ASSUME HalfCrlf(s, e) PROVE FALSE
      <4>1. b[a + n] = 13 /\ b[a + n + 1] = 10 /\ "CRLF" \in s.flags /\ a + n + 1 <= Len(b)
        BY <3>1, <3>2 DEF HalfCrlf
      <4>2. n = 1
        BY <3>1, <4>1 DEF NewlineAt
      <4>3. NewlineAt(s, a, 2)
        BY <1>1, <4>1, <4>2 DEF NewlineAt
      <4> QED BY <1>2, <4>2, <4>3
    <3> QED BY <2>1, <3>1, <3>2, EndsAre
  <2> QED BY <2>2, <2>3
<1> QED BY <1>3, <1>4, <1>5 DEF Within, n
-----------------------------------------------------------------------------
(* The starts of the lines up to `at`: 0 and the ends of the newlines.     *)
Ascending(starts) == \A i, j \in 1..Len(starts) : i < j => starts[i] < starts[j]
LinesTo(s, starts, at) ==
  /\ starts \in Seq(Nat) /\ Len(starts) >= 1 /\ starts[1] = 0
  /\ Ascending(starts)
  /\ \A j \in 2..Len(starts) : starts[j] \in Ends(s) /\ starts[j] <= at
  /\ \A e \in Ends(s) : e <= at => \E j \in 2..Len(starts) : starts[j] = e

Passing == [at : Nat, starts : Seq(Nat), room : Nat]
PassOK(s, v, k) ==
  /\ v.at \in k..Len(s.bytes) /\ ~Within(s, v.at)
  /\ LinesTo(s, v.starts, v.at)
  /\ Len(v.starts) < v.room

LEMMA EndsInside == ASSUME NEW s PROVE \A e \in Ends(s) : e \in 1..Len(s.bytes)
BY DEF Ends

LEMMA PassStartOK ==
  ASSUME NEW s \in Sourced
  PROVE  PassStart(s) \in Passing /\ PassOK(s, PassStart(s), 0)
<1> DEFINE v == PassStart(s)
           len == Len(s.bytes)
<1>1. len \in Nat
  BY SourceTyped
<1>2. len \div LineBytes \in Nat
  <2> HIDE DEF len
  <2> QED BY <1>1, SourceConstants
<1>3. v.at = 0 /\ v.starts = <<0>> /\ v.room \in Nat /\ v.room > 1 /\ v \in Passing
  <2>1. (len \div LineBytes) + MinLines \in Nat /\ (len \div LineBytes) + MinLines > 1
    <3> DEFINE lines == len \div LineBytes
    <3> HIDE DEF lines
    <3> SUFFICES lines + MinLines \in Nat /\ lines + MinLines > 1
      BY DEF lines
    <3>1. lines \in Nat
      BY <1>2 DEF lines
    <3>2. MinLines \in Nat /\ MinLines > 1
      BY SourceConstants
    <3> QED BY <3>1, <3>2
  <2>2. v = [at |-> 0, starts |-> <<0>>, room |-> (len \div LineBytes) + MinLines]
    BY DEF PassStart
  <2> DEFINE room == (len \div LineBytes) + MinLines
  <2> HIDE DEF v, room
  <2>3. v = [at |-> 0, starts |-> <<0>>, room |-> room]
    BY <2>2 DEF room
  <2>4. <<0>> \in Seq(Nat)
    OBVIOUS
  <2>5. room \in Nat /\ room > 1
    BY <2>1 DEF room
  <2> QED BY <2>3, <2>4, <2>5 DEF Passing
<1> HIDE DEF v
<1>4. ~Within(s, 0)
  BY DEF Within
<1>5. LinesTo(s, <<0>>, 0)
  BY EndsInside DEF LinesTo, Ascending
<1> QED BY <1>1, <1>3, <1>4, <1>5 DEF PassOK, v

LEMMA LinesAppend ==
  ASSUME NEW s, NEW starts, NEW at \in Nat, NEW next \in Nat, at < next, LinesTo(s, starts, at),
         next \in Ends(s), \A e \in at + 1..next : e \in Ends(s) => e = next
  PROVE  LinesTo(s, Append(starts, next), next)
<1> DEFINE new == Append(starts, next)
           len == Len(starts)
<1>1. /\ starts \in Seq(Nat) /\ len \in Nat /\ len >= 1 /\ starts[1] = 0 /\ Ascending(starts)
      /\ \A j \in 2..len : starts[j] \in Ends(s) /\ starts[j] <= at
      /\ \A e \in Ends(s) : e <= at => \E j \in 2..len : starts[j] = e
  BY DEF LinesTo
<1>2. \A i \in 1..len : starts[i] \in Nat /\ starts[i] <= at
  <2> TAKE i \in 1..len
  <2>1. CASE i = 1
    BY <1>1, <2>1
  <2>2. CASE i # 1
    BY <1>1, <2>2
  <2> QED BY <2>1, <2>2
<1>3. /\ new \in Seq(Nat) /\ Len(new) = len + 1 /\ new[len + 1] = next
      /\ \A i \in 1..len : new[i] = starts[i]
  BY <1>1, AppendProperties
<1> HIDE DEF new, len
<1>4. new[1] = 0
  BY <1>1, <1>3
<1>5. Ascending(new)
  <2>1. \A i, j \in 1..len : i < j => starts[i] < starts[j]
    BY <1>1 DEF Ascending, len
  <2> SUFFICES ASSUME NEW i \in 1..len + 1, NEW j \in 1..len + 1, i < j PROVE new[i] < new[j]
    BY <1>3 DEF Ascending
  <2>2. CASE j = len + 1
    BY <1>1, <1>2, <1>3, <2>2
  <2>3. CASE j # len + 1
    BY <1>1, <1>3, <2>1, <2>3
  <2> QED BY <2>2, <2>3
<1>6. \A j \in 2..len + 1 : new[j] \in Ends(s) /\ new[j] <= next
  <2> TAKE j \in 2..len + 1
  <2>1. CASE j = len + 1
    BY <1>3, <2>1
  <2>2. CASE j # len + 1
    <3>1. j \in 2..len /\ j \in 1..len
      BY <1>1, <2>2
    <3>2. new[j] = starts[j] /\ starts[j] \in Nat /\ starts[j] <= at
      BY <1>2, <1>3, <3>1
    <3>3. starts[j] \in Ends(s)
      BY <1>1, <3>1
    <3> QED BY <3>2, <3>3
  <2> QED BY <2>1, <2>2
<1>7. ASSUME NEW e \in Ends(s), e <= next PROVE \E j \in 2..len + 1 : new[j] = e
  <2>0. e \in Nat
    BY EndsInside
  <2>1. CASE e <= at
    <3>1. PICK j \in 2..len : starts[j] = e
      BY <1>1, <2>1
    <3>2. j \in 2..len + 1 /\ j \in 1..len
      BY <1>1
    <3> QED BY <1>3, <3>1, <3>2
  <2>2. CASE e > at
    <3>1. e = next
      BY <1>7, <2>0, <2>2
    <3>2. len + 1 \in 2..len + 1
      BY <1>1
    <3> QED BY <1>3, <3>1, <3>2
  <2> QED BY <2>0, <2>1, <2>2
<1> QED BY <1>1, <1>3, <1>4, <1>5, <1>6, <1>7 DEF LinesTo, new

LEMMA LinesKeep ==
  ASSUME NEW s, NEW starts, NEW at \in Nat, LinesTo(s, starts, at), at + 1 \notin Ends(s)
  PROVE  LinesTo(s, starts, at + 1)
<1>1. /\ starts \in Seq(Nat) /\ Len(starts) >= 1 /\ starts[1] = 0 /\ Ascending(starts)
      /\ \A j \in 2..Len(starts) : starts[j] \in Ends(s) /\ starts[j] <= at
      /\ \A e \in Ends(s) : e <= at => \E j \in 2..Len(starts) : starts[j] = e
  BY DEF LinesTo
<1>2. \A j \in 2..Len(starts) : starts[j] \in Ends(s) /\ starts[j] <= at + 1
  BY <1>1, EndsInside
<1>3. \A e \in Ends(s) : e <= at + 1 => e <= at
  BY EndsInside
<1> QED BY <1>1, <1>2, <1>3 DEF LinesTo

LEMMA PassOnOK ==
  ASSUME NEW s \in Sourced, NEW v \in Passing
  PROVE  /\ PassOn(s, v) \in Passing
         /\ \A k \in 0..Len(s.bytes) - 1 : PassOK(s, v, k) => PassOK(s, PassOn(s, v), k + 1)
<1> DEFINE len  == Len(s.bytes)
           at   == v.at
           n    == NewlineLen(s, at)
           next == IF n = 0 THEN at + 1 ELSE at + n
           new  == PassOn(s, v)
           lines == Len(v.starts)
<1>1. len \in Nat /\ at \in Nat /\ v.starts \in Seq(Nat) /\ v.room \in Nat /\ lines \in Nat
  BY SourceTyped DEF Passing
<1>2. CASE at >= len
  <2>1. new = v
    BY <1>2 DEF PassOn
  <2>2. ASSUME NEW k \in 0..len - 1, PassOK(s, v, k) PROVE PassOK(s, v, k + 1)
    BY <1>1, <1>2, <2>2 DEF PassOK
  <2> HIDE DEF new
  <2> QED BY <2>1, <2>2 DEF new
<1>3. CASE at < len
  <2>1. at \in 0..len - 1 /\ n \in 0..3
    <3>1. at \in 0..len - 1
      BY <1>1, <1>3
    <3> QED BY <3>1, NewlineLenOK
  <2>2. CASE n = 0
    <3>1. new = [v EXCEPT !.at = at + 1]
      BY <1>1, <1>3, <2>2 DEF PassOn
    <3>2. /\ new.at = at + 1 /\ new.starts = v.starts /\ new.room = v.room
          /\ new \in Passing
      <4> HIDE DEF new
      <4> QED BY <1>1, <3>1 DEF Passing
    <3> HIDE DEF new, n
    <3>3. ASSUME NEW k \in 0..len - 1, PassOK(s, v, k) PROVE PassOK(s, new, k + 1)
      <4>1. /\ ~Within(s, at) /\ at \in k..len /\ LinesTo(s, v.starts, at) /\ lines < v.room
        BY <3>3 DEF PassOK
      <4>2. /\ at + 1 \in at + 1..len /\ ~Within(s, at + 1)
            /\ \A e \in at + 1..at + 1 : e \notin Ends(s)
        <5>1. at + 1 = IF NewlineLen(s, at) = 0 THEN at + 1 ELSE at + NewlineLen(s, at)
          BY <2>2 DEF n
        <5> QED BY <2>1, <2>2, <4>1, <5>1, PassesOne DEF n
      <4>3. at + 1 \notin Ends(s)
        BY <1>1, <4>2
      <4>4. LinesTo(s, v.starts, at + 1)
        BY <1>1, <4>1, <4>3, LinesKeep
      <4>5. at + 1 \in k + 1..len
        BY <1>1, <4>1, <4>2
      <4> QED BY <3>2, <4>1, <4>2, <4>4, <4>5 DEF PassOK
    <3> QED BY <3>2, <3>3 DEF new
  <2>3. CASE n # 0
    <3>1. new = [at |-> at + n, starts |-> Append(v.starts, at + n), room |-> Room(lines, v.room)]
      BY <1>1, <1>3, <2>3 DEF PassOn
    <3>2. at + n \in Nat /\ Append(v.starts, at + n) \in Seq(Nat) /\ Room(lines, v.room) \in Nat
          /\ Len(Append(v.starts, at + n)) = lines + 1
      <4>1. at + n \in Nat
        BY <1>1, <2>1
      <4>2. Room(lines, v.room) \in Nat
        BY <1>1 DEF Room
      <4> HIDE DEF n
      <4> QED BY <1>1, <4>1, <4>2
    <3>3. /\ new.at = at + n /\ new.starts = Append(v.starts, at + n) /\ new.room = Room(lines, v.room)
          /\ new \in Passing
      <4> HIDE DEF new, n
      <4> QED BY <3>1, <3>2 DEF Passing
    <3> HIDE DEF new, n
    <3>4. ASSUME NEW k \in 0..len - 1, PassOK(s, v, k) PROVE PassOK(s, new, k + 1)
      <4>1. /\ ~Within(s, at) /\ at \in k..len /\ LinesTo(s, v.starts, at) /\ lines < v.room
            /\ lines >= 1
        BY <3>4 DEF PassOK, LinesTo
      <4>2. /\ at + n \in at + 1..len /\ ~Within(s, at + n)
            /\ \A e \in at + 1..at + n : e \in Ends(s) <=> e = at + n
        <5>1. at + n = IF NewlineLen(s, at) = 0 THEN at + 1 ELSE at + NewlineLen(s, at)
          BY <2>3 DEF n
        <5>2. NewlineLen(s, at) # 0
          BY <2>3 DEF n
        <5> DEFINE after == at + n
        <5> HIDE DEF after
        <5>3. /\ after \in at + 1..len /\ ~Within(s, after)
              /\ \A e \in at + 1..after : e \in Ends(s) <=> NewlineLen(s, at) # 0 /\ e = after
          <6>1. after = IF NewlineLen(s, at) = 0 THEN at + 1 ELSE at + NewlineLen(s, at)
            BY <5>1 DEF after
          <6> QED BY <2>1, <4>1, <6>1, PassesOne
        <5> QED BY <5>2, <5>3 DEF after
      <4>3. LinesTo(s, Append(v.starts, at + n), at + n)
        <5>1. at + n \in Ends(s) /\ at < at + n
          <6> DEFINE after == at + n
          <6>0. n \in Nat /\ at \in Nat /\ n >= 1
            BY <1>1, <2>1, <2>3
          <6>1. after \in at + 1..after /\ at < after
            <7> HIDE DEF at
            <7> QED BY <6>0
          <6>2. \A e \in at + 1..after : e \in Ends(s) <=> e = after
            BY <4>2
          <6> HIDE DEF after
          <6>3. after \in Ends(s)
            BY <6>1, <6>2
          <6> QED BY <6>1, <6>3 DEF after
        <5> QED BY <1>1, <3>2, <4>1, <4>2, <5>1, LinesAppend
      <4>4. lines + 1 < Room(lines, v.room)
        <5> DEFINE room == v.room
        <5>1. lines + 1 < IF lines + 1 >= room THEN 2 * room ELSE room
          <6> HIDE DEF lines, room
          <6>1. lines \in Nat /\ room \in Nat /\ lines < room /\ lines >= 1
            BY <1>1, <4>1 DEF lines, room
          <6> QED BY <6>1
        <5> QED BY <5>1 DEF Room
      <4>5. at + n \in k + 1..len
        BY <1>1, <2>1, <4>1, <4>2
      <4> QED BY <3>2, <3>3, <4>2, <4>3, <4>4, <4>5 DEF PassOK
    <3> QED BY <3>3, <3>4 DEF new
  <2> QED BY <2>2, <2>3
<1> QED BY <1>1, <1>2, <1>3
-----------------------------------------------------------------------------
(* What the pass leaves: the table of a source.                            *)
RightTable(s, table) ==
  /\ table \in Tabled
  /\ LinesTo(s, table.starts, Len(s.bytes))
  /\ Len(table.starts) < table.room
  /\ table.end = Len(s.bytes)

LEMMA PassRight ==
  ASSUME NEW s \in Sourced
  PROVE  Pass(s) \in Passing /\ PassOK(s, Pass(s), Len(s.bytes))
<1> DEFINE n == Len(s.bytes)
           base == PassStart(s)
           step == [k \in 1..n |-> [v \in Passing |-> PassOn(s, v)]]
           Moved(f) == f = [k \in 0..Len(s.bytes) |-> IF k = 0 THEN PassStart(s) ELSE PassOn(s, f[k - 1])]
           pass == CHOOSE f : Moved(f)
<1>1. n \in Nat
  BY SourceTyped
<1>2. base \in Passing /\ PassOK(s, base, 0)
  BY PassStartOK
<1>3. step \in [1..n -> [Passing -> Passing]]
  BY PassOnOK
<1>4. \E f : Moved(f) /\ f \in [0..n -> Passing]
  <2>1. PICK f : Follows(f, Passing, n, base, step)
    <3>1. StaysIn(Passing, n, base, step)
      BY <1>2, <1>3 DEF StaysIn
    <3> HIDE DEF base, step, n
    <3> QED BY <1>1, <3>1, RecursionExists
  <2>2. f \in [0..n -> Passing] /\ \A k \in 1..n : f[k - 1] \in Passing
    BY <1>1, <2>1 DEF Follows
  <2>3. f = [k \in 0..n |-> IF k = 0 THEN base ELSE PassOn(s, f[k - 1])]
    <3> HIDE DEF n, base
    <3>1. \A k \in 1..n : step[k][f[k - 1]] = PassOn(s, f[k - 1])
      BY <2>2
    <3> HIDE DEF step
    <3>2. f[0] = base /\ \A k \in 1..n : f[k] = PassOn(s, f[k - 1])
      BY <2>1, <3>1 DEF Follows
    <3>3. \A k \in 0..n : f[k] = IF k = 0 THEN base ELSE PassOn(s, f[k - 1])
      BY <1>1, <3>2
    <3> QED BY <2>2, <3>3
  <2> QED BY <2>2, <2>3
<1>5. Moved(pass)
  <2> HIDE DEF Moved
  <2> QED BY <1>4
<1>6. Pass(s) = pass[n]
  BY DEF Pass
<1>7. pass[0] = base /\ \A k \in 1..n : pass[k] = PassOn(s, pass[k - 1])
  <2> HIDE DEF pass
  <2> QED BY <1>1, <1>5
<1> HIDE DEF pass, base
<1> DEFINE S == {k \in 0..n : pass[k] \in Passing /\ PassOK(s, pass[k], k)}
<1>8. 0 \in S
  BY <1>1, <1>2, <1>7
<1>9. ASSUME NEW k \in 0..n - 1, k \in S PROVE k + 1 \in S
  <2>1. pass[k + 1] = PassOn(s, pass[k])
    <3>1. k + 1 \in 1..n /\ k + 1 - 1 = k
      BY <1>1
    <3> QED BY <1>7, <3>1
  <2>2. PassOn(s, pass[k]) \in Passing /\ PassOK(s, PassOn(s, pass[k]), k + 1)
    BY <1>9, PassOnOK
  <2> QED BY <1>1, <2>1, <2>2
<1>10. n \in S
  <2> HIDE DEF S, n
  <2>1. 0..n \subseteq S
    BY <1>1, <1>8, <1>9, BoundedInduction
  <2> QED BY <1>1, <2>1
<1> QED BY <1>6, <1>10

\* What ensure_line_offsets leaves of a source that has no table yet.
LEMMA TablesRight ==
  ASSUME NEW s \in Sourced, NEW table \in Tables(s), s.table = NoTable
  PROVE  table = NoTable \/ RightTable(s, table)
<1> DEFINE v == Pass(s)
<1>1. /\ v.at = Len(s.bytes) /\ v.starts \in Seq(Nat) /\ v.room \in Nat
      /\ LinesTo(s, v.starts, Len(s.bytes)) /\ Len(v.starts) < v.room /\ Len(s.bytes) \in Nat
  <2>1. Len(s.bytes) \in Nat
    BY SourceTyped
  <2>2. v \in Passing /\ PassOK(s, v, Len(s.bytes))
    BY PassRight
  <2> HIDE DEF v
  <2>3. v.at = Len(s.bytes)
    BY <2>1, <2>2 DEF PassOK
  <2> QED BY <2>1, <2>2, <2>3 DEF PassOK, Passing
<1>2. table # NoTable => table = [starts |-> v.starts, end |-> Len(s.bytes), room |-> v.room]
  BY DEF Tables
<1> HIDE DEF v
<1> QED BY <1>1, <1>2 DEF RightTable, Tabled

LEMMA NoTableTyped == NoTable \in Tabled
BY DEF NoTable, Tabled

LEMMA TablesTyped ==
  ASSUME NEW s \in Sourced
  PROVE  Tables(s) \subseteq Tabled
<1> SUFFICES ASSUME NEW table \in Tables(s) PROVE table \in Tabled
  OBVIOUS
<1>1. CASE s.table # NoTable
  BY <1>1, SourceTyped DEF Tables
<1>2. CASE s.table = NoTable
  BY <1>2, TablesRight, NoTableTyped DEF RightTable
<1> QED BY <1>1, <1>2

LEMMA NewSourceTyped ==
  ASSUME NEW bytes \in Seq(Byte), NEW flags \in SUBSET Newlines
  PROVE  /\ NewSource(bytes, flags) \in Sourced
         /\ NewSource(bytes, flags).bytes = bytes
         /\ NewSource(bytes, flags).table = NoTable
BY DEF NewSource, Sourced, Tabled, Policy, NoTable, Newlines
-----------------------------------------------------------------------------
(* The search of kavak_source_pos finds the line of the query: the last    *)
(* one that does not start after it.                                       *)
Ranges(n) == [lo : 0..n, hi : 0..n]
Holds(starts, query, r, k) ==
  /\ r.lo < r.hi /\ starts[r.lo + 1] <= query
  /\ r.hi = Len(starts) \/ starts[r.hi + 1] > query
  /\ r.hi - r.lo <= 1 \/ r.hi - r.lo <= Len(starts) - k

LEMMA HalvedOK ==
  ASSUME NEW starts \in Seq(Nat), NEW query \in Nat, NEW r \in Ranges(Len(starts))
  PROVE  /\ Halved(starts, query, r) \in Ranges(Len(starts))
         /\ \A k \in 0..Len(starts) - 1 :
              Holds(starts, query, r, k) => Holds(starts, query, Halved(starts, query, r), k + 1)
<1> DEFINE n   == Len(starts)
           lo  == r.lo
           hi  == r.hi
           mid == lo + ((hi - lo) \div 2)
           new == Halved(starts, query, r)
<1>1. n \in Nat /\ lo \in 0..n /\ hi \in 0..n
  BY DEF Ranges
<1>0. \A k : Holds(starts, query, r, k) <=>
        /\ lo < hi /\ starts[lo + 1] <= query
        /\ hi = n \/ starts[hi + 1] > query
        /\ hi - lo <= 1 \/ hi - lo <= n - k
  BY DEF Holds
<1>2. CASE lo + 1 >= hi
  <2>1. new = r
    BY <1>2 DEF Halved
  <2>2. ASSUME NEW k \in 0..n - 1, Holds(starts, query, r, k) PROVE Holds(starts, query, r, k + 1)
    <3> HIDE DEF lo, hi, n
    <3> QED BY <1>0, <1>1, <1>2, <2>2
  <2> HIDE DEF new
  <2> QED BY <2>1, <2>2 DEF new
<1>3. CASE lo + 1 < hi
  <2>1. mid \in lo + 1..hi - 1
    <3> HIDE DEF lo, hi
    <3> QED BY <1>1, <1>3
  <2>2. CASE starts[mid + 1] <= query
    <3>1. new = [r EXCEPT !.lo = mid]
      <4>1. new = IF lo + 1 >= hi THEN r ELSE IF starts[mid + 1] <= query
                  THEN [r EXCEPT !.lo = mid] ELSE [r EXCEPT !.hi = mid]
        BY DEF Halved
      <4>2. ~(lo + 1 >= hi)
        BY <1>1, <1>3
      <4> HIDE DEF new, mid
      <4> QED BY <2>2, <4>1, <4>2
    <3> HIDE DEF mid, new
    <3>2. new.lo = mid /\ new.hi = hi /\ new \in Ranges(n)
      <4>1. mid \in 0..n
        <5> HIDE DEF lo, hi
        <5> QED BY <1>1, <2>1
      <4> QED BY <3>1, <4>1 DEF Ranges
    <3>3. ASSUME NEW k \in 0..n - 1, Holds(starts, query, r, k) PROVE Holds(starts, query, new, k + 1)
      <4>1. starts[hi + 1] > query \/ hi = n
        BY <3>3 DEF Holds
      <4>2. hi - lo <= n - k
        <5> HIDE DEF lo, hi, n
        <5> QED BY <1>0, <1>1, <1>3, <3>3
      <4>3. mid < hi /\ (hi - mid <= 1 \/ hi - mid <= n - (k + 1))
        <5> HIDE DEF lo, hi, n
        <5> QED BY <1>1, <2>1, <4>2
      <4> QED BY <2>2, <3>2, <4>1, <4>3 DEF Holds
    <3> QED BY <3>2, <3>3 DEF new
  <2>3. CASE ~(starts[mid + 1] <= query)
    <3>1. new = [r EXCEPT !.hi = mid]
      <4>1. new = IF lo + 1 >= hi THEN r ELSE IF starts[mid + 1] <= query
                  THEN [r EXCEPT !.lo = mid] ELSE [r EXCEPT !.hi = mid]
        BY DEF Halved
      <4>2. ~(lo + 1 >= hi)
        BY <1>1, <1>3
      <4> HIDE DEF new, mid
      <4> QED BY <2>3, <4>1, <4>2
    <3>2. starts[mid + 1] > query
      <4> HIDE DEF mid
      <4>1. mid + 1 \in 1..n
        <5> HIDE DEF lo, hi
        <5> QED BY <1>1, <2>1
      <4>2. starts[mid + 1] \in Nat
        BY <4>1
      <4> QED BY <2>3, <4>2
    <3> HIDE DEF mid, new
    <3>3. new.lo = lo /\ new.hi = mid /\ new \in Ranges(n)
      <4>1. mid \in 0..n
        <5> HIDE DEF lo, hi
        <5> QED BY <1>1, <2>1
      <4> QED BY <3>1, <4>1 DEF Ranges
    <3>4. ASSUME NEW k \in 0..n - 1, Holds(starts, query, r, k) PROVE Holds(starts, query, new, k + 1)
      <4>1. starts[lo + 1] <= query
        BY <3>4 DEF Holds
      <4>2. hi - lo <= n - k
        <5> HIDE DEF lo, hi, n
        <5> QED BY <1>0, <1>1, <1>3, <3>4
      <4>3. lo < mid /\ (mid - lo <= 1 \/ mid - lo <= n - (k + 1))
        <5> HIDE DEF lo, hi, n
        <5> QED BY <1>1, <2>1, <4>2
      <4> QED BY <3>2, <3>3, <4>1, <4>3 DEF Holds
    <3> QED BY <3>3, <3>4 DEF new
  <2> QED BY <2>2, <2>3
<1> QED BY <1>1, <1>2, <1>3

\* Where the search ends.
Found(starts, query) ==
  LET range[k \in 0..Len(starts)] ==
        IF k = 0 THEN [lo |-> 0, hi |-> Len(starts)] ELSE Halved(starts, query, range[k - 1])
  IN  range[Len(starts)].lo

LEMMA SearchFinds ==
  ASSUME NEW starts \in Seq(Nat), NEW query \in Nat, Len(starts) >= 1, starts[1] = 0
  PROVE  LET lo == Found(starts, query)
         IN  /\ lo \in 0..Len(starts) - 1 /\ starts[lo + 1] <= query
             /\ lo + 1 = Len(starts) \/ starts[lo + 1 + 1] > query
<1> DEFINE n == Len(starts)
           base == [lo |-> 0, hi |-> Len(starts)]
           step == [k \in 1..n |-> [r \in Ranges(n) |-> Halved(starts, query, r)]]
           Moved(f) == f = [k \in 0..Len(starts) |->
                              IF k = 0 THEN [lo |-> 0, hi |-> Len(starts)] ELSE Halved(starts, query, f[k - 1])]
           range == CHOOSE f : Moved(f)
<1>1. n \in Nat /\ n >= 1
  OBVIOUS
<1>2. base \in Ranges(n) /\ Holds(starts, query, base, 0)
  <2>1. base.lo = 0 /\ base.hi = n /\ base \in Ranges(n)
    BY <1>1 DEF Ranges
  <2> HIDE DEF base
  <2> QED BY <1>1, <2>1 DEF Holds
<1>3. step \in [1..n -> [Ranges(n) -> Ranges(n)]]
  BY HalvedOK
<1>4. \E f : Moved(f) /\ f \in [0..n -> Ranges(n)]
  <2>1. PICK f : Follows(f, Ranges(n), n, base, step)
    <3>1. StaysIn(Ranges(n), n, base, step)
      BY <1>2, <1>3 DEF StaysIn
    <3> HIDE DEF base, step, n
    <3> QED BY <1>1, <3>1, RecursionExists
  <2>2. f \in [0..n -> Ranges(n)] /\ \A k \in 1..n : f[k - 1] \in Ranges(n)
    <3> HIDE DEF base, step
    <3>1. f \in [0..n -> Ranges(n)]
      BY <2>1 DEF Follows
    <3>2. \A k \in 1..n : k - 1 \in 0..n
      BY <1>1
    <3> HIDE DEF n
    <3> QED BY <3>1, <3>2
  <2>3. f = [k \in 0..n |-> IF k = 0 THEN base ELSE Halved(starts, query, f[k - 1])]
    <3> HIDE DEF n, base
    <3>1. \A k \in 1..n : step[k][f[k - 1]] = Halved(starts, query, f[k - 1])
      BY <2>2
    <3> HIDE DEF step
    <3>2. f[0] = base /\ \A k \in 1..n : f[k] = Halved(starts, query, f[k - 1])
      BY <2>1, <3>1 DEF Follows
    <3>3. \A k \in 0..n : f[k] = IF k = 0 THEN base ELSE Halved(starts, query, f[k - 1])
      BY <1>1, <3>2
    <3> QED BY <2>2, <3>3
  <2> QED BY <2>2, <2>3
<1>5. Moved(range)
  <2> HIDE DEF Moved
  <2> QED BY <1>4
<1>6. Found(starts, query) = range[n].lo
  BY DEF Found
<1>7. range[0] = base /\ \A k \in 1..n : range[k] = Halved(starts, query, range[k - 1])
  <2>1. range = [k \in 0..n |-> IF k = 0 THEN base ELSE Halved(starts, query, range[k - 1])]
    <3> HIDE DEF range
    <3> QED BY <1>5
  <2> HIDE DEF range, base, n
  <2> QED BY <1>1, <2>1
<1> HIDE DEF range, base
<1> DEFINE S == {k \in 0..n : range[k] \in Ranges(n) /\ Holds(starts, query, range[k], k)}
<1>8. 0 \in S
  BY <1>1, <1>2, <1>7
<1>9. ASSUME NEW k \in 0..n - 1, k \in S PROVE k + 1 \in S
  <2>1. range[k + 1] = Halved(starts, query, range[k])
    <3>1. k + 1 \in 1..n /\ k + 1 - 1 = k
      BY <1>1
    <3> QED BY <1>7, <3>1
  <2>2. /\ Halved(starts, query, range[k]) \in Ranges(n)
        /\ Holds(starts, query, Halved(starts, query, range[k]), k + 1)
    BY <1>9, HalvedOK
  <2> QED BY <1>1, <2>1, <2>2
<1>10. n \in S
  <2> HIDE DEF S, n
  <2>1. 0..n \subseteq S
    BY <1>1, <1>8, <1>9, BoundedInduction
  <2> QED BY <1>1, <2>1
<1> DEFINE r  == range[n]
           lo == r.lo
           hi == r.hi
<1>11. /\ lo \in 0..n /\ hi \in 0..n /\ lo < hi /\ starts[lo + 1] <= query
       /\ hi = n \/ starts[hi + 1] > query
       /\ hi - lo <= 1 \/ hi - lo <= n - n
  <2>1. r \in Ranges(n) /\ Holds(starts, query, r, n)
    BY <1>10
  <2> HIDE DEF r
  <2> QED BY <2>1 DEF Ranges, Holds
<1>12. hi = lo + 1
  <2> HIDE DEF lo, hi
  <2> QED BY <1>1, <1>11
<1> HIDE DEF r
<1> QED BY <1>1, <1>6, <1>11, <1>12 DEF r

(* The position told by the table is what the newlines before the byte     *)
(* make it.                                                                *)
LEMMA PosRight ==
  ASSUME NEW s \in Sourced, NEW p \in Nat, s.table # NoTable, RightTable(s, s.table)
  PROVE  Pos(s, p) = TruePos(s, p)
<1> DEFINE len    == Len(s.bytes)
           starts == s.table.starts
           query  == IF p > len THEN len ELSE p
           lo     == Found(starts, query)
           n      == Len(starts)
           passed == {e \in Ends(s) : e <= query}
           start  == IF passed = {} THEN 0 ELSE CHOOSE e \in passed : \A d \in passed : d <= e
<1>1. len \in Nat /\ query \in Nat /\ query <= len
  BY SourceTyped
<1>2. /\ starts \in Seq(Nat) /\ n \in Nat /\ n >= 1 /\ starts[1] = 0 /\ Ascending(starts)
      /\ \A j \in 2..n : starts[j] \in Ends(s)
      /\ \A e \in Ends(s) : e <= len => \E j \in 2..n : starts[j] = e
  BY DEF RightTable, LinesTo
<1>3. Pos(s, p) = <<lo + 1, query - starts[lo + 1] + 1>>
  <2>1. Pos(s, p) = IF s.table = NoTable THEN <<1, 1>> ELSE <<lo + 1, query - starts[lo + 1] + 1>>
    BY Zenon DEF Pos, Found
  <2> HIDE DEF lo, starts, query
  <2> QED BY <2>1
<1>4. TruePos(s, p) = <<Cardinality(passed) + 1, query - start + 1>>
  BY DEF TruePos
<1>5. /\ lo \in 0..n - 1 /\ starts[lo + 1] <= query
      /\ lo + 1 = n \/ starts[lo + 1 + 1] > query
  <2> HIDE DEF starts, query
  <2> QED BY <1>1, <1>2, SearchFinds
<1> HIDE DEF len, starts, query, lo, start
<1>6. \A i \in 1..n : starts[i] \in Nat
  BY <1>2
<1>7. \A i, j \in 1..n : i < j => starts[i] < starts[j]
  BY <1>2 DEF Ascending
<1>8. \A j \in 1..n : starts[j] <= query <=> j <= lo + 1
  <2> TAKE j \in 1..n
  <2>1. lo + 1 \in 1..n /\ lo \in Nat
    BY <1>2, <1>5
  <2>2. CASE j < lo + 1
    BY <1>1, <1>5, <1>6, <1>7, <2>1, <2>2
  <2>3. CASE j = lo + 1
    BY <1>5, <2>1, <2>3
  <2>4. CASE j > lo + 1
    <3>1. lo + 1 + 1 \in 1..n /\ starts[lo + 1 + 1] > query
      BY <1>2, <1>5, <2>1, <2>4
    <3> DEFINE m == lo + 1 + 1
    <3>2. m \in 1..n /\ starts[m] > query /\ (j = m \/ m < j)
      BY <1>2, <2>1, <2>4, <3>1
    <3> HIDE DEF m
    <3>3. starts[m] <= starts[j]
      BY <1>6, <1>7, <3>2
    <3>4. ~(starts[j] <= query)
      BY <1>1, <1>6, <3>2, <3>3
    <3> QED BY <2>1, <2>4, <3>4
  <2> QED BY <2>1, <2>2, <2>3, <2>4
<1> DEFINE place == [j \in 1..lo |-> starts[j + 1]]
<1>9. place \in Bijection(1..lo, passed)
  <2>1. lo \in Nat /\ \A j \in 1..lo : j + 1 \in 2..n /\ j + 1 \in 1..n /\ j + 1 <= lo + 1
    BY <1>2, <1>5
  <2>2. \A j \in 1..lo : starts[j + 1] \in passed
    BY <1>2, <1>8, <2>1
  <2>3. place \in [1..lo -> passed]
    <3> HIDE DEF passed
    <3> QED BY <2>2
  <2>4. \A i, j \in 1..lo : place[i] = place[j] => i = j
    <3> SUFFICES ASSUME NEW i \in 1..lo, NEW j \in 1..lo, i # j PROVE starts[i + 1] # starts[j + 1]
      OBVIOUS
    <3>1. i + 1 \in 1..n /\ j + 1 \in 1..n /\ (i + 1 < j + 1 \/ j + 1 < i + 1)
      BY <2>1
    <3> DEFINE a == i + 1
               b == j + 1
    <3> HIDE DEF a, b
    <3>2. a \in 1..n /\ b \in 1..n /\ (a < b \/ b < a)
      BY <3>1 DEF a, b
    <3>3. starts[a] # starts[b]
      BY <1>6, <1>7, <3>2
    <3> QED BY <3>3 DEF a, b
  <2>5. ASSUME NEW e \in passed PROVE \E j \in 1..lo : place[j] = e
    <3>1. e \in Ends(s) /\ e <= query /\ e \in Nat /\ e <= len
      BY <1>1, EndsInside DEF len
    <3>2. PICK j \in 2..n : starts[j] = e
      BY <1>2, <3>1
    <3>3. j \in 1..n /\ j - 1 \in 1..lo /\ j - 1 + 1 = j
      <4>1. j \in 1..n
        BY <1>2
      <4>2. j <= lo + 1
        BY <1>8, <3>1, <3>2, <4>1
      <4> QED BY <1>2, <2>1, <4>1, <4>2
    <3>4. place[j - 1] = e
      BY <3>2, <3>3
    <3> QED BY <3>3, <3>4
  <2> HIDE DEF place, passed
  <2>6. place \in Injection(1..lo, passed)
    BY <2>3, <2>4 DEF Injection, IsInjective
  <2>7. place \in Surjection(1..lo, passed)
    BY <2>3, <2>5, Zenon DEF Surjection
  <2> QED BY <2>6, <2>7, Zenon DEF Bijection
<1>10. Cardinality(passed) = lo
  <2> HIDE DEF place, passed
  <2>1. ExistsBijection(1..lo, passed) /\ lo \in Nat
    BY <1>2, <1>5, <1>9 DEF ExistsBijection
  <2> QED BY <2>1, FS_CountingElements
<1>11. start = starts[lo + 1]
  <2>1. CASE lo = 0
    <3>1. passed = {}
      <4> HIDE DEF passed, place
      <4>1. \A e \in passed : \E j \in 1..lo : place[j] = e
        BY <1>9 DEF Bijection, Surjection
      <4> QED BY <2>1, <4>1
    <3> HIDE DEF passed
    <3> QED BY <1>2, <2>1, <3>1 DEF start
  <2>2. CASE lo # 0
    <3> DEFINE last == starts[lo + 1]
    <3>1. lo + 1 \in 2..n /\ lo + 1 \in 1..n
      BY <1>2, <1>5, <2>2
    <3>2. last \in passed /\ last \in Nat
      BY <1>2, <1>5, <1>6, <3>1
    <3>3. \A d \in passed : d <= last
      <4> TAKE d \in passed
      <4>1. d \in Ends(s) /\ d <= query /\ d \in Nat /\ d <= len
        BY <1>1, EndsInside DEF len
      <4>2. PICK j \in 2..n : starts[j] = d
        BY <1>2, <4>1
      <4>3. j \in 1..n /\ j <= lo + 1
        BY <1>2, <1>8, <4>1, <4>2
      <4>4. j = lo + 1 \/ j < lo + 1
        BY <1>5, <4>3
      <4> DEFINE m == lo + 1
      <4>5. m \in 1..n /\ (j = m \/ j < m)
        BY <3>1, <4>4
      <4> HIDE DEF m
      <4>6. starts[j] <= starts[m]
        BY <1>6, <1>7, <4>3, <4>5
      <4> QED BY <4>2, <4>6 DEF m
    <3>4. \A e \in passed : e \in Nat
      BY EndsInside
    <3> HIDE DEF passed, last
    <3>5. \A e \in passed : (\A d \in passed : d <= e) => e = last
      BY <3>2, <3>3, <3>4
    <3>6. start = last
      BY <3>2, <3>3, <3>5 DEF start
    <3> QED BY <3>6 DEF last
  <2> QED BY <2>1, <2>2
<1> QED BY <1>3, <1>4, <1>10, <1>11
-----------------------------------------------------------------------------
(* Sessions and results.                                                   *)

Phases   == {"lex", "parse", "parsing", "sema", "resolving", "done"}
Messages == {"said", "no parser", "parse failed"}
Reported == [msg : Messages, at : Nat]
Type     == (1..MaxTypes) \X Nat

Result == [phase : Phases, source : Sourced, diags : Seq(Reported), lost : BOOLEAN,
           root : BOOLEAN, types : SUBSET Type]
Host   == [phase : {"live"}, lang : Languages, aux : {"none", "empty", "ok"},
           list : Seq(1..MaxTypes), tail : 0..MaxTypes, used : [1..MaxTypes -> 0..ChunkTypes]]

LEMMA Constants ==
  /\ Results \subseteq Nat \ {0} /\ DiagCap \in Nat \ {0} /\ ChunkTypes \in Nat \ {0}
  /\ MaxTypes \in Nat \ {0} /\ MaxU32 \in Nat /\ MinLines \in Nat /\ LineBytes \in Nat
  /\ Languages \subseteq [flags : SUBSET Newlines, parses : BOOLEAN]
  /\ Texts \subseteq Seq(Byte) /\ OwnTexts \subseteq Seq(Byte) /\ OwnFlags \subseteq SUBSET Newlines
BY SessionConstants, SourceConstants

LEMMA NoneIsNone ==
  /\ \A rec \in Result : rec # None
  /\ \A s \in Host : s # None
  /\ \A s \in Sourced : s # None
<1>1. ASSUME NEW rec \in Result PROVE rec # None
  <2>1. rec.phase # None.phase
    BY DEF Result, Phases, None
  <2> QED BY <2>1
<1>2. ASSUME NEW s \in Host PROVE s # None
  <2>1. s.phase # None.phase
    BY DEF Host, None
  <2> QED BY <2>1
<1>3. ASSUME NEW s \in Sourced PROVE s # None
  BY DEF Sourced, None
<1> QED BY <1>1, <1>2, <1>3
-----------------------------------------------------------------------------
(* What is whose.  A result owns parts that depend on its record alone.    *)
Mine(rec) ==
  IF rec = None THEN {}
  ELSE PhaseParts(rec.phase)
         \cup (IF rec.diags = <<>> THEN {} ELSE {"diags"})
         \cup (IF rec.source.table = NoTable THEN {} ELSE {"table"})

LEMMA ResultPartsMine ==
  ASSUME NEW r
  PROVE  ResultParts(r) = Parts(r, Mine(results[r]))
BY DEF ResultParts, Mine, Parts, DiagParts

LEMMA PartsOf ==
  ASSUME NEW r, NEW K
  PROVE  \A x : x \in Parts(r, K) <=> \E p \in K : x = <<r, p>>
BY DEF Parts

(* The invariant. *)
HostTyped    == session = None \/ session \in Host
OwnTyped     == own = None \/ own \in Sourced
ResultsTyped == results \in [Results -> Result \cup {None}]

\* The types handed out are those of the used slots, and every chunk has one.
SlotsUsed ==
  /\ given \in Seq(Type) /\ IsInjective(given)
  /\ session = None => given = <<>>
  /\ session # None =>
       /\ session.tail = IF session.list = <<>> THEN 0 ELSE session.list[Len(session.list)]
       /\ \A c \in 1..MaxTypes : session.used[c] > 0 <=> c \in Range(session.list)
       /\ \A i \in DOMAIN given : given[i][2] < session.used[given[i][1]]
       /\ \A c \in Range(session.list) : \E i \in DOMAIN given : given[i][1] = c

\* No result outlives its session, and none has a type that was reset.
ResultsHosted ==
  \A r \in Results : results[r] # None =>
    session # None /\ results[r].types \subseteq Range(given)

\* An analysis has its tree before the hooks of sema run.
TreesFirst ==
  \A r \in Results : results[r].phase \in {"sema", "resolving"} => results[r].root

SessionInv ==
  /\ HostTyped /\ OwnTyped /\ ResultsTyped /\ SlotsUsed /\ ResultsHosted /\ TreesFirst
  /\ NothingLeaks /\ FailuresExplained

\* FailuresExplained of one result.
Explained(rec) ==
  rec.phase = "done" /\ ~rec.root /\ ~rec.lost =>
    /\ rec.diags # <<>>
    /\ rec.diags[Len(rec.diags)].msg \in {"no parser", "parse failed"}

LEMMA ExplainedAll ==
  /\ FailuresExplained <=> \A r \in Results : Explained(results[r])
  /\ FailuresExplained' <=> \A r \in Results : Explained(results'[r])
BY DEF FailuresExplained, Explained, Last

LEMMA NothingToExplain == Explained(None)
<1>1. None.phase # "done"
  BY DEF None
<1> QED BY <1>1 DEF Explained

LEMMA TypeIsPair ==
  ASSUME NEW t \in Type
  PROVE  t[1] \in 1..MaxTypes /\ t[2] \in Nat /\ t = <<t[1], t[2]>>
BY DEF Type

LEMMA ChunksOf ==
  ASSUME session \in Host
  PROVE  /\ Range(session.list) \subseteq 1..MaxTypes
         /\ TypeChunks = {Chunk(c) : c \in Range(session.list)}
<1> DEFINE list == session.list
<1>1. list \in Seq(1..MaxTypes)
  BY DEF Host
<1>2. TypeChunks = {Chunk(list[i]) : i \in DOMAIN list}
  BY DEF TypeChunks
<1> HIDE DEF list
<1>3. Range(list) \subseteq 1..MaxTypes
  BY <1>1, ElementOfSeq, LenProperties DEF Range
<1>4. TypeChunks = {Chunk(c) : c \in Range(list)}
  BY <1>2, Zenon DEF Range
<1> QED BY <1>3, <1>4 DEF list

\* No part of a result belongs to a session, to another result or to a client.
LEMMA Owners ==
  ASSUME HostTyped
  PROVE  /\ \A q : \A x \in ResultParts(q) : x[1] = q
         /\ \A x \in OwnParts : x[1] = Own
         /\ \A x \in SessionParts : x[1] \notin Results /\ x[1] # Own
<1>1. \A q : \A x \in ResultParts(q) : x[1] = q
  BY ResultPartsMine, PartsOf
<1>2. \A x \in OwnParts : x[1] = Own
  BY DEF OwnParts
<1>3. \A x \in SessionParts : x[1] \notin Results /\ x[1] # Own
  <2> SUFFICES ASSUME session \in Host, NEW x \in SessionParts PROVE x[1] \notin Results /\ x[1] # Own
    BY DEF HostTyped, SessionParts
  <2>1. CASE x \in TypeChunks
    <3>1. PICK c \in 1..MaxTypes : x = Chunk(c)
      BY <2>1, ChunksOf
    <3>2. x[1] = Own - c
      BY <3>1 DEF Chunk
    <3> QED BY <3>2, Constants DEF Own
  <2>2. CASE x \notin TypeChunks
    <3>1. x = <<0, "session">> \/ x = <<0, "aux">> \/ x = <<0, "auxChunk">>
      BY <2>2 DEF SessionParts, ArenaFreed, AuxParts, Parts, Host
    <3> QED BY <3>1, Constants DEF Own
  <2> QED BY <2>1, <2>2
<1> QED BY <1>1, <1>2, <1>3

\* A part of a result in memory is one that its record says it owns.
LEMMA HeapOf ==
  ASSUME HostTyped, NothingLeaks
  PROVE  \A r \in Results : \A p : <<r, p>> \in heap <=> p \in Mine(results[r])
<1> TAKE r \in Results
<1> TAKE p
<1>1. <<r, p>>[1] = r
  OBVIOUS
<1>2. <<r, p>> \notin OwnParts /\ <<r, p>> \notin SessionParts
  BY <1>1, Owners, Constants DEF Own
<1>3. \A q \in Results : <<r, p>> \in ResultParts(q) => q = r
  BY <1>1, Owners
<1>4. <<r, p>> \in heap <=> <<r, p>> \in ResultParts(r)
  BY <1>2, <1>3 DEF NothingLeaks
<1>5. <<r, p>> \in Parts(r, Mine(results[r])) <=> p \in Mine(results[r])
  BY DEF Parts
<1> QED BY <1>4, <1>5, ResultPartsMine

\* A step that allocates K and frees H of one result, as its record says.
LEMMA ResultChange ==
  ASSUME HostTyped, NothingLeaks, DOMAIN results = Results,
         NEW r \in Results, NEW rec, NEW K, NEW H,
         results' = [results EXCEPT ![r] = rec],
         heap' = (heap \cup Parts(r, K)) \ Parts(r, H),
         Mine(rec) = (Mine(results[r]) \cup K) \ H,
         SessionParts' = SessionParts, OwnParts' = OwnParts
  PROVE  NothingLeaks'
<1> DEFINE others == UNION {ResultParts(q) : q \in Results \ {r}}
           rest   == SessionParts \cup OwnParts \cup others
<1>1. \A q \in Results \ {r} : ResultParts(q)' = ResultParts(q)
  BY DEF ResultParts, DiagParts
<1>2. ResultParts(r)' = Parts(r, Mine(rec))
  BY DEF ResultParts, Mine, Parts, DiagParts
<1>3. ResultParts(r) = Parts(r, Mine(results[r]))
  BY ResultPartsMine
<1>4. \A x \in rest : x[1] # r
  BY Owners, Constants DEF Own
<1>5. heap = rest \cup Parts(r, Mine(results[r]))
  BY <1>3 DEF NothingLeaks
<1>6. rest' = rest
  <2>1. others' = others
    BY <1>1
  <2> QED BY <2>1
<1>7. \A L : \A x \in Parts(r, L) : x[1] = r
  BY PartsOf
<1> HIDE DEF rest
<1>8. heap' = rest \cup Parts(r, Mine(rec))
  <2>1. \A x : x \in Parts(r, Mine(rec)) <=> (x \in Parts(r, Mine(results[r])) \/ x \in Parts(r, K)) /\ x \notin Parts(r, H)
    BY DEF Parts
  <2>2. \A x \in rest : x \notin Parts(r, H)
    BY <1>4, <1>7
  <2> QED BY <1>5, <2>1, <2>2
<1>9. rest' \cup ResultParts(r)' = SessionParts' \cup OwnParts' \cup UNION {ResultParts(q)' : q \in Results}
  BY DEF rest
<1> QED BY <1>2, <1>6, <1>8, <1>9 DEF NothingLeaks
-----------------------------------------------------------------------------
(* The steps of an analysis.                                               *)
LEMMA PushOK ==
  ASSUME NEW rec \in Result, NEW d \in Reported, NEW told \in Push(rec, d)
  PROVE  /\ told \in Result
         /\ told.phase = rec.phase /\ told.source = rec.source
         /\ told.root = rec.root /\ told.types = rec.types
         /\ rec.diags # <<>> => told.diags # <<>>
         /\ told.lost \/ (told.diags # <<>> /\ told.diags[Len(told.diags)] = d)
<1>1. CASE told = [rec EXCEPT !.diags = Append(@, d)]
  <2> DEFINE ds == rec.diags
  <2>1. ds \in Seq(Reported)
    BY DEF Result
  <2>2. told.diags = Append(ds, d)
    BY <1>1 DEF Result
  <2> HIDE DEF ds
  <2>3. Append(ds, d) \in Seq(Reported) /\ Append(ds, d) # <<>> /\ Append(ds, d)[Len(Append(ds, d))] = d
    BY <2>1
  <2>4. told \in Result
    BY <1>1, <2>3 DEF Result, ds
  <2> QED BY <1>1, <2>2, <2>3, <2>4 DEF Result
<1>2. CASE told = [rec EXCEPT !.lost = TRUE]
  BY <1>2 DEF Result
<1> QED BY <1>1, <1>2 DEF Push

LEMMA ReportsOK ==
  ASSUME NEW rec \in Result, NEW told \in Reports(rec)
  PROVE  /\ told \in Result
         /\ told.phase = rec.phase /\ told.source = rec.source
         /\ told.root = rec.root /\ told.types = rec.types
         /\ rec.diags # <<>> => told.diags # <<>>
<1>1. Error("said", Len(rec.source.bytes)) \in Reported
  <2> DEFINE bytes == rec.source.bytes
  <2>1. bytes \in Seq(Byte)
    BY DEF Result, Sourced
  <2>2. Len(bytes) \in Nat
    <3> HIDE DEF bytes
    <3> QED BY <2>1
  <2> QED BY <2>2 DEF Error, Reported, Messages
<1> QED BY <1>1, PushOK DEF Reports

LEMMA MineKnown ==
  ASSUME NEW rec \in Result
  PROVE  Mine(rec) \subseteq {"result", "ast", "tokens", "parser", "sema", "diags", "table"}
BY DEF Mine, PhaseParts

(* A call that goes on: its record moves to the next phase.                *)
Goes(r, rec, phase, K, H) ==
  /\ results[r] \in Result /\ results[r].phase # "done" /\ rec \in Result /\ phase \in Phases
  /\ rec.source = results[r].source /\ rec.types = results[r].types
  /\ results[r].diags # <<>> => rec.diags # <<>>
  /\ GoOn(r, rec, phase, (heap \cup Parts(r, K)) \ Parts(r, H))
  /\ K \subseteq {"tokens", "parser", "sema"} /\ H \subseteq {"parser", "sema"}
  /\ PhaseParts(phase) = (PhaseParts(results[r].phase) \cup K) \ H
  /\ phase \in {"sema", "resolving"} => rec.root
  /\ phase = "done" =>
       \/ rec.root \/ rec.lost
       \/ rec.diags # <<>> /\ rec.diags[Len(rec.diags)].msg \in {"no parser", "parse failed"}
  /\ session' = session /\ given' = given /\ own' = own

LEMMA GoOnOK ==
  ASSUME SessionInv, NEW r \in Results, NEW rec, NEW phase, NEW K, NEW H, Goes(r, rec, phase, K, H)
  PROVE  SessionInv'
<1> USE DEF Goes
<1> DEFINE new == [rec EXCEPT !.phase = phase]
           D   == IF rec.diags = <<>> THEN {} ELSE {"diags"}
<1>1. new \in Result /\ new.phase = phase /\ new.source = rec.source /\ new.diags = rec.diags
      /\ new.root = rec.root /\ new.lost = rec.lost /\ new.types = rec.types
  BY DEF Result
<1>2. results' = [results EXCEPT ![r] = new]
  BY DEF GoOn
<1>3. heap' = (heap \cup Parts(r, K \cup D)) \ Parts(r, H)
  <2>1. DiagParts(r, rec) = Parts(r, D)
    BY DEF DiagParts, Parts
  <2>2. Parts(r, K \cup D) = Parts(r, K) \cup Parts(r, D)
    BY DEF Parts
  <2>3. \A x \in Parts(r, D) : x \notin Parts(r, H)
    <3> SUFFICES ASSUME NEW x \in Parts(r, D), x \in Parts(r, H) PROVE FALSE
      OBVIOUS
    <3>1. x = <<r, "diags">>
      BY DEF Parts
    <3>2. PICK p \in H : x = <<r, p>>
      BY DEF Parts
    <3>3. <<r, "diags">> = <<r, p>> /\ p # "diags"
      BY <3>1, <3>2
    <3> QED BY <3>3
  <2>4. heap' = ((heap \cup Parts(r, K)) \ Parts(r, H)) \cup DiagParts(r, rec)
    BY DEF GoOn
  <2> QED BY <2>1, <2>2, <2>3, <2>4
<1>4. Mine(new) = (Mine(results[r]) \cup (K \cup D)) \ H
  <2>1. results[r] # None /\ new # None
    BY <1>1, NoneIsNone
  <2> DEFINE T == IF rec.source.table = NoTable THEN {} ELSE {"table"}
             O == IF results[r].diags = <<>> THEN {} ELSE {"diags"}
  <2>2. Mine(new) = PhaseParts(phase) \cup D \cup T
    BY <1>1, <2>1 DEF Mine
  <2>3. Mine(results[r]) = PhaseParts(results[r].phase) \cup O \cup T
    BY <2>1 DEF Mine
  <2>4. O \subseteq D /\ (D \cup T) \cap H = {}
    OBVIOUS
  <2> HIDE DEF D, T, O, new
  <2> QED BY <2>2, <2>3, <2>4
<1> HIDE DEF new, D
<1>5. ResultsTyped' /\ DOMAIN results = Results
  BY <1>1, <1>2 DEF SessionInv, ResultsTyped
<1>6. NothingLeaks'
  <2>1. SessionParts' = SessionParts /\ OwnParts' = OwnParts
    BY DEF SessionParts, OwnParts, ArenaFreed, TypeChunks
  <2> QED BY <1>2, <1>3, <1>4, <1>5, <2>1, ResultChange DEF SessionInv
<1>7. results'[r] = new /\ \A q \in Results \ {r} : results'[q] = results[q]
  BY <1>2, <1>5
<1>8. HostTyped' /\ OwnTyped' /\ SlotsUsed'
  BY DEF SessionInv, HostTyped, OwnTyped, SlotsUsed
<1>9. ResultsHosted'
  BY <1>1, <1>7, NoneIsNone DEF SessionInv, ResultsHosted
<1>10. TreesFirst'
  BY <1>1, <1>7 DEF SessionInv, TreesFirst
<1>11. FailuresExplained'
  <2> SUFFICES ASSUME NEW q \in Results PROVE Explained(results'[q])
    BY ExplainedAll
  <2>1. CASE q = r
    BY <1>1, <1>7, <2>1 DEF Explained, Last
  <2>2. CASE q # r
    BY <1>7, <2>2, ExplainedAll DEF SessionInv
  <2> QED BY <2>1, <2>2
<1> QED BY <1>5, <1>6, <1>8, <1>9, <1>10, <1>11 DEF SessionInv

(* A result that is freed, by the client or because its call fails.        *)
Dies(r, K) ==
  /\ results[r] \in Result /\ results[r].phase \notin {"parsing", "resolving"}
  /\ K \subseteq {"tokens", "diags"}
  /\ results' = [results EXCEPT ![r] = None]
  /\ heap' = (heap \cup Parts(r, K)) \ Freed(r)
  /\ session' = session /\ given' = given /\ own' = own

LEMMA FreeOK ==
  ASSUME SessionInv, NEW r \in Results, NEW K, Dies(r, K)
  PROVE  SessionInv'
<1> USE DEF Dies
<1> DEFINE H == CleanupParts \cup {"result"}
<1>1. Freed(r) = Parts(r, H)
  BY DEF Freed, Parts
<1>2. Mine(results[r]) \subseteq H
  BY DEF Mine, PhaseParts, CleanupParts, Result, Phases
<1>3. Mine(None) = (Mine(results[r]) \cup K) \ H
  BY <1>2 DEF Mine, CleanupParts
<1>4. ResultsTyped' /\ DOMAIN results = Results
  BY DEF SessionInv, ResultsTyped
<1> HIDE DEF H
<1>5. NothingLeaks'
  <2>1. SessionParts' = SessionParts /\ OwnParts' = OwnParts
    BY DEF SessionParts, OwnParts, ArenaFreed, TypeChunks
  <2> QED BY <1>1, <1>3, <1>4, <2>1, ResultChange DEF SessionInv
<1>6. results'[r] = None /\ \A q \in Results \ {r} : results'[q] = results[q]
  BY <1>4
<1>7. HostTyped' /\ OwnTyped' /\ SlotsUsed'
  BY DEF SessionInv, HostTyped, OwnTyped, SlotsUsed
<1>8. ResultsHosted' /\ TreesFirst'
  BY <1>6 DEF SessionInv, ResultsHosted, TreesFirst, None
<1>9. FailuresExplained'
  <2> SUFFICES ASSUME NEW q \in Results PROVE Explained(results'[q])
    BY ExplainedAll
  <2>1. CASE q = r
    BY <1>6, <2>1, NothingToExplain
  <2>2. CASE q # r
    BY <1>6, <2>2, ExplainedAll DEF SessionInv
  <2> QED BY <2>1, <2>2
<1> QED BY <1>4, <1>5, <1>7, <1>8, <1>9 DEF SessionInv
-----------------------------------------------------------------------------
(* The type arena.                                                         *)
LEMMA HostParts ==
  ASSUME session \in Host
  PROVE  SessionParts = {<<0, "session">>} \cup AuxParts(session.aux) \cup {Chunk(c) : c \in Range(session.list)}
BY ChunksOf, NoneIsNone DEF SessionParts, ArenaFreed

LEMMA HostPartsNext ==
  ASSUME session' \in Host
  PROVE  SessionParts' = {<<0, "session">>} \cup AuxParts(session'.aux) \cup {Chunk(c) : c \in Range(session'.list)}
<1>1. session' # None
  BY NoneIsNone
<1>2. SessionParts' = {<<0, "session">>} \cup TypeChunks' \cup AuxParts(session'.aux)
  BY <1>1 DEF SessionParts, ArenaFreed
<1>3. TypeChunks' = {Chunk(c) : c \in Range(session'.list)}
  BY Zenon DEF TypeChunks, Range
<1> QED BY <1>2, <1>3

LEMMA SessionChange ==
  ASSUME HostTyped, NothingLeaks, OwnParts' = OwnParts,
         \A r \in Results : Mine(results'[r]) = Mine(results[r]),
         heap' = (heap \ SessionParts) \cup SessionParts'
  PROVE  NothingLeaks'
<1> DEFINE rest == OwnParts \cup UNION {ResultParts(r) : r \in Results}
<1>1. rest' = rest
  <2>1. \A r \in Results : ResultParts(r)' = ResultParts(r)
    <3> TAKE r \in Results
    <3>1. ResultParts(r)' = Parts(r, Mine(results'[r]))
      BY DEF ResultParts, Mine, Parts, DiagParts
    <3> QED BY <3>1, ResultPartsMine
  <2> QED BY <2>1
<1>2. \A x \in rest : x \notin SessionParts
  BY Owners
<1>3. heap = rest \cup SessionParts
  BY DEF NothingLeaks
<1> HIDE DEF rest
<1>4. heap' = rest' \cup SessionParts'
  BY <1>1, <1>2, <1>3
<1> QED BY <1>4 DEF NothingLeaks, rest

LEMMA ChunkInHeap ==
  ASSUME session \in Host, NothingLeaks, NEW c \in 1..MaxTypes
  PROVE  Chunk(c) \in heap <=> c \in Range(session.list)
<1>1. Chunk(c)[1] = Own - c /\ Own - c \notin Results /\ Own - c # Own /\ Own - c # 0
  BY Constants DEF Chunk, Own
<1>2. Chunk(c) \in heap <=> Chunk(c) \in SessionParts
  BY <1>1, Owners DEF NothingLeaks, HostTyped
<1>3. Chunk(c) \notin AuxParts(session.aux) /\ Chunk(c) # <<0, "session">>
  <2>1. \A x \in AuxParts(session.aux) : x[1] = 0
    BY DEF AuxParts, Parts, Host
  <2> QED BY <1>1, <2>1
<1>4. \A d \in Range(session.list) : Chunk(d) = Chunk(c) => d = c
  BY ChunksOf DEF Chunk, Own
<1> QED BY <1>2, <1>3, <1>4, HostParts

\* Fewer types than the bound of the model leave a chunk to be taken.
LEMMA ChunkLeft ==
  ASSUME session \in Host, SlotsUsed, NothingLeaks, Len(given) < MaxTypes
  PROVE  NewChunk \in 1..MaxTypes /\ NewChunk \notin Range(session.list)
<1>1. ASSUME 1..MaxTypes \subseteq Range(session.list) PROVE FALSE
  <2> DEFINE C == 1..MaxTypes
             D == 1..Len(given)
             f == [c \in C |-> CHOOSE i \in D : given[i][1] = c]
  <2>1. Len(given) \in Nat /\ DOMAIN given = D
    BY DEF SlotsUsed
  <2>2. \A c \in C : \E i \in D : given[i][1] = c
    BY <1>1, <2>1, NoneIsNone DEF SlotsUsed
  <2>3. f \in [C -> D] /\ \A c \in C : given[f[c]][1] = c
    BY <2>2
  <2>4. IsFiniteSet(C) /\ IsFiniteSet(D) /\ Cardinality(C) = MaxTypes /\ Cardinality(D) = Len(given)
    <3>1. MaxTypes \in Int /\ Len(given) \in Int /\ 1 \in Int /\ ~(1 > MaxTypes)
      BY <2>1, Constants
    <3>2. IsFiniteSet(C) /\ Cardinality(C) = MaxTypes - 1 + 1
      BY <3>1, FS_Interval
    <3>3. IsFiniteSet(D) /\ Cardinality(D) = IF 1 > Len(given) THEN 0 ELSE Len(given) - 1 + 1
      BY <3>1, FS_Interval
    <3> QED BY <2>1, <3>1, <3>2, <3>3
  <2> HIDE DEF C, D, f
  <2>5. \E x, y \in C : x # y /\ f[x] = f[y]
    BY <2>3, <2>4, FS_PigeonHole
  <2> QED BY <2>3, <2>5
<1>2. \E c \in 1..MaxTypes : Chunk(c) \notin heap
  BY <1>1, ChunkInHeap
<1>3. NewChunk \in 1..MaxTypes /\ Chunk(NewChunk) \notin heap
  BY <1>2 DEF NewChunk
<1> QED BY <1>3, ChunkInHeap

LEMMA AppendGiven ==
  ASSUME given \in Seq(Type), IsInjective(given), NEW t \in Type, t \notin Range(given),
         given' = Append(given, t)
  PROVE  /\ given' \in Seq(Type) /\ IsInjective(given')
         /\ Len(given') = Len(given) + 1 /\ given'[Len(given')] = t
         /\ DOMAIN given' = DOMAIN given \cup {Len(given) + 1}
         /\ \A i \in DOMAIN given : given'[i] = given[i]
         /\ Range(given') = Range(given) \cup {t}
<1>1. given' \in Seq(Type) /\ Len(given) \in Nat /\ Len(given') = Len(given) + 1
  BY AppendProperties
<1>2. DOMAIN given = 1..Len(given) /\ DOMAIN given' = 1..Len(given) + 1
  BY <1>1
<1>3. given'[Len(given')] = t /\ \A i \in DOMAIN given : given'[i] = given[i]
  BY <1>1, <1>2, AppendProperties
<1>4. DOMAIN given' = DOMAIN given \cup {Len(given) + 1}
  BY <1>1, <1>2
<1>5. \A i \in DOMAIN given : given[i] # t
  BY DEF Range
<1>6. IsInjective(given')
  BY <1>1, <1>3, <1>4, <1>5 DEF IsInjective
<1>7. Range(given') = Range(given) \cup {t}
  BY <1>1, <1>3, <1>4 DEF Range
<1> QED BY <1>1, <1>3, <1>4, <1>6, <1>7

LEMMA TailOfList ==
  ASSUME session \in Host, SlotsUsed
  PROVE  /\ session.tail = 0 <=> session.list = <<>>
         /\ session.tail # 0 => session.tail \in Range(session.list)
<1> DEFINE list == session.list
<1>1. list \in Seq(1..MaxTypes) /\ session.tail = IF list = <<>> THEN 0 ELSE list[Len(list)]
  BY NoneIsNone DEF Host, SlotsUsed
<1>2. list # <<>> => list[Len(list)] \in 1..MaxTypes /\ Len(list) \in DOMAIN list
  <2> HIDE DEF list
  <2> SUFFICES ASSUME list # <<>> PROVE list[Len(list)] \in 1..MaxTypes /\ Len(list) \in DOMAIN list
    OBVIOUS
  <2>1. Len(list) \in Nat \ {0} /\ DOMAIN list = 1..Len(list)
    BY <1>1, EmptySeq, LenProperties
  <2>2. Len(list) \in 1..Len(list)
    BY <2>1
  <2> QED BY <1>1, <2>1, <2>2, ElementOfSeq
<1> QED BY <1>1, <1>2, Constants DEF Range

LEMMA TyAllocOK ==
  ASSUME SessionInv, session \in Host, Len(given) < MaxTypes, TyAlloc
  PROVE  /\ session' \in Host /\ SlotsUsed'
         /\ \E t \in Type : Range(given') = Range(given) \cup {t} /\ given'[Len(given')] = t
         /\ heap' = (heap \ SessionParts) \cup SessionParts'
<1> DEFINE list == session.list
           used == session.used
           tail == session.tail
<1>1. session # None /\ session.list \in Seq(1..MaxTypes)
  BY NoneIsNone DEF Host
<1>2. /\ given \in Seq(Type) /\ IsInjective(given)
      /\ \A c \in 1..MaxTypes : used[c] > 0 <=> c \in Range(list)
      /\ \A i \in DOMAIN given : given[i][2] < used[given[i][1]]
      /\ \A c \in Range(list) : \E i \in DOMAIN given : given[i][1] = c
  BY <1>1 DEF SessionInv, SlotsUsed
<1>3. \A i \in DOMAIN given : given[i] \in Type /\ given[i][1] \in 1..MaxTypes /\ given[i][2] \in Nat
  BY <1>2, TypeIsPair, ElementOfSeq, LenProperties
<1>4. used \in [1..MaxTypes -> 0..ChunkTypes]
  BY DEF Host
<1>5. SessionParts \subseteq heap
  BY DEF SessionInv, NothingLeaks
<1>6. CASE ~TailFull
  <2> DEFINE t == <<tail, used[tail]>>
  <2>1. tail # 0 /\ tail \in Range(list) /\ tail \in 1..MaxTypes /\ used[tail] # ChunkTypes
    BY <1>6, TailOfList DEF TailFull, SessionInv, Host
  <2>2. used[tail] \in 0..ChunkTypes - 1 /\ t \in Type
    BY <1>4, <2>1, Constants DEF Type
  <2>3. session' = [session EXCEPT !.used = [used EXCEPT ![tail] = used[tail] + 1]] /\ given' = Append(given, t) /\ heap' = heap
    BY <1>6 DEF TyAlloc, AllocInTail, Fuller
  <2>4. [used EXCEPT ![tail] = @ + 1] \in [1..MaxTypes -> 0..ChunkTypes]
    <3> DEFINE more == used[tail] + 1
    <3>n. ChunkTypes \in Nat
      BY Constants
    <3>1. more \in 0..ChunkTypes
      <4> HIDE DEF used, tail
      <4> QED BY ONLY <2>2, <3>n DEF more
    <3> HIDE DEF more, used, tail
    <3>2. [used EXCEPT ![tail] = more] \in [1..MaxTypes -> 0..ChunkTypes]
      BY ONLY <1>4, <3>1, <2>1, Zenon
    <3> QED BY ONLY <3>2, Zenon DEF more
  <2>5. /\ session' \in Host /\ session'.list = list /\ session'.tail = tail /\ session'.aux = session.aux
        /\ session'.used = [used EXCEPT ![tail] = @ + 1]
    <3> DEFINE new == [used EXCEPT ![tail] = used[tail] + 1]
    <3>1. session' = [session EXCEPT !.used = new]
      BY <2>3
    <3> HIDE DEF new
    <3> QED BY <2>4, <3>1 DEF Host, new
  <2>6. t \notin Range(given)
    BY <1>2, <2>2 DEF Range
  <2> HIDE DEF t
  <2>7. /\ given' \in Seq(Type) /\ IsInjective(given')
        /\ given'[Len(given')] = t /\ DOMAIN given' = DOMAIN given \cup {Len(given) + 1}
        /\ given'[Len(given) + 1] = t
        /\ \A i \in DOMAIN given : given'[i] = given[i]
        /\ Range(given') = Range(given) \cup {t}
    BY <1>2, <2>2, <2>3, <2>6, AppendGiven
  <2>8. SlotsUsed'
    <3>1. session' # None
      BY <2>5, NoneIsNone
    <3>2. session'.tail = IF session'.list = <<>> THEN 0 ELSE session'.list[Len(session'.list)]
      BY <1>1, <2>5 DEF SessionInv, SlotsUsed
    <3>3. \A c \in 1..MaxTypes : session'.used[c] > 0 <=> c \in Range(session'.list)
      BY <1>2, <1>4, <2>1, <2>2, <2>5
    <3>4. \A i \in DOMAIN given' : given'[i][2] < session'.used[given'[i][1]]
      <4>1. t[2] < session'.used[t[1]]
        <5>1. t[1] = tail /\ t[2] = used[tail]
          BY DEF t
        <5>2. session'.used[tail] = used[tail] + 1
          BY <1>4, <2>1, <2>5
        <5> QED BY <2>2, <5>1, <5>2
      <4>2. \A i \in DOMAIN given : given[i][2] < session'.used[given[i][1]]
        BY <1>2, <1>3, <1>4, <2>1, <2>2, <2>5
      <4> QED BY <2>7, <4>1, <4>2
    <3>5. \A c \in Range(session'.list) : \E i \in DOMAIN given' : given'[i][1] = c
      BY <1>2, <2>5, <2>7
    <3> QED BY <2>7, <3>1, <3>2, <3>3, <3>4, <3>5 DEF SlotsUsed
  <2>9. SessionParts' = SessionParts
    BY <2>5, <1>1, NoneIsNone DEF SessionParts, ArenaFreed, TypeChunks
  <2> QED BY <1>5, <2>2, <2>3, <2>5, <2>7, <2>8, <2>9
<1>7. CASE TailFull
  <2> DEFINE n == NewChunk
             t == <<n, 0>>
  <2>1. n \in 1..MaxTypes /\ n \notin Range(list)
    BY ChunkLeft DEF SessionInv
  <2> HIDE DEF n
  <2>2. used[n] = 0 /\ t \in Type
    BY <1>2, <1>4, <2>1, Constants DEF Type
  <2>3. session' = [session EXCEPT !.list = IF session.tail = 0 THEN <<n>> ELSE Append(@, n),
                                   !.tail = n, !.used = [@ EXCEPT ![n] = 1]]
        /\ given' = Append(given, t) /\ heap' = heap \cup {Chunk(n)}
    BY <1>7 DEF TyAlloc, AllocInNew, n
  <2>4. [used EXCEPT ![n] = 1] \in [1..MaxTypes -> 0..ChunkTypes]
    BY <1>4, <2>1, Constants
  <2>5. Append(list, n) \in Seq(1..MaxTypes) /\ Append(list, n) # <<>>
        /\ Append(list, n)[Len(Append(list, n))] = n
        /\ Range(Append(list, n)) = Range(list) \cup {n}
    <3> HIDE DEF list
    <3> QED BY <1>1, <2>1, AppendProperties DEF Range, list
  <2>6. tail = 0 => <<n>> = Append(list, n)
    BY TailOfList DEF SessionInv
  <2>7. /\ session' \in Host /\ session'.list = Append(list, n) /\ session'.tail = n
        /\ session'.aux = session.aux /\ session'.used = [used EXCEPT ![n] = 1]
    <3> DEFINE new  == [used EXCEPT ![n] = 1]
               more == Append(list, n)
    <3>1. session' = [session EXCEPT !.list = more, !.tail = n, !.used = new]
      BY <2>3, <2>6
    <3>2. new \in [1..MaxTypes -> 0..ChunkTypes] /\ more \in Seq(1..MaxTypes) /\ n \in 0..MaxTypes
      BY <2>1, <2>4, <2>5
    <3> HIDE DEF new, more
    <3>3. /\ session' \in Host /\ session'.list = more /\ session'.tail = n
          /\ session'.aux = session.aux /\ session'.used = new
      BY <3>1, <3>2 DEF Host
    <3> QED BY <3>3 DEF new, more
  <2>8. t \notin Range(given)
    <3> SUFFICES ASSUME NEW i \in DOMAIN given, given[i] = t PROVE FALSE
      BY DEF Range
    <3>1. given[i][2] < used[n] /\ given[i][2] \in Nat
      BY <1>2, <1>3
    <3> QED BY <2>2, <3>1
  <2> HIDE DEF t
  <2>9. /\ given' \in Seq(Type) /\ IsInjective(given')
        /\ given'[Len(given')] = t /\ DOMAIN given' = DOMAIN given \cup {Len(given) + 1}
        /\ given'[Len(given) + 1] = t
        /\ \A i \in DOMAIN given : given'[i] = given[i]
        /\ Range(given') = Range(given) \cup {t}
    BY <1>2, <2>2, <2>3, <2>8, AppendGiven
  <2>10. SlotsUsed'
    <3>1. session' # None
      BY <2>7, NoneIsNone
    <3>2. session'.tail = IF session'.list = <<>> THEN 0 ELSE session'.list[Len(session'.list)]
      BY <2>5, <2>7
    <3>3. \A c \in 1..MaxTypes : session'.used[c] > 0 <=> c \in Range(session'.list)
      <4> TAKE c \in 1..MaxTypes
      <4>1. session'.used[c] = IF c = n THEN 1 ELSE used[c]
        BY <1>4, <2>1, <2>7
      <4>2. c \in Range(session'.list) <=> c \in Range(list) \/ c = n
        BY <2>5, <2>7
      <4> QED BY <1>2, <4>1, <4>2
    <3>4. \A i \in DOMAIN given' : given'[i][2] < session'.used[given'[i][1]]
      <4>1. t[2] < session'.used[t[1]]
        <5>1. t[1] = n /\ t[2] = 0
          BY DEF t
        <5>2. session'.used[n] = 1
          BY <1>4, <2>1, <2>7
        <5> QED BY <5>1, <5>2
      <4>2. \A i \in DOMAIN given : given[i][2] < session'.used[given[i][1]]
        BY <1>2, <1>3, <1>4, <2>1, <2>2, <2>7
      <4> QED BY <2>9, <4>1, <4>2
    <3>5. \A c \in Range(session'.list) : \E i \in DOMAIN given' : given'[i][1] = c
      BY <1>2, <2>5, <2>7, <2>9 DEF t
    <3> QED BY <2>9, <3>1, <3>2, <3>3, <3>4, <3>5 DEF SlotsUsed
  <2>11. SessionParts' = SessionParts \cup {Chunk(n)}
    <3>1. SessionParts' = {<<0, "session">>} \cup AuxParts(session'.aux) \cup {Chunk(c) : c \in Range(session'.list)}
      BY <2>7, HostPartsNext
    <3> QED BY <2>5, <2>7, <3>1, HostParts
  <2> QED BY <1>5, <2>2, <2>3, <2>7, <2>9, <2>10, <2>11
<1> QED BY <1>6, <1>7
-----------------------------------------------------------------------------
(* The steps.                                                              *)
LEMMA SessionStart == Init => SessionInv
<1> SUFFICES ASSUME Init PROVE SessionInv
  OBVIOUS
<1>1. /\ heap = {} /\ session = None /\ given = <<>> /\ own = None
      /\ results = [r \in Results |-> None]
  BY DEF Init
<1>2. HostTyped /\ OwnTyped /\ ResultsTyped
  BY <1>1 DEF HostTyped, OwnTyped, ResultsTyped
<1>3. SlotsUsed
  BY <1>1 DEF SlotsUsed, IsInjective
<1>4. ResultsHosted /\ TreesFirst
  BY <1>1 DEF ResultsHosted, TreesFirst, None
<1>5. FailuresExplained
  BY <1>1, ExplainedAll, NothingToExplain
<1>6. NothingLeaks
  BY <1>1 DEF NothingLeaks, SessionParts, OwnParts, ResultParts
<1> QED BY <1>2, <1>3, <1>4, <1>5, <1>6 DEF SessionInv

LEMMA RecordOf ==
  ASSUME SessionInv, NEW r \in Results, results[r] # None
  PROVE  results[r] \in Result /\ session \in Host /\ session # None
BY DEF SessionInv, ResultsTyped, ResultsHosted, HostTyped

LEMMA PhaseOf ==
  ASSUME SessionInv, NEW r \in Results, NEW phase \in Phases, results[r].phase = phase
  PROVE  results[r] \in Result /\ session \in Host /\ session # None
<1>1. None.phase \notin Phases
  BY DEF None, Phases
<1> QED BY <1>1, RecordOf

\* The arena changes, the records of results at most in their types.
LEMMA ArenaChange ==
  ASSUME SessionInv, HostTyped', ResultsTyped', SlotsUsed', ResultsHosted', own' = own,
         \A r \in Results : /\ Mine(results'[r]) = Mine(results[r])
                            /\ results'[r].phase = results[r].phase
                            /\ results'[r].root = results[r].root
                            /\ results'[r].lost = results[r].lost
                            /\ results'[r].diags = results[r].diags,
         heap' = (heap \ SessionParts) \cup SessionParts'
  PROVE  SessionInv'
<1>1. NothingLeaks'
  BY SessionChange DEF SessionInv, OwnParts
<1>2. TreesFirst'
  BY DEF SessionInv, TreesFirst
<1>3. FailuresExplained'
  BY ExplainedAll DEF SessionInv, Explained
<1> QED BY <1>1, <1>2, <1>3 DEF SessionInv, OwnTyped

LEMMA SessionNewOK == ASSUME SessionInv, SessionNew PROVE SessionInv'
<1>1. /\ session = None /\ UNCHANGED <<results, own, given>> /\ given = <<>>
  BY DEF SessionInv, SlotsUsed, SessionNew
<1>2. CASE UNCHANGED <<session, heap>>
  <2>1. HostTyped' /\ ResultsTyped' /\ SlotsUsed' /\ ResultsHosted'
    BY <1>1, <1>2 DEF SessionInv, HostTyped, ResultsTyped, SlotsUsed, ResultsHosted
  <2>2. SessionParts = {} /\ SessionParts' = {}
    BY <1>1, <1>2 DEF SessionParts
  <2> QED BY <1>1, <1>2, <2>1, <2>2, ArenaChange
<1>3. ASSUME NEW lang \in Languages, session' = FreshArena(lang, "ok"),
             heap' = heap \cup {<<0, "session">>} \cup AuxParts("ok")
      PROVE  SessionInv'
  <2>1. session' \in Host /\ session'.list = <<>> /\ session'.tail = 0 /\ session'.aux = "ok"
        /\ session'.used = Unused
    BY <1>3, Constants DEF FreshArena, Host, Unused
  <2>2. HostTyped' /\ ResultsTyped'
    BY <1>1, <2>1 DEF SessionInv, HostTyped, ResultsTyped
  <2>3. SlotsUsed'
    BY <1>1, <2>1, NoneIsNone DEF SessionInv, SlotsUsed, Unused, Range
  <2>4. ResultsHosted'
    BY <1>1 DEF SessionInv, ResultsHosted
  <2>5. SessionParts = {} /\ SessionParts' = {<<0, "session">>} \cup AuxParts("ok")
    BY <1>1, <2>1, NoneIsNone DEF SessionParts, ArenaFreed, TypeChunks
  <2> QED BY <1>1, <1>3, <2>2, <2>3, <2>4, <2>5, ArenaChange
<1> QED BY <1>2, <1>3 DEF SessionNew

LEMMA SessionFreeOK == ASSUME SessionInv, SessionFree PROVE SessionInv'
<1>1. /\ session' = None /\ given' = <<>> /\ UNCHANGED <<results, own>>
      /\ \A r \in Results : results[r] = None
  BY DEF SessionFree
<1>2. heap' = heap \ SessionParts /\ SessionParts' = {}
  BY <1>1 DEF SessionFree, SessionParts
<1>3. HostTyped' /\ ResultsTyped' /\ ResultsHosted'
  BY <1>1 DEF SessionInv, HostTyped, ResultsTyped, ResultsHosted
<1>4. SlotsUsed'
  BY <1>1 DEF SlotsUsed, IsInjective
<1> QED BY <1>1, <1>2, <1>3, <1>4, ArenaChange

LEMMA ResetTypesOK == ASSUME SessionInv, ResetTypes PROVE SessionInv'
<1>1. PICK aux \in {"empty", "ok"} :
        /\ session' = EmptyArena(aux)
        /\ heap' = (heap \ ArenaFreed) \cup AuxParts(aux)
  BY DEF ResetTypes
<1>2. /\ session \in Host /\ session # None /\ given' = <<>> /\ UNCHANGED <<results, own>>
      /\ \A r \in Results : results[r] # None => results[r].types = {}
  BY DEF ResetTypes, SessionInv, HostTyped
<1>3. Unused \in [1..MaxTypes -> 0..ChunkTypes]
  BY Constants DEF Unused
<1>4. session' \in Host /\ session'.list = <<>> /\ session'.tail = 0 /\ session'.aux = aux
      /\ session'.used = Unused
  <2>1. <<>> \in Seq(1..MaxTypes) /\ 0 \in 0..MaxTypes /\ aux \in {"none", "empty", "ok"}
    BY Constants
  <2>2. session' = [session EXCEPT !.list = <<>>, !.tail = 0, !.used = Unused, !.aux = aux]
    BY <1>1 DEF EmptyArena
  <2> QED BY <1>2, <1>3, <2>1, <2>2 DEF Host
<1>5. HostTyped' /\ ResultsTyped' /\ session' # None
  BY <1>2, <1>4, NoneIsNone DEF SessionInv, HostTyped, ResultsTyped
<1>6. SlotsUsed'
  BY <1>2, <1>4 DEF SlotsUsed, Unused, Range, IsInjective
<1>7. ResultsHosted'
  BY <1>2, <1>5 DEF ResultsHosted
<1>8. SessionParts = {<<0, "session">>} \cup ArenaFreed /\ <<0, "session">> \notin ArenaFreed
  <2>1. \A x \in TypeChunks : x # <<0, "session">>
    <3>1. \A c \in 1..MaxTypes : Chunk(c) # <<0, "session">>
      BY DEF Chunk, Own
    <3> QED BY <1>2, <3>1, ChunksOf
  <2>2. <<0, "session">> \notin AuxParts(session.aux)
    BY <1>2 DEF AuxParts, Parts, Host
  <2> QED BY <1>2, <2>1, <2>2 DEF SessionParts, ArenaFreed
<1>9. SessionParts' = {<<0, "session">>} \cup AuxParts(aux)
  BY <1>4, <1>5 DEF SessionParts, ArenaFreed, TypeChunks
<1>10. SessionParts \subseteq heap
  BY DEF SessionInv, NothingLeaks
<1>11. heap' = (heap \ SessionParts) \cup SessionParts'
  BY <1>1, <1>8, <1>9, <1>10
<1> QED BY <1>2, <1>5, <1>6, <1>7, <1>11, ArenaChange

LEMMA HookTypeOK == ASSUME SessionInv, NEW r \in Results, HookType(r) PROVE SessionInv'
<1>1. results[r] \in Result /\ session \in Host
  BY PhaseOf DEF HookType, InPhase, Phases
<1>2. PICK t \in Type : Range(given') = Range(given) \cup {t} /\ given'[Len(given')] = t
  BY <1>1, TyAllocOK DEF HookType
<1>3. /\ session' \in Host /\ SlotsUsed' /\ heap' = (heap \ SessionParts) \cup SessionParts'
      /\ own' = own /\ session' # None
  BY <1>1, TyAllocOK, NoneIsNone DEF HookType, Rest
<1> DEFINE new == [results[r] EXCEPT !.types = @ \cup {t}]
<1>4. new \in Result /\ new.types = results[r].types \cup {t} /\ new.phase = results[r].phase
      /\ new.root = results[r].root /\ new.lost = results[r].lost /\ new.diags = results[r].diags
      /\ new.source = results[r].source
  BY <1>1 DEF Result
<1>5. results' = [results EXCEPT ![r] = new] /\ DOMAIN results = Results
  BY <1>2 DEF HookType, SessionInv, ResultsTyped
<1> HIDE DEF new
<1>6. results'[r] = new /\ \A q \in Results \ {r} : results'[q] = results[q]
  BY <1>5
<1>7. Mine(new) = Mine(results[r])
  BY <1>1, <1>4, NoneIsNone DEF Mine
<1>8. HostTyped' /\ ResultsTyped'
  BY <1>3, <1>4, <1>5 DEF SessionInv, HostTyped, ResultsTyped
<1>9. ResultsHosted'
  BY <1>1, <1>2, <1>3, <1>4, <1>6, NoneIsNone DEF SessionInv, ResultsHosted
<1> QED BY <1>3, <1>4, <1>6, <1>7, <1>8, <1>9, ArenaChange

LEMMA AnalyzeOK == ASSUME SessionInv, NEW r \in Results, Analyze(r) PROVE SessionInv'
<1>1. /\ session \in Host /\ results[r] = None /\ Mine(None) = {} /\ DOMAIN results = Results
      /\ UNCHANGED <<session, given, own>>
  BY DEF Analyze, Rest, SessionInv, HostTyped, ResultsTyped, Mine
<1>2. SessionParts' = SessionParts /\ OwnParts' = OwnParts
  BY <1>1 DEF SessionParts, OwnParts, ArenaFreed, TypeChunks
<1>3. HostTyped' /\ OwnTyped' /\ SlotsUsed'
  BY <1>1 DEF SessionInv, HostTyped, OwnTyped, SlotsUsed
<1>4. ASSUME NEW text \in Texts, results' = [results EXCEPT ![r] = NewResult(text)],
             heap' = heap \cup Parts(r, {"result", "ast"})
      PROVE  SessionInv'
  <2> DEFINE new == NewResult(text)
  <2>1. NewSource(text, session.lang.flags) \in Sourced /\ NewSource(text, session.lang.flags).table = NoTable
    <3>1. session.lang.flags \in SUBSET Newlines /\ text \in Seq(Byte)
      BY <1>1, Constants DEF Host
    <3> QED BY <3>1, NewSourceTyped
  <2>2. new \in Result /\ new.phase = "lex" /\ new.types = {} /\ new.diags = <<>> /\ new.source.table = NoTable
    BY <2>1 DEF NewResult, Result, Phases
  <2> HIDE DEF new
  <2>3. ResultsTyped' /\ results'[r] = new /\ \A q \in Results \ {r} : results'[q] = results[q]
    BY <1>1, <1>4, <2>2 DEF SessionInv, ResultsTyped, new
  <2>4. Mine(new) = (Mine(results[r]) \cup {"result", "ast"}) \ {}
    BY <1>1, <2>2, NoneIsNone DEF Mine, PhaseParts
  <2>5. heap' = (heap \cup Parts(r, {"result", "ast"})) \ Parts(r, {})
    BY <1>4 DEF Parts
  <2>6. NothingLeaks'
    BY <1>1, <1>2, <1>4, <2>4, <2>5, ResultChange DEF SessionInv, new
  <2>7. ResultsHosted'
    BY <1>1, <2>2, <2>3, NoneIsNone DEF SessionInv, ResultsHosted
  <2>8. TreesFirst'
    BY <2>2, <2>3 DEF SessionInv, TreesFirst
  <2>9. FailuresExplained'
    <3>1. Explained(new)
      BY <2>2 DEF Explained
    <3> QED BY <2>3, <3>1, ExplainedAll DEF SessionInv
  <2> QED BY <1>3, <2>3, <2>6, <2>7, <2>8, <2>9 DEF SessionInv
<1>5. ASSUME NEW got \in SUBSET {"ast"}, results' = results,
             heap' = (heap \cup Parts(r, {"result"} \cup got)) \ Freed(r)
      PROVE  SessionInv'
  <2>1. Parts(r, {"result"} \cup got) \subseteq Freed(r)
    BY DEF Parts, Freed, CleanupParts
  <2>2. \A x \in heap : x \notin Freed(r)
    <3> SUFFICES ASSUME NEW x \in heap, x \in Freed(r) PROVE FALSE
      OBVIOUS
    <3>1. PICK p : x = <<r, p>>
      BY DEF Freed, Parts
    <3> QED BY <1>1, <3>1, HeapOf DEF SessionInv
  <2>3. heap' = heap
    BY <1>5, <2>1, <2>2
  <2>4. \A q : ResultParts(q)' = ResultParts(q)
    BY <1>5 DEF ResultParts, DiagParts
  <2>5. NothingLeaks'
    BY <1>2, <2>3, <2>4 DEF SessionInv, NothingLeaks
  <2>6. ResultsTyped' /\ ResultsHosted' /\ TreesFirst'
    BY <1>1, <1>5 DEF SessionInv, ResultsTyped, ResultsHosted, TreesFirst
  <2>7. FailuresExplained'
    BY <1>5, ExplainedAll DEF SessionInv
  <2> QED BY <1>3, <2>5, <2>6, <2>7 DEF SessionInv
<1> QED BY <1>4, <1>5 DEF Analyze

LEMMA NoParts == ASSUME NEW r PROVE Parts(r, {}) = {}
BY DEF Parts

LEMMA LexOK == ASSUME SessionInv, NEW r \in Results, Lex(r) PROVE SessionInv'
<1>1. results[r] \in Result /\ results[r].phase = "lex" /\ UNCHANGED <<session, given, own>>
  BY PhaseOf DEF Lex, InPhase, Rest, Phases
<1>2. ASSUME NEW got \in SUBSET {"tokens", "diags"}, GiveUp(r, Parts(r, got)) PROVE SessionInv'
  <2>1. Dies(r, got)
    BY <1>1, <1>2 DEF Dies, GiveUp
  <2> QED BY <2>1, FreeOK
<1>3. ASSUME NEW rec \in Reports(results[r]), GoOn(r, rec, "parse", heap \cup {<<r, "tokens">>})
      PROVE  SessionInv'
  <2>1. /\ rec \in Result /\ rec.source = results[r].source /\ rec.types = results[r].types
        /\ results[r].diags # <<>> => rec.diags # <<>>
    BY <1>1, <1>3, ReportsOK
  <2>2. GoOn(r, rec, "parse", (heap \cup Parts(r, {"tokens"})) \ Parts(r, {}))
    <3>1. heap \cup {<<r, "tokens">>} = (heap \cup Parts(r, {"tokens"})) \ Parts(r, {})
      BY DEF Parts
    <3> QED BY <1>3, <3>1
  <2>3. PhaseParts("parse") = (PhaseParts(results[r].phase) \cup {"tokens"}) \ {}
    BY <1>1 DEF PhaseParts
  <2>4. Goes(r, rec, "parse", {"tokens"}, {})
    BY <1>1, <2>1, <2>2, <2>3 DEF Goes, Phases
  <2> QED BY <2>4, GoOnOK
<1> QED BY <1>2, <1>3 DEF Lex

LEMMA ParserNewOK == ASSUME SessionInv, NEW r \in Results, ParserNew(r) PROVE SessionInv'
<1>1. results[r] \in Result /\ results[r].phase = "parse" /\ UNCHANGED <<session, given, own>>
  BY PhaseOf DEF ParserNew, InPhase, Rest, Phases
<1>2. ASSUME NEW rec \in Push(results[r], Error("no parser", 0)), GoOn(r, rec, "done", heap)
      PROVE  SessionInv'
  <2>1. Error("no parser", 0) \in Reported /\ Error("no parser", 0).msg = "no parser"
    BY DEF Error, Reported, Messages
  <2>2. /\ rec \in Result /\ rec.source = results[r].source /\ rec.types = results[r].types
        /\ results[r].diags # <<>> => rec.diags # <<>>
        /\ rec.lost \/ (rec.diags # <<>> /\ rec.diags[Len(rec.diags)].msg = "no parser")
    BY <1>1, <1>2, <2>1, PushOK
  <2>3. GoOn(r, rec, "done", (heap \cup Parts(r, {})) \ Parts(r, {}))
    <3>1. (heap \cup Parts(r, {})) \ Parts(r, {}) = heap
      BY NoParts
    <3> QED BY <1>2, <3>1
  <2>4. PhaseParts("done") = (PhaseParts(results[r].phase) \cup {}) \ {}
    BY <1>1 DEF PhaseParts
  <2>5. Goes(r, rec, "done", {}, {})
    BY <1>1, <2>2, <2>3, <2>4 DEF Goes, Phases
  <2> QED BY <2>5, GoOnOK
<1>3. ASSUME GiveUp(r, {}) PROVE SessionInv'
  <2>1. heap' = (heap \cup Parts(r, {})) \ Freed(r)
    BY <1>3, NoParts DEF GiveUp
  <2>2. Dies(r, {})
    BY <1>1, <1>3, <2>1 DEF Dies, GiveUp
  <2> QED BY <2>2, FreeOK
<1>4. ASSUME GoOn(r, results[r], "parsing", heap \cup {<<r, "parser">>}) PROVE SessionInv'
  <2>1. GoOn(r, results[r], "parsing", (heap \cup Parts(r, {"parser"})) \ Parts(r, {}))
    <3>1. heap \cup {<<r, "parser">>} = (heap \cup Parts(r, {"parser"})) \ Parts(r, {})
      BY DEF Parts
    <3> QED BY <1>4, <3>1
  <2>2. PhaseParts("parsing") = (PhaseParts(results[r].phase) \cup {"parser"}) \ {}
    BY <1>1 DEF PhaseParts
  <2>3. Goes(r, results[r], "parsing", {"parser"}, {})
    BY <1>1, <2>1, <2>2 DEF Goes, Phases
  <2> QED BY <2>3, GoOnOK
<1> QED BY <1>2, <1>3, <1>4 DEF ParserNew

LEMMA ParseSourceOK == ASSUME SessionInv, NEW r \in Results, ParseSource(r) PROVE SessionInv'
<1>1. results[r] \in Result /\ results[r].phase = "parsing" /\ UNCHANGED <<session, given, own>>
  BY PhaseOf DEF ParseSource, InPhase, Rest, Phases
<1>2. PICK rec \in Reports(results[r]) :
        \/ GoOn(r, [rec EXCEPT !.root = TRUE], "sema", heap \ {<<r, "parser">>})
        \/ \E told \in Push(rec, Error("parse failed", 0)) :
             GoOn(r, told, "done", heap \ {<<r, "parser">>})
  BY DEF ParseSource
<1>3. /\ rec \in Result /\ rec.source = results[r].source /\ rec.types = results[r].types
      /\ results[r].diags # <<>> => rec.diags # <<>>
  BY <1>1, ReportsOK
<1>4. heap \ {<<r, "parser">>} = (heap \cup Parts(r, {})) \ Parts(r, {"parser"})
  BY DEF Parts
<1>5. \A phase \in {"sema", "done"} :
        PhaseParts(phase) = (PhaseParts(results[r].phase) \cup {}) \ {"parser"}
  BY <1>1 DEF PhaseParts
<1>6. ASSUME GoOn(r, [rec EXCEPT !.root = TRUE], "sema", heap \ {<<r, "parser">>}) PROVE SessionInv'
  <2> DEFINE new == [rec EXCEPT !.root = TRUE]
  <2>1. new \in Result /\ new.source = rec.source /\ new.types = rec.types /\ new.diags = rec.diags /\ new.root
    BY <1>3 DEF Result
  <2>2. GoOn(r, new, "sema", (heap \cup Parts(r, {})) \ Parts(r, {"parser"}))
    BY <1>4, <1>6
  <2> HIDE DEF new
  <2>3. Goes(r, new, "sema", {}, {"parser"})
    BY <1>1, <1>3, <1>5, <2>1, <2>2 DEF Goes, Phases
  <2> QED BY <2>3, GoOnOK
<1>7. ASSUME NEW told \in Push(rec, Error("parse failed", 0)),
             GoOn(r, told, "done", heap \ {<<r, "parser">>})
      PROVE  SessionInv'
  <2>1. Error("parse failed", 0) \in Reported /\ Error("parse failed", 0).msg = "parse failed"
    BY DEF Error, Reported, Messages
  <2>2. /\ told \in Result /\ told.source = rec.source /\ told.types = rec.types
        /\ rec.diags # <<>> => told.diags # <<>>
        /\ told.lost \/ (told.diags # <<>> /\ told.diags[Len(told.diags)].msg = "parse failed")
    BY <1>3, <1>7, <2>1, PushOK
  <2>3. GoOn(r, told, "done", (heap \cup Parts(r, {})) \ Parts(r, {"parser"}))
    BY <1>4, <1>7
  <2>4. Goes(r, told, "done", {}, {"parser"})
    BY <1>1, <1>3, <1>5, <2>2, <2>3 DEF Goes, Phases
  <2> QED BY <2>4, GoOnOK
<1> QED BY <1>2, <1>6, <1>7

LEMMA SemaNewOK == ASSUME SessionInv, NEW r \in Results, SemaNew(r) PROVE SessionInv'
<1>1. results[r] \in Result /\ results[r].phase = "sema" /\ UNCHANGED <<session, given, own>>
  BY PhaseOf DEF SemaNew, InPhase, Rest, Phases
<1>2. ASSUME GiveUp(r, {}) PROVE SessionInv'
  <2>1. heap' = (heap \cup Parts(r, {})) \ Freed(r)
    BY <1>2, NoParts DEF GiveUp
  <2>2. Dies(r, {})
    BY <1>1, <1>2, <2>1 DEF Dies, GiveUp
  <2> QED BY <2>2, FreeOK
<1>3. ASSUME GoOn(r, results[r], "resolving", heap \cup {<<r, "sema">>}) PROVE SessionInv'
  <2>1. GoOn(r, results[r], "resolving", (heap \cup Parts(r, {"sema"})) \ Parts(r, {}))
    <3>1. heap \cup {<<r, "sema">>} = (heap \cup Parts(r, {"sema"})) \ Parts(r, {})
      BY DEF Parts
    <3> QED BY <1>3, <3>1
  <2>2. PhaseParts("resolving") = (PhaseParts(results[r].phase) \cup {"sema"}) \ {}
    BY <1>1 DEF PhaseParts
  <2>3. results[r].root
    BY <1>1 DEF SessionInv, TreesFirst
  <2>4. Goes(r, results[r], "resolving", {"sema"}, {})
    BY <1>1, <2>1, <2>2, <2>3 DEF Goes, Phases
  <2> QED BY <2>4, GoOnOK
<1> QED BY <1>2, <1>3 DEF SemaNew

LEMMA SemaFreeOK == ASSUME SessionInv, NEW r \in Results, SemaFree(r) PROVE SessionInv'
<1>1. results[r] \in Result /\ results[r].phase = "resolving" /\ UNCHANGED <<session, given, own>>
  BY PhaseOf DEF SemaFree, InPhase, Rest, Phases
<1>2. PICK rec \in Reports(results[r]) : GoOn(r, rec, "done", heap \ {<<r, "sema">>})
  BY DEF SemaFree
<1>3. /\ rec \in Result /\ rec.source = results[r].source /\ rec.types = results[r].types
      /\ rec.root = results[r].root /\ (results[r].diags # <<>> => rec.diags # <<>>)
  BY <1>1, ReportsOK
<1>4. heap \ {<<r, "sema">>} = (heap \cup Parts(r, {})) \ Parts(r, {"sema"})
  BY DEF Parts
<1>5. GoOn(r, rec, "done", (heap \cup Parts(r, {})) \ Parts(r, {"sema"}))
  BY <1>2, <1>4
<1>6. PhaseParts("done") = (PhaseParts(results[r].phase) \cup {}) \ {"sema"}
  BY <1>1 DEF PhaseParts
<1>7. rec.root
  <2>1. results[r].root
    BY <1>1 DEF SessionInv, TreesFirst
  <2> QED BY <1>3, <2>1
<1>8. Goes(r, rec, "done", {}, {"sema"})
  BY <1>1, <1>3, <1>5, <1>6, <1>7 DEF Goes, Phases
<1> QED BY <1>8, GoOnOK

LEMMA ResultFreeOK == ASSUME SessionInv, NEW r \in Results, ResultFree(r) PROVE SessionInv'
<1>1. results[r] \in Result /\ results[r].phase = "done" /\ UNCHANGED <<session, given, own>>
  BY PhaseOf DEF ResultFree, Rest, Phases
<1>2. heap' = (heap \cup Parts(r, {})) \ Freed(r)
  BY NoParts DEF ResultFree
<1>3. Dies(r, {})
  BY <1>1, <1>2 DEF Dies, ResultFree
<1> QED BY <1>3, FreeOK
-----------------------------------------------------------------------------
(* Positions: a line table is built once and kept.                         *)
LEMMA ToldOK ==
  ASSUME NEW s \in Sourced, NEW table \in Tables(s)
  PROVE  LET told == [s EXCEPT !.table = table]
         IN  /\ told \in Sourced /\ told.table = table /\ told.bytes = s.bytes /\ told.flags = s.flags
             /\ s.table # NoTable => table = s.table
<1>1. table \in Tabled
  BY TablesTyped
<1> QED BY <1>1 DEF Sourced, Tables

LEMMA ErrorAtOK == ASSUME SessionInv, NEW r \in Results, ErrorAt(r) PROVE SessionInv'
<1>1. results[r] \in Result /\ results[r].phase = "done" /\ UNCHANGED <<session, given, own>>
      /\ results[r].source \in Sourced
  BY PhaseOf DEF ErrorAt, Phases, Result
<1> DEFINE s == results[r].source
<1>2. PICK table \in Tables(s) :
        LET told == [s EXCEPT !.table = table]
        IN  /\ results' = [results EXCEPT ![r].source = told]
            /\ heap' = IF told.table = NoTable THEN heap ELSE heap \cup {<<r, "table">>}
  BY DEF ErrorAt, Asked
<1> DEFINE told == [s EXCEPT !.table = table]
           new  == [results[r] EXCEPT !.source = told]
           K    == IF table = NoTable THEN {} ELSE {"table"}
<1>3. told \in Sourced /\ told.table = table /\ (s.table # NoTable => table = s.table)
  BY <1>1, ToldOK
<1>4. new \in Result /\ new.source = told /\ new.phase = "done" /\ new.diags = results[r].diags
      /\ new.root = results[r].root /\ new.lost = results[r].lost /\ new.types = results[r].types
  <2> HIDE DEF told
  <2> QED BY <1>1, <1>3 DEF Result
<1>5. results' = [results EXCEPT ![r] = new] /\ DOMAIN results = Results
  BY <1>2 DEF SessionInv, ResultsTyped
<1>6. heap' = (heap \cup Parts(r, K)) \ Parts(r, {})
  <2>1. Parts(r, K) = IF table = NoTable THEN {} ELSE {<<r, "table">>}
    BY DEF Parts
  <2> QED BY <1>2, <1>3, <2>1, NoParts
<1>7. Mine(new) = (Mine(results[r]) \cup K) \ {}
  <2> HIDE DEF new, told
  <2>1. results[r] # None /\ new # None
    BY <1>1, <1>4, NoneIsNone
  <2> QED BY <1>1, <1>3, <1>4, <2>1 DEF Mine
<1> HIDE DEF new, told, K
<1>8. results'[r] = new /\ \A q \in Results \ {r} : results'[q] = results[q]
  BY <1>5
<1>9. NothingLeaks'
  <2>1. SessionParts' = SessionParts /\ OwnParts' = OwnParts
    BY <1>1 DEF SessionParts, OwnParts, ArenaFreed, TypeChunks
  <2> QED BY <1>5, <1>6, <1>7, <2>1, ResultChange DEF SessionInv
<1>10. HostTyped' /\ OwnTyped' /\ SlotsUsed'
  BY <1>1 DEF SessionInv, HostTyped, OwnTyped, SlotsUsed
<1>11. ResultsTyped'
  BY <1>4, <1>5 DEF SessionInv, ResultsTyped
<1>12. ResultsHosted' /\ TreesFirst'
  BY <1>1, <1>4, <1>8, NoneIsNone DEF SessionInv, ResultsHosted, TreesFirst
<1>13. FailuresExplained'
  <2>1. Explained(results[r]) => Explained(new)
    BY <1>1, <1>4 DEF Explained
  <2> QED BY <1>8, <2>1, ExplainedAll DEF SessionInv
<1> QED BY <1>9, <1>10, <1>11, <1>12, <1>13 DEF SessionInv

LEMMA OwnChange ==
  ASSUME SessionInv, OwnTyped', UNCHANGED <<session, given, results>>,
         heap' = (heap \ OwnParts) \cup OwnParts'
  PROVE  SessionInv'
<1> DEFINE rest == SessionParts \cup UNION {ResultParts(r) : r \in Results}
<1>1. rest' = rest
  <2>1. SessionParts' = SessionParts /\ \A r \in Results : ResultParts(r)' = ResultParts(r)
    BY DEF SessionParts, ArenaFreed, TypeChunks, ResultParts, DiagParts
  <2> QED BY <2>1
<1>2. \A x \in rest : x \notin OwnParts
  BY Owners, Constants DEF SessionInv, Own
<1>3. heap = rest \cup OwnParts
  BY DEF SessionInv, NothingLeaks
<1> HIDE DEF rest
<1>4. heap' = rest' \cup OwnParts'
  BY <1>1, <1>2, <1>3
<1>5. NothingLeaks'
  BY <1>4 DEF NothingLeaks, rest
<1>6. HostTyped' /\ ResultsTyped' /\ SlotsUsed' /\ ResultsHosted' /\ TreesFirst'
  BY DEF SessionInv, HostTyped, ResultsTyped, SlotsUsed, ResultsHosted, TreesFirst
<1>7. FailuresExplained'
  BY ExplainedAll DEF SessionInv
<1> QED BY <1>5, <1>6, <1>7 DEF SessionInv

LEMMA ClientOK == ASSUME SessionInv, ClientStep PROVE SessionInv'
<1>1. CASE SourceInit
  <2>1. own = None /\ UNCHANGED <<heap, session, given, results>>
    BY <1>1 DEF SourceInit
  <2>2. own' = None \/ (own' \in Sourced /\ own'.table = NoTable)
    BY <1>1, NewSourceTyped, Constants DEF SourceInit
  <2>3. OwnTyped' /\ OwnParts = {} /\ OwnParts' = {}
    BY <2>1, <2>2 DEF OwnTyped, OwnParts
  <2> QED BY <2>1, <2>3, OwnChange
<1>2. CASE SourcePos
  <2>1. own \in Sourced /\ own # None /\ UNCHANGED <<session, given, results>>
    BY <1>2 DEF SourcePos, SessionInv, OwnTyped
  <2>2. PICK table \in Tables(own) :
          LET told == [own EXCEPT !.table = table]
          IN  /\ own' = told
              /\ heap' = IF told.table = NoTable THEN heap ELSE heap \cup {<<Own, "table">>}
    BY <1>2 DEF SourcePos, Asked
  <2>3. own' \in Sourced /\ own'.table = table /\ (own.table # NoTable => table = own.table)
    BY <2>1, <2>2, ToldOK
  <2>4. OwnTyped' /\ OwnParts' = IF table = NoTable THEN {} ELSE {<<Own, "table">>}
    BY <2>3, NoneIsNone DEF OwnTyped, OwnParts
  <2>5. OwnParts = (IF own.table = NoTable THEN {} ELSE {<<Own, "table">>}) /\ OwnParts \subseteq heap
    BY <2>1 DEF OwnParts, SessionInv, NothingLeaks
  <2>6. heap' = (heap \ OwnParts) \cup OwnParts'
    BY <2>2, <2>3, <2>4, <2>5
  <2> QED BY <2>1, <2>4, <2>6, OwnChange
<1>3. CASE SourceFree
  <2>1. own \in Sourced /\ own # None /\ own' = None /\ UNCHANGED <<session, given, results>>
    BY <1>3 DEF SourceFree, SessionInv, OwnTyped
  <2>2. OwnTyped' /\ OwnParts' = {}
    BY <2>1 DEF OwnTyped, OwnParts
  <2>3. heap' = heap \ OwnParts
    <3>1. CASE own.table # NoTable
      BY <1>3, <2>1, <3>1 DEF SourceFree, OwnParts
    <3>2. CASE own.table = NoTable
      <4>1. OwnParts = {} /\ <<Own, "table">>[1] = Own
        BY <3>2 DEF OwnParts
      <4>2. <<Own, "table">> \notin heap
        BY <4>1, Owners, Constants DEF SessionInv, NothingLeaks, Own
      <4> QED BY <1>3, <4>1, <4>2 DEF SourceFree
    <3> QED BY <3>1, <3>2
  <2> QED BY <2>1, <2>2, <2>3, OwnChange
<1> QED BY <1>1, <1>2, <1>3 DEF ClientStep
-----------------------------------------------------------------------------
LEMMA SessionStep == SessionInv /\ [Next]_vars => SessionInv'
<1> SUFFICES ASSUME SessionInv, [Next]_vars PROVE SessionInv'
  OBVIOUS
<1>1. CASE UNCHANGED vars
  <2>1. UNCHANGED <<heap, session, given, results, own>>
    BY <1>1 DEF vars
  <2>2. OwnTyped' /\ OwnParts' = OwnParts /\ OwnParts \subseteq heap
    BY <2>1 DEF SessionInv, OwnTyped, OwnParts, NothingLeaks
  <2>3. heap' = (heap \ OwnParts) \cup OwnParts'
    BY <2>1, <2>2
  <2> QED BY <2>1, <2>2, <2>3, OwnChange
<1>2. CASE HostStep
  BY <1>2, SessionNewOK, SessionFreeOK, ResetTypesOK, AnalyzeOK, LexOK, ParserNewOK, ParseSourceOK,
     SemaNewOK, HookTypeOK, SemaFreeOK, ErrorAtOK, ResultFreeOK
     DEF HostStep
<1>3. CASE ClientStep
  BY <1>3, ClientOK
<1> QED BY <1>1, <1>2, <1>3 DEF Next

LEMMA SessionSound == SessionInv => ResultsSound
<1> SUFFICES ASSUME SessionInv PROVE ResultsSound
  OBVIOUS
<1>1. ASSUME NEW i \in DOMAIN given PROVE Chunk(given[i][1]) \in heap /\ given[i][2] < ChunkTypes
  <2>1. given \in Seq(Type) /\ session # None
    BY <1>1 DEF SessionInv, SlotsUsed
  <2>2. given[i] \in Type /\ session \in Host
    BY <1>1, <2>1, ElementOfSeq, LenProperties DEF SessionInv, HostTyped
  <2>3. given[i][1] \in 1..MaxTypes /\ given[i][2] \in Nat
    BY <2>2, TypeIsPair
  <2>4. given[i][2] < session.used[given[i][1]] /\ session.used[given[i][1]] \in 0..ChunkTypes
    BY <1>1, <2>1, <2>2, <2>3 DEF SessionInv, SlotsUsed, Host
  <2>5. given[i][1] \in Range(session.list)
    BY <2>1, <2>3, <2>4 DEF SessionInv, SlotsUsed
  <2> QED BY <2>2, <2>3, <2>4, <2>5, ChunkInHeap, Constants DEF SessionInv
<1>2. TypesAlive
  BY <1>1 DEF SessionInv, SlotsUsed, ResultsHosted, TypesAlive
<1> QED BY <1>2 DEF ResultsSound, SessionInv

(* Whatever fails and whatever the hooks of an analysis start, the memory  *)
(* in use is that of what lives, the types that trees hold are alive and   *)
(* apart, and a missing tree is explained: kavak_analyze, the type arena   *)
(* and everything that frees.                                              *)
THEOREM NothingIsLost == Spec => []ResultsSound
<1>1. Spec => []SessionInv
  BY SessionStart, SessionStep, PTL DEF Spec
<1> QED BY <1>1, SessionSound, PTL
-----------------------------------------------------------------------------
(* Every table is the one its source makes, and the last position told was *)
(* told by a table of that kind.                                           *)
Good(s) == s \in Sourced /\ (s.table = NoTable \/ RightTable(s, s.table))

SourcesGood == /\ own = None \/ Good(own)
               /\ \A r \in Results : results[r] = None \/ Good(results[r].source)
AnswerGood  == answer.source = None \/ (/\ Good(answer.source) /\ answer.at \in Nat
                                       /\ answer.pos = Pos(answer.source, answer.at))
TablesInv == SourcesGood /\ AnswerGood

LEMMA EndsOfTold ==
  ASSUME NEW s, NEW t, t.bytes = s.bytes, t.flags = s.flags
  PROVE  Ends(t) = Ends(s)
BY DEF Ends

LEMMA ToldGood ==
  ASSUME NEW s, Good(s), NEW table \in Tables(s)
  PROVE  Good([s EXCEPT !.table = table])
<1> DEFINE told == [s EXCEPT !.table = table]
<1>1. /\ s \in Sourced /\ told \in Sourced /\ told.table = table /\ told.bytes = s.bytes
      /\ told.flags = s.flags /\ (s.table # NoTable => table = s.table)
  BY ToldOK DEF Good
<1> HIDE DEF told
<1>2. table = NoTable \/ RightTable(s, table)
  BY <1>1, TablesRight DEF Good
<1>3. Ends(told) = Ends(s)
  BY <1>1, EndsOfTold
<1>4. RightTable(s, table) => RightTable(told, table)
  BY <1>1, <1>3 DEF RightTable, LinesTo
<1> QED BY <1>1, <1>2, <1>4 DEF Good, told

\* A step that builds no table: a source stays or is new.
SourcesKept ==
  \A q \in Results :
    \/ results'[q] = None \/ results'[q].source.table = NoTable
    \/ results[q] # None /\ results'[q].source = results[q].source

LEMMA KeptGood ==
  ASSUME SessionInv', SourcesGood, SourcesKept, own' = own, answer' = Silent
  PROVE  TablesInv'
<1>1. ASSUME NEW q \in Results PROVE results'[q] = None \/ Good(results'[q].source)
  <2>1. results'[q] # None => results'[q].source \in Sourced
    BY DEF SessionInv, ResultsTyped, Result
  <2> QED BY <2>1 DEF SourcesKept, SourcesGood, Good
<1>2. SourcesGood'
  BY <1>1 DEF SourcesGood
<1>3. AnswerGood'
  BY DEF AnswerGood, Silent
<1> QED BY <1>2, <1>3 DEF TablesInv

LEMMA RecordKept ==
  ASSUME SessionInv, NEW r \in Results, results[r] # None, NEW new,
         new = None \/ new.source = results[r].source, results' = [results EXCEPT ![r] = new]
  PROVE  SourcesKept
<1>1. results'[r] = new /\ \A q \in Results \ {r} : results'[q] = results[q]
  BY DEF SessionInv, ResultsTyped
<1> QED BY <1>1 DEF SourcesKept

LEMMA GoOnKeeps ==
  ASSUME SessionInv, NEW r \in Results, results[r] # None, NEW rec \in Result,
         rec.source = results[r].source, NEW phase, NEW blocks, GoOn(r, rec, phase, blocks)
  PROVE  SourcesKept
<1> DEFINE new == [rec EXCEPT !.phase = phase]
<1>1. new.source = rec.source /\ results' = [results EXCEPT ![r] = new]
  BY DEF Result, GoOn
<1> HIDE DEF new
<1> QED BY <1>1, RecordKept

LEMMA GiveUpKeeps ==
  ASSUME SessionInv, NEW r \in Results, results[r] # None, NEW got, GiveUp(r, got)
  PROVE  SourcesKept
BY RecordKept DEF GiveUp

\* The host's steps that build no table.
LEMMA StepKeeps ==
  ASSUME SessionInv, NEW r \in Results,
         Analyze(r) \/ Lex(r) \/ ParserNew(r) \/ ParseSource(r) \/ SemaNew(r)
           \/ HookType(r) \/ SemaFree(r) \/ ResultFree(r)
  PROVE  SourcesKept /\ Rest
<1>0. /\ UNCHANGED results => SourcesKept
      /\ \A phase \in Phases : results[r].phase = phase => results[r] \in Result /\ results[r] # None
  <2>1. UNCHANGED results => SourcesKept
    BY DEF SourcesKept
  <2> QED BY <2>1, PhaseOf, NoneIsNone
<1>9. /\ InPhase(r, "lex") \/ InPhase(r, "parse") \/ InPhase(r, "parsing") \/ InPhase(r, "sema")
           \/ InPhase(r, "resolving") => results[r] \in Result /\ results[r] # None
  BY <1>0 DEF InPhase, Phases
<1>10. \A rec \in Result :
         /\ \A told \in Push(rec, Error("no parser", 0)) : told \in Result /\ told.source = rec.source
         /\ \A told \in Push(rec, Error("parse failed", 0)) : told \in Result /\ told.source = rec.source
  <2>1. Error("no parser", 0) \in Reported /\ Error("parse failed", 0) \in Reported
    BY DEF Error, Reported, Messages
  <2> DEFINE none == Error("no parser", 0)
             failed == Error("parse failed", 0)
  <2> HIDE DEF none, failed
  <2>2. ASSUME NEW rec \in Result, NEW told \in Push(rec, none) PROVE told \in Result /\ told.source = rec.source
    <3>1. none \in Reported
      BY <2>1, Zenon DEF none
    <3> QED BY <2>2, <3>1, PushOK
  <2>3. ASSUME NEW rec \in Result, NEW told \in Push(rec, failed) PROVE told \in Result /\ told.source = rec.source
    <3>1. failed \in Reported
      BY <2>1, Zenon DEF failed
    <3> QED BY <2>3, <3>1, PushOK
  <2> QED BY <2>2, <2>3, Zenon DEF none, failed
<1>1. ASSUME Analyze(r) PROVE SourcesKept /\ Rest
  <2>1. ASSUME NEW text \in Texts, results' = [results EXCEPT ![r] = NewResult(text)] PROVE SourcesKept
    <3>1. NewResult(text).source.table = NoTable
      BY DEF NewResult, NewSource
    <3>2. results'[r] = NewResult(text) /\ \A q \in Results \ {r} : results'[q] = results[q]
      BY <2>1 DEF SessionInv, ResultsTyped
    <3> QED BY <3>1, <3>2 DEF SourcesKept
  <2> QED BY <1>0, <1>1, <2>1 DEF Analyze
<1>2. ASSUME Lex(r) PROVE SourcesKept /\ Rest
  <2>1. results[r] \in Result /\ results[r] # None
    BY <1>0, <1>2 DEF Lex, InPhase, Phases
  <2> QED BY <1>2, <2>1, GiveUpKeeps, GoOnKeeps, ReportsOK DEF Lex
<1>3. ASSUME ParserNew(r) PROVE SourcesKept /\ Rest
  <2>1. results[r] \in Result /\ results[r] # None
    BY <1>3, <1>9, Zenon DEF ParserNew
  <2>2. \A rec \in Push(results[r], Error("no parser", 0)) : rec \in Result /\ rec.source = results[r].source
    BY <1>10, <2>1, Zenon
  <2>3. \/ \E rec \in Push(results[r], Error("no parser", 0)) : GoOn(r, rec, "done", heap)
        \/ GiveUp(r, {}) \/ GoOn(r, results[r], "parsing", heap \cup {<<r, "parser">>})
    BY <1>3, Zenon DEF ParserNew
  <2>4. Rest
    BY <1>3, Zenon DEF ParserNew
  <2>5. ASSUME NEW rec \in Push(results[r], Error("no parser", 0)), GoOn(r, rec, "done", heap) PROVE SourcesKept
    <3>1. rec \in Result /\ rec.source = results[r].source
      BY <2>2, Zenon
    <3> QED BY <2>1, <2>5, <3>1, GoOnKeeps, Zenon
  <2>6. GiveUp(r, {}) => SourcesKept
    BY <2>1, GiveUpKeeps
  <2>7. GoOn(r, results[r], "parsing", heap \cup {<<r, "parser">>}) => SourcesKept
    BY <2>1, GoOnKeeps
  <2> QED BY <2>3, <2>4, <2>5, <2>6, <2>7, Zenon
<1>4. ASSUME ParseSource(r) PROVE SourcesKept /\ Rest
  <2>1. results[r] \in Result /\ results[r] # None
    BY <1>4, <1>9, Zenon DEF ParseSource
  <2>2. PICK rec \in Reports(results[r]) :
          \/ GoOn(r, [rec EXCEPT !.root = TRUE], "sema", heap \ {<<r, "parser">>})
          \/ \E told \in Push(rec, Error("parse failed", 0)) :
               GoOn(r, told, "done", heap \ {<<r, "parser">>})
    BY <1>4, Zenon DEF ParseSource
  <2>3. rec \in Result /\ rec.source = results[r].source
    BY <2>1, ReportsOK
  <2>4. \A told \in Push(rec, Error("parse failed", 0)) : told \in Result /\ told.source = results[r].source
    BY <1>10, <2>3, Zenon
  <2>5. [rec EXCEPT !.root = TRUE] \in Result /\ [rec EXCEPT !.root = TRUE].source = results[r].source
    BY <2>3 DEF Result
  <2>6. SourcesKept
    <3> DEFINE rooted == [rec EXCEPT !.root = TRUE]
    <3> HIDE DEF rooted
    <3>1. rooted \in Result /\ rooted.source = results[r].source
      BY <2>5 DEF rooted
    <3>2. CASE GoOn(r, rooted, "sema", heap \ {<<r, "parser">>})
      BY <2>1, <3>1, <3>2, GoOnKeeps
    <3>3. ASSUME NEW told \in Push(rec, Error("parse failed", 0)), GoOn(r, told, "done", heap \ {<<r, "parser">>})
          PROVE  SourcesKept
      <4>1. told \in Result /\ told.source = results[r].source
        BY <2>4, Zenon
      <4> QED BY <2>1, <3>3, <4>1, GoOnKeeps, Zenon
    <3> QED BY <2>2, <3>2, <3>3, Zenon DEF rooted
  <2>7. Rest
    BY <1>4, Zenon DEF ParseSource
  <2> QED BY <2>6, <2>7
<1>5. ASSUME SemaNew(r) PROVE SourcesKept /\ Rest
  <2>1. results[r] \in Result /\ results[r] # None
    BY <1>0, <1>5 DEF SemaNew, InPhase, Phases
  <2> QED BY <1>5, <2>1, GiveUpKeeps, GoOnKeeps DEF SemaNew
<1>6. ASSUME HookType(r) PROVE SourcesKept /\ Rest
  <2>1. results[r] \in Result /\ results[r] # None
    BY <1>0, <1>6 DEF HookType, InPhase, Phases
  <2> DEFINE new == [results[r] EXCEPT !.types = @ \cup {given'[Len(given')]}]
  <2>2. results' = [results EXCEPT ![r] = new] /\ new.source = results[r].source
    BY <1>6, <2>1 DEF HookType, Result, SessionInv, ResultsTyped
  <2> HIDE DEF new
  <2> QED BY <1>6, <2>1, <2>2, RecordKept DEF HookType
<1>7. ASSUME SemaFree(r) PROVE SourcesKept /\ Rest
  <2>1. results[r] \in Result /\ results[r] # None
    BY <1>0, <1>7 DEF SemaFree, InPhase, Phases
  <2> QED BY <1>7, <2>1, GoOnKeeps, ReportsOK DEF SemaFree
<1>8. ASSUME ResultFree(r) PROVE SourcesKept /\ Rest
  <2>1. results[r] \in Result /\ results[r] # None
    BY <1>0, <1>8 DEF ResultFree, Phases
  <2> QED BY <1>8, <2>1, RecordKept DEF ResultFree
<1> QED BY <1>1, <1>2, <1>3, <1>4, <1>5, <1>6, <1>7, <1>8

LEMMA TablesStart == Init => TablesInv
BY DEF Init, TablesInv, SourcesGood, AnswerGood, Silent

LEMMA ErrorAtGood ==
  ASSUME SessionInv, TablesInv, NEW r \in Results, ErrorAt(r)
  PROVE  TablesInv'
<1>1. results[r] \in Result /\ results[r] # None /\ own' = own
  BY PhaseOf, NoneIsNone DEF ErrorAt, Phases
<1> DEFINE s == results[r].source
<1>2. PICK i \in DOMAIN results[r].diags, table \in Tables(s) :
        LET told == [s EXCEPT !.table = table]
        IN  /\ answer' = [source |-> told, at |-> results[r].diags[i].at,
                          pos |-> Pos(told, results[r].diags[i].at)]
            /\ results' = [results EXCEPT ![r].source = told]
  BY DEF ErrorAt, Asked
<1> DEFINE told == [s EXCEPT !.table = table]
           new  == [results[r] EXCEPT !.source = told]
           at   == results[r].diags[i].at
<1>3. at \in Nat
  <2>1. results[r].diags \in Seq(Reported)
    BY <1>1 DEF Result
  <2>2. results[r].diags[i] \in Reported
    BY <2>1, ElementOfSeq, LenProperties
  <2> QED BY <2>2 DEF Reported
<1>4. Good(told)
  BY <1>1, ToldGood DEF TablesInv, SourcesGood
<1>5. new.source = told
  BY <1>1 DEF Result
<1>6. results' = [results EXCEPT ![r] = new]
  BY <1>2 DEF SessionInv, ResultsTyped
<1>7. answer' = [source |-> told, at |-> at, pos |-> Pos(told, at)]
  BY <1>2
<1> HIDE DEF told, new, at
<1>8. results'[r] = new /\ \A q \in Results \ {r} : results'[q] = results[q]
  BY <1>6 DEF SessionInv, ResultsTyped
<1>9. SourcesGood'
  <2>1. \A q \in Results : results'[q] = None \/ Good(results'[q].source)
    BY <1>4, <1>5, <1>8 DEF TablesInv, SourcesGood
  <2> QED BY <1>1, <2>1 DEF TablesInv, SourcesGood
<1>10. AnswerGood'
  BY <1>3, <1>4, <1>7 DEF AnswerGood
<1> QED BY <1>9, <1>10 DEF TablesInv

LEMMA ClientGood ==
  ASSUME SessionInv, SessionInv', TablesInv, ClientStep
  PROVE  TablesInv'
<1>1. CASE SourceInit
  <2>1. results' = results /\ answer' = Silent
    BY <1>1 DEF SourceInit
  <2>2. own' = None \/ own'.table = NoTable
    BY <1>1 DEF SourceInit, NewSource
  <2>3. own' = None \/ Good(own')
    BY <2>2 DEF SessionInv, OwnTyped, Good
  <2>4. SourcesGood'
    BY <2>1, <2>3 DEF TablesInv, SourcesGood
  <2>5. AnswerGood'
    BY <2>1 DEF AnswerGood, Silent
  <2> QED BY <2>4, <2>5 DEF TablesInv
<1>2. CASE SourcePos
  <2>1. own # None /\ Good(own) /\ results' = results
    BY <1>2 DEF SourcePos, TablesInv, SourcesGood
  <2>2. PICK p \in 0..Len(own.bytes) + 1, table \in Tables(own) :
          LET told == [own EXCEPT !.table = table]
          IN  /\ answer' = [source |-> told, at |-> p, pos |-> Pos(told, p)]
              /\ own' = told
    BY <1>2 DEF SourcePos, Asked
  <2> DEFINE told == [own EXCEPT !.table = table]
  <2>3. Good(told) /\ p \in Nat
    <3>1. p \in Nat
      OBVIOUS
    <3> QED BY <2>1, <3>1, ToldGood
  <2>4. answer' = [source |-> told, at |-> p, pos |-> Pos(told, p)] /\ own' = told
    BY <2>2
  <2> HIDE DEF told
  <2>5. SourcesGood'
    BY <2>1, <2>3, <2>4 DEF TablesInv, SourcesGood
  <2>6. AnswerGood'
    BY <2>3, <2>4 DEF AnswerGood
  <2> QED BY <2>5, <2>6 DEF TablesInv
<1>3. CASE SourceFree
  <2>1. results' = results /\ answer' = Silent /\ own' = None
    BY <1>3 DEF SourceFree
  <2>2. SourcesGood'
    BY <2>1 DEF TablesInv, SourcesGood
  <2>3. AnswerGood'
    BY <2>1 DEF AnswerGood, Silent
  <2> QED BY <2>2, <2>3 DEF TablesInv
<1> QED BY <1>1, <1>2, <1>3 DEF ClientStep

LEMMA TablesStep == SessionInv /\ SessionInv' /\ TablesInv /\ [Next]_vars => TablesInv'
<1> SUFFICES ASSUME SessionInv, SessionInv', TablesInv, [Next]_vars PROVE TablesInv'
  OBVIOUS
<1>1. CASE UNCHANGED vars
  BY <1>1 DEF vars, TablesInv, SourcesGood, AnswerGood
<1>2. CASE SessionNew \/ SessionFree \/ ResetTypes
  <2>1. results' = results /\ own' = own /\ answer' = Silent
    BY <1>2 DEF SessionNew, SessionFree, ResetTypes
  <2> QED BY <2>1, KeptGood DEF SourcesKept, TablesInv
<1>3. ASSUME NEW r \in Results,
             Analyze(r) \/ Lex(r) \/ ParserNew(r) \/ ParseSource(r) \/ SemaNew(r)
               \/ HookType(r) \/ SemaFree(r) \/ ResultFree(r)
      PROVE  TablesInv'
  <2>1. SourcesKept /\ Rest
    BY <1>3, StepKeeps
  <2> QED BY <2>1, KeptGood DEF Rest, TablesInv
<1>4. ASSUME NEW r \in Results, ErrorAt(r) PROVE TablesInv'
  BY <1>4, ErrorAtGood
<1>5. CASE ClientStep
  BY <1>5, ClientGood
<1> QED BY <1>1, <1>2, <1>3, <1>4, <1>5 DEF Next, HostStep

LEMMA TablesRightly == TablesInv => PositionsRight
<1> SUFFICES ASSUME TablesInv PROVE PositionsRight
  OBVIOUS
<1>1. \A s : Good(s) /\ s.table # NoTable => Len(s.table.starts) < s.table.room /\ s.table.end = Len(s.bytes)
  BY DEF Good, RightTable
<1>2. ASSUME answer.source # None
      PROVE  IF answer.source.table = NoTable THEN answer.pos = <<1, 1>>
             ELSE answer.pos = TruePos(answer.source, answer.at)
  <2>1. Good(answer.source) /\ answer.at \in Nat /\ answer.pos = Pos(answer.source, answer.at)
    BY <1>2 DEF TablesInv, AnswerGood
  <2>2. answer.source.table = NoTable => Pos(answer.source, answer.at) = <<1, 1>>
    BY DEF Pos
  <2>3. answer.source.table # NoTable => Pos(answer.source, answer.at) = TruePos(answer.source, answer.at)
    BY <2>1, PosRight DEF Good
  <2> QED BY <2>1, <2>2, <2>3
<1>3. \A s \in {answer.source, own} \cup {results[r].source : r \in {q \in Results : results[q] # None}} :
        s # None => Good(s)
  BY DEF TablesInv, SourcesGood, AnswerGood
<1> QED BY <1>1, <1>2, <1>3 DEF PositionsRight

(* Every position told, of an error or of a byte a client asks for, is the *)
(* one the newlines before it make it, for every text and newline policy:  *)
(* ensure_line_offsets and kavak_source_pos, whichever caller's question   *)
(* built the table and whether or not memory was found for it.             *)
THEOREM PositionsTold == Spec => []PositionsRight
<1>1. Spec => []SessionInv
  BY SessionStart, SessionStep, PTL DEF Spec
<1>2. Spec => []TablesInv
  BY <1>1, TablesStart, TablesStep, PTL DEF Spec
<1> QED BY <1>2, TablesRightly, PTL
=============================================================================
