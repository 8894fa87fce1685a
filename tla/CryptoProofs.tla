---------------------------- MODULE CryptoProofs ----------------------------
(***************************************************************************)
(* Proofs about gcrypt/crypto.c, for every text, every length of a block   *)
(* and in the modes with and without padding.                              *)
(*                                                                         *)
(* The invariant follows the blocks by where they start: what has been     *)
(* enciphered so far is a sealed block for each start (Sealed), and what a *)
(* sealed block holds is the text from there on, and the padding behind it *)
(* (Plain).  Of what has been deciphered it says that it is shorter than   *)
(* the text read so far just when a mark has been seen in it (Restored).   *)
(***************************************************************************)
EXTENDS Crypto, SequenceTheorems, WellFoundedInduction, TLAPS

IsSequence(s) == \E S : s \in Seq(S)

\* What deciphering the block that starts behind byte s must give.
Plain(b, s) ==
  /\ b = [i \in Block |-> b[i]]
  /\ \A i \in Block : s + i <= Len(text) => b[i] = text[s + i]
  /\ shouldPad => \A i \in Block : s + i > Len(text) =>
                    b[i] = IF s + i = Len(text) + 1 THEN x80 ELSE x00

\* The ciphertext c has that block, enciphered, in its place.
Sealed(c, s) == \E b : Plain(b, s) /\ \A i \in Block : c[s + i] = [of |-> b, at |-> i]

\* Where the blocks of the first len bytes start.
Starts(len) == {s \in 0 .. len - 1 : s % BlkLen = 0}

Rounded(len) == BlkLen * Blocks(len)

\* How many bytes of the text are in the block that starts behind byte s.
TextIn(s) == IF s + BlkLen <= Len(text) THEN BlkLen ELSE Len(text) - s

Encrypting ==
  /\ data = text
  /\ rc # "abort"
  /\ rc = "busy" => n < Len(text) /\ n % BlkLen = 0 /\ Len(out) = n
  /\ rc = "success" => n = Len(text) /\ Len(out) = Rounded(Len(text))
  /\ \A s \in Starts(n) : Sealed(out, s)

\* A byte of the text that _decrypt_blk takes for the mark.
MarkAt(i) == /\ text[i] = x80
             /\ i % BlkLen # 1 \/ (i < Len(text) /\ text[i + 1] = x00)

\* The bytes of the text among the first m of the ciphertext.
Read(m) == IF m <= Len(text) THEN m ELSE Len(text)

\* In the modes that pad: what has come back is the text read, or is shorter.
Restored(m) ==
  /\ Len(out) <= Read(m)
  /\ Len(out) = Read(m) <=> \A i \in 1 .. Read(m) : ~MarkAt(i)
  /\ Len(out) = Read(m) => \A i \in 1 .. Read(m) : out[i] = text[i]

\* In the others: the text, and the rest of its last block.
Kept(m) == /\ Len(out) = m
           /\ \A i \in 1 .. Read(m) : out[i] = text[i]

Decrypting ==
  /\ Len(data) = Rounded(Len(text))
  /\ n % BlkLen = 0
  /\ rc = "busy" => n < Len(data)
  /\ rc \in {"success", "abort"} => n = Len(data)
  /\ \A s \in Starts(Len(text)) : Sealed(data, s)
  /\ IF shouldPad THEN Restored(n) ELSE Kept(n)

CryptoInv == /\ CryptoTypeOK
             /\ IsSequence(data)
             /\ IsSequence(out)
             /\ mode = "encrypt" => Encrypting
             /\ mode = "decrypt" => Decrypting
-----------------------------------------------------------------------------
(* Numbers and sequences.                                                   *)

\* A set of natural numbers has a least element, which Min picks.
LEMMA MinExists ==
  ASSUME NEW S \in SUBSET Nat, S # {}
  PROVE  Min(S) \in S /\ \A y \in S : Min(S) <= y
<1> DEFINE R == OpToRel(<, Nat)
<1>1. IsWellFoundedOn(R, Nat)
  BY NatLessThanWellFounded
<1>2. \A a, b \in Nat : <<b, a>> \in R <=> b < a
  BY DEF OpToRel
<1>. HIDE DEF R
<1>3. PICK x \in S : \A y \in S : ~(<<y, x>> \in R)
  BY <1>1, WFMin
<1>4. ASSUME NEW y \in S PROVE x <= y
  <2>1. x \in Nat /\ y \in Nat
    OBVIOUS
  <2>2. ~(y < x)
    BY <2>1, <1>2, <1>3
  <2>. QED BY <2>1, <2>2
<1>. QED BY <1>4 DEF Min

LEMMA MinOfTwo ==
  ASSUME NEW a \in Nat, NEW b \in Nat
  PROVE  Min({a, b}) = IF a <= b THEN a ELSE b
<1>1. {a, b} \in SUBSET Nat /\ {a, b} # {}
  OBVIOUS
<1>2. Min({a, b}) \in {a, b} /\ Min({a, b}) <= a /\ Min({a, b}) <= b
  BY <1>1, MinExists
<1>. QED BY <1>2

\* Two bounds are reached together when each of them is.
LEMMA BoundsAdd ==
  ASSUME NEW a \in Nat, NEW b \in Nat, NEW c \in Nat, NEW d \in Nat, a <= b, c <= d
  PROVE  a + c <= b + d /\ (a + c = b + d <=> a = b /\ c = d)
  OBVIOUS

\* Multiples of the length of a block.
LEMMA Multiple ==
  ASSUME NEW m \in Nat, m % BlkLen = 0
  PROVE  \E q \in Nat : m = BlkLen * q
  BY BlkLenAssumption

LEMMA MultipleMod ==
  ASSUME NEW q \in Nat, NEW r \in 0 .. BlkLen - 1
  PROVE  /\ BlkLen * q \in Nat
         /\ (BlkLen * q) % BlkLen = 0
         /\ (BlkLen * q + r) % BlkLen = r
         /\ (BlkLen * q + r) \div BlkLen = q
  BY BlkLenAssumption

LEMMA MultiplesApart ==
  ASSUME NEW p \in Nat, NEW q \in Nat, BlkLen * p < BlkLen * q
  PROVE  BlkLen * p + BlkLen <= BlkLen * q
  BY BlkLenAssumption

\* The next start, and the places in a block.
LEMMA NextStart ==
  ASSUME NEW s \in Nat, s % BlkLen = 0
  PROVE  /\ (s + BlkLen) % BlkLen = 0
         /\ \A i \in Block : (s + i) % BlkLen = 1 <=> i = 1
<1>1. PICK q \in Nat : s = BlkLen * q
  BY Multiple
<1>2. BlkLen \in Nat /\ BlkLen >= 2
  BY BlkLenAssumption
<1>3. PICK p \in Nat : p = q + 1
  OBVIOUS
<1>4. (s + BlkLen) % BlkLen = 0
  <2>1. s + BlkLen = BlkLen * p
    BY <1>1, <1>2, <1>3
  <2>2. (BlkLen * p) % BlkLen = 0
    BY <1>2, MultipleMod, 0 \in 0 .. BlkLen - 1
  <2>. QED BY <2>1, <2>2
<1>5. ASSUME NEW i \in Block PROVE (s + i) % BlkLen = 1 <=> i = 1
  <2>1. CASE i = BlkLen
    BY <2>1, <1>2, <1>4
  <2>2. CASE i # BlkLen
    <3>1. i \in 0 .. BlkLen - 1
      BY <2>2, <1>2 DEF Block
    <3>2. (BlkLen * q + i) % BlkLen = i
      BY <3>1, MultipleMod
    <3>. QED BY <3>2, <1>1
  <2>. QED BY <2>1, <2>2
<1>. QED BY <1>4, <1>5

\* Two starts are at least a block apart.
LEMMA StartsApart ==
  ASSUME NEW s \in Nat, NEW t \in Nat, s % BlkLen = 0, t % BlkLen = 0, s < t
  PROVE  s + BlkLen <= t
<1>1. PICK p \in Nat : s = BlkLen * p
  BY Multiple
<1>2. PICK q \in Nat : t = BlkLen * q
  BY Multiple
<1>. QED BY <1>1, <1>2, MultiplesApart

\* Rounding up to whole blocks.
LEMMA Rounding ==
  ASSUME NEW len \in Nat
  PROVE  /\ Rounded(len) \in Nat
         /\ Rounded(len) % BlkLen = 0
         /\ len <= Rounded(len) /\ Rounded(len) < len + BlkLen
<1> DEFINE q == (len + BlkLen - 1) \div BlkLen
           r == (len + BlkLen - 1) % BlkLen
<1>1. BlkLen \in Nat /\ BlkLen >= 2
  BY BlkLenAssumption
<1>2. q \in Nat /\ r \in 0 .. BlkLen - 1 /\ len + BlkLen - 1 = BlkLen * q + r
  BY <1>1
<1>3. Rounded(len) = BlkLen * q
  BY DEF Rounded, Blocks
<1>. HIDE DEF q, r
<1>4. BlkLen * q \in Nat /\ (BlkLen * q) % BlkLen = 0
  BY <1>1, <1>2, MultipleMod, 0 \in 0 .. BlkLen - 1, BlkLen * q + 0 = BlkLen * q
<1>. QED BY <1>1, <1>2, <1>3, <1>4

LEMMA RoundedIsUnique ==
  ASSUME NEW len \in Nat, NEW m \in Nat, m % BlkLen = 0, len <= m, m < len + BlkLen
  PROVE  m = Rounded(len)
<1>1. /\ Rounded(len) \in Nat
      /\ Rounded(len) % BlkLen = 0
      /\ len <= Rounded(len) /\ Rounded(len) < len + BlkLen
  BY Rounding
<1>2. ~(m < Rounded(len)) /\ ~(Rounded(len) < m)
  BY <1>1, StartsApart, BlkLenAssumption
<1>. QED BY <1>1, <1>2

\* The elements of two sequences, one behind the other.
LEMMA Concat ==
  ASSUME NEW s, NEW t, IsSequence(s), IsSequence(t)
  PROVE  /\ IsSequence(s \o t)
         /\ Len(s) \in Nat /\ Len(t) \in Nat
         /\ Len(s \o t) = Len(s) + Len(t)
         /\ \A i \in 1 .. Len(s) : (s \o t)[i] = s[i]
         /\ \A i \in 1 .. Len(t) : (s \o t)[Len(s) + i] = t[i]
<1>1. PICK S : s \in Seq(S)
  BY DEF IsSequence
<1>2. PICK T : t \in Seq(T)
  BY DEF IsSequence
<1>3. s \in Seq(S \cup T) /\ t \in Seq(S \cup T)
  BY <1>1, <1>2, SeqMonotonic
<1>4. /\ s \o t \in Seq(S \cup T)
      /\ Len(s \o t) = Len(s) + Len(t)
      /\ \A i \in 1 .. Len(s) + Len(t) : (s \o t)[i] =
                  IF i <= Len(s) THEN s[i] ELSE t[i - Len(s)]
  BY <1>3, ConcatProperties
<1>5. Len(s) \in Nat /\ Len(t) \in Nat
  BY <1>3
<1>6. \A i \in 1 .. Len(t) : Len(s) + i \in 1 .. Len(s) + Len(t) /\ Len(s) + i - Len(s) = i
                             /\ ~(Len(s) + i <= Len(s))
  BY <1>5
<1>7. \A i \in 1 .. Len(s) : i \in 1 .. Len(s) + Len(t)
  BY <1>5
<1>. QED BY <1>4, <1>5, <1>6, <1>7 DEF IsSequence

\* A block is a sequence, and so is what comes before a place in it.
LEMMA BlockIsSequence ==
  ASSUME NEW b, b = [i \in Block |-> b[i]]
  PROVE  /\ IsSequence(b)
         /\ Len(b) = BlkLen
         /\ \A m \in 0 .. BlkLen : /\ IsSequence(SubSeq(b, 1, m))
                                   /\ Len(SubSeq(b, 1, m)) = m
                                   /\ \A i \in 1 .. m : SubSeq(b, 1, m)[i] = b[i]
<1> DEFINE S == {b[i] : i \in Block}
<1>1. b \in [1 .. BlkLen -> S] /\ BlkLen \in Nat
  BY BlkLenAssumption DEF Block
<1>2. b \in Seq(S)
  BY <1>1
<1>3. IsSequence(b)
  BY <1>2 DEF IsSequence
<1>4. Len(b) = BlkLen
  BY <1>1, <1>2
<1>5. ASSUME NEW m \in 0 .. BlkLen
      PROVE  /\ IsSequence(SubSeq(b, 1, m))
             /\ Len(SubSeq(b, 1, m)) = m
             /\ \A i \in 1 .. m : SubSeq(b, 1, m)[i] = b[i]
  <2>1. \A i \in 1 .. m : b[i] \in S
    BY <1>1
  <2>2. m \in Int /\ 1 \in Int /\ m - 1 + 1 = m
    BY <1>1
  <2>. HIDE DEF S
  <2>3. /\ SubSeq(b, 1, m) \in Seq(S)
        /\ Len(SubSeq(b, 1, m)) = IF 1 <= m THEN m - 1 + 1 ELSE 0
        /\ \A i \in 1 .. m - 1 + 1 : SubSeq(b, 1, m)[i] = b[1 + i - 1]
    BY <2>1, <2>2, SubSeqProperties
  <2>4. \A i \in 1 .. m : 1 + i - 1 = i
    BY <2>2
  <2>5. IsSequence(SubSeq(b, 1, m))
    BY <2>3 DEF IsSequence
  <2>6. Len(SubSeq(b, 1, m)) = m
    BY <2>2, <2>3, <1>1
  <2>. QED BY <2>2, <2>3, <2>4, <2>5, <2>6
<1>. QED BY <1>3, <1>4, <1>5
-----------------------------------------------------------------------------
(* One block.                                                               *)

LEMMA Types ==
  ASSUME CryptoInv
  PROVE  /\ IsSequence(text) /\ text \in Seq(Byte)
         /\ Len(text) \in Nat /\ Len(text) >= 1
         /\ Len(data) \in Nat /\ Len(out) \in Nat
         /\ n \in Nat /\ n <= Len(data)
         /\ BlkLen \in Nat /\ BlkLen >= 2
<1>1. PICK len \in 1 .. MaxLen : text \in [1 .. len -> Byte]
  BY DEF CryptoInv, CryptoTypeOK, Texts
<1>2. BlkLen \in Nat /\ BlkLen >= 2 /\ len \in Nat /\ len >= 1
  BY BlkLenAssumption
<1>3. text \in Seq(Byte) /\ Len(text) = len
  BY <1>1, <1>2
<1>4. Len(data) \in Nat /\ Len(out) \in Nat
  BY DEF CryptoInv, IsSequence
<1>5. n \in Nat /\ n <= Len(data)
  BY <1>4 DEF CryptoInv, CryptoTypeOK
<1>. QED BY <1>2, <1>3, <1>4, <1>5 DEF IsSequence

\* How much the next block takes.
LEMMA Size ==
  ASSUME CryptoInv, n < Len(data)
  PROVE  /\ BlockSize \in 1 .. BlkLen
         /\ BlockSize = IF n + BlkLen <= Len(data) THEN BlkLen ELSE Len(data) - n
<1>1. Len(data) - n \in Nat /\ BlkLen \in Nat /\ BlkLen >= 2 /\ Len(data) \in Nat /\ n \in Nat
  BY Types
<1>2. BlockSize = IF BlkLen <= Len(data) - n THEN BlkLen ELSE Len(data) - n
  BY <1>1, MinOfTwo DEF BlockSize
<1>. QED BY <1>1, <1>2

\* _encrypt_blk puts the padded text in the block that it enciphers.
LEMMA PaddedIsPlain ==
  ASSUME CryptoInv, Encrypting, rc = "busy"
  PROVE  Plain(Padded(Copied(BlockSize), BlockSize), n)
<1> DEFINE d == BlockSize
           b == Padded(Copied(d), d)
<1>1. /\ n < Len(text) /\ data = text
      /\ Len(text) \in Nat /\ n \in Nat /\ BlkLen \in Nat
  BY Types DEF Encrypting
<1>2. d \in 1 .. BlkLen /\ d = IF n + BlkLen <= Len(text) THEN BlkLen ELSE Len(text) - n
  BY <1>1, Size
<1>. HIDE DEF d
<1>3. \A i \in Block : /\ n + i <= Len(text) <=> i <= d
                       /\ n + i = Len(text) + 1 => i = d + 1
                       /\ i = d + 1 => n + i = Len(text) + 1
  BY <1>1, <1>2 DEF Block
<1>4. b = [i \in Block |-> b[i]]
  BY DEF Padded, Copied
<1>5. \A i \in Block : i <= d => b[i] = text[n + i]
  BY <1>1 DEF Padded, Copied
<1>6. shouldPad => \A i \in Block : ~(i <= d) => b[i] = IF i = d + 1 THEN x80 ELSE x00
  BY DEF Padded
<1>. HIDE DEF b
<1>7. \A i \in Block : n + i > Len(text) <=> ~(n + i <= Len(text))
  BY <1>1 DEF Block
<1>8. Plain(b, n)
  BY <1>3, <1>4, <1>5, <1>6, <1>7 DEF Plain
<1>. QED BY <1>8 DEF b, d

\* Deciphering a sealed block gives what is in it.
LEMMA OpenedIsPlain ==
  ASSUME CryptoInv, Decrypting, rc = "busy"
  PROVE  /\ BlockSize = BlkLen
         /\ n + BlkLen <= Len(data)
         /\ n < Len(text)
         /\ Plain(Decipher(Copied(BlkLen)), n)
<1>1. /\ Len(text) \in Nat /\ n \in Nat /\ BlkLen \in Nat /\ BlkLen >= 2
      /\ n < Len(data) /\ n % BlkLen = 0 /\ Len(data) \in Nat
      /\ Len(data) = Rounded(Len(text))
  BY Types DEF Decrypting
<1>2. n + BlkLen <= Len(data) /\ Len(data) < Len(text) + BlkLen
  BY <1>1, StartsApart, Rounding
<1>3. BlockSize = BlkLen
  BY <1>1, <1>2, Size
<1>4. n < Len(text) /\ n \in Starts(Len(text))
  BY <1>1, <1>2 DEF Starts
<1>5. PICK b : Plain(b, n) /\ \A i \in Block : data[n + i] = [of |-> b, at |-> i]
  BY <1>4 DEF Decrypting, Sealed
<1>6. 1 \in Block /\ 1 <= BlkLen
  BY <1>1 DEF Block
<1>7. Copied(BlkLen)[1] = [of |-> b, at |-> 1]
  BY <1>5, <1>6 DEF Copied
<1>. QED BY <1>2, <1>3, <1>4, <1>5, <1>7 DEF Decipher

\* Stripping a deciphered block leaves the text of it, or less when there is a
\* byte in it that looks like the mark.
LEMMA StrippedBlock ==
  ASSUME CryptoInv, shouldPad,
         NEW s \in Nat, s % BlkLen = 0, s < Len(text), NEW b, Plain(b, s)
  PROVE  /\ IsSequence(Stripped(b))
         /\ Len(Stripped(b)) \in 0 .. TextIn(s)
         /\ Len(Stripped(b)) = TextIn(s) <=> \A i \in 1 .. TextIn(s) : ~MarkAt(s + i)
         /\ Len(Stripped(b)) = TextIn(s) =>
              \A i \in 1 .. TextIn(s) : Stripped(b)[i] = text[s + i]
<1>1. Len(text) \in Nat /\ BlkLen \in Nat /\ BlkLen >= 2
  BY Types
<1>. SUFFICES
       ASSUME NEW d \in 1 .. BlkLen, d = IF s + BlkLen <= Len(text) THEN BlkLen ELSE Len(text) - s
       PROVE  /\ IsSequence(Stripped(b))
              /\ Len(Stripped(b)) \in 0 .. d
              /\ Len(Stripped(b)) = d <=> \A i \in 1 .. d : ~MarkAt(s + i)
              /\ Len(Stripped(b)) = d => \A i \in 1 .. d : Stripped(b)[i] = text[s + i]
  <2>1. TextIn(s) \in 1 .. BlkLen
    BY <1>1 DEF TextIn
  <2>. QED BY <2>1 DEF TextIn
<1> DEFINE marks == {i \in Block : IsMark(b, i)}
<1>2. \A i \in 1 .. d : i \in Block /\ s + i <= Len(text)
  BY <1>1 DEF Block
<1>3. \A i \in 1 .. d : b[i] = text[s + i]
  BY <1>2 DEF Plain
<1>4. d < BlkLen => /\ d + 1 \in Block
                    /\ s + d = Len(text)
                    /\ b[d + 1] = x80
  <2>. SUFFICES ASSUME d < BlkLen
                PROVE  d + 1 \in Block /\ s + d = Len(text) /\ b[d + 1] = x80
    OBVIOUS
  <2>1. s + d = Len(text) /\ d + 1 \in Block
    BY <1>1 DEF Block
  <2>2. s + (d + 1) > Len(text) /\ s + (d + 1) = Len(text) + 1
    BY <2>1, <1>1
  <2>. QED BY <2>1, <2>2 DEF Plain
<1>5. ASSUME NEW i \in 1 .. d PROVE IsMark(b, i) <=> MarkAt(s + i)
  <2>1. (s + i) % BlkLen = 1 <=> i = 1
    BY <1>2, NextStart
  <2>2. CASE i > 1
    BY <2>1, <2>2, <1>3 DEF IsMark, MarkAt
  <2>3. CASE i = 1 /\ d > 1
    <3>1. 2 \in 1 .. d /\ s + 1 < Len(text) /\ i + 1 = 2 /\ s + i + 1 = s + 2
      BY <2>3, <1>2, <1>1
    <3>2. b[i + 1] = text[s + i + 1]
      BY <3>1, <1>3
    <3>. QED BY <2>1, <2>3, <3>1, <3>2, <1>3 DEF IsMark, MarkAt
  <2>4. CASE i = 1 /\ d = 1
    <3>1. b[i + 1] = x80 /\ s + i = Len(text)
      BY <2>4, <1>4, <1>1
    <3>. QED BY <2>1, <2>4, <3>1, <1>1, ByteAssumption DEF IsMark, MarkAt
  <2>. QED BY <2>2, <2>3, <2>4
<1>6. d < BlkLen => d + 1 \in marks
  BY <1>4 DEF IsMark
<1>7. marks \in SUBSET Nat /\ \A i \in marks : i \in 1 .. BlkLen
  BY <1>1 DEF Block
<1>8. b = [i \in Block |-> b[i]]
  BY DEF Plain
<1>9. CASE marks = {}
  <2>1. d = BlkLen /\ Stripped(b) = b
    BY <1>9, <1>6 DEF Stripped
  <2>2. \A i \in 1 .. d : ~MarkAt(s + i)
    BY <1>9, <1>2, <1>5
  <2>. HIDE DEF marks
  <2>3. IsSequence(b) /\ Len(b) = BlkLen
    BY <1>8, BlockIsSequence
  <2>. QED BY <2>1, <2>2, <2>3, <1>1, <1>3
<1>10. CASE marks # {}
  <2> DEFINE m == Min(marks)
  <2>1. m \in marks /\ \A i \in marks : m <= i
    BY <1>7, <1>10, MinExists
  <2>2. Stripped(b) = SubSeq(b, 1, m - 1)
    BY <1>10 DEF Stripped
  <2>. HIDE DEF m
  <2>3. m \in 1 .. BlkLen /\ m - 1 \in 0 .. BlkLen
    BY <2>1, <1>1, <1>7
  <2>4. /\ IsSequence(Stripped(b))
        /\ Len(Stripped(b)) = m - 1
        /\ \A i \in 1 .. m - 1 : Stripped(b)[i] = b[i]
    BY <2>2, <2>3, <1>8, BlockIsSequence
  <2>5. CASE m <= d
    <3>1. MarkAt(s + m) /\ m \in 1 .. d
      BY <2>1, <2>3, <2>5, <1>5
    <3>. QED BY <3>1, <2>3, <2>4, <2>5
  <2>6. CASE m > d
    <3>1. m = d + 1
      BY <2>1, <2>3, <2>6, <1>1, <1>6
    <3>2. \A i \in 1 .. d : ~MarkAt(s + i)
      <4>. SUFFICES ASSUME NEW i \in 1 .. d, MarkAt(s + i) PROVE FALSE
        OBVIOUS
      <4>1. i \in marks
        BY <1>2, <1>5
      <4>. QED BY <4>1, <2>1, <2>3, <2>6
    <3>. QED BY <3>1, <3>2, <2>4, <1>3
  <2>. QED BY <2>3, <2>5, <2>6
<1>. QED BY <1>9, <1>10
-----------------------------------------------------------------------------
(* The steps.                                                               *)

LEMMA CryptoStart == CryptoInit => CryptoInv
<1>. SUFFICES ASSUME CryptoInit PROVE CryptoInv
  OBVIOUS
<1>1. PICK len \in 1 .. MaxLen : text \in [1 .. len -> Byte]
  BY DEF CryptoInit, Texts
<1>2. len \in Nat /\ len >= 1
  BY BlkLenAssumption
<1>3. text \in Seq(Byte) /\ Len(text) = len
  BY <1>1, <1>2
<1>4. CryptoTypeOK
  BY <1>2, <1>3 DEF CryptoInit, CryptoTypeOK, ZeroBlock
<1>5. IsSequence(data)
  BY <1>3 DEF CryptoInit, IsSequence
<1>6. IsSequence(out) /\ Len(out) = 0
  BY <1>3, EmptySeq DEF CryptoInit, IsSequence
<1>7. n % BlkLen = 0
  BY BlkLenAssumption DEF CryptoInit
<1>8. Starts(n) = {}
  BY DEF CryptoInit, Starts
<1>9. Encrypting
  BY <1>2, <1>3, <1>6, <1>7, <1>8 DEF CryptoInit, Encrypting
<1>. QED BY <1>4, <1>5, <1>6, <1>9 DEF CryptoInit, CryptoInv

\* What one sealed block more does to the ciphertext.
LEMMA EncryptStep ==
  ASSUME CryptoInv, rc = "busy", EncryptBlk, n' = Advance(BlockSize),
         rc' = Outcome(Len(data) - n', out'),
         UNCHANGED <<shouldPad, text, mode, data>>
  PROVE  CryptoInv'
<1> DEFINE d == BlockSize
           b == Padded(Copied(d), d)
<1>1. mode = "encrypt" /\ mode' = "encrypt" /\ Encrypting
  BY DEF EncryptBlk, CryptoInv
<1>2. /\ n < Len(text) /\ n % BlkLen = 0 /\ Len(out) = n /\ data = text
      /\ Len(text) \in Nat /\ n \in Nat /\ BlkLen \in Nat /\ BlkLen >= 2
  BY <1>1, Types DEF Encrypting
<1>3. d \in 1 .. BlkLen /\ d = IF n + BlkLen <= Len(text) THEN BlkLen ELSE Len(text) - n
  BY <1>2, Size
<1>4. Plain(b, n)
  BY <1>1, PaddedIsPlain
<1>5. n' = n + d /\ out' = out \o Encipher(b) /\ blk' = Encipher(b)
  BY DEF EncryptBlk, Encrypted, Advance
<1>. HIDE DEF b, d
<1>6. Encipher(b) = [i \in Block |-> Encipher(b)[i]]
      /\ \A i \in Block : Encipher(b)[i] = [of |-> b, at |-> i]
  BY DEF Encipher
<1>7. IsSequence(Encipher(b)) /\ Len(Encipher(b)) = BlkLen
  BY <1>6, BlockIsSequence
<1>8. /\ IsSequence(out')
      /\ Len(out') = n + BlkLen
      /\ \A i \in 1 .. n : out'[i] = out[i]
      /\ \A i \in Block : out'[n + i] = [of |-> b, at |-> i]
  <2>1. IsSequence(out)
    BY DEF CryptoInv
  <2>2. /\ IsSequence(out \o Encipher(b))
        /\ Len(out \o Encipher(b)) = Len(out) + Len(Encipher(b))
        /\ \A i \in 1 .. Len(out) : (out \o Encipher(b))[i] = out[i]
        /\ \A i \in 1 .. Len(Encipher(b)) : (out \o Encipher(b))[Len(out) + i] = Encipher(b)[i]
    BY <2>1, <1>7, Concat
  <2>. QED BY <2>2, <1>2, <1>5, <1>6, <1>7 DEF Block
<1>9. n' \in Nat /\ n' <= Len(text)
  BY <1>2, <1>3, <1>5
<1>10. ASSUME NEW s \in Starts(n') PROVE Sealed(out, s)'
  <2>1. s \in Nat /\ s % BlkLen = 0 /\ s < n'
    BY <1>9 DEF Starts
  <2>2. CASE s < n
    <3>1. s + BlkLen <= n /\ s \in Starts(n)
      BY <2>1, <2>2, <1>2, StartsApart DEF Starts
    <3>2. PICK p : Plain(p, s) /\ \A i \in Block : out[s + i] = [of |-> p, at |-> i]
      BY <3>1, <1>1 DEF Encrypting, Sealed
    <3>3. \A i \in Block : s + i \in 1 .. n
      BY <3>1, <2>1, <1>2 DEF Block
    <3>4. \A i \in Block : out'[s + i] = [of |-> p, at |-> i]
      BY <3>2, <3>3, <1>8
    <3>5. Plain(p, s)'
      BY <3>2 DEF Plain
    <3>. QED BY <3>4, <3>5 DEF Sealed
  <2>3. CASE ~(s < n)
    <3>1. s = n
      BY <2>1, <2>3, <1>2, <1>3, <1>5, StartsApart
    <3>2. PICK p : p = b
      OBVIOUS
    <3>3. \A i \in Block : out'[s + i] = [of |-> p, at |-> i]
      BY <3>1, <3>2, <1>8
    <3>4. Plain(p, s)'
      BY <3>1, <3>2, <1>4 DEF Plain
    <3>. QED BY <3>3, <3>4 DEF Sealed
  <2>. QED BY <2>2, <2>3
<1>11. Len(out') # 0 /\ out' # <<>>
  BY <1>2, <1>8
<1>12. rc' = IF Len(text) - n' > 0 THEN "busy" ELSE "success"
  BY <1>2, <1>11 DEF Outcome
<1>13. rc' = "busy" => n' < Len(text) /\ n' % BlkLen = 0 /\ Len(out') = n'
  <2>. SUFFICES ASSUME rc' = "busy" PROVE n' < Len(text) /\ n' % BlkLen = 0 /\ Len(out') = n'
    OBVIOUS
  <2>1. n' < Len(text)
    BY <1>2, <1>9, <1>12
  <2>2. n + d < Len(text) /\ d \in Nat
    BY <2>1, <1>2, <1>3, <1>5
  <2>3. d = BlkLen
    BY <2>2, <1>2, <1>3
  <2>. QED BY <2>1, <2>3, <1>2, <1>5, <1>8, NextStart
<1>14. rc' = "success" => n' = Len(text) /\ Len(out') = Rounded(Len(text))
  <2>. SUFFICES ASSUME rc' = "success" PROVE n' = Len(text) /\ Len(out') = Rounded(Len(text))
    OBVIOUS
  <2>1. n' = Len(text)
    BY <1>2, <1>9, <1>12
  <2>2. n + BlkLen \in Nat /\ (n + BlkLen) % BlkLen = 0
    BY <1>2, NextStart
  <2>3. Len(text) <= n + BlkLen /\ n + BlkLen < Len(text) + BlkLen
    <3>1. d \in Nat /\ d <= BlkLen /\ n + d = Len(text)
      BY <2>1, <1>2, <1>3, <1>5
    <3>. QED BY <3>1, <1>2
  <2>. QED BY <2>1, <2>2, <2>3, <1>2, <1>8, RoundedIsUnique
<1>15. Encrypting'
  <2>1. (\A s \in Starts(n) : Sealed(out, s))'
    BY <1>10 DEF Starts
  <2>2. rc' # "abort" /\ data' = text' /\ text' = text
    BY <1>2, <1>12
  <2>. QED BY <2>1, <2>2, <1>13, <1>14 DEF Encrypting, Rounded, Blocks
<1>16. CryptoTypeOK'
  <2>1. rc' \in {"busy", "success", "failure", "abort"}
    BY <1>12
  <2>2. DOMAIN blk' = Block
    BY <1>5 DEF Encipher
  <2>3. n' \in 0 .. Len(data')
    BY <1>2, <1>9
  <2>. QED BY <2>1, <2>2, <2>3 DEF CryptoInv, CryptoTypeOK
<1>17. IsSequence(data)'
  BY DEF CryptoInv, IsSequence
<1>. QED BY <1>1, <1>8, <1>15, <1>16, <1>17 DEF CryptoInv, IsSequence

\* What one deciphered block more does to the text that has come back.
LEMMA DecryptStep ==
  ASSUME CryptoInv, rc = "busy", DecryptBlk, n' = Advance(BlockSize),
         rc' = Outcome(Len(data) - n', out'),
         UNCHANGED <<shouldPad, text, mode, data>>
  PROVE  CryptoInv'
<1> DEFINE b == Decipher(Copied(BlkLen))
           d == TextIn(n)
           more == Stripped(b)
<1>1. mode = "decrypt" /\ mode' = "decrypt" /\ Decrypting
  BY DEF DecryptBlk, CryptoInv
<1>2. /\ BlockSize = BlkLen /\ n + BlkLen <= Len(data) /\ n < Len(text)
      /\ Plain(b, n)
  BY <1>1, OpenedIsPlain
<1>3. /\ Len(text) \in Nat /\ n \in Nat /\ BlkLen \in Nat /\ BlkLen >= 2
      /\ Len(data) \in Nat /\ Len(out) \in Nat /\ n % BlkLen = 0
  BY <1>1, Types DEF Decrypting
<1>4. n' = n + BlkLen /\ out' = out \o more /\ blk' = b
  BY <1>2 DEF DecryptBlk, Advance
<1>5. d \in 1 .. BlkLen /\ Read(n) = n /\ Read(n') = n + d
  BY <1>2, <1>3, <1>4 DEF Read, TextIn
<1>6. b = [i \in Block |-> b[i]]
  BY <1>2 DEF Plain
<1>7. IsSequence(b) /\ Len(b) = BlkLen
  BY <1>6, BlockIsSequence
<1>8. shouldPad => /\ IsSequence(more)
                   /\ Len(more) \in 0 .. d
                   /\ Len(more) = d <=> \A i \in 1 .. d : ~MarkAt(n + i)
                   /\ Len(more) = d => \A i \in 1 .. d : more[i] = text[n + i]
  <2>. SUFFICES ASSUME shouldPad
                PROVE  /\ IsSequence(more)
                       /\ Len(more) \in 0 .. d
                       /\ Len(more) = d <=> \A i \in 1 .. d : ~MarkAt(n + i)
                       /\ Len(more) = d => \A i \in 1 .. d : more[i] = text[n + i]
    OBVIOUS
  <2>. HIDE DEF b
  <2>. QED BY <1>2, <1>3, StrippedBlock
<1>9. ~shouldPad => more = b
  BY DEF Stripped
<1>. HIDE DEF b, d, more
<1>10. IsSequence(more) /\ Len(more) \in Nat
  BY <1>3, <1>5, <1>7, <1>8, <1>9
<1>11. /\ IsSequence(out')
       /\ Len(out') = Len(out) + Len(more)
       /\ \A i \in 1 .. Len(out) : out'[i] = out[i]
       /\ \A i \in 1 .. Len(more) : out'[Len(out) + i] = more[i]
  BY <1>4, <1>10, Concat DEF CryptoInv
<1>12. ASSUME shouldPad PROVE Restored(n)'
  <2>1. /\ Len(out) <= n
        /\ Len(out) = n <=> \A i \in 1 .. n : ~MarkAt(i)
        /\ Len(out) = n => \A i \in 1 .. n : out[i] = text[i]
    BY <1>1, <1>5, <1>12 DEF Decrypting, Restored
  <2>2. d \in Nat /\ Len(more) <= d
    BY <1>3, <1>5, <1>8, <1>10, <1>12
  <2>3. Len(out') <= n + d /\ (Len(out') = n + d <=> Len(out) = n /\ Len(more) = d)
    <3>1. /\ Len(out) \in Nat /\ n \in Nat /\ Len(more) \in Nat /\ d \in Nat
          /\ Len(out) <= n /\ Len(more) <= d
      BY <2>1, <2>2, <1>3, <1>10
    <3>2. /\ Len(out) + Len(more) <= n + d
          /\ Len(out) + Len(more) = n + d <=> Len(out) = n /\ Len(more) = d
      BY <3>1, BoundsAdd
    <3>. QED BY <3>2, <1>11
  <2>4. \A i \in 1 .. n + d : i \in 1 .. n \/ \E j \in 1 .. d : i = n + j
    <3>. SUFFICES ASSUME NEW i \in 1 .. n + d, i \notin 1 .. n
                  PROVE  \E j \in 1 .. d : i = n + j
      OBVIOUS
    <3>1. i - n \in 1 .. d /\ i = n + (i - n)
      BY <1>3, <2>2
    <3>. QED BY <3>1
  <2>5. \A j \in 1 .. d : n + j \in 1 .. n + d
    BY <1>3, <2>2
  <2>6. \A i \in 1 .. n : i \in 1 .. n + d
    BY <1>3, <2>2
  <2>7. (\A i \in 1 .. n + d : ~MarkAt(i)) <=>
          (\A i \in 1 .. n : ~MarkAt(i)) /\ (\A j \in 1 .. d : ~MarkAt(n + j))
    BY <2>4, <2>5, <2>6
  <2>8. Len(out') = n + d <=> \A i \in 1 .. n + d : ~MarkAt(i)
    BY <2>1, <2>3, <2>7, <1>8, <1>12
  <2>9. ASSUME Len(out') = n + d, NEW i \in 1 .. n + d PROVE out'[i] = text[i]
    <3>1. Len(out) = n /\ Len(more) = d
      BY <2>3, <2>9
    <3>2. CASE i \in 1 .. n
      BY <3>1, <3>2, <2>1, <1>11
    <3>3. CASE i \notin 1 .. n
      <4>1. PICK j \in 1 .. d : i = n + j
        BY <3>3, <2>4
      <4>. QED BY <4>1, <3>1, <1>8, <1>11, <1>12
    <3>. QED BY <3>2, <3>3
  <2>10. (\A i \in 1 .. n + d : ~MarkAt(i)) <=> (\A i \in 1 .. Read(n) : ~MarkAt(i))'
    BY <1>5 DEF MarkAt, Read
  <2>11. Read(n)' = n + d
    BY <1>5 DEF Read
  <2>12. text' = text
    OBVIOUS
  <2>. QED BY <2>3, <2>8, <2>9, <2>10, <2>11, <2>12 DEF Restored
<1>13. ASSUME ~shouldPad PROVE Kept(n)'
  <2>1. Len(out) = n /\ \A i \in 1 .. n : out[i] = text[i]
    BY <1>1, <1>5, <1>13 DEF Decrypting, Kept
  <2>2. more = b /\ Len(out') = n + BlkLen
    BY <2>1, <1>7, <1>9, <1>11, <1>13
  <2>3. ASSUME NEW i \in 1 .. n + d PROVE out'[i] = text[i]
    <3>1. CASE i \in 1 .. n
      BY <3>1, <2>1, <1>11
    <3>2. CASE i \notin 1 .. n
      <4>1. i - n \in 1 .. BlkLen /\ i = n + (i - n) /\ i - n \in 1 .. d
        BY <3>2, <1>3, <1>5
      <4>2. n + (i - n) <= Len(text)
        BY <4>1, <1>2, <1>3, <1>5 DEF Read, TextIn, d
      <4>3. out'[i] = b[i - n]
        BY <4>1, <2>1, <2>2, <1>7, <1>11
      <4>. QED BY <4>1, <4>2, <4>3, <1>2 DEF Plain, Block
    <3>. QED BY <3>1, <3>2
  <2>4. Read(n)' = n + d /\ text' = text
    BY <1>5 DEF Read
  <2>. QED BY <2>2, <2>3, <2>4, <1>4 DEF Kept
<1>14. n' % BlkLen = 0 /\ n' \in Nat /\ n' <= Len(data)
  BY <1>2, <1>3, <1>4, NextStart
<1>15. /\ rc' = "busy" => n' < Len(data)
       /\ rc' \in {"success", "abort"} => n' = Len(data)
       /\ rc' \in {"busy", "success", "failure", "abort"}
  BY <1>3, <1>14 DEF Outcome
<1>16. ASSUME NEW s \in Starts(Len(text)) PROVE Sealed(data, s)'
  <2>1. PICK p : Plain(p, s) /\ \A i \in Block : data[s + i] = [of |-> p, at |-> i]
    BY <1>1 DEF Decrypting, Sealed
  <2>2. Plain(p, s)'
    BY <2>1 DEF Plain
  <2>. QED BY <2>1, <2>2 DEF Sealed
<1>17. Decrypting'
  <2>1. (\A s \in Starts(Len(text)) : Sealed(data, s))'
    BY <1>16 DEF Starts
  <2>2. Len(data) = Rounded(Len(text)) /\ data' = data /\ text' = text /\ shouldPad' = shouldPad
    BY <1>1 DEF Decrypting
  <2>. QED BY <2>1, <2>2, <1>12, <1>13, <1>14, <1>15 DEF Decrypting, Rounded, Blocks
<1>18. CryptoTypeOK'
  <2>1. DOMAIN blk' = Block
    BY <1>4, <1>6
  <2>2. n' \in 0 .. Len(data')
    BY <1>3, <1>14
  <2>. QED BY <2>1, <2>2, <1>15 DEF CryptoInv, CryptoTypeOK
<1>19. IsSequence(data)'
  BY DEF CryptoInv, IsSequence
<1>. QED BY <1>1, <1>11, <1>17, <1>18, <1>19 DEF CryptoInv, IsSequence

\* A ciphertext that is complete is what decrypting starts from.
LEMMA DecryptStarts == ASSUME CryptoInv, Decrypt PROVE CryptoInv'
<1>1. /\ mode = "encrypt" /\ rc = "success" /\ Encrypting
      /\ mode' = "decrypt" /\ data' = out /\ n' = 0 /\ blk' = ZeroBlock /\ out' = <<>>
      /\ rc' = "busy" /\ shouldPad' = shouldPad /\ text' = text
  BY DEF Decrypt, CryptoInv
<1>2. Len(text) \in Nat /\ Len(text) >= 1 /\ BlkLen \in Nat /\ BlkLen >= 2
  BY Types
<1>3. n = Len(text) /\ Len(out) = Rounded(Len(text)) /\ Len(out) \in Nat /\ Len(out) >= 1
  <2>1. n = Len(text) /\ Len(out) = Rounded(Len(text))
    BY <1>1 DEF Encrypting
  <2>2. Rounded(Len(text)) \in Nat /\ Len(text) <= Rounded(Len(text))
    BY <1>2, Rounding
  <2>. QED BY <2>1, <2>2, <1>2
<1>4. ASSUME NEW s \in Starts(Len(text)) PROVE Sealed(data, s)'
  <2>1. PICK p : Plain(p, s) /\ \A i \in Block : out[s + i] = [of |-> p, at |-> i]
    BY <1>1, <1>3 DEF Encrypting, Sealed
  <2>2. Plain(p, s)'
    BY <1>1, <2>1 DEF Plain
  <2>. QED BY <1>1, <2>1, <2>2 DEF Sealed
<1>5. Len(out') = 0 /\ IsSequence(out)'
  BY <1>1, EmptySeq DEF IsSequence
<1>6. Read(n)' = 0
  BY <1>1, <1>2 DEF Read
<1>7. Restored(n)' /\ Kept(n)'
  BY <1>1, <1>5, <1>6 DEF Restored, Kept
<1>8. 0 % BlkLen = 0
  BY <1>2
<1>9. Decrypting'
  <2>1. (\A s \in Starts(Len(text)) : Sealed(data, s))'
    BY <1>1, <1>4 DEF Starts
  <2>2. (Len(data) = Rounded(Len(text)))'
    BY <1>1, <1>3 DEF Rounded, Blocks
  <2>. QED BY <1>1, <1>3, <1>7, <1>8, <2>1, <2>2 DEF Decrypting
<1>10. CryptoTypeOK'
  BY <1>1, <1>3 DEF CryptoInv, CryptoTypeOK, ZeroBlock
<1>11. IsSequence(data)'
  BY <1>1 DEF CryptoInv, IsSequence
<1>. QED BY <1>1, <1>5, <1>9, <1>10, <1>11 DEF CryptoInv

\* What the invariant says does not depend on rc, once that is an error.
LEMMA FailureKeeps ==
  ASSUME CryptoInv, rc' \in {rc, "failure"},
         UNCHANGED <<shouldPad, text, mode, data, n, blk, out>>
  PROVE  CryptoInv'
<1>1. mode = "encrypt" => Encrypting'
  <2>. SUFFICES ASSUME Encrypting PROVE Encrypting'
    BY DEF CryptoInv
  <2>1. (\A s \in Starts(n) : Sealed(out, s))'
    BY DEF Encrypting, Starts, Sealed, Plain
  <2>. QED BY <2>1 DEF Encrypting, Rounded, Blocks
<1>2. mode = "decrypt" => Decrypting'
  <2>. SUFFICES ASSUME Decrypting PROVE Decrypting'
    BY DEF CryptoInv
  <2>1. (\A s \in Starts(Len(text)) : Sealed(data, s))'
    BY DEF Decrypting, Starts, Sealed, Plain
  <2>2. IF shouldPad THEN Restored(n)' ELSE Kept(n)'
    BY DEF Decrypting, Restored, Kept, Read, MarkAt
  <2>. QED BY <2>1, <2>2 DEF Decrypting, Rounded, Blocks
<1>3. CryptoTypeOK' /\ IsSequence(data)' /\ IsSequence(out)'
  BY DEF CryptoInv, CryptoTypeOK, IsSequence
<1>. QED BY <1>1, <1>2, <1>3 DEF CryptoInv

LEMMA CryptoStep == CryptoInv /\ [CryptoNext]_cryptoVars => CryptoInv'
<1>. SUFFICES ASSUME CryptoInv, [CryptoNext]_cryptoVars PROVE CryptoInv'
  OBVIOUS
<1>1. CASE CipherBlk
  BY <1>1, EncryptStep, DecryptStep DEF CipherBlk
<1>2. CASE CipherFails
  BY <1>2, FailureKeeps DEF CipherFails
<1>3. CASE Decrypt
  BY <1>3, DecryptStarts
<1>4. CASE Over \/ UNCHANGED cryptoVars
  BY <1>4, FailureKeeps DEF Over, cryptoVars
<1>. QED BY <1>1, <1>2, <1>3, <1>4 DEF CryptoNext

\* The invariant of the blocks holds throughout.
THEOREM CryptoInvariant == CryptoSpec => []CryptoInv
  BY CryptoStart, CryptoStep, PTL DEF CryptoSpec
-----------------------------------------------------------------------------
\* Type correctness, for any bytes, any length of a block and of the text.
THEOREM CryptoTypeCorrect == CryptoSpec => []CryptoTypeOK
<1>1. CryptoInv => CryptoTypeOK
  BY DEF CryptoInv
<1>. QED BY <1>1, CryptoInvariant, PTL

\* c->out of _cipher_exec has whole blocks only, in every mode: the length of
\* the text rounded up.
THEOREM CiphertextsAreWhole == CryptoSpec => []CiphertextIsWholeBlocks
<1>1. CryptoInv => CiphertextIsWholeBlocks
  BY DEF CryptoInv, Encrypting, CiphertextIsWholeBlocks, Rounded
<1>. QED BY <1>1, CryptoInvariant, PTL

\* In the modes that pad, _decrypt_blk gives back every text but those, and only
\* those, that have a byte it takes for the mark of _encrypt_blk.
THEOREM TextsComeBack == CryptoSpec => []TextComesBack
<1>1. ASSUME CryptoInv PROVE TextComesBack
  <2>. SUFFICES ASSUME shouldPad, mode = "decrypt", rc \in {"success", "abort"}
                PROVE  out = text <=> ~LooksPadded(text)
    BY DEF TextComesBack
  <2>1. Decrypting /\ n = Len(data) /\ Restored(n)
    BY <1>1 DEF CryptoInv, Decrypting
  <2>2. Len(text) \in Nat /\ Len(text) <= n /\ n \in Nat
    BY <1>1, <2>1, Types, Rounding DEF Decrypting
  <2>3. Read(n) = Len(text)
    BY <2>2 DEF Read
  <2>4. /\ Len(out) = Len(text) <=> \A i \in 1 .. Len(text) : ~MarkAt(i)
        /\ Len(out) = Len(text) => \A i \in 1 .. Len(text) : out[i] = text[i]
    BY <2>1, <2>3 DEF Restored
  <2>5. ~LooksPadded(text) <=> \A i \in 1 .. Len(text) : ~MarkAt(i)
    BY DEF LooksPadded, MarkAt
  <2>6. Len(out) = Len(text) => out = text
    <3>. SUFFICES ASSUME Len(out) = Len(text) PROVE out = text
      OBVIOUS
    <3>1. PICK S : out \in Seq(S)
      BY <1>1 DEF CryptoInv, IsSequence
    <3>2. out \in Seq(S \cup Byte) /\ text \in Seq(S \cup Byte)
      BY <3>1, <1>1, Types, SeqMonotonic
    <3>. QED BY <3>2, <2>4, SeqEqual
  <2>. QED BY <2>4, <2>5, <2>6
<1>. QED BY <1>1, CryptoInvariant, PTL

\* In the modes that do not pad nothing of the text is lost, and less than a
\* block of what was in the scratch block comes after it.
THEOREM TextsArePrefixes == CryptoSpec => []UnpaddedTextIsPrefix
<1>1. ASSUME CryptoInv PROVE UnpaddedTextIsPrefix
  <2>. SUFFICES ASSUME ~shouldPad, mode = "decrypt", rc = "success"
                PROVE  IsPrefix(text, out) /\ Len(out) < Len(text) + BlkLen
    BY DEF UnpaddedTextIsPrefix
  <2>1. Decrypting /\ n = Len(data) /\ Kept(n)
    BY <1>1 DEF CryptoInv, Decrypting
  <2>2. /\ Len(text) \in Nat /\ Len(text) <= n /\ n < Len(text) + BlkLen
        /\ n \in Nat /\ BlkLen \in Nat
    BY <1>1, <2>1, Types, Rounding DEF Decrypting
  <2>3. Len(out) = n /\ \A i \in 1 .. Len(text) : out[i] = text[i]
    BY <2>1, <2>2 DEF Kept, Read
  <2>4. SubSeq(text, 1, Len(text)) = SubSeq(out, 1, Len(text))
    BY <2>2, <2>3
  <2>. QED BY <2>2, <2>3, <2>4 DEF IsPrefix
<1>. QED BY <1>1, CryptoInvariant, PTL
=============================================================================
