------------------------------- MODULE Crypto -------------------------------
(***************************************************************************)
(* gcrypt/crypto.c: quvi.crypto.encrypt cuts a text into blocks, pads the  *)
(* last one (in the modes that need whole blocks) and enciphers each;      *)
(* quvi.crypto.decrypt deciphers the blocks and strips the padding.  One   *)
(* step of the model is one block.  A script encrypts a text and decrypts  *)
(* what it got back, each with a crypto_t of its own.                      *)
(*                                                                         *)
(* The cipher is libgcrypt's: a block that has been enciphered is opaque,  *)
(* and deciphering it gives the block back.                                *)
(***************************************************************************)
EXTENDS Integers, Sequences, SequencesExt, FiniteSetsExt

CONSTANTS
  x80, x00,   \* the two bytes of the padding
  Others,     \* other bytes
  BlkLen,     \* c->cipher.blklen, in bytes
  MaxLen      \* bound: the length of the text

ASSUME ByteAssumption   == x80 # x00 /\ {x80, x00} \cap Others = {}
\* The modes that pad are those of block ciphers.
ASSUME BlkLenAssumption == BlkLen \in Nat /\ BlkLen >= 2 /\ MaxLen \in Nat

VARIABLES
  shouldPad,  \* c->cipher.should_pad
  text,       \* the text the script encrypts
  mode,       \* c->mode: "encrypt", and then "decrypt"
  data,       \* what crypto_exec has been given
  n,          \* the bytes of it that are done
  blk,        \* the scratch block of _cipher_exec
  out,        \* c->out
  rc          \* "busy", then "success", "failure" or "abort" (an assertion)

cryptoVars == <<shouldPad, text, mode, data, n, blk, out, rc>>

Byte  == {x80, x00} \cup Others
Texts == UNION {[1 .. len -> Byte] : len \in 1 .. MaxLen}
Block == 1 .. BlkLen

CryptoTypeOK ==
  /\ shouldPad \in BOOLEAN
  /\ text \in Texts
  /\ mode \in {"encrypt", "decrypt"}
  /\ n \in 0 .. Len(data)
  /\ DOMAIN blk = Block
  /\ rc \in {"busy", "success", "failure", "abort"}

\* _cipher_exec begins: a scratch block of zeros, nothing in the result.
ZeroBlock == [i \in Block |-> x00]

CryptoInit == /\ shouldPad \in BOOLEAN
              /\ text \in Texts
              /\ mode = "encrypt"
              /\ data = text
              /\ n = 0
              /\ blk = ZeroBlock
              /\ out = <<>>
              /\ rc = "busy"
-----------------------------------------------------------------------------
\* gcry_cipher_encrypt and gcry_cipher_decrypt of one block, in place.
Encipher(b) == [i \in Block |-> [of |-> b, at |-> i]]
Decipher(b) == b[1].of

\* How much of the data the next block takes.
BlockSize == Min({BlkLen, Len(data) - n})

\* memcpy: the scratch block keeps what the data does not overwrite.
Copied(dlen) == [i \in Block |-> IF i <= dlen THEN data[n + i] ELSE blk[i]]

\* A short block is padded with the mark 0x80 and zeros.
Padded(b, dlen) == IF shouldPad
                   THEN [i \in Block |-> IF i <= dlen THEN b[i]
                                         ELSE IF i = dlen + 1 THEN x80 ELSE x00]
                   ELSE b

\* Mutant: any 0x80 is taken for the mark.
IsAnyMark(b, i) == b[i] = x80

\* The mark; in the first place of a block only before a zero.
IsMark(b, i) == b[i] = x80 /\ (i > 1 \/ b[i + 1] = x00)

\* Mutant: the modes that do not pad are stripped too.
StrippedAlways(b) == LET marks == {i \in Block : IsMark(b, i)}
                     IN  IF marks = {} THEN b ELSE SubSeq(b, 1, Min(marks) - 1)

\* A deciphered block up to the first mark.
Stripped(b) == LET marks == {i \in Block : IsMark(b, i)}
               IN  IF ~shouldPad \/ marks = {} THEN b ELSE SubSeq(b, 1, Min(marks) - 1)

\* Mutant: only the bytes of the text are kept of an enciphered block.
EncryptedShort(b, dlen) == SubSeq(b, 1, dlen)

\* What _encrypt_blk appends to c->out.
Encrypted(b, dlen) == b

\* Mutant: the last block counts as a whole one.
AdvanceByBlock(dlen) == n + BlkLen

Advance(dlen) == n + dlen

\* The loop ends with the data; crypto_bytes2hex insists on at least one byte.
Outcome(left, result) == IF left > 0 THEN "busy"
                         ELSE IF result = <<>> THEN "abort" ELSE "success"

\* _encrypt_blk of the next block.
EncryptBlk ==
  LET sealed == Encipher(Padded(Copied(BlockSize), BlockSize))
  IN  /\ mode = "encrypt"
      /\ blk' = sealed
      /\ out' = out \o Encrypted(sealed, BlockSize)

\* _decrypt_blk of the next block.
DecryptBlk ==
  LET opened == Decipher(Copied(BlockSize))
  IN  /\ mode = "decrypt"
      /\ blk' = opened
      /\ out' = out \o Stripped(opened)

\* One turn of the loop of _cipher_exec.
CipherBlk == /\ rc = "busy"
             /\ EncryptBlk \/ DecryptBlk
             /\ n' = Advance(BlockSize)
             /\ rc' = Outcome(Len(data) - n', out')
             /\ UNCHANGED <<shouldPad, text, mode, data>>

\* libgcrypt reports an error; the loop stops.
CipherFails == /\ rc = "busy"
               /\ rc' = "failure"
               /\ UNCHANGED <<shouldPad, text, mode, data, n, blk, out>>

\* The script passes the ciphertext it got to quvi.crypto.decrypt.
Decrypt == /\ mode = "encrypt" /\ rc = "success"
           /\ mode' = "decrypt"
           /\ data' = out
           /\ n' = 0
           /\ blk' = ZeroBlock
           /\ out' = <<>>
           /\ rc' = "busy"
           /\ UNCHANGED <<shouldPad, text>>

\* The script has its text back, an error, or its process has ended.
Over == /\ rc # "busy"
        /\ mode = "decrypt" \/ rc # "success"
        /\ UNCHANGED cryptoVars

CryptoNext == CipherBlk \/ CipherFails \/ Decrypt \/ Over

CryptoSpec == CryptoInit /\ [][CryptoNext]_cryptoVars
-----------------------------------------------------------------------------
(* Properties.                                                              *)

Blocks(len) == (len + BlkLen - 1) \div BlkLen

\* A ciphertext is the text's length rounded up to whole blocks, in every mode:
\* what _decrypt_blk relies on, which always deciphers a whole block.
CiphertextIsWholeBlocks ==
  mode = "encrypt" /\ rc = "success" => Len(out) = BlkLen * Blocks(Len(text))

\* A text in which _decrypt_blk sees a mark where _encrypt_blk has put none.
LooksPadded(t) ==
  \E i \in 1 .. Len(t) : /\ t[i] = x80
                         /\ i % BlkLen # 1 \/ (i < Len(t) /\ t[i + 1] = x00)

\* In the modes that pad, decrypting an encrypted text gives exactly the text,
\* unless the text itself has bytes that look like padding; and then it does not.
TextComesBack ==
  shouldPad /\ mode = "decrypt" /\ rc \in {"success", "abort"}
    => (out = text <=> ~LooksPadded(text))

\* In the other modes the text comes back with the rest of the last block behind
\* it: nothing of it is lost and less than a block is added.
UnpaddedTextIsPrefix ==
  ~shouldPad /\ mode = "decrypt" /\ rc = "success"
    => IsPrefix(text, out) /\ Len(out) < Len(text) + BlkLen
-----------------------------------------------------------------------------
(* What the documentation says and the code does not do.                    *)

\* quvi-object(7) encrypts in a mode that pads, and then says of decrypting what
\* it got: "Reverse the process".
ReverseTheProcess == shouldPad /\ mode = "decrypt" /\ rc = "success" => out = text
=============================================================================
