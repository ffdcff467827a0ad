------------------------------- MODULE Cipher -------------------------------
(***************************************************************************)
(* The encryption strategies of the file system: AesEncryption, which is a *)
(* XOR stream whose key bytes rotate, and NoEncryption. A strategy is a    *)
(* record of its key and iv; the empty key is NoEncryption, because        *)
(* AesEncryption::encrypt returns its input when no key has been set.      *)
(***************************************************************************)
EXTENDS Integers, Sequences

CONSTANTS
  Width,    \* bits of a byte (8 in the code)
  Period    \* the key is rotated at every index divisible by it (16)

ASSUME CipherAssumption == Width \in Nat \ {0} /\ Period \in Nat \ {0}

Byte == [0..(Width - 1) -> {0, 1}]

Zero == [i \in 0..(Width - 1) |-> 0]

Xor(a, b) == [i \in 0..(Width - 1) |-> (a[i] + b[i]) % 2]

\* b = (b << 1) | (b >> 7), applied n times.
RotateLeft(b, n) == [i \in 0..(Width - 1) |-> b[(i - n) % Width]]

\* Rotations before index i: one after each earlier index divisible by Period.
Rotations(i) == (i + Period - 1) \div Period

\* s[i % s.size()], for the indices of C++ (keyIdx and ivIdx).
Cyclic(s, i) == s[(i % Len(s)) + 1]

Strategy == [key : Seq(Byte), iv : Seq(Byte)]

NoEncryption == [key |-> <<>>, iv |-> <<>>]

\* What index i is XORed with: the rotated key byte and the iv byte.
KeyStream(c, i) ==
  Xor(RotateLeft(Cyclic(c.key, i), Rotations(i)),
      IF c.iv = <<>> THEN Zero ELSE Cyclic(c.iv, i))

encrypt(c, data) ==
  IF c.key = <<>> THEN data
  ELSE [i \in 1..Len(data) |-> Xor(data[i], KeyStream(c, i - 1))]

decrypt(c, data) == encrypt(c, data)
=============================================================================
