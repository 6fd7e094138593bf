------------------------------ MODULE LoginKey ------------------------------
(***************************************************************************)
(* The key a login answers the server's seed with (aochat/crypto.py): the   *)
(* secret of a Diffie-Hellman exchange whose other half the client has in   *)
(* its source, and under it the credentials in chained blocks of a cipher   *)
(* of the TEA family.  Scaled: a byte has four values and a word two bytes   *)
(* for four, so that shifts of 4 and 5 become 1 and 2; a key is still four   *)
(* words, a block two, and a secret may have more digits than the key.       *)
(***************************************************************************)
EXTENDS Integers, SequencesExt, Bitwise

CONSTANTS
    Rounds, Delta,        \* TEA_ROUNDS, TEA_DELTA
    DhN, DhG,             \* the prime and its generator
    ServerSecret,         \* what only the server knows of DH_Y
    Secrets, RandomPrefixes, Credentials   \* what is tried: dh_x, prefixes, login strings

Byte == 4
WordSize == Byte * Byte
BlockBytes == 4
KeyBytes == 8

\* Products modulo DhN within the checker's integers.
MulMod(x, y) ==
    LET Times[n \in 0..y] ==
            IF n = 0 THEN 0 ELSE (2 * Times[n \div 2] + (IF n % 2 = 1 THEN x ELSE 0)) % DhN
    IN Times[y]
PowMod(base, exp) == FoldLeft(LAMBDA x, n : MulMod(x, base), 1, [n \in 1..exp |-> n])

DhY == PowMod(DhG, ServerSecret)

ASSUME LoginKeyAssumption ==
    /\ Rounds \in Nat /\ Delta \in 0..(WordSize - 1) /\ DhN < 2^29
    /\ \A p \in RandomPrefixes : Len(p) = BlockBytes

-----------------------------------------------------------------------------
(* Bytes and words.                                                         *)

\* The digits of a number, most significant first.
Digits(k) ==
    LET width == CHOOSE w \in 0..(2 * KeyBytes) : k < Byte^w /\ \A v \in 0..(w - 1) : k >= Byte^v
    IN [n \in 1..width |-> (k \div Byte^(width - n)) % Byte]

\* zfill, or the first digits.
KeyText(k) ==
    LET d == Digits(k) IN
    IF Len(d) < KeyBytes THEN [n \in 1..(KeyBytes - Len(d)) |-> 0] \o d
    ELSE SubSeq(d, 1, KeyBytes)

\* Little-endian words, two of them a block.
WordAt(bytes, n) == bytes[2 * n - 1] + Byte * bytes[2 * n]
KeyWords(text) == [n \in 1..4 |-> WordAt(text, n)]
Blocks(bytes) ==
    [n \in 1..(Len(bytes) \div BlockBytes) |-> <<WordAt(bytes, 2 * n - 1), WordAt(bytes, 2 * n)>>]
Bytes(block) ==
    <<block[1] % Byte, block[1] \div Byte, block[2] % Byte, block[2] \div Byte>>

Xor2(x, y) == <<x[1] ^^ y[1], x[2] ^^ y[2]>>

-----------------------------------------------------------------------------
(* The cipher.                                                              *)

Mix(v, k1, k2, c) ==
    ((((v * 2 + k1) % WordSize) ^^ ((v + c) % WordSize)) ^^ (((v \div 4) + k2) % WordSize))

Permute(block, key) ==
    LET Round(ab, n) ==
            LET c == (n * Delta) % WordSize
                a == (ab[1] + Mix(ab[2], key[1], key[2], c)) % WordSize
            IN <<a, (ab[2] + Mix(a, key[3], key[4], c)) % WordSize>>
    IN FoldLeft(Round, block, [n \in 1..Rounds |-> n])

\* Mutant: the block is chained with the one before it rather than with what
\* that was encrypted to.
CryptPlainChain(key, plain) ==
    LET bs == Blocks(plain)
    IN [n \in 1..Len(bs) |->
           Permute(IF n = 1 THEN bs[n] ELSE Xor2(bs[n], bs[n - 1]), key)]

AochatCrypt(key, plain) ==
    FoldLeft(LAMBDA out, b :
                 Append(out, Permute(Xor2(b, IF out = <<>> THEN <<0, 0>> ELSE Last(out)), key)),
             <<>>, Blocks(plain))

\* The length is big-endian; spaces fill the last block.
Plaintext(prefix, login) ==
    LET length == Len(prefix) + 2 + Len(login)
        pad == (BlockBytes - (length % BlockBytes)) % BlockBytes
    IN prefix \o <<Len(login) \div Byte, Len(login) % Byte>> \o login \o [n \in 1..pad |-> 2]

GenerateLoginKey(x, prefix, login) ==
    [public |-> PowMod(DhG, x),
     crypted |-> AochatCrypt(KeyWords(KeyText(PowMod(DhY, x))), Plaintext(prefix, login))]

-----------------------------------------------------------------------------
(* The reference: what the server makes of it.                              *)

Unpermute(block, key) ==
    LET Back(n, ab) ==
            LET c == (n * Delta) % WordSize
                b == (ab[2] - Mix(ab[1], key[3], key[4], c)) % WordSize
            IN <<(ab[1] - Mix(b, key[1], key[2], c)) % WordSize, b>>
    IN FoldRight(Back, [n \in 1..Rounds |-> n], block)

Decrypted(key, blocks) ==
    FlattenSeq([n \in 1..Len(blocks) |->
        Bytes(Xor2(Unpermute(blocks[n], key), IF n = 1 THEN <<0, 0>> ELSE blocks[n - 1]))])

\* The server, from the client's public number and its own secret, gets back the
\* credentials byte for byte, whatever their length, the random prefix and secret.
ServerRecoversLogin ==
    \A x \in Secrets, prefix \in RandomPrefixes, login \in Credentials :
        LET sent == GenerateLoginKey(x, prefix, login)
            key == KeyWords(KeyText(PowMod(sent.public, ServerSecret)))
            plain == Decrypted(key, sent.crypted)
        IN SubSeq(plain, 7, 6 + plain[5] * Byte + plain[6]) = login
=============================================================================
