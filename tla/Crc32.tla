-------------------------------- MODULE Crc32 --------------------------------
(***************************************************************************)
(* The build id of buildid.go: decodeBuildID turns the version string into *)
(* bytes, crc32 runs over them bit by bit. A 32-bit word is the set of the *)
(* positions of its ones, which is also a polynomial over GF(2).           *)
(***************************************************************************)
EXTENDS Integers, Sequences, FiniteSets, FiniteSetsExt

CONSTANT Inputs   \* the byte sequences crc32 is run on, with seed 0

ASSUME InputsAssumption == Inputs \subseteq Seq(0 .. 255)

VARIABLES
    data,  \* the argument
    pos,   \* how many of its bytes the outer loop has taken
    left,  \* the rounds the inner loop has left
    crc,   \* the register
    quot   \* not in the code: a bit for each round, was the polynomial subtracted

vars == <<data, pos, left, crc, quot>>

Word      == 0 .. 31
poly      == {0, 1, 2, 4, 5, 7, 8, 10, 11, 12, 16, 22, 23, 26}    \* 0x04C11DB7
Ones      == Word
Xor(a, b) == (a \ b) \cup (b \ a)

Bits(byte) == {i \in 0 .. 7 : (byte \div 2 ^ i) % 2 = 1}

\* crc << n: what leaves the word is lost.
Shl(w, n) == {i + n : i \in w} \cap Word

Init ==
    /\ data \in Inputs
    /\ pos = 0 /\ left = 0 /\ quot = {}
    /\ crc = Xor({}, Ones)

NextByte ==                                        \* crc ^= uint32(b) << 24
    /\ left = 0 /\ pos < Len(data)
    /\ pos' = pos + 1
    /\ left' = 8
    /\ crc' = Xor(crc, Shl(Bits(data[pos + 1]), 24))
    /\ UNCHANGED <<data, quot>>

\* (Mutated: the bit is tested after the shift.)
ReducedLate == IF 31 \in Shl(crc, 1) THEN Xor(Shl(crc, 1), poly) ELSE Shl(crc, 1)
Reduced     == IF 31 \in crc THEN Xor(Shl(crc, 1), poly) ELSE Shl(crc, 1)

NextBit ==
    /\ left > 0
    /\ left' = left - 1
    /\ crc' = Reduced
    /\ quot' = {i + 1 : i \in quot} \cup (IF 31 \in crc THEN {0} ELSE {})
    /\ UNCHANGED <<data, pos>>

Finished == left = 0 /\ pos = Len(data)
Done     == Finished /\ UNCHANGED vars

Next == NextByte \/ NextBit \/ Done
Spec == Init /\ [][Next]_vars

\* The conversion to int32: the top bit counts as -2^31.
Sum30(w) == SumSet({2 ^ i : i \in w \ {31}})
ToInt32(w) == Sum30(w) - (IF 31 \in w THEN 2 ^ 30 ELSE 0) - (IF 31 \in w THEN 2 ^ 30 ELSE 0)
result == ToInt32(Xor(crc, Ones))

\* Two bytes for each rune, the lower one first; what a rune has above 16 bits is lost.
\* (Mutated: the higher one first.)
BuildBytesSwapped(s) ==
    [k \in 1 .. 2 * Len(s) |->
        IF k % 2 = 0 THEN s[k \div 2] % 256 ELSE (s[(k + 1) \div 2] \div 256) % 256]
BuildBytes(s) ==
    [k \in 1 .. 2 * Len(s) |->
        IF k % 2 = 1 THEN s[(k + 1) \div 2] % 256 ELSE (s[k \div 2] \div 256) % 256]

(***************************************************************************)
(* Properties.                                                             *)
(***************************************************************************)
\* Polynomials over GF(2), as sets of exponents.
Raise(p, n)  == {i + n : i \in p}
Times(p, q)  ==
    {e \in {i + j : i \in p, j \in q} : Cardinality({i \in p : e - i \in q}) % 2 = 1}
Message(bs, n) == UNION {Raise(Bits(bs[k]), 8 * (n - k)) : k \in 1 .. n}

\* The register is the remainder of a division by the CRC-32 polynomial
\* x^32 + poly, at every step of both loops: the message read so far, followed by
\* 32 zeros and with its first 32 bits inverted, is a multiple of it plus the
\* register (buildid.go:14-24).
RemainderInv ==
    Xor(Raise(Message(data, pos), 32), Raise(Ones, 8 * pos))
        = Raise(Xor(Times(quot, poly \cup {32}), crc), left)
==============================================================================
