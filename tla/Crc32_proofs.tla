----------------------------- MODULE Crc32_proofs -----------------------------
(***************************************************************************)
(* Theorems about Crc32, for any inputs of any length. Polynomials over    *)
(* GF(2) are sets of natural numbers, so equal when they have the same     *)
(* members; addition is Xor, and a product is a matter of parity.          *)
(***************************************************************************)
EXTENDS Crc32, FiniteSetTheorems, TLAPS

Divisor == poly \cup {32}

LEMMA DivisorFacts == Divisor \in SUBSET Nat /\ IsFiniteSet(Divisor) /\ {0, 32} \subseteq Divisor
                      /\ \A i \in Divisor : i <= 32
<1>1. Divisor \in SUBSET Nat /\ {0, 32} \subseteq Divisor /\ \A i \in Divisor : i <= 32
  BY DEF Divisor, poly
<1> QED
  BY <1>1, FS_BoundedSetOfNaturals

(***************************************************************************)
(* Addition and multiplication by a power of x.                            *)
(***************************************************************************)
LEMMA RaiseMember ==
    ASSUME NEW p \in SUBSET Nat, NEW n \in Nat
    PROVE  /\ Raise(p, n) \in SUBSET Nat
           /\ \A e \in Int : e \in Raise(p, n) <=> e - n \in p
BY DEF Raise

LEMMA XorMember ==
    ASSUME NEW p \in SUBSET Nat, NEW q \in SUBSET Nat
    PROVE  /\ Xor(p, q) \in SUBSET Nat
           /\ \A e : e \in Xor(p, q) <=> ~(e \in p <=> e \in q)
BY DEF Xor

LEMMA SameMembers ==
    ASSUME NEW p \in SUBSET Nat, NEW q \in SUBSET Nat, \A e \in Nat : e \in p <=> e \in q
    PROVE  p = q
OBVIOUS

LEMMA RaiseXor ==
    ASSUME NEW p \in SUBSET Nat, NEW q \in SUBSET Nat, NEW n \in Nat
    PROVE  Raise(Xor(p, q), n) = Xor(Raise(p, n), Raise(q, n))
<1>1. Xor(p, q) \in SUBSET Nat /\ Raise(p, n) \in SUBSET Nat /\ Raise(q, n) \in SUBSET Nat
  BY XorMember, RaiseMember
<1>2. \A e \in Nat : e \in Raise(Xor(p, q), n) <=> ~(e - n \in p <=> e - n \in q)
  BY <1>1, XorMember, RaiseMember
<1>3. \A e \in Nat : e \in Xor(Raise(p, n), Raise(q, n)) <=> ~(e - n \in p <=> e - n \in q)
  BY <1>1, XorMember, RaiseMember
<1>4. Raise(Xor(p, q), n) \in SUBSET Nat /\ Xor(Raise(p, n), Raise(q, n)) \in SUBSET Nat
  BY <1>1, XorMember, RaiseMember
<1> QED
  BY <1>2, <1>3, <1>4, SameMembers

LEMMA RaiseRaise ==
    ASSUME NEW p \in SUBSET Nat, NEW m \in Nat, NEW n \in Nat
    PROVE  Raise(Raise(p, m), n) = Raise(p, m + n) /\ Raise(p, 0) = p
<1>1. Raise(p, m) \in SUBSET Nat /\ Raise(p, 0) \in SUBSET Nat /\ m + n \in Nat /\ 0 \in Nat
  BY RaiseMember
<1>2. /\ \A e \in Int : e \in Raise(Raise(p, m), n) <=> e - n - m \in p
      /\ \A e \in Int : e \in Raise(p, m + n) <=> e - (m + n) \in p
      /\ \A e \in Int : e \in Raise(p, 0) <=> e - 0 \in p
  BY <1>1, RaiseMember
<1>3. Raise(Raise(p, m), n) \in SUBSET Nat /\ Raise(p, m + n) \in SUBSET Nat
  BY <1>1, RaiseMember
<1>5. /\ \A e \in Nat : e \in Raise(Raise(p, m), n) <=> e \in Raise(p, m + n)
      /\ \A e \in Nat : e \in Raise(p, 0) <=> e \in p
  <2> SUFFICES ASSUME NEW e \in Nat
               PROVE  /\ e \in Raise(Raise(p, m), n) <=> e \in Raise(p, m + n)
                      /\ e \in Raise(p, 0) <=> e \in p
    OBVIOUS
  <2>1. e \in Int /\ e - n - m = e - (m + n) /\ e - 0 = e
    OBVIOUS
  <2> QED
    BY <1>2, <2>1
<1>6. Raise(Raise(p, m), n) = Raise(p, m + n) /\ Raise(p, 0) = p
  BY <1>1, <1>3, <1>5, SameMembers
<1> QED
  BY <1>6

(***************************************************************************)
(* The product: how often an exponent can be had as a sum.                 *)
(***************************************************************************)
Pairs(p, q, e) == {i \in p : e - i \in q}
Odd(n)         == n % 2 = 1

LEMMA PairsFinite ==
    ASSUME NEW p, IsFiniteSet(p), NEW q, NEW e
    PROVE  IsFiniteSet(Pairs(p, q, e)) /\ Cardinality(Pairs(p, q, e)) \in Nat
<1>1. Pairs(p, q, e) \in SUBSET p
  BY DEF Pairs
<1> QED
  BY <1>1, FS_Subset, FS_CardinalityType

LEMMA TimesMember ==
    ASSUME NEW p \in SUBSET Nat, IsFiniteSet(p), NEW q \in SUBSET Nat
    PROVE  /\ Times(p, q) \in SUBSET Nat
           /\ \A e \in Int : e \in Times(p, q) <=> Odd(Cardinality(Pairs(p, q, e)))
<1>1. Times(p, q) \in SUBSET Nat
  BY DEF Times
<1>2. ASSUME NEW e \in Int, Odd(Cardinality(Pairs(p, q, e)))
      PROVE  e \in {i + j : i \in p, j \in q}
  <2>1. Pairs(p, q, e) # {}
    BY <1>2, FS_EmptySet DEF Odd
  <2>2. PICK i \in p : e - i \in q
    BY <2>1 DEF Pairs
  <2>3. e = i + (e - i)
    OBVIOUS
  <2> QED
    BY <2>2, <2>3
<1> QED
  BY <1>1, <1>2 DEF Times, Pairs, Odd

\* A quotient grows by a digit: the product is shifted, and the divisor added.
LEMMA TimesShift ==
    ASSUME NEW p \in SUBSET Nat, IsFiniteSet(p), NEW q \in SUBSET Nat
    PROVE  /\ IsFiniteSet(Raise(p, 1)) /\ IsFiniteSet(Raise(p, 1) \cup {0})
           /\ Times(Raise(p, 1), q) = Raise(Times(p, q), 1)
           /\ Times(Raise(p, 1) \cup {0}, q) = Xor(Raise(Times(p, q), 1), q)
<1> DEFINE r == Raise(p, 1)
<1>1. r \in SUBSET Nat /\ 0 \notin r /\ \A e \in Int : e \in r <=> e - 1 \in p
  BY RaiseMember
<1>2. IsFiniteSet(r)
  <2> DEFINE f == [i \in p |-> i + 1]
  <2>1. f \in Surjection(p, r)
    BY DEF Surjection, Raise
  <2> QED
    BY <2>1, FS_Surjection
<1>3. IsFiniteSet(r \cup {0}) /\ r \cup {0} \in SUBSET Nat
  BY <1>1, <1>2, FS_AddElement
<1> HIDE DEF r
<1>4. ASSUME NEW e \in Int
      PROVE  Cardinality(Pairs(r, q, e)) = Cardinality(Pairs(p, q, e - 1))
  <2> DEFINE f == [i \in Pairs(p, q, e - 1) |-> i + 1]
  <2>1. \A i \in Pairs(p, q, e - 1) : i + 1 \in Pairs(r, q, e)
    <3> SUFFICES ASSUME NEW i \in Pairs(p, q, e - 1) PROVE i + 1 \in Pairs(r, q, e)
      OBVIOUS
    <3>1. i \in Nat /\ i \in p /\ e - 1 - i \in q /\ e - (i + 1) = e - 1 - i /\ i + 1 - 1 = i
      BY DEF Pairs
    <3> QED
      BY <1>1, <3>1 DEF Pairs
  <2>2. \A k \in Pairs(r, q, e) : k - 1 \in Pairs(p, q, e - 1) /\ (k - 1) + 1 = k
    <3> SUFFICES ASSUME NEW k \in Pairs(r, q, e)
                 PROVE  k - 1 \in Pairs(p, q, e - 1) /\ (k - 1) + 1 = k
      OBVIOUS
    <3>1. k \in Nat /\ k \in r /\ e - k \in q /\ e - 1 - (k - 1) = e - k
      BY <1>1 DEF Pairs
    <3> QED
      BY <1>1, <3>1 DEF Pairs
  <2>3. \A i, k \in Pairs(p, q, e - 1) : i + 1 = k + 1 => i = k
    BY DEF Pairs
  <2>4. f \in Bijection(Pairs(p, q, e - 1), Pairs(r, q, e))
    BY <2>1, <2>2, <2>3 DEF Bijection, Injection, IsInjective, Surjection
  <2> QED
    BY <2>4, PairsFinite, FS_Bijection DEF ExistsBijection
<1>5. Times(r, q) = Raise(Times(p, q), 1)
  <2>1. Times(r, q) \in SUBSET Nat /\ Times(p, q) \in SUBSET Nat /\ Raise(Times(p, q), 1) \in SUBSET Nat
    BY <1>1, <1>2, TimesMember, RaiseMember
  <2>2. \A e \in Nat : e \in Raise(Times(p, q), 1) <=> Odd(Cardinality(Pairs(p, q, e - 1)))
    BY <2>1, TimesMember, RaiseMember
  <2>3. \A e \in Nat : e \in Times(r, q) <=> Odd(Cardinality(Pairs(r, q, e)))
    BY <1>1, <1>2, TimesMember
  <2> QED
    BY <1>4, <2>1, <2>2, <2>3, SameMembers
<1>6. ASSUME NEW e \in Int
      PROVE  Odd(Cardinality(Pairs(r \cup {0}, q, e)))
                <=> ~(Odd(Cardinality(Pairs(r, q, e))) <=> e \in q)
  <2>1. e - 0 = e
    OBVIOUS
  <2>2. Pairs(r \cup {0}, q, e) = IF e \in q THEN Pairs(r, q, e) \cup {0} ELSE Pairs(r, q, e)
    BY <2>1 DEF Pairs
  <2>3. 0 \notin Pairs(r, q, e) /\ IsFiniteSet(Pairs(r, q, e)) /\ Cardinality(Pairs(r, q, e)) \in Nat
    BY <1>1, <1>2, PairsFinite DEF Pairs
  <2>4. Cardinality(Pairs(r, q, e) \cup {0}) = Cardinality(Pairs(r, q, e)) + 1
    BY <2>3, FS_AddElement
  <2> QED
    BY <2>2, <2>3, <2>4 DEF Odd
<1>7. Times(r \cup {0}, q) = Xor(Raise(Times(p, q), 1), q)
  <2>1. Times(r \cup {0}, q) \in SUBSET Nat /\ Times(r, q) \in SUBSET Nat
    BY <1>1, <1>2, <1>3, TimesMember
  <2>2. Xor(Times(r, q), q) \in SUBSET Nat
        /\ \A e : e \in Xor(Times(r, q), q) <=> ~(e \in Times(r, q) <=> e \in q)
    BY <2>1, XorMember
  <2>3. ASSUME NEW e \in Nat
        PROVE  e \in Times(r \cup {0}, q) <=> e \in Xor(Times(r, q), q)
    <3>1. e \in Int
      OBVIOUS
    <3>2. e \in Times(r \cup {0}, q) <=> Odd(Cardinality(Pairs(r \cup {0}, q, e)))
      BY <1>3, <3>1, TimesMember
    <3>3. e \in Times(r, q) <=> Odd(Cardinality(Pairs(r, q, e)))
      BY <1>1, <1>2, <3>1, TimesMember
    <3> QED
      BY <1>6, <2>2, <3>1, <3>2, <3>3
  <2> QED
    BY <1>5, <2>1, <2>2, <2>3, SameMembers
<1> QED
  BY <1>2, <1>3, <1>5, <1>7 DEF r

(***************************************************************************)
(* The invariant of the two loops.                                         *)
(***************************************************************************)
LEMMA XorLaws ==
    ASSUME NEW p, NEW q, NEW r
    PROVE  Xor(p, q) = Xor(q, p) /\ Xor(Xor(p, q), r) = Xor(p, Xor(q, r)) /\ Xor(p, {}) = p
BY DEF Xor

LEMMA BitsFacts == \A b : Bits(b) \in SUBSET (0 .. 7) /\ Bits(b) \in SUBSET Nat
BY DEF Bits

LEMMA MessageMember ==
    ASSUME NEW bs, NEW n \in Nat
    PROVE  /\ Message(bs, n) \in SUBSET Nat
           /\ \A e \in Int : e \in Message(bs, n)
                               <=> \E k \in 1 .. n : e - 8 * (n - k) \in Bits(bs[k])
<1>1. \A k \in 1 .. n : 8 * (n - k) \in Nat
  OBVIOUS
<1>2. \A k \in 1 .. n : /\ Raise(Bits(bs[k]), 8 * (n - k)) \in SUBSET Nat
                        /\ \A e \in Int : e \in Raise(Bits(bs[k]), 8 * (n - k))
                                               <=> e - 8 * (n - k) \in Bits(bs[k])
  BY <1>1, BitsFacts, RaiseMember
<1>3. \A e : e \in Message(bs, n) <=> \E k \in 1 .. n : e \in Raise(Bits(bs[k]), 8 * (n - k))
  BY DEF Message
<1> QED
  BY <1>2, <1>3

\* Another byte: what was there moves up by eight places, which the byte fills.
LEMMA MessageGrows ==
    ASSUME NEW bs, NEW n \in Nat
    PROVE  Message(bs, n + 1) = Xor(Raise(Message(bs, n), 8), Bits(bs[n + 1]))
<1> DEFINE b == Bits(bs[n + 1])
<1>1. n + 1 \in Nat /\ Message(bs, n) \in SUBSET Nat /\ Message(bs, n + 1) \in SUBSET Nat
      /\ b \in SUBSET (0 .. 7) /\ b \in SUBSET Nat
  BY MessageMember, BitsFacts
<1>2. Raise(Message(bs, n), 8) \in SUBSET Nat
      /\ \A e \in Int : e \in Raise(Message(bs, n), 8) <=> e - 8 \in Message(bs, n)
  BY <1>1, RaiseMember
<1>3. Xor(Raise(Message(bs, n), 8), b) \in SUBSET Nat
      /\ \A e : e \in Xor(Raise(Message(bs, n), 8), b)
                   <=> ~(e \in Raise(Message(bs, n), 8) <=> e \in b)
  BY <1>1, <1>2, XorMember
<1>4. ASSUME NEW e \in Nat
      PROVE  e \in Message(bs, n + 1) <=> e - 8 \in Message(bs, n) \/ e \in b
  <2>1. e \in Int /\ e - 8 \in Int
    OBVIOUS
  <2>2. e \in Message(bs, n + 1) <=> \E k \in 1 .. n + 1 : e - 8 * (n + 1 - k) \in Bits(bs[k])
    BY <1>1, <2>1, MessageMember
  <2>3. e - 8 \in Message(bs, n) <=> \E k \in 1 .. n : e - 8 - 8 * (n - k) \in Bits(bs[k])
    BY <2>1, MessageMember
  <2>4. \A k \in 1 .. n : e - 8 - 8 * (n - k) = e - 8 * (n + 1 - k)
    OBVIOUS
  <2>5. e - 8 * (n + 1 - (n + 1)) = e
    OBVIOUS
  <2>6. 1 .. n + 1 = 1 .. n \cup {n + 1}
    OBVIOUS
  <2>7. e \in Message(bs, n + 1) <=> \/ \E k \in 1 .. n : e - 8 * (n + 1 - k) \in Bits(bs[k])
                                     \/ e - 8 * (n + 1 - (n + 1)) \in b
    BY <2>2, <2>6
  <2> QED
    BY <2>3, <2>4, <2>5, <2>7
<1>5. \A e \in Nat : e - 8 \in Message(bs, n) => e \notin b
  BY <1>1
<1>6. \A e \in Nat : e \in Message(bs, n + 1) <=> e \in Xor(Raise(Message(bs, n), 8), b)
  BY <1>2, <1>3, <1>4, <1>5
<1> QED
  BY <1>1, <1>3, <1>6, SameMembers

\* A shift to the left is a multiplication, less what leaves the word.
LEMMA ShiftByte == ASSUME NEW b PROVE Shl(Bits(b), 24) = Raise(Bits(b), 24)
BY BitsFacts DEF Shl, Raise, Word

LEMMA ShiftBit ==
    ASSUME NEW w \in SUBSET Word
    PROVE  /\ Shl(w, 1) \in SUBSET Word
           /\ Raise(w, 1) = IF 31 \in w THEN Xor(Shl(w, 1), {32}) ELSE Shl(w, 1)
<1>1. \A i \in w : i + 1 \in Word \/ i = 31
  BY DEF Word
<1>2. 32 \notin Word
  BY DEF Word
<1>3. Raise(w, 1) = Shl(w, 1) \cup (IF 31 \in w THEN {32} ELSE {})
  BY <1>1, <1>2 DEF Raise, Shl
<1> QED
  BY <1>2, <1>3 DEF Shl, Xor

RegisterOK ==
    /\ data \in Seq(0 .. 255) /\ pos \in 0 .. Len(data) /\ left \in 0 .. 8
    /\ crc \in SUBSET Word
    /\ quot \in SUBSET Nat /\ IsFiniteSet(quot)

LEMMA RegisterInit == Init => RegisterOK
<1> SUFFICES ASSUME Init PROVE RegisterOK
  OBVIOUS
<1>1. data \in Seq(0 .. 255) /\ Len(data) \in Nat
  BY InputsAssumption DEF Init
<1>2. quot \in SUBSET Nat /\ IsFiniteSet(quot)
  BY FS_EmptySet DEF Init
<1> QED
  BY <1>1, <1>2 DEF Init, RegisterOK, Xor, Ones

LEMMA RegisterStep == RegisterOK /\ [Next]_vars => RegisterOK'
<1> SUFFICES ASSUME RegisterOK, [Next]_vars PROVE RegisterOK'
  OBVIOUS
<1>0. Len(data) \in Nat
  BY DEF RegisterOK
<1>1. CASE NextByte
  <2>1. crc' \in SUBSET Word
    BY <1>1 DEF RegisterOK, NextByte, Xor, Shl
  <2> QED
    BY <1>0, <1>1, <2>1 DEF RegisterOK, NextByte
<1>2. CASE NextBit
  <2>1. crc' \in SUBSET Word
    BY <1>2 DEF RegisterOK, NextBit, Reduced, Xor, Shl, poly, Word
  <2>2. quot' = IF 31 \in crc THEN Raise(quot, 1) \cup {0} ELSE Raise(quot, 1)
    BY <1>2 DEF NextBit, Raise
  <2>3. quot' \in SUBSET Nat /\ IsFiniteSet(quot')
    <3>1. quot \in SUBSET Nat /\ IsFiniteSet(quot)
      BY DEF RegisterOK
    <3>2. Raise(quot, 1) \in SUBSET Nat
      BY <3>1, RaiseMember
    <3>3. IsFiniteSet(Raise(quot, 1)) /\ IsFiniteSet(Raise(quot, 1) \cup {0})
      BY <3>1, DivisorFacts, TimesShift
    <3> QED
      BY <2>2, <3>2, <3>3
  <2> QED
    BY <1>0, <1>2, <2>1, <2>3 DEF RegisterOK, NextBit
<1>3. CASE UNCHANGED vars
  BY <1>3 DEF RegisterOK, vars
<1> QED
  BY <1>1, <1>2, <1>3 DEF Next, Done

LEMMA RemainderInit == Init => RemainderInv
<1> SUFFICES ASSUME Init PROVE RemainderInv
  OBVIOUS
<1>1. Message(data, 0) = {}
  BY DEF Message
<1>2. Ones \in SUBSET Nat
  BY DEF Ones, Word
<1>3. Raise(Ones, 0) = Ones /\ Raise({}, 32) = {}
  BY <1>2, RaiseRaise DEF Raise
<1>4. Times({}, Divisor) = {}
  BY DEF Times
<1>5. Xor({}, Ones) = Ones
  BY DEF Xor
<1> QED
  BY <1>1, <1>2, <1>3, <1>4, <1>5 DEF Init, RemainderInv, Divisor

LEMMA RemainderStep == RegisterOK /\ RemainderInv /\ [Next]_vars => RemainderInv'
<1> SUFFICES ASSUME RegisterOK, RemainderInv, [Next]_vars PROVE RemainderInv'
  OBVIOUS
<1> DEFINE M == Message(data, pos)
           T == Times(quot, Divisor)
           F == Raise(Ones, 8 * pos)
<1>0. /\ pos \in Nat /\ left \in Nat /\ 8 * pos \in Nat /\ 8 * pos + 8 = 8 * (pos + 1)
      /\ M \in SUBSET Nat /\ T \in SUBSET Nat /\ F \in SUBSET Nat
      /\ crc \in SUBSET Nat /\ crc \in SUBSET Word /\ Ones \in SUBSET Nat
      /\ quot \in SUBSET Nat /\ IsFiniteSet(quot)
  <2>1. pos \in Nat /\ left \in Nat /\ Ones \in SUBSET Nat /\ crc \in SUBSET Word
        /\ quot \in SUBSET Nat /\ IsFiniteSet(quot)
    BY DEF RegisterOK, Ones, Word
  <2>2. 8 * pos \in Nat /\ 8 * pos + 8 = 8 * (pos + 1) /\ crc \in SUBSET Nat
    BY <2>1 DEF Word
  <2>3. T \in SUBSET Nat
    BY <2>1, TimesMember, DivisorFacts
  <2>4. M \in SUBSET Nat
    BY <2>1, MessageMember
  <2>5. F \in SUBSET Nat
    BY <2>1, <2>2, RaiseMember
  <2> QED
    BY <2>1, <2>2, <2>3, <2>4, <2>5
<1>i. Xor(Raise(M, 32), F) = Raise(Xor(T, crc), left)
  BY DEF RemainderInv, Divisor
<1> HIDE DEF M, T, F
<1>1. CASE NextByte
  <2> DEFINE B == Bits(data[pos + 1])
  <2>0. B \in SUBSET Nat
    BY BitsFacts
  <2>1. left = 0 /\ left' = 8 /\ pos' = pos + 1 /\ data' = data /\ quot' = quot
        /\ crc' = Xor(crc, Raise(B, 24))
    BY <1>1, ShiftByte DEF NextByte
  <2>2. Message(data, pos + 1) = Xor(Raise(M, 8), B)
    BY <1>0, MessageGrows DEF M
  <2> HIDE DEF B
  <2>3. Xor(Raise(M, 32), F) = Xor(T, crc)
    BY <1>0, <1>i, <2>1, RaiseRaise, XorMember
  <2>4. Raise(Xor(Raise(M, 8), B), 32) = Xor(Raise(M, 40), Raise(B, 32))
    <3>1. Raise(M, 8) \in SUBSET Nat /\ 8 + 32 = 40
      BY <1>0, RaiseMember
    <3>2. Raise(Raise(M, 8), 32) = Raise(M, 8 + 32)
      BY <1>0, RaiseRaise
    <3> QED
      BY <2>0, <3>1, <3>2, RaiseXor
  <2>5. Raise(Ones, 8 * (pos + 1)) = Raise(F, 8)
    <3>0. Ones \in SUBSET Nat /\ 8 \in Nat
      BY <1>0
    <3>1. ASSUME NEW n \in Nat PROVE Raise(Raise(Ones, n), 8) = Raise(Ones, n + 8)
      BY <3>0, RaiseRaise
    <3>2. Raise(Ones, 8 * pos + 8) = Raise(Ones, 8 * (pos + 1))
      BY <1>0
    <3> QED
      BY <1>0, <3>1, <3>2, Zenon DEF F
  <2>6. Raise(Xor(Xor(T, crc), Raise(B, 24)), 8)
          = Xor(Xor(Raise(M, 40), Raise(F, 8)), Raise(B, 32))
    <3>1. Raise(B, 24) \in SUBSET Nat /\ Raise(M, 32) \in SUBSET Nat /\ 32 + 8 = 40 /\ 24 + 8 = 32
          /\ Xor(Raise(M, 32), F) \in SUBSET Nat
      BY <1>0, <2>0, RaiseMember, XorMember
    <3>2. Raise(Raise(B, 24), 8) = Raise(B, 32)
      BY <2>0, <3>1, RaiseRaise
    <3>3. Raise(Raise(M, 32), 8) = Raise(M, 40)
      <4>1. Raise(Raise(M, 32), 8) = Raise(M, 32 + 8)
        BY <1>0, RaiseRaise
      <4> QED
        BY <3>1, <4>1
    <3>4. Raise(Xor(Raise(M, 32), F), 8) = Xor(Raise(M, 40), Raise(F, 8))
      BY <1>0, <3>1, <3>3, RaiseXor
    <3>5. Raise(Xor(Xor(Raise(M, 32), F), Raise(B, 24)), 8)
            = Xor(Raise(Xor(Raise(M, 32), F), 8), Raise(Raise(B, 24), 8))
      BY <3>1, RaiseXor
    <3> QED
      BY <2>3, <3>2, <3>4, <3>5
  <2>7. Xor(Raise(Message(data, pos + 1), 32), Raise(Ones, 8 * (pos + 1)))
          = Raise(Xor(T, Xor(crc, Raise(B, 24))), 8)
    <3>1. Xor(Xor(Raise(M, 40), Raise(B, 32)), Raise(F, 8))
            = Xor(Xor(Raise(M, 40), Raise(F, 8)), Raise(B, 32))
      BY XorLaws
    <3>2. Xor(Xor(T, crc), Raise(B, 24)) = Xor(T, Xor(crc, Raise(B, 24)))
      BY XorLaws
    <3> QED
      BY <2>2, <2>4, <2>5, <2>6, <3>1, <3>2
  <2> QED
    BY <2>1, <2>7 DEF RemainderInv, T, Divisor
<1>2. CASE NextBit
  <2>1. left \in Nat \ {0} /\ left' = left - 1 /\ pos' = pos /\ data' = data /\ crc' = Reduced
    BY <1>0, <1>2 DEF NextBit
  <2>2. quot' = IF 31 \in crc THEN Raise(quot, 1) \cup {0} ELSE Raise(quot, 1)
    BY <1>2 DEF NextBit, Raise
  <2>3. Times(quot', Divisor) = IF 31 \in crc THEN Xor(Raise(T, 1), Divisor) ELSE Raise(T, 1)
    BY <1>0, <2>2, TimesShift, DivisorFacts DEF T
  <2>4. Raise(crc, 1) = IF 31 \in crc THEN Xor(Shl(crc, 1), {32}) ELSE Shl(crc, 1)
    BY <1>0, ShiftBit
  <2>5. Divisor = Xor({32}, poly)
    BY DEF Divisor, Xor, poly
  <2>6. Xor(Raise(T, 1), Raise(crc, 1)) = Xor(Times(quot', Divisor), crc')
    <3>1. CASE 31 \in crc
      <4>1. Xor(Raise(T, 1), Xor(Shl(crc, 1), {32}))
              = Xor(Xor(Raise(T, 1), Xor({32}, poly)), Xor(Shl(crc, 1), poly))
        BY DEF Xor
      <4> QED
        BY <2>1, <2>3, <2>4, <2>5, <3>1, <4>1 DEF Reduced
    <3>2. CASE 31 \notin crc
      BY <2>1, <2>3, <2>4, <3>2 DEF Reduced
    <3> QED
      BY <3>1, <3>2
  <2>7. Raise(Xor(T, crc), left) = Raise(Xor(Raise(T, 1), Raise(crc, 1)), left - 1)
    <3>1. Xor(T, crc) \in SUBSET Nat /\ left - 1 \in Nat /\ 1 + (left - 1) = left
      BY <1>0, <2>1, XorMember
    <3>2. Raise(Xor(T, crc), left) = Raise(Raise(Xor(T, crc), 1), left - 1)
      <4>1. Raise(Raise(Xor(T, crc), 1), left - 1) = Raise(Xor(T, crc), 1 + (left - 1))
        BY <3>1, RaiseRaise
      <4> QED
        BY <3>1, <4>1
    <3> QED
      BY <1>0, <3>2, RaiseXor
  <2> QED
    BY <1>i, <2>1, <2>6, <2>7 DEF RemainderInv, M, F, Divisor
<1>3. CASE UNCHANGED vars
  BY <1>3 DEF RemainderInv, vars
<1> QED
  BY <1>1, <1>2, <1>3 DEF Next, Done

\* Whatever bytes crc32 is given, and however many, at every step of its loops the register is
\* what is left of a division of them by the CRC-32 polynomial (buildid.go:14-24).
THEOREM RegisterIsRemainder == Spec => []RemainderInv
<1>1. RegisterOK /\ RemainderInv /\ [Next]_vars => RegisterOK' /\ RemainderInv'
  BY RegisterStep, RemainderStep
<1> QED
  BY RegisterInit, RemainderInit, <1>1, PTL DEF Spec

(***************************************************************************)
(* There is one remainder only: a multiple of the divisor has a term that  *)
(* no word has.                                                            *)
(***************************************************************************)
LEMMA Largest ==
    ASSUME NEW S \in SUBSET Nat, IsFiniteSet(S), S # {}
    PROVE  \E m \in S : \A i \in S : i <= m
<1> DEFINE Bounded(T) == \E m \in T : \A i \in T : i <= m
           U == {T \in SUBSET S : T # {} /\ ~Bounded(T)}
<1> SUFFICES ASSUME U # {} PROVE FALSE
  OBVIOUS
<1>1. U \subseteq FiniteSubsetsOf(S)
  BY FS_FiniteSubsetsOfFinite
<1>2. IsWellFoundedOn(StrictSubsetOrdering(S), FiniteSubsetsOf(S))
  BY FS_StrictSubsetOrderingWellFounded
<1>3. PICK T \in U : \A V \in U : <<V, T>> \notin StrictSubsetOrdering(S)
  BY <1>1, <1>2, WFMin
<1>4. PICK x \in T : TRUE
  OBVIOUS
<1>5. <<T \ {x}, T>> \in StrictSubsetOrdering(S)
  BY <1>4 DEF StrictSubsetOrdering
<1>6. T \ {x} \notin U
  BY <1>3, <1>5
<1>7. T \in SUBSET Nat /\ x \in Nat
  OBVIOUS
<1>8. CASE T \ {x} = {}
  BY <1>7, <1>8
<1>9. CASE Bounded(T \ {x})
  <2>1. PICK m \in T \ {x} : \A i \in T \ {x} : i <= m
    BY <1>9
  <2>2. \A i \in T : i <= IF x <= m THEN m ELSE x
    BY <1>7, <2>1
  <2> QED
    BY <1>7, <2>1, <2>2
<1> QED
  BY <1>6, <1>8, <1>9

LEMMA ParityOfXor ==
    ASSUME NEW S, IsFiniteSet(S), NEW T, IsFiniteSet(T)
    PROVE  Odd(Cardinality(Xor(S, T))) <=> ~(Odd(Cardinality(S)) <=> Odd(Cardinality(T)))
<1>1. /\ IsFiniteSet(S \ T) /\ Cardinality(S \ T) \in Nat
      /\ IsFiniteSet(T \ S) /\ Cardinality(T \ S) \in Nat
      /\ IsFiniteSet(S \cap T) /\ Cardinality(S \cap T) \in Nat
  BY FS_Subset, FS_CardinalityType
<1>2. Cardinality(S) = Cardinality(S \ T) + Cardinality(S \cap T)
  <2>1. (S \ T) \cup (S \cap T) = S /\ (S \ T) \cap (S \cap T) = {}
    OBVIOUS
  <2> QED
    BY <1>1, <2>1, FS_Union, FS_EmptySet
<1>3. Cardinality(T) = Cardinality(T \ S) + Cardinality(S \cap T)
  <2>1. (T \ S) \cup (S \cap T) = T /\ (T \ S) \cap (S \cap T) = {}
    OBVIOUS
  <2> QED
    BY <1>1, <2>1, FS_Union, FS_EmptySet
<1>4. Cardinality(Xor(S, T)) = Cardinality(S \ T) + Cardinality(T \ S)
  <2>1. (S \ T) \cap (T \ S) = {}
    OBVIOUS
  <2> QED
    <3>1. Cardinality((S \ T) \cup (T \ S))
            = Cardinality(S \ T) + Cardinality(T \ S) - Cardinality((S \ T) \cap (T \ S))
      BY <1>1, FS_Union
    <3> QED
      BY <1>1, <2>1, <3>1, FS_EmptySet DEF Xor
<1> QED
  BY <1>1, <1>2, <1>3, <1>4 DEF Odd

LEMMA TimesXor ==
    ASSUME NEW p \in SUBSET Nat, IsFiniteSet(p), NEW r \in SUBSET Nat, IsFiniteSet(r),
           NEW q \in SUBSET Nat
    PROVE  /\ IsFiniteSet(Xor(p, r))
           /\ Times(Xor(p, r), q) = Xor(Times(p, q), Times(r, q))
<1>1. Xor(p, r) \in SUBSET Nat /\ IsFiniteSet(Xor(p, r))
  <2>1. IsFiniteSet(p \cup r) /\ Xor(p, r) \in SUBSET (p \cup r)
    BY FS_Union DEF Xor
  <2> QED
    BY <2>1, FS_Subset
<1>2. Times(p, q) \in SUBSET Nat /\ Times(r, q) \in SUBSET Nat /\ Times(Xor(p, r), q) \in SUBSET Nat
  BY <1>1, TimesMember
<1>3. Xor(Times(p, q), Times(r, q)) \in SUBSET Nat
      /\ \A e : e \in Xor(Times(p, q), Times(r, q)) <=> ~(e \in Times(p, q) <=> e \in Times(r, q))
  BY <1>2, XorMember
<1>4. ASSUME NEW e \in Nat
      PROVE  e \in Times(Xor(p, r), q) <=> e \in Xor(Times(p, q), Times(r, q))
  <2>1. e \in Int
    OBVIOUS
  <2>2. Pairs(Xor(p, r), q, e) = Xor(Pairs(p, q, e), Pairs(r, q, e))
    BY DEF Pairs, Xor
  <2>3. Odd(Cardinality(Pairs(Xor(p, r), q, e)))
          <=> ~(Odd(Cardinality(Pairs(p, q, e))) <=> Odd(Cardinality(Pairs(r, q, e))))
    BY <2>2, PairsFinite, ParityOfXor
  <2>4. e \in Times(Xor(p, r), q) <=> Odd(Cardinality(Pairs(Xor(p, r), q, e)))
    BY <1>1, <2>1, TimesMember
  <2>5. e \in Times(p, q) <=> Odd(Cardinality(Pairs(p, q, e)))
    BY <2>1, TimesMember
  <2>6. e \in Times(r, q) <=> Odd(Cardinality(Pairs(r, q, e)))
    BY <2>1, TimesMember
  <2> QED
    BY <1>3, <2>3, <2>4, <2>5, <2>6
<1> QED
  BY <1>1, <1>2, <1>3, <1>4, SameMembers

LEMMA Smallest == ASSUME NEW S \in SUBSET Nat, S # {} PROVE \E l \in S : \A i \in S : l <= i
<1>1. PICK l \in S : \A i \in S : <<i, l>> \notin OpToRel(<, Nat)
  BY NatLessThanWellFounded, WFMin
<1>2. \A i \in S : ~(i < l)
  BY <1>1 DEF OpToRel
<1> QED
  BY <1>2

\* An exponent that is a sum in one way only is in the product.
LEMMA OneWay ==
    ASSUME NEW p \in SUBSET Nat, IsFiniteSet(p), NEW i \in p, NEW e \in Int, e - i \in Divisor,
           \A j \in p : e - j \in Divisor => j = i
    PROVE  e \in Times(p, Divisor)
<1>1. Pairs(p, Divisor, e) = {i}
  BY DEF Pairs
<1>2. Odd(Cardinality(Pairs(p, Divisor, e)))
  <2>1. Cardinality({i}) = 1
    BY FS_Singleton
  <2>2. Cardinality(Pairs(p, Divisor, e)) = 1
    BY <1>1, <2>1, Zenon
  <2> QED
    BY <2>2 DEF Odd
<1> QED
  BY <1>2, TimesMember, DivisorFacts

\* The terms of a multiple that is not zero reach over more than 32 places: the largest term
\* of the factor is there times x^32, and the smallest times 1.
LEMMA MultipleIsLong ==
    ASSUME NEW p \in SUBSET Nat, IsFiniteSet(p), NEW from \in Int,
           \A e \in Times(p, Divisor) : from <= e /\ e <= from + 31
    PROVE  p = {}
<1> SUFFICES ASSUME p # {} PROVE FALSE
  OBVIOUS
<1>1. PICK m \in p : \A i \in p : i <= m
  BY Largest
<1>2. PICK l \in p : \A i \in p : l <= i
  BY Smallest
<1>3. m + 32 \in Times(p, Divisor)
  <2>1. m + 32 \in Int /\ m + 32 - m = 32
    BY <1>1
  <2>2. ASSUME NEW i \in p, m + 32 - i \in Divisor PROVE i = m
    <3>1. i \in Nat /\ m \in Nat /\ i <= m /\ m + 32 - i <= 32
      BY <1>1, <2>2, DivisorFacts
    <3> QED
      BY <3>1
  <2> QED
    BY <2>1, <2>2, OneWay, DivisorFacts
<1>4. l \in Times(p, Divisor)
  <2>1. l \in Int /\ l - l = 0
    BY <1>2
  <2>2. ASSUME NEW i \in p, l - i \in Divisor PROVE i = l
    <3>1. i \in Nat /\ l \in Nat /\ l <= i /\ l - i \in Nat
      BY <1>2, <2>2, DivisorFacts
    <3> QED
      BY <3>1
  <2> QED
    BY <2>1, <2>2, OneWay, DivisorFacts
<1>5. m \in Nat /\ l \in Nat /\ l <= m
  BY <1>1, <1>2
<1> QED
  BY <1>3, <1>4, <1>5

\* What is divided: the bytes, 32 zeros, and the first 32 bits inverted.
Dividend(bs) == Xor(Raise(Message(bs, Len(bs)), 32), Raise(Ones, 8 * Len(bs)))
IsRemainder(bs, w) ==
    \E q \in SUBSET Nat : IsFiniteSet(q) /\ Dividend(bs) = Xor(Times(q, Divisor), w)

LEMMA OneRemainder ==
    ASSUME NEW bs, NEW w \in SUBSET Word, NEW v \in SUBSET Word,
           IsRemainder(bs, w), IsRemainder(bs, v)
    PROVE  w = v
<1>1. PICK p \in SUBSET Nat : IsFiniteSet(p) /\ Dividend(bs) = Xor(Times(p, Divisor), w)
  BY DEF IsRemainder
<1>2. PICK r \in SUBSET Nat : IsFiniteSet(r) /\ Dividend(bs) = Xor(Times(r, Divisor), v)
  BY DEF IsRemainder
<1>3. Xor(Times(p, Divisor), Times(r, Divisor)) = Xor(w, v)
  BY <1>1, <1>2 DEF Xor
<1>4. Xor(p, r) \in SUBSET Nat /\ IsFiniteSet(Xor(p, r)) /\ Times(Xor(p, r), Divisor) = Xor(w, v)
  BY <1>1, <1>2, <1>3, TimesXor, XorMember, DivisorFacts
<1>5. Xor(p, r) = {}
  <2> DEFINE from == 0
  <2>1. from \in Int /\ \A e \in Word : from <= e /\ e <= from + 31
    BY DEF Word
  <2>2. \A e \in Times(Xor(p, r), Divisor) : e \in Word
    BY <1>4 DEF Xor
  <2> HIDE DEF from
  <2> QED
    BY <1>4, <2>1, <2>2, MultipleIsLong
<1>6. Times({}, Divisor) = {}
  BY DEF Times
<1> QED
  BY <1>4, <1>5, <1>6 DEF Xor

LEMMA RemainderAtEnd ==
    ASSUME RegisterOK, RemainderInv, Finished
    PROVE  \A w \in SUBSET Word : IsRemainder(data, w) <=> w = crc
<1>1. crc \in SUBSET Word /\ quot \in SUBSET Nat /\ IsFiniteSet(quot) /\ left = 0
  BY DEF RegisterOK, Finished
<1>2. Times(quot, Divisor) \in SUBSET Nat /\ crc \in SUBSET Nat
  BY <1>1, TimesMember, DivisorFacts DEF Word
<1>3. Raise(Xor(Times(quot, Divisor), crc), 0) = Xor(Times(quot, Divisor), crc)
  BY <1>2, XorMember, RaiseRaise
<1>4. IsRemainder(data, crc)
  BY <1>1, <1>3 DEF RemainderInv, IsRemainder, Dividend, Divisor, Finished
<1> QED
  BY <1>1, <1>4, OneRemainder

\* When crc32 has read its input the register holds the remainder of the division, and no other
\* word is one: the checksum is what CRC-32 says it is, for every input (buildid.go:14-24).
THEOREM ChecksumIsDetermined ==
    Spec => [](Finished => \A w \in SUBSET Word : IsRemainder(data, w) <=> w = crc)
<1>1. RegisterOK /\ RemainderInv /\ [Next]_vars => RegisterOK' /\ RemainderInv'
  BY RegisterStep, RemainderStep
<1> QED
  BY RegisterInit, RemainderInit, RemainderAtEnd, <1>1, PTL DEF Spec

(***************************************************************************)
(* Inputs that differ in a burst of at most 32 bits, as versions do that   *)
(* differ in two neighbouring characters.                                  *)
(***************************************************************************)
Byte == 0 .. 255
Rune == {c \in Nat : c < 65536}    \* the characters that decodeBuildID does not cut

\* A byte is known by its bits.
LEMMA BitsTell == ASSUME NEW b \in Byte, NEW c \in Byte, Bits(b) = Bits(c) PROVE b = c
<1>1. \A i \in 0 .. 7 : (b \div 2 ^ i) % 2 = 1 <=> (c \div 2 ^ i) % 2 = 1
  BY DEF Bits
<1>2. /\ 2 ^ 0 = 1 /\ 2 ^ 1 = 2 /\ 2 ^ 2 = 4 /\ 2 ^ 3 = 8
      /\ 2 ^ 4 = 16 /\ 2 ^ 5 = 32 /\ 2 ^ 6 = 64 /\ 2 ^ 7 = 128
  OBVIOUS
<1>3. /\ (b \div 1) % 2 = 1 <=> (c \div 1) % 2 = 1
      /\ (b \div 2) % 2 = 1 <=> (c \div 2) % 2 = 1
      /\ (b \div 4) % 2 = 1 <=> (c \div 4) % 2 = 1
      /\ (b \div 8) % 2 = 1 <=> (c \div 8) % 2 = 1
  BY <1>1, <1>2
<1>4. /\ (b \div 16) % 2 = 1 <=> (c \div 16) % 2 = 1
      /\ (b \div 32) % 2 = 1 <=> (c \div 32) % 2 = 1
      /\ (b \div 64) % 2 = 1 <=> (c \div 64) % 2 = 1
      /\ (b \div 128) % 2 = 1 <=> (c \div 128) % 2 = 1
  BY <1>1, <1>2
<1>5. \A x \in Byte :
         /\ x = 2 * (x \div 2) + ((x \div 1) % 2)
         /\ x \div 2 = 2 * (x \div 4) + ((x \div 2) % 2)
         /\ x \div 4 = 2 * (x \div 8) + ((x \div 4) % 2)
         /\ x \div 8 = 2 * (x \div 16) + ((x \div 8) % 2)
  BY DEF Byte
<1>6. \A x \in Byte :
         /\ x \div 16 = 2 * (x \div 32) + ((x \div 16) % 2)
         /\ x \div 32 = 2 * (x \div 64) + ((x \div 32) % 2)
         /\ x \div 64 = 2 * (x \div 128) + ((x \div 64) % 2)
         /\ x \div 128 \in 0 .. 1 /\ x \div 128 = (x \div 128) % 2
  BY DEF Byte
<1>7. \A x \in Nat, y \in Nat : (x % 2 = 1 <=> y % 2 = 1) => x % 2 = y % 2
  OBVIOUS
<1>8. \A k \in {1, 2, 4, 8, 16, 32, 64, 128} : b \div k \in Nat /\ c \div k \in Nat
  BY DEF Byte
<1>9. b \div 16 = c \div 16
  <2>1. /\ (b \div 128) % 2 = (c \div 128) % 2 /\ (b \div 64) % 2 = (c \div 64) % 2
        /\ (b \div 32) % 2 = (c \div 32) % 2 /\ (b \div 16) % 2 = (c \div 16) % 2
    BY <1>4, <1>7, <1>8
  <2>2. b \div 64 = c \div 64
    BY <1>6, <2>1
  <2>3. b \div 32 = c \div 32
    BY <1>6, <2>1, <2>2
  <2> QED
    BY <1>6, <2>1, <2>3
<1>10. /\ (b \div 8) % 2 = (c \div 8) % 2 /\ (b \div 4) % 2 = (c \div 4) % 2
       /\ (b \div 2) % 2 = (c \div 2) % 2 /\ (b \div 1) % 2 = (c \div 1) % 2
  BY <1>3, <1>7, <1>8
<1>11. b \div 8 = c \div 8
  BY <1>5, <1>9, <1>10
<1>12. b \div 2 = c \div 2
  <2>1. b \div 4 = c \div 4
    BY <1>5, <1>10, <1>11
  <2> QED
    BY <1>5, <1>10, <2>1
<1> QED
  BY <1>5, <1>10, <1>12

\* The bits of byte i are at their own places in the message.
LEMMA MessageByte ==
    ASSUME NEW bs, NEW n \in Nat, NEW i \in 1 .. n, NEW j \in 0 .. 7
    PROVE  j + 8 * (n - i) \in Message(bs, n) <=> j \in Bits(bs[i])
<1> DEFINE e == j + 8 * (n - i)
<1>1. e \in Int /\ e - 8 * (n - i) = j
  OBVIOUS
<1>2. ASSUME NEW k \in 1 .. n, e - 8 * (n - k) \in 0 .. 7 PROVE k = i
  BY <1>2
<1>3. \A k \in 1 .. n : e - 8 * (n - k) \in Bits(bs[k]) => k = i
  BY <1>2, BitsFacts
<1>4. e \in Message(bs, n) <=> \E k \in 1 .. n : e - 8 * (n - k) \in Bits(bs[k])
  BY <1>1, MessageMember
<1> HIDE DEF e
<1>5. e \in Message(bs, n) <=> j \in Bits(bs[i])
  BY <1>1, <1>3, <1>4
<1> QED
  BY <1>5 DEF e

\* Byte sequences of the same length that differ in four neighbouring bytes at most.
Burst(bs, cs) ==
    /\ Len(bs) = Len(cs) /\ bs # cs
    /\ \E k \in 1 .. Len(bs) : \A i \in 1 .. Len(bs) : i \notin k .. k + 3 => bs[i] = cs[i]

LEMMA BurstTold ==
    ASSUME NEW bs \in Seq(Byte), NEW cs \in Seq(Byte), Burst(bs, cs),
           NEW w \in SUBSET Word, IsRemainder(bs, w)
    PROVE  ~IsRemainder(cs, w)
<1> SUFFICES ASSUME IsRemainder(cs, w) PROVE FALSE
  OBVIOUS
<1> DEFINE n  == Len(bs)
           mb == Message(bs, n)
           mc == Message(cs, n)
           D  == Xor(mb, mc)
<1>1. n \in Nat /\ Len(cs) = n /\ mb \in SUBSET Nat /\ mc \in SUBSET Nat /\ D \in SUBSET Nat
  <2>1. n \in Nat /\ Len(cs) = n
    BY DEF Burst
  <2> HIDE DEF n
  <2>2. mb \in SUBSET Nat /\ mc \in SUBSET Nat
    BY <2>1, MessageMember
  <2> HIDE DEF mb, mc
  <2> QED
    BY <2>1, <2>2, XorMember
<1>2. PICK p \in SUBSET Nat : IsFiniteSet(p) /\ Dividend(bs) = Xor(Times(p, Divisor), w)
  BY DEF IsRemainder
<1>3. PICK r \in SUBSET Nat : IsFiniteSet(r) /\ Dividend(cs) = Xor(Times(r, Divisor), w)
  BY DEF IsRemainder
<1>4. Xor(Times(p, Divisor), Times(r, Divisor)) = Raise(D, 32)
  <2>1. Xor(Dividend(bs), Dividend(cs)) = Xor(Raise(mb, 32), Raise(mc, 32))
    BY <1>1 DEF Dividend, Xor
  <2>2. Xor(Times(p, Divisor), Times(r, Divisor)) = Xor(Dividend(bs), Dividend(cs))
    BY <1>2, <1>3 DEF Xor
  <2> HIDE DEF mb, mc
  <2>3. Raise(D, 32) = Xor(Raise(mb, 32), Raise(mc, 32))
    BY <1>1, RaiseXor
  <2> QED
    BY <2>1, <2>2, <2>3
<1>5. /\ Xor(p, r) \in SUBSET Nat /\ IsFiniteSet(Xor(p, r))
      /\ Times(Xor(p, r), Divisor) = Raise(D, 32)
  BY <1>2, <1>3, <1>4, TimesXor, XorMember, DivisorFacts
<1>6. PICK k \in 1 .. n : \A i \in 1 .. n : i \notin k .. k + 3 => bs[i] = cs[i]
  BY DEF Burst
<1> DEFINE from == 8 * (n - k - 3)
<1>7. ASSUME NEW e \in D PROVE from <= e /\ e <= from + 31
  <2>1. e \in Int /\ ~(e \in mb <=> e \in mc)
    BY <1>1, <1>7, XorMember
  <2>2. PICK i \in 1 .. n : ~(e - 8 * (n - i) \in Bits(bs[i]) <=> e - 8 * (n - i) \in Bits(cs[i]))
    BY <1>1, <2>1, MessageMember
  <2>3. i \in k .. k + 3
    BY <1>6, <2>2
  <2>4. e - 8 * (n - i) \in 0 .. 7
    BY <2>2, BitsFacts
  <2>5. n \in Int /\ k \in Int /\ i \in Int
    BY <1>1
  <2> HIDE DEF n
  <2> QED
    BY <2>1, <2>3, <2>4, <2>5
<1>8. Xor(p, r) = {}
  <2> DEFINE up == from + 32
  <2>1. up \in Int
    BY <1>1
  <2>2. ASSUME NEW e \in Raise(D, 32) PROVE up <= e /\ e <= up + 31
    <3>1. PICK d \in D : e = d + 32
      BY <2>2 DEF Raise
    <3>2. from <= d /\ d <= from + 31 /\ d \in Int /\ from \in Int
      BY <1>1, <1>7, <3>1
    <3> HIDE DEF from, D
    <3> QED
      BY <3>1, <3>2
  <2> HIDE DEF up, D
  <2> QED
    BY <1>5, <2>1, <2>2, MultipleIsLong
<1>9. mb = mc
  <2>1. Raise(D, 32) = {}
    BY <1>5, <1>8 DEF Times
  <2> QED
    BY <2>1 DEF Raise, Xor
<1>10. ASSUME NEW i \in 1 .. n PROVE bs[i] = cs[i]
  <2>1. bs[i] \in Byte /\ cs[i] \in Byte
    BY <1>1, <1>10
  <2>2. \A j \in 0 .. 7 : j \in Bits(bs[i]) <=> j \in Bits(cs[i])
    BY <1>1, <1>9, MessageByte
  <2>3. Bits(bs[i]) = Bits(cs[i])
    BY <2>2, BitsFacts
  <2> QED
    BY <2>1, <2>3, BitsTell
<1> QED
  BY <1>1, <1>10 DEF Burst

\* Texts of the same length that differ in one character, or in two neighbouring ones.
Neighbours(s, t) ==
    /\ Len(s) = Len(t) /\ s # t
    /\ \E k \in 1 .. Len(s) : \A i \in 1 .. Len(s) : i \notin {k, k + 1} => s[i] = t[i]

\* A character gives two bytes and is known by them.
LEMMA RuneSplits ==
    /\ \A c \in Rune : c % 256 \in Byte /\ (c \div 256) % 256 \in Byte
    /\ \A c, d \in Rune :
          c % 256 = d % 256 /\ (c \div 256) % 256 = (d \div 256) % 256 => c = d
<1>1. \A c \in Nat : c % 256 \in Byte /\ c \div 256 \in Nat
  BY DEF Byte
<1>2. ASSUME NEW c \in Rune PROVE c = 256 * ((c \div 256) % 256) + (c % 256)
  <2> DEFINE high == c \div 256
  <2>1. c \in Nat /\ c < 65536
    BY DEF Rune
  <2>2. c = 256 * high + (c % 256) /\ high \in Nat /\ high <= 255
    BY <2>1
  <2> HIDE DEF high
  <2>3. high % 256 = high
    BY <2>2
  <2>4. c = 256 * (high % 256) + (c % 256)
    BY <2>2, <2>3
  <2> QED
    BY <2>4 DEF high
<1>3. ASSUME NEW c \in Rune, NEW d \in Rune,
             c % 256 = d % 256, (c \div 256) % 256 = (d \div 256) % 256
      PROVE  c = d
  <2> DEFINE Lower(x) == x % 256
             Upper(x) == (x \div 256) % 256
  <2>1. c = 256 * Upper(c) + Lower(c) /\ d = 256 * Upper(d) + Lower(d)
    BY <1>2
  <2>2. Lower(c) = Lower(d) /\ Upper(c) = Upper(d)
    BY <1>3
  <2> HIDE DEF Lower, Upper
  <2> QED
    BY <2>1, <2>2
<1>4. \A c \in Rune : c \in Nat
  BY DEF Rune
<1> QED
  BY <1>1, <1>3, <1>4

LEMMA BytesOf ==
    ASSUME NEW s \in Seq(Rune)
    PROVE  /\ BuildBytes(s) \in Seq(Byte) /\ Len(BuildBytes(s)) = 2 * Len(s)
           /\ \A i \in 1 .. Len(s) : /\ BuildBytes(s)[2 * i - 1] = s[i] % 256
                                     /\ BuildBytes(s)[2 * i] = (s[i] \div 256) % 256
<1> DEFINE n == Len(s)
           m == 2 * n
<1>1. n \in Nat /\ m \in Nat /\ \A i \in 1 .. n : s[i] \in Rune
  OBVIOUS
<1>2. ASSUME NEW k \in 1 .. m
      PROVE  /\ k % 2 = 1 => (k + 1) \div 2 \in 1 .. n
             /\ k % 2 # 1 => k \div 2 \in 1 .. n
  <2> HIDE DEF n
  <2> QED
    BY <1>1
<1>3. ASSUME NEW k \in 1 .. m PROVE BuildBytes(s)[k] \in Byte
  <2>1. BuildBytes(s)[k] = IF k % 2 = 1 THEN s[(k + 1) \div 2] % 256
                                        ELSE (s[k \div 2] \div 256) % 256
    BY DEF BuildBytes
  <2> HIDE DEF n, m
  <2> QED
    BY <1>1, <1>2, <2>1, RuneSplits
<1>4. BuildBytes(s) \in [1 .. m -> Byte]
  BY <1>3 DEF BuildBytes
<1>5. BuildBytes(s) \in Seq(Byte) /\ Len(BuildBytes(s)) = m
  <2> HIDE DEF m
  <2> QED
    BY <1>1, <1>4
<1>6. ASSUME NEW i \in 1 .. n
      PROVE  /\ BuildBytes(s)[2 * i - 1] = s[i] % 256
             /\ BuildBytes(s)[2 * i] = (s[i] \div 256) % 256
  <2> DEFINE j == 2 * i
             k == 2 * i - 1
  <2>1. /\ k \in 1 .. m /\ k % 2 = 1 /\ (k + 1) \div 2 = i
        /\ j \in 1 .. m /\ j % 2 # 1 /\ j \div 2 = i
    <3> HIDE DEF n
    <3> QED
      BY <1>1
  <2> HIDE DEF j, k
  <2>2. BuildBytes(s)[k] = s[i] % 256 /\ BuildBytes(s)[j] = (s[i] \div 256) % 256
    BY <2>1 DEF BuildBytes
  <2> QED
    BY <2>2 DEF j, k
<1> QED
  BY <1>5, <1>6

LEMMA TextBurst ==
    ASSUME NEW s \in Seq(Rune), NEW t \in Seq(Rune), Neighbours(s, t)
    PROVE  Burst(BuildBytes(s), BuildBytes(t))
<1> DEFINE n == Len(s)
           a == BuildBytes(s)
           b == BuildBytes(t)
<1>1. n \in Nat /\ Len(t) = n /\ Len(a) = 2 * n /\ Len(b) = 2 * n
  BY BytesOf DEF Neighbours
<1>2. PICK r \in 1 .. n : s[r] # t[r]
  BY <1>1 DEF Neighbours
<1>3. a # b
  <2>1. s[r] \in Rune /\ t[r] \in Rune
    BY <1>1
  <2>2. s[r] % 256 # t[r] % 256 \/ (s[r] \div 256) % 256 # (t[r] \div 256) % 256
    BY <1>2, <2>1, RuneSplits
  <2>3. r \in 1 .. Len(s) /\ r \in 1 .. Len(t)
    BY <1>1
  <2>4. /\ a[2 * r - 1] = s[r] % 256 /\ a[2 * r] = (s[r] \div 256) % 256
        /\ b[2 * r - 1] = t[r] % 256 /\ b[2 * r] = (t[r] \div 256) % 256
    BY <2>3, BytesOf
  <2> HIDE DEF a, b
  <2> QED
    BY <2>2, <2>4
<1>4. PICK k \in 1 .. n : \A i \in 1 .. n : i \notin {k, k + 1} => s[i] = t[i]
  BY DEF Neighbours
<1>5. ASSUME NEW j \in 1 .. 2 * n, j \notin 2 * k - 1 .. 2 * k - 1 + 3 PROVE a[j] = b[j]
  <2>1. PICK i \in 1 .. n : j = 2 * i - 1 \/ j = 2 * i
    <3>1. (j + 1) \div 2 \in 1 .. n
          /\ (j = 2 * ((j + 1) \div 2) - 1 \/ j = 2 * ((j + 1) \div 2))
      BY <1>1
    <3> QED
      BY <3>1
  <2>2. i \notin {k, k + 1}
    BY <1>5, <2>1
  <2>3. s[i] = t[i]
    BY <1>4, <2>2
  <2>4. i \in 1 .. Len(s) /\ i \in 1 .. Len(t)
    BY <1>1
  <2>5. /\ a[2 * i - 1] = s[i] % 256 /\ a[2 * i] = (s[i] \div 256) % 256
        /\ b[2 * i - 1] = t[i] % 256 /\ b[2 * i] = (t[i] \div 256) % 256
    BY <2>4, BytesOf
  <2> HIDE DEF a, b
  <2> QED
    BY <2>1, <2>3, <2>5
<1>6. 2 * k - 1 \in 1 .. 2 * n
  BY <1>1
<1> HIDE DEF a, b
<1>7. \E q \in 1 .. 2 * n : \A j \in 1 .. 2 * n : j \notin q .. q + 3 => a[j] = b[j]
  BY <1>5, <1>6
<1> QED
  BY <1>1, <1>3, <1>7 DEF Burst, a, b

\* Two versions of the same length that differ in one character, or in two neighbouring ones,
\* have different checksums: the word that crc32 ends with on the bytes of the one is not the
\* word that belongs to those of the other (buildid.go:3-24).
THEOREM NeighboursDiffer ==
    Spec => [](Finished => \A s, t \in Seq(Rune) :
                  data = BuildBytes(s) /\ Neighbours(s, t) => ~IsRemainder(BuildBytes(t), crc))
<1>1. RegisterOK /\ RemainderInv /\ [Next]_vars => RegisterOK' /\ RemainderInv'
  BY RegisterStep, RemainderStep
<1>2. RegisterOK /\ RemainderInv =>
        (Finished => \A s, t \in Seq(Rune) :
            data = BuildBytes(s) /\ Neighbours(s, t) => ~IsRemainder(BuildBytes(t), crc))
  <2> SUFFICES ASSUME RegisterOK, RemainderInv, Finished,
                      NEW s \in Seq(Rune), NEW t \in Seq(Rune),
                      data = BuildBytes(s), Neighbours(s, t)
               PROVE  ~IsRemainder(BuildBytes(t), crc)
    OBVIOUS
  <2>1. crc \in SUBSET Word /\ IsRemainder(data, crc)
    BY RemainderAtEnd DEF RegisterOK
  <2> QED
    BY <2>1, TextBurst, BytesOf, BurstTold
<1> QED
  BY RegisterInit, RemainderInit, <1>1, <1>2, PTL DEF Spec
===============================================================================
