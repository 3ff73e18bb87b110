----------------------------- MODULE Formats_proofs -----------------------------
(***************************************************************************)
(* Proofs about the algorithms on data of MCFormats: the version tool      *)
(* finds the build id and the newest feature set, and messages and ids of  *)
(* players survive being built and parsed, whatever their lengths.         *)
(* Induction is over sets of numbers and of sequences (lemmas Induct and   *)
(* Grows); recursive functions and folds are unrolled with it.             *)
(***************************************************************************)
EXTENDS MCFormats, SequenceTheorems, FiniteSetTheorems, WellFoundedInduction, TLAPS

(***************************************************************************)
(* Numbers: the least, the greatest, and induction over a set.             *)
(***************************************************************************)
LEMMA Least == ASSUME NEW S \in SUBSET Nat, S # {} PROVE \E x \in S : \A y \in S : x <= y
<1>1. PICK x \in S : \A y \in S : ~ (<<y, x>> \in OpToRel(<, Nat))
  BY NatLessThanWellFounded, WFMin
<1>2. \A y \in S : ~(y < x)
  BY <1>1 DEF OpToRel
<1> QED
  BY <1>2

LEMMA Induct == ASSUME NEW S \in SUBSET Nat, 0 \in S, \A n \in S : n + 1 \in S PROVE S = Nat
<1> SUFFICES ASSUME S # Nat PROVE FALSE
  OBVIOUS
<1> DEFINE T == Nat \ S
<1>1. PICK x \in T : \A y \in T : x <= y
  BY Least
<1>2. x \in Nat /\ x # 0 /\ x - 1 \in Nat /\ ~(x <= x - 1) /\ (x - 1) + 1 = x
  OBVIOUS
<1> QED
  BY <1>1, <1>2

LEMMA MinIs ==
    ASSUME NEW S \in SUBSET Nat, S # {}
    PROVE  Min(S) \in S /\ \A y \in S : Min(S) <= y
BY Least DEF Min

LEMMA MaxIs ==
    ASSUME NEW m \in Nat, NEW S \in SUBSET (0 .. m), S # {}
    PROVE  Max(S) \in S /\ \A y \in S : Max(S) >= y
<1> DEFINE T == {n \in Nat : m - n \in S}
<1>1. \A y \in S : y \in Nat /\ m - y \in Nat /\ m - (m - y) = y
  OBVIOUS
<1>2. T \in SUBSET Nat /\ T # {}
  BY <1>1
<1>3. PICK n \in T : \A k \in T : n <= k
  BY <1>2, Least
<1>4. m - n \in S /\ \A y \in S : m - n >= y
  <2>1. ASSUME NEW y \in S PROVE m - n >= y
    <3>1. m - y \in T
      BY <1>1
    <3>2. n <= m - y /\ n \in Nat
      BY <1>3, <3>1
    <3> QED
      BY <3>2
  <2> QED
    BY <1>3, <2>1
<1> QED
  BY <1>4 DEF Max

LEMMA ModPlus ==
    ASSUME NEW h \in Nat \ {0}, NEW a \in 0 .. h - 1, NEW c \in Nat
    PROVE  (a + h * c) % h = a
<1>1. h * c \in Nat
  OBVIOUS
<1> DEFINE x == a + h * c
           q == x \div h
           r == x % h
<1>2. x \in Nat /\ q \in Int /\ r \in 0 .. h - 1 /\ x = h * q + r
  BY <1>1
<1>3. h * (q - c) = a - r
  <2>1. h * (q - c) = h * q - h * c
    BY <1>2
  <2> QED
    BY <1>1, <1>2, <2>1
<1> HIDE DEF x, q, r
<1>4. q - c = 0
  <2>1. \A d \in Int : d >= 1 => h * d >= h
    OBVIOUS
  <2>2. \A d \in Int : d <= -1 => h * d <= -h
    OBVIOUS
  <2>3. q - c \in Int
    BY <1>2
  <2> QED
    BY <1>2, <1>3, <2>1, <2>2, <2>3
<1>5. a = r
  BY <1>2, <1>3, <1>4
<1> QED
  BY <1>5 DEF x, r

(***************************************************************************)
(* What comes before a stop.                                               *)
(***************************************************************************)
LEMMA Cut ==
    ASSUME NEW T, NEW s \in Seq(T), NEW n \in 0 .. Len(s)
    PROVE  /\ SubSeq(s, 1, n) \in Seq(T) /\ Len(SubSeq(s, 1, n)) = n
           /\ \A i \in 1 .. n : SubSeq(s, 1, n)[i] = s[i]
OBVIOUS

LEMMA Slice ==
    ASSUME NEW T, NEW s \in Seq(T), NEW a \in Nat, NEW n \in Nat, a + n <= Len(s)
    PROVE  /\ SubSeq(s, a + 1, a + n) \in Seq(T) /\ Len(SubSeq(s, a + 1, a + n)) = n
           /\ \A i \in 1 .. n : SubSeq(s, a + 1, a + n)[i] = s[a + i]
<1>1. Len(s) \in Nat /\ s \in [1 .. Len(s) -> T]
  OBVIOUS
<1> QED
  BY <1>1

LEMMA BeforeIs ==
    ASSUME NEW T, NEW s \in Seq(T), NEW stops
    PROVE  \E n \in 0 .. Len(s) :
              /\ Before(s, stops) = SubSeq(s, 1, n) /\ Len(Before(s, stops)) = n
              /\ Before(s, stops) \in Seq(T)
              /\ \A i \in 1 .. n : s[i] \notin stops
              /\ n = Len(s) \/ s[n + 1] \in stops
<1> DEFINE at == {i \in DOMAIN s : s[i] \in stops}
<1>1. Len(s) \in Nat /\ DOMAIN s = 1 .. Len(s)
  OBVIOUS
<1>2. CASE at = {}
  <2>1. Before(s, stops) = s
    BY <1>2 DEF Before
  <2>2. SubSeq(s, 1, Len(s)) = s
    BY SubSeqFull
  <2>3. \A i \in 1 .. Len(s) : s[i] \notin stops
    BY <1>1, <1>2
  <2>4. Len(s) \in 0 .. Len(s)
    BY <1>1
  <2> QED
    BY <2>1, <2>2, <2>3, <2>4
<1>3. CASE at # {}
  <2>1. at \in SUBSET Nat
    BY <1>1
  <2>2. Min(at) \in at /\ \A y \in at : Min(at) <= y
    BY <1>3, <2>1, MinIs
  <2> DEFINE n == Min(at) - 1
  <2>3. n \in 0 .. Len(s) /\ n + 1 = Min(at) /\ s[n + 1] \in stops
    BY <1>1, <2>2
  <2>4. \A i \in 1 .. n : s[i] \notin stops
    <3> SUFFICES ASSUME NEW i \in 1 .. n, s[i] \in stops PROVE FALSE
      OBVIOUS
    <3>1. i \in at
      BY <1>1, <2>3
    <3>2. Min(at) <= i /\ Min(at) \in Nat /\ i \in Nat /\ i <= Min(at) - 1
      BY <2>1, <2>2, <2>3, <3>1
    <3> QED
      BY <3>2
  <2>5. Before(s, stops) = SubSeq(s, 1, n)
    BY <1>3 DEF Before
  <2> HIDE DEF n
  <2>6. SubSeq(s, 1, n) \in Seq(T) /\ Len(SubSeq(s, 1, n)) = n
    BY <2>3, Cut, Zenon
  <2> QED
    BY <2>3, <2>4, <2>5, <2>6
<1> QED
  BY <1>2, <1>3

LEMMA FromIs ==
    ASSUME NEW T, NEW s \in Seq(T), NEW n \in 0 .. Len(s)
    PROVE  /\ From(s, n) \in Seq(T) /\ Len(From(s, n)) = Len(s) - n
           /\ \A i \in 1 .. Len(s) - n : From(s, n)[i] = s[n + i]
<1>1. Len(s) \in Nat /\ n + 1 \in 1 .. Len(s) + 1
  OBVIOUS
<1> QED
  BY <1>1, SubSeqProperties DEF From

(***************************************************************************)
(* The build id.                                                           *)
(***************************************************************************)
FileOK == /\ file.is64 \in BOOLEAN /\ {file.base, file.export, file.shift} \subseteq Nat
          /\ file.cells \in Seq(Nat) /\ file.rdata \in Seq(Byte)

At(f)   == f.export - f.shift
Own(f)  == f.cells[At(f) + 1] + (IF f.is64 THEN Half * f.cells[At(f) + 2] ELSE 0)
To(f)   == Own(f) - f.base - f.shift
Leads(f) == /\ f.export # 0 /\ At(f) >= 0 /\ At(f) + 2 <= Len(f.cells)
            /\ Own(f) - f.base \in 0 .. Half - 1 /\ To(f) \in 0 .. Len(f.cells) - 1

\* The code reads two halves of a pointer and drops what is above 32 bits; that is the
\* address the binary means.
LEMMA PointerRead ==
    ASSUME FileOK, Leads(file)
    PROVE  /\ GetOffsetFromRva(file.export) = At(file)
           /\ Uint32((file.cells[At(file) + 1] + Half * file.cells[At(file) + 2]) - file.base)
                = Own(file) - file.base
           /\ GetOffsetFromRva(Own(file) - file.base) = To(file)
<1> DEFINE low  == file.cells[At(file) + 1]
           high == file.cells[At(file) + 2]
<1>1. /\ At(file) \in Nat /\ At(file) + 2 <= Len(file.cells) /\ Len(file.cells) \in Nat
      /\ file.base \in Nat /\ file.export \in Nat /\ file.shift \in Nat
  BY SMTT(30) DEF FileOK, Leads, At
<1>2. low \in Nat /\ high \in Nat
  <2>1. At(file) + 1 \in 1 .. Len(file.cells) /\ At(file) + 2 \in 1 .. Len(file.cells)
    BY <1>1
  <2>2. file.cells \in Seq(Nat)
    BY DEF FileOK
  <2> QED
    BY <2>1, <2>2, ElementOfSeq, Zenon
<1>3. GetOffsetFromRva(file.export) = At(file)
  BY <1>1 DEF GetOffsetFromRva, At
<1>4. GetOffsetFromRva(Own(file) - file.base) = To(file)
  BY DEF GetOffsetFromRva, Leads, To
<1>5. Half \in Nat \ {0}
  BY SizesAssumption
<1>6. Half * high \in Nat
  BY <1>2, <1>5
<1> HIDE DEF low, high
<1>7. Uint32((low + Half * high) - file.base) = Own(file) - file.base
  <2>1. Own(file) - file.base \in 0 .. Half - 1
    BY DEF Leads
  <2>2. CASE file.is64
    <3>1. Own(file) = low + Half * high
      BY <2>2 DEF Own, low, high
    <3>2. (Own(file) - file.base) % Half = Own(file) - file.base
      BY <1>5, <2>1
    <3>3. (low + Half * high) - file.base = Own(file) - file.base
      BY <3>1, Zenon
    <3> QED
      BY <3>2, <3>3, Zenon DEF Uint32
  <2>3. CASE ~file.is64
    <3> DEFINE a == Own(file) - file.base
    <3>1. Own(file) = low
      BY <1>2, <2>3 DEF Own, low, high
    <3>2. (low + Half * high) - file.base = a + Half * high
      BY <1>1, <1>2, <1>6, <3>1
    <3>3. a \in 0 .. Half - 1
      BY <2>1
    <3> HIDE DEF a
    <3>4. (a + Half * high) % Half = a
      BY <1>2, <1>5, <3>3, ModPlus
    <3> QED
      BY <3>2, <3>4 DEF Uint32, a
  <2> QED
    BY <2>2, <2>3
<1> QED
  BY <1>3, <1>4, <1>7 DEF low, high

\* What a text is that begins at some place and ends before the first zero.
IsText(t, cells, start) ==
    /\ t = SubSeq(cells, start + 1, start + Len(t))
    /\ 0 \notin ToSet(t)
    /\ start + Len(t) = Len(cells) \/ cells[start + Len(t) + 1] = 0

LEMMA TextRead ==
    ASSUME NEW cells \in Seq(Nat), NEW start \in 0 .. Len(cells) - 1
    PROVE  IsText(Before(From(cells, start), {0}), cells, start)
<1> DEFINE rest == From(cells, start)
           t    == Before(rest, {0})
<1>1. Len(cells) \in Nat /\ start \in Nat /\ start \in 0 .. Len(cells)
  OBVIOUS
<1>2. /\ rest \in Seq(Nat) /\ Len(rest) = Len(cells) - start
      /\ \A i \in 1 .. Len(cells) - start : rest[i] = cells[start + i]
  BY <1>1, FromIs
<1> HIDE DEF rest
<1>3. PICK n \in 0 .. Len(rest) :
              /\ t = SubSeq(rest, 1, n) /\ Len(t) = n
              /\ t \in Seq(Nat)
              /\ \A i \in 1 .. n : rest[i] \notin {0}
              /\ n = Len(rest) \/ rest[n + 1] \in {0}
  BY <1>2, BeforeIs
<1> HIDE DEF t
<1>4. \A i \in 1 .. n : t[i] = rest[i]
  BY <1>2, <1>3, Cut
<1>5. \A i \in 1 .. n : t[i] = cells[start + i] /\ t[i] # 0
  <2>1. \A i \in 1 .. n : i \in 1 .. Len(cells) - start
    BY <1>1, <1>2, <1>3
  <2> QED
    BY <1>2, <1>3, <1>4, <2>1, Zenon
<1>6. 0 \notin ToSet(t)
  BY <1>3, <1>5 DEF ToSet
<1>7. t = SubSeq(cells, start + 1, start + n)
  <2> DEFINE u == SubSeq(cells, start + 1, start + n)
  <2>1. start + n <= Len(cells) /\ n \in Nat
    BY <1>1, <1>2, <1>3
  <2>2. u \in Seq(Nat) /\ Len(u) = n /\ \A i \in 1 .. n : u[i] = cells[start + i]
    BY <1>1, <2>1, Slice, ZenonT(30)
  <2> HIDE DEF u
  <2>3. t = u
    BY <1>3, <1>5, <2>2, SeqEqual, SMTT(30)
  <2> QED
    BY <2>3 DEF u
<1>8. start + n = Len(cells) \/ cells[start + n + 1] = 0
  <2>1. CASE n = Len(rest)
    BY <1>1, <1>2, <2>1
  <2>2. CASE n # Len(rest)
    <3>0. n \in 0 .. Len(cells) - start /\ n # Len(cells) - start
      BY <1>2, <2>2, Zenon
    <3>1. n + 1 \in 1 .. Len(cells) - start /\ start + (n + 1) = start + n + 1
      BY <1>1, <3>0
    <3>2. rest[n + 1] = 0
      BY <1>3, <2>2, Zenon
    <3> QED
      BY <1>2, <3>1, <3>2
  <2> QED
    BY <2>1, <2>2
<1> QED
  BY <1>3, <1>6, <1>7, <1>8 DEF IsText, t, rest

LEMMA BuildStep == ASSUME FileOK, ScanBuildID PROVE BuildIDFound'
<1> SUFFICES ASSUME Leads(file)
             PROVE  step' = "featureSet" /\ IsText(buildID', file.cells, To(file))
  BY DEF ScanBuildID, BuildIDFound, Leads, At, Own, To, IsText
<1>1. /\ GetOffsetFromRva(file.export) = At(file)
      /\ Uint32((file.cells[At(file) + 1] + Half * file.cells[At(file) + 2]) - file.base)
           = Own(file) - file.base
      /\ GetOffsetFromRva(Own(file) - file.base) = To(file)
  BY PointerRead
<1>2. file.export # 0 /\ ~(At(file) + 2 > Len(file.cells)) /\ ~(To(file) >= Len(file.cells))
  <2>1. Len(file.cells) \in Nat
    BY DEF FileOK
  <2>2. At(file) \in Int
    BY DEF FileOK, At
  <2> QED
    BY <2>1, <2>2 DEF Leads
<1>3. step' = "featureSet" /\ buildID' = Before(From(file.cells, To(file)), {0})
  <2> DEFINE ptrOff   == GetOffsetFromRva(file.export)
             stringVA == file.cells[ptrOff + 1] + Half * file.cells[ptrOff + 2]
             strOff   == GetOffsetFromRva(Uint32(stringVA - file.base))
  <2>1. \/ file.export = 0 \/ ptrOff + 2 > Len(file.cells) \/ strOff >= Len(file.cells)
        \/ step' = "featureSet" /\ buildID' = Before(From(file.cells, strOff), {0})
    BY DEF ScanBuildID
  <2>2. ptrOff = At(file)
    BY <1>1
  <2>3. strOff = To(file)
    <3> HIDE DEF ptrOff
    <3>1. strOff = GetOffsetFromRva(Uint32(
                      (file.cells[At(file) + 1] + Half * file.cells[At(file) + 2]) - file.base))
      BY <2>2, Zenon
    <3> QED
      BY <1>1, <3>1, Zenon
  <2> HIDE DEF ptrOff, strOff
  <2> QED
    BY <1>2, <2>1, <2>2, <2>3, Zenon
<1>4. IsText(Before(From(file.cells, To(file)), {0}), file.cells, To(file))
  BY TextRead DEF FileOK, Leads
<1> QED
  BY <1>3, <1>4

\* Nothing changes the file.
LEMMA FileInit == FormatsInit => FileOK
<1>1. << >> \in Seq(Nat) /\ << >> \in Seq(Byte)
  OBVIOUS
<1>2. file = NoFile => FileOK
  BY <1>1 DEF NoFile, Binary, FileOK
<1>3. file \in Files => FileOK
  BY FilesAssumption DEF FileOK
<1> QED
  BY <1>2, <1>3 DEF FormatsInit, ScanInit

LEMMA FileStep == FileOK /\ [FormatsNext]_allVars => FileOK'
<1> SUFFICES ASSUME FileOK, [FormatsNext]_allVars PROVE file' = file
  BY DEF FileOK
<1> QED
  BY DEF FormatsNext, ScanNext, ScanBuildID, FindNext, Answer, Rests, allVars, scanVars

LEMMA BuildInvStep == FileOK /\ BuildIDFound /\ [FormatsNext]_allVars => BuildIDFound'
<1> SUFFICES ASSUME FileOK, BuildIDFound, [FormatsNext]_allVars PROVE BuildIDFound'
  OBVIOUS
<1>1. CASE ScanBuildID
  BY <1>1, BuildStep
<1>2. CASE FindNext \/ Answer
  <2>1. UNCHANGED <<file, buildID>> /\ step' # "noBuildID" /\ (step' # "buildID" => step # "buildID")
    BY <1>2 DEF FindNext, Answer
  <2> QED
    BY <2>1 DEF BuildIDFound
<1>3. CASE UNCHANGED scanVars
  BY <1>3 DEF BuildIDFound, scanVars
<1> QED
  BY <1>1, <1>2, <1>3 DEF FormatsNext, ScanNext, Rests, allVars

\* The build id is the text that the binary's own pointer leads to, for binaries of any size and
\* either class (tools/version/main.go:47-79, 163-173).
THEOREM BuildIDRead == FormatsSpec => []BuildIDFound
<1>1. FormatsInit => BuildIDFound
  BY DEF FormatsInit, ScanInit, Fresh, BuildIDFound
<1> QED
  BY FileInit, FileStep, BuildInvStep, <1>1, PTL DEF FormatsSpec

(***************************************************************************)
(* Reading a number.                                                       *)
(***************************************************************************)
DigitChar == 48 .. 57

\* What the recursion of Decimal needs: a function on 0 .. n that follows it.
Follows(f, d, n) == f = [i \in 0 .. n |-> IF i = 0 THEN 0 ELSE 10 * f[i - 1] + d[i] - 48]

LEMMA FollowerExists == \A d : \A n \in Nat : \E f : Follows(f, d, n)
<1> SUFFICES ASSUME NEW d PROVE \A n \in Nat : \E f : Follows(f, d, n)
  OBVIOUS
<1> DEFINE E == {n \in Nat : \E f : Follows(f, d, n)}
<1>1. 0 \in E
  <2> DEFINE f == [i \in 0 .. 0 |-> 0]
  <2>1. f = [i \in 0 .. 0 |-> IF i = 0 THEN 0 ELSE 10 * f[i - 1] + d[i] - 48]
    OBVIOUS
  <2> QED
    BY <2>1 DEF Follows
<1>2. \A n \in E : n + 1 \in E
  <2> SUFFICES ASSUME NEW n \in Nat, NEW f, Follows(f, d, n)
               PROVE  \E g : Follows(g, d, n + 1)
    OBVIOUS
  <2> DEFINE g == [i \in 0 .. n + 1 |-> IF i = n + 1 THEN 10 * f[n] + d[n + 1] - 48 ELSE f[i]]
  <2>1. \A i \in 0 .. n + 1 : g[i] = IF i = 0 THEN 0 ELSE 10 * g[i - 1] + d[i] - 48
    <3> SUFFICES ASSUME NEW i \in 0 .. n + 1
                 PROVE  g[i] = IF i = 0 THEN 0 ELSE 10 * g[i - 1] + d[i] - 48
      OBVIOUS
    <3>1. CASE i = n + 1
      <4>1. g[n + 1] = 10 * f[n] + d[n + 1] - 48 /\ g[n] = f[n] /\ (n + 1) - 1 = n /\ n + 1 # 0
        OBVIOUS
      <4> QED
        BY <3>1, <4>1
    <3>2. CASE i # n + 1
      <4>1. i \in 0 .. n /\ g[i] = f[i] /\ (i # 0 => i - 1 \in 0 .. n /\ g[i - 1] = f[i - 1])
        BY <3>2
      <4>2. f[i] = IF i = 0 THEN 0 ELSE 10 * f[i - 1] + d[i] - 48
        BY <4>1 DEF Follows
      <4> QED
        BY <4>1, <4>2
    <3> QED
      BY <3>1, <3>2
  <2>2. g = [i \in 0 .. n + 1 |-> g[i]]
    OBVIOUS
  <2> HIDE DEF g
  <2>3. Follows(g, d, n + 1)
    BY <2>1, <2>2 DEF Follows
  <2> QED
    BY <2>3
<1>3. E = Nat
  <2>1. E \in SUBSET Nat
    OBVIOUS
  <2> HIDE DEF E
  <2> QED
    BY <1>1, <1>2, <2>1, Induct
<1> QED
  BY <1>3

\* A fold takes the elements of a sequence from the greatest place on. The folds here are those
\* of Major and of Split; what they start from and what they do with one more element:
Reading    == <<"number">>
Cutting(c) == <<"parts", c>>
Start(op)  == IF op = Reading THEN 0 ELSE << << >> >>
Act(op, x, y) == IF op = Reading THEN (10 * x + y - 48) % Wide
                 ELSE IF y = op[2] THEN Append(x, << >>)
                                   ELSE Append(Front(x), Append(Last(x), y))

Folds(f, op, d, n) == f = [S \in SUBSET (1 .. n) |->
    IF S = {} THEN Start(op) ELSE Act(op, f[S \ {Max(S)}], d[Max(S)])]

LEMMA MaxOfPrefix == ASSUME NEW n \in Nat, n # 0 PROVE Max(1 .. n) = n
<1>1. 1 .. n \in SUBSET (0 .. n) /\ 1 .. n # {} /\ n \in 1 .. n
  OBVIOUS
<1>2. Max(1 .. n) \in 1 .. n /\ \A y \in 1 .. n : Max(1 .. n) >= y
  BY <1>1, MaxIs
<1>3. Max(1 .. n) >= n /\ Max(1 .. n) <= n /\ Max(1 .. n) \in Int
  BY <1>1, <1>2
<1> QED
  BY <1>3

LEMMA FoldExists == \A op, d : \A n \in Nat : \E f : Folds(f, op, d, n)
<1> SUFFICES ASSUME NEW op, NEW d PROVE \A n \in Nat : \E f : Folds(f, op, d, n)
  OBVIOUS
<1> DEFINE E == {n \in Nat : \E f : Folds(f, op, d, n)}
           Turn(f, S) == IF S = {} THEN Start(op) ELSE Act(op, f[S \ {Max(S)}], d[Max(S)])
<1>1. 0 \in E
  <2> DEFINE f == [S \in SUBSET (1 .. 0) |-> Start(op)]
  <2>1. \A S \in SUBSET (1 .. 0) : S = {}
    OBVIOUS
  <2>2. f = [S \in SUBSET (1 .. 0) |-> Turn(f, S)]
    BY <2>1
  <2>3. Folds(f, op, d, 0)
    BY <2>2 DEF Folds
  <2> QED
    BY <2>3
<1>2. \A n \in E : n + 1 \in E
  <2> SUFFICES ASSUME NEW n \in Nat, NEW f, Folds(f, op, d, n)
               PROVE  \E g : Folds(g, op, d, n + 1)
    OBVIOUS
  <2> DEFINE g == [S \in SUBSET (1 .. n + 1) |->
                     IF n + 1 \in S THEN Act(op, f[S \ {n + 1}], d[n + 1]) ELSE f[S]]
  <2>1. ASSUME NEW S \in SUBSET (1 .. n + 1) PROVE g[S] = Turn(g, S)
    <3>1. CASE n + 1 \in S
      <4>1. Max(S) = n + 1
        <5>1. S \in SUBSET (0 .. n + 1) /\ S # {} /\ n + 1 \in Nat
          BY <3>1
        <5>2. Max(S) \in S /\ \A y \in S : Max(S) >= y
          BY <5>1, MaxIs
        <5>3. Max(S) \in 1 .. n + 1
          BY <5>2
        <5>4. Max(S) >= n + 1
          BY <3>1, <5>2
        <5> QED
          BY <5>3, <5>4
      <4>2. S \ {n + 1} \in SUBSET (1 .. n + 1) /\ n + 1 \notin S \ {n + 1}
        OBVIOUS
      <4>3. g[S \ {n + 1}] = f[S \ {n + 1}]
        BY <4>2
      <4> QED
        BY <3>1, <4>1, <4>3
    <3>2. CASE n + 1 \notin S
      <4>1. S \in SUBSET (1 .. n)
        BY <3>2
      <4>2. g[S] = Turn(f, S)
        BY <3>2, <4>1 DEF Folds
      <4>3. CASE S = {}
        BY <4>2, <4>3
      <4>4. CASE S # {}
        <5>1. S \ {Max(S)} \in SUBSET (1 .. n + 1) /\ n + 1 \notin S \ {Max(S)}
          BY <3>2
        <5>2. g[S \ {Max(S)}] = f[S \ {Max(S)}]
          BY <5>1
        <5> QED
          BY <4>2, <4>4, <5>2
      <4> QED
        BY <4>3, <4>4
    <3> QED
      BY <3>1, <3>2
  <2>2. g = [S \in SUBSET (1 .. n + 1) |-> g[S]]
    OBVIOUS
  <2> HIDE DEF g
  <2>3. Folds(g, op, d, n + 1)
    BY <2>1, <2>2 DEF Folds
  <2> QED
    BY <2>3
<1>3. E = Nat
  <2>1. E \in SUBSET Nat
    OBVIOUS
  <2> HIDE DEF E
  <2> QED
    BY <1>1, <1>2, <2>1, Induct
<1> QED
  BY <1>3

\* So it works its way up from the first place.
Runs(f, op, d, n) ==
    /\ f[{}] = Start(op)
    /\ \A k \in Nat : k + 1 <= n => f[1 .. k + 1] = Act(op, f[1 .. k], d[k + 1])

LEMMA FoldRuns ==
    ASSUME NEW n \in Nat, NEW op, NEW d, NEW F, Folds(F, op, d, n)
    PROVE  Runs(F, op, d, n)
<1>1. F[{}] = Start(op)
  BY DEF Folds
<1>2. ASSUME NEW k \in Nat, k + 1 <= n PROVE F[1 .. k + 1] = Act(op, F[1 .. k], d[k + 1])
  <2>1. 1 .. k + 1 \in SUBSET (1 .. n) /\ 1 .. k + 1 # {}
    <3>1. k + 1 \in 1 .. k + 1
      OBVIOUS
    <3>2. \A i \in 1 .. k + 1 : i \in 1 .. n
      BY <1>2
    <3> QED
      BY <3>1, <3>2
  <2>2. Max(1 .. k + 1) = k + 1
    <3>1. k + 1 \in Nat /\ k + 1 # 0
      OBVIOUS
    <3> QED
      BY <3>1, MaxOfPrefix, Zenon
  <2>3. (1 .. k + 1) \ {k + 1} = 1 .. k
    OBVIOUS
  <2>4. F[1 .. k + 1] = Act(op, F[(1 .. k + 1) \ {Max(1 .. k + 1)}], d[Max(1 .. k + 1)])
    BY <2>1 DEF Folds
  <2> QED
    BY <2>2, <2>3, <2>4, Zenon
<1> QED
  BY <1>1, <1>2 DEF Runs

LEMMA ModAdd ==
    ASSUME NEW h \in Nat \ {0}, NEW x \in Nat, NEW c \in Nat
    PROVE  (x + h * c) % h = x % h
<1> DEFINE q == x \div h
           r == x % h
<1>1. q \in Nat /\ r \in 0 .. h - 1 /\ x = h * q + r
  OBVIOUS
<1>2. h * (q + c) = h * q + h * c /\ h * q \in Nat /\ h * c \in Nat
  BY <1>1
<1> HIDE DEF q, r
<1>3. x + h * c = r + h * (q + c) /\ q + c \in Nat
  BY <1>1, <1>2
<1>4. \A k \in Nat : (r + h * k) % h = r
  BY <1>1, ModPlus
<1>5. (r + h * (q + c)) % h = r
  BY <1>3, <1>4
<1> QED
  BY <1>3, <1>5 DEF r

\* One more digit, read with overflow or without.
LEMMA ModDigit ==
    ASSUME NEW v \in Nat, NEW c \in Nat
    PROVE  (10 * (v % Wide) + c) % Wide = (10 * v + c) % Wide
<1>1. Wide \in Nat \ {0}
  BY SizesAssumption
<1> DEFINE q == v \div Wide
           r == v % Wide
<1>2. q \in Nat /\ r \in Nat /\ v = Wide * q + r
  BY <1>1
<1>3. 10 * (Wide * q) = Wide * (10 * q) /\ Wide * q \in Nat /\ 10 * q \in Nat
  BY <1>1, <1>2
<1> HIDE DEF q, r
<1>4. 10 * v + c = (10 * r + c) + Wide * (10 * q) /\ 10 * r + c \in Nat
  BY <1>2, <1>3
<1>5. \A x, k \in Nat : (x + Wide * k) % Wide = x % Wide
  BY <1>1, ModAdd
<1>6. ((10 * r + c) + Wide * (10 * q)) % Wide = (10 * r + c) % Wide
  BY <1>3, <1>4, <1>5
<1> QED
  BY <1>4, <1>6 DEF r

\* The number that Major reads is the one that the digits stand for, as far as it fits.
LEMMA MajorIs ==
    ASSUME NEW u, u.digits \in Seq(DigitChar)
    PROVE  Decimal(u.digits) \in Nat /\ Major(u) = Decimal(u.digits) % Wide
<1> DEFINE d == u.digits
           m == Len(d)
           V == CHOOSE f : Follows(f, d, m)
           F == CHOOSE f : Folds(f, Reading, d, m)
<1>1. m \in Nat /\ DOMAIN d = 1 .. m /\ \A i \in 1 .. m : d[i] - 48 \in Nat
  <2>1. \A i \in 1 .. m : d[i] \in 48 .. 57
    BY DEF DigitChar
  <2> QED
    BY <2>1, SMTT(30)
<1>2. Follows(V, d, m) /\ Folds(F, Reading, d, m)
  BY <1>1, FollowerExists, FoldExists
<1>3. Decimal(d) = V[m]
  BY DEF Decimal, Follows
<1>4. Major(u) = F[1 .. m]
  BY <1>1 DEF Major, FoldLeft, MapThenFoldSet, Folds, Start, Act
<1> HIDE DEF d, m, V, F
<1>5. V[0] = 0 /\ \A k \in Nat : k + 1 <= m => V[k + 1] = 10 * V[k] + d[k + 1] - 48
  <2>1. V[0] = 0
    BY <1>1, <1>2 DEF Follows
  <2>2. ASSUME NEW k \in Nat, k + 1 <= m PROVE V[k + 1] = 10 * V[k] + d[k + 1] - 48
    <3>1. k + 1 \in 0 .. m /\ k + 1 # 0 /\ (k + 1) - 1 = k
      BY <1>1, <2>2
    <3> QED
      BY <1>2, <3>1 DEF Follows
  <2> QED
    BY <2>1, <2>2
<1>6. F[{}] = 0 /\ \A k \in Nat : k + 1 <= m =>
         F[1 .. k + 1] = (10 * F[1 .. k] + d[k + 1] - 48) % Wide
  <2>1. Runs(F, Reading, d, m)
    <3>1. m \in Nat /\ Folds(F, Reading, d, m)
      BY <1>1, <1>2
    <3> QED
      BY <3>1, FoldRuns, Zenon
  <2> QED
    BY <2>1 DEF Runs, Start, Act
<1> DEFINE E == {k \in Nat : k <= m => V[k] \in Nat /\ F[1 .. k] = V[k] % Wide}
<1>7. 0 \in E
  <2>1. 1 .. 0 = {} /\ 0 % Wide = 0
    BY SizesAssumption
  <2> QED
    BY <1>5, <1>6, <2>1
<1>8. \A k \in E : k + 1 \in E
  <2> SUFFICES ASSUME NEW k \in Nat, k \in E, k + 1 <= m
               PROVE  V[k + 1] \in Nat /\ F[1 .. k + 1] = V[k + 1] % Wide
    OBVIOUS
  <2>1. k <= m /\ k + 1 \in 1 .. m
    BY <1>1
  <2>2. V[k] \in Nat /\ F[1 .. k] = V[k] % Wide
    BY <2>1
  <2> DEFINE c == d[k + 1] - 48
  <2>3. c \in Nat
    BY <1>1, <2>1
  <2>4. V[k + 1] = 10 * V[k] + c /\ F[1 .. k + 1] = (10 * F[1 .. k] + c) % Wide
    BY <1>5, <1>6
  <2> HIDE DEF c
  <2>5. (10 * (V[k] % Wide) + c) % Wide = (10 * V[k] + c) % Wide
    BY <2>2, <2>3, ModDigit
  <2> QED
    BY <2>2, <2>3, <2>4, <2>5
<1>9. E = Nat
  <2>1. E \in SUBSET Nat
    OBVIOUS
  <2> HIDE DEF E
  <2> QED
    BY <1>7, <1>8, <2>1, Induct
<1> QED
  <2>1. m \in E /\ m <= m
    BY <1>1, <1>9
  <2> QED
    BY <1>3, <1>4, <2>1 DEF d

(***************************************************************************)
(* The names in .rdata.                                                    *)
(***************************************************************************)
LEMMA CharsAre == ASSUME NEW bytes \in Seq(Byte) PROVE Chars(bytes) \in Seq(Nat)
<1> DEFINE n == Len(bytes) \div 2
<1>1. n \in Nat /\ 2 * n <= Len(bytes) /\ Len(bytes) \in Nat
  OBVIOUS
<1> HIDE DEF n
<1>2. \A i \in 1 .. n : bytes[2 * i - 1] + 256 * bytes[2 * i] \in Nat
  <2> TAKE i \in 1 .. n
  <2>1. 2 * i - 1 \in 1 .. Len(bytes) /\ 2 * i \in 1 .. Len(bytes)
    BY <1>1
  <2>2. bytes[2 * i - 1] \in 0 .. 255 /\ bytes[2 * i] \in 0 .. 255
    BY <2>1, ElementOfSeq DEF Byte
  <2>3. \A x, y \in 0 .. 255 : x + 256 * y \in Nat
    OBVIOUS
  <2> QED
    BY <2>2, <2>3, Zenon
<1> QED
  BY <1>1, <1>2 DEF Chars, n

LEMMA TailIs == ASSUME FileOK, NEW p \in Matches(0) PROVE Tail16(p) \in Seq(Nat)
<1>1. file.rdata \in Seq(Byte) /\ Len(Needle) \in Nat /\ Len(file.rdata) \in Nat
  BY SizesAssumption DEF FileOK
<1>2. p + Len(Needle) \in 0 .. Len(file.rdata)
  BY <1>1 DEF Matches
<1>3. From(file.rdata, p + Len(Needle)) \in Seq(Byte)
  BY <1>1, <1>2, FromIs
<1>4. Chars(From(file.rdata, p + Len(Needle))) \in Seq(Nat)
  BY <1>3, CharsAre
<1> QED
  BY <1>4, BeforeIs DEF Tail16

Named     == {p \in Matches(0) : p % 2 = 0 /\ Tail16(p) # << >> /\ Tail16(p)[1] \in 48 .. 57}
Digits(p) == {i \in DOMAIN Tail16(p) : \A j \in 1 .. i : Tail16(p)[j] \in 48 .. 57}

\* A name is its digits and then its suffix; there are digits if it begins with one.
LEMMA NameIs ==
    ASSUME FileOK, NEW p \in Matches(0)
    PROVE  \E n \in 0 .. Len(Tail16(p)) :
              /\ UpdateAt(p).digits = SubSeq(Tail16(p), 1, n)
              /\ UpdateAt(p).digits \in Seq(DigitChar) /\ Len(UpdateAt(p).digits) = n
              /\ UpdateAt(p).suffix = From(Tail16(p), n)
              /\ Digits(p) = 1 .. n
              /\ n # 0 <=> (Tail16(p) # << >> /\ Tail16(p)[1] \in 48 .. 57)
<1> DEFINE t == Tail16(p)
           stops == Nat \ (48 .. 57)
           d == Before(t, stops)
<1>1. t \in Seq(Nat) /\ Len(t) \in Nat /\ DOMAIN t = 1 .. Len(t)
  BY TailIs
<1>2. UpdateAt(p).digits = d /\ UpdateAt(p).suffix = From(t, Len(d))
  BY DEF UpdateAt
<1>3. \A i \in 1 .. Len(t) : t[i] \in Nat
  BY <1>1
<1> HIDE DEF t, stops
<1>4. PICK n \in 0 .. Len(t) :
              /\ d = SubSeq(t, 1, n) /\ Len(d) = n
              /\ d \in Seq(Nat)
              /\ \A i \in 1 .. n : t[i] \notin stops
              /\ n = Len(t) \/ t[n + 1] \in stops
  BY <1>1, BeforeIs
<1>5. n \in Nat /\ n <= Len(t) /\ \A i \in 1 .. n : i \in 1 .. Len(t)
  BY <1>1
<1>6. \A i \in 1 .. n : t[i] \in 48 .. 57
  BY <1>3, <1>4, <1>5 DEF stops
<1> HIDE DEF d
<1>7. d \in Seq(DigitChar)
  <2>1. \A i \in 1 .. n : d[i] \in DigitChar
    BY <1>1, <1>4, <1>6, Cut DEF DigitChar
  <2>2. d = [i \in 1 .. n |-> d[i]]
    BY <1>4
  <2> QED
    BY <1>5, <2>1, <2>2
<1>8. {i \in 1 .. Len(t) : \A j \in 1 .. i : t[j] \in 48 .. 57} = 1 .. n
  <2>1. ASSUME NEW i \in 1 .. n PROVE i \in 1 .. Len(t) /\ \A j \in 1 .. i : t[j] \in 48 .. 57
    <3>1. \A j \in 1 .. i : j \in 1 .. n
      BY <1>5
    <3> QED
      BY <1>5, <1>6, <3>1
  <2>2. ASSUME NEW i \in 1 .. Len(t), \A j \in 1 .. i : t[j] \in 48 .. 57 PROVE i \in 1 .. n
    <3> SUFFICES ASSUME i > n PROVE FALSE
      BY <1>1, <1>5
    <3>0. n \in Nat /\ i \in Nat /\ i <= Len(t) /\ Len(t) \in Nat /\ i > n
      BY <1>1, <1>5
    <3>1. n + 1 \in 1 .. i /\ n # Len(t)
      BY <3>0
    <3>2. t[n + 1] \in 48 .. 57 /\ t[n + 1] \in stops
      BY <1>4, <2>2, <3>1
    <3> QED
      BY <3>2 DEF stops
  <2> QED
    BY <2>1, <2>2
<1>9. n # 0 <=> (t # << >> /\ t[1] \in 48 .. 57)
  <2>1. CASE n # 0
    <3>1. 1 \in 1 .. n /\ Len(t) # 0
      BY <1>1, <1>5, <2>1
    <3>2. t # << >>
      BY <3>1
    <3> QED
      BY <1>6, <2>1, <3>1, <3>2
  <2>2. CASE n = 0
    <3>1. t = << >> \/ t[0 + 1] \in stops
      BY <1>1, <1>4, <2>2
    <3> QED
      BY <2>2, <3>1 DEF stops
  <2> QED
    BY <2>1, <2>2
<1>10. Digits(p) = 1 .. n
  BY <1>1, <1>8 DEF Digits, t
<1> QED
  <2>1. UpdateAt(p).digits = SubSeq(t, 1, n) /\ Len(UpdateAt(p).digits) = n
        /\ UpdateAt(p).digits \in Seq(DigitChar) /\ UpdateAt(p).suffix = From(t, n)
    BY <1>2, <1>4, <1>7, Zenon
  <2> QED
    BY <1>9, <1>10, <2>1 DEF t

\* What the property says of a name, in terms of what the code makes of it.
LEMMA NameRead ==
    ASSUME FileOK, NEW p \in Named
    PROVE  /\ SubSeq(Tail16(p), 1, Max(Digits(p))) = UpdateAt(p).digits
           /\ From(Tail16(p), Max(Digits(p))) = UpdateAt(p).suffix
           /\ UpdateAt(p).digits \in Seq(DigitChar)
           /\ UpdateAt(p).digits \o UpdateAt(p).suffix = Tail16(p)
<1> DEFINE t == Tail16(p)
<1>1. p \in Matches(0) /\ t # << >> /\ t[1] \in 48 .. 57
  BY DEF Named
<1>2. PICK n \in 0 .. Len(t) :
              /\ UpdateAt(p).digits = SubSeq(t, 1, n)
              /\ UpdateAt(p).digits \in Seq(DigitChar) /\ Len(UpdateAt(p).digits) = n
              /\ UpdateAt(p).suffix = From(t, n)
              /\ Digits(p) = 1 .. n
              /\ n # 0 <=> (t # << >> /\ t[1] \in 48 .. 57)
  BY <1>1, NameIs
<1>3. t \in Seq(Nat) /\ Len(t) \in Nat /\ n \in Nat /\ n # 0
  BY <1>1, <1>2, TailIs
<1>4. Max(Digits(p)) = n
  BY <1>2, <1>3, MaxOfPrefix
<1>5. SubSeq(t, 1, n) \o From(t, n) = t
  <2> HIDE DEF t
  <2> DEFINE x == SubSeq(t, 1, n)
             y == From(t, n)
  <2>1. x \in Seq(Nat) /\ Len(x) = n /\ \A i \in 1 .. n : x[i] = t[i]
    BY <1>3, Cut
  <2>2. y \in Seq(Nat) /\ Len(y) = Len(t) - n /\ \A i \in 1 .. Len(t) - n : y[i] = t[n + i]
    BY <1>3, FromIs
  <2> HIDE DEF x, y
  <2>3. /\ x \o y \in Seq(Nat) /\ Len(x \o y) = Len(t)
        /\ \A i \in 1 .. Len(t) : (x \o y)[i] = IF i <= n THEN x[i] ELSE y[i - n]
    <3>1. Len(x) + Len(y) = Len(t)
      BY <1>3, <2>1, <2>2
    <3>2. /\ x \o y \in Seq(Nat) /\ Len(x \o y) = Len(x) + Len(y)
          /\ \A i \in 1 .. Len(x) + Len(y) :
                (x \o y)[i] = IF i <= Len(x) THEN x[i] ELSE y[i - Len(x)]
      BY <2>1, <2>2, ConcatProperties
    <3> QED
      BY <2>1, <3>1, <3>2, Zenon
  <2>4. \A i \in 1 .. Len(t) : (x \o y)[i] = t[i]
    <3> TAKE i \in 1 .. Len(t)
    <3>1. CASE i <= n
      BY <1>3, <2>1, <2>3, <3>1
    <3>2. CASE ~(i <= n)
      <4>1. i - n \in 1 .. Len(t) - n /\ n + (i - n) = i
        BY <1>3, <3>2
      <4> QED
        BY <2>2, <2>3, <3>2, <4>1
    <3> QED
      BY <3>1, <3>2
  <2>5. x \o y = t
    BY <1>3, <2>3, <2>4, SeqEqual
  <2> QED
    BY <2>5 DEF x, y
<1> QED
  BY <1>2, <1>4, <1>5, Zenon

\* What the scan has found is what is named before the place where it goes on.
NamesInv ==
    /\ offset \in Nat
    /\ updates = {UpdateAt(p) : p \in {q \in Named : q < offset}}

Updates == {UpdateAt(p) : p \in Named}

ResultInv ==
    /\ step = "noUpdate" => Named = {}
    /\ step = "end" => \E u \in Updates : /\ featureSet = u.digits \o u.suffix
                                          /\ \A v \in Updates : ~Newer(v, u)

ScanInv == FileOK /\ NamesInv /\ ResultInv

LEMMA MatchesAre ==
    ASSUME FileOK
    PROVE  \A k \in Nat : Matches(k) \in SUBSET Nat /\ Matches(k) = {q \in Matches(0) : q >= k}
<1> DEFINE m == Len(file.rdata) - Len(Needle)
<1>1. m \in Int
  BY SizesAssumption DEF FileOK
<1> HIDE DEF m
<1>2. \A k \in Nat : k .. m \in SUBSET Nat /\ k .. m = {q \in 0 .. m : q >= k}
  BY <1>1
<1> QED
  BY <1>2 DEF Matches, m

LEMMA SameNames ==
    ASSUME file' = file
    PROVE  Named' = Named /\ \A p : UpdateAt(p)' = UpdateAt(p)
BY DEF Named, Matches, UpdateAt, Tail16

LEMMA FindStep == ASSUME FileOK, NamesInv, FindNext PROVE NamesInv'
<1> DEFINE k == offset
           p == Min(Matches(k))
           Seen(m) == {q \in Named : q < m}
<1>1. k \in Nat /\ updates = {UpdateAt(q) : q \in Seen(k)}
  BY DEF NamesInv
<1>2. p \in Matches(k) /\ \A q \in Matches(k) : p <= q
  BY <1>1, MatchesAre, MinIs DEF FindNext
<1>3. p \in Matches(0) /\ p \in Nat /\ p >= k /\ \A q \in Named : q \in Matches(0) /\ q \in Nat
  BY <1>1, <1>2, MatchesAre DEF Named
<1>4. offset' = p + 1
      /\ updates' = IF p % 2 # 0 \/ UpdateAt(p).digits = << >> THEN updates
                    ELSE updates \cup {UpdateAt(p)}
  BY DEF FindNext
<1>5. p \in Named <=> ~(p % 2 # 0 \/ UpdateAt(p).digits = << >>)
  <2>1. UpdateAt(p).digits = << >> <=> ~(Tail16(p) # << >> /\ Tail16(p)[1] \in 48 .. 57)
    <3>1. PICK n \in 0 .. Len(Tail16(p)) :
              /\ UpdateAt(p).digits \in Seq(DigitChar) /\ Len(UpdateAt(p).digits) = n
              /\ n # 0 <=> (Tail16(p) # << >> /\ Tail16(p)[1] \in 48 .. 57)
      BY <1>3, NameIs
    <3> QED
      BY <3>1
  <2> QED
    BY <1>3, <2>1 DEF Named
<1> HIDE DEF p
<1>6. Seen(p + 1) = Seen(k) \cup ({p} \cap Named)
  <2>1. ASSUME NEW q \in Named, q < p + 1, ~(q < k) PROVE q = p
    <3>1. q \in Matches(k)
      BY <1>1, <1>3, <2>1, MatchesAre
    <3>2. p <= q /\ q \in Nat /\ p \in Nat
      BY <1>2, <1>3, <3>1
    <3> QED
      BY <2>1, <3>2
  <2>2. \A q \in Named : q < k => q < p + 1
    BY <1>1, <1>3
  <2>3. p < p + 1
    BY <1>3
  <2> QED
    BY <2>1, <2>2, <2>3
<1>7. updates' = {UpdateAt(q) : q \in Seen(p + 1)}
  <2>1. CASE p \in Named
    BY <1>1, <1>4, <1>5, <1>6, <2>1
  <2>2. CASE p \notin Named
    BY <1>1, <1>4, <1>5, <1>6, <2>2
  <2> QED
    BY <2>1, <2>2
<1>8. Named' = Named /\ \A q : UpdateAt(q)' = UpdateAt(q)
  BY SameNames DEF FindNext
<1>9. updates' = {UpdateAt(q)' : q \in {r \in Named' : r < offset'}}
  BY <1>4, <1>7, <1>8, Zenon
<1>10. offset' \in Nat
  BY <1>3, <1>4
<1> QED
  BY <1>9, <1>10, Zenon DEF NamesInv

LEMMA AnswerStep == ASSUME FileOK, NamesInv, Answer PROVE ResultInv'
<1>1. Named' = Named /\ \A q : UpdateAt(q)' = UpdateAt(q)
  BY SameNames DEF Answer
<1>2. updates = {UpdateAt(q) : q \in Named}
  <2>1. \A q \in Named : q \in Nat /\ offset \in Nat /\ (q >= offset => q \in Matches(offset))
    BY MatchesAre DEF Named, NamesInv
  <2>2. Matches(offset) = {}
    BY DEF Answer
  <2>3. \A q \in Named : q < offset
    BY <2>1, <2>2
  <2>4. {q \in Named : q < offset} = Named
    BY <2>3
  <2> QED
    BY <2>4, Zenon DEF NamesInv
<1>3. CASE updates = {}
  <2>1. step' = "noUpdate" /\ Named = {}
    BY <1>2, <1>3 DEF Answer
  <2> QED
    BY <1>1, <2>1 DEF ResultInv
<1>4. CASE updates # {}
  <2>1. step' = "end"
    BY <1>4 DEF Answer
  <2>2. \E u \in updates : /\ featureSet' = u.digits \o u.suffix
                           /\ \A v \in updates : ~Newer(v, u)
    BY <1>4 DEF Answer
  <2>3. updates = Updates'
    BY <1>1, <1>2, Zenon DEF Updates
  <2> QED
    BY <2>1, <2>2, <2>3, Zenon DEF ResultInv
<1> QED
  BY <1>3, <1>4

LEMMA ScanInvInit == FormatsInit => ScanInv
<1> SUFFICES ASSUME FormatsInit PROVE NamesInv /\ ResultInv
  BY FileInit DEF ScanInv
<1>1. step = "buildID" /\ offset = 0 /\ updates = {}
  BY DEF FormatsInit, ScanInit, Fresh
<1>2. {q \in Named : q < offset} = {}
  <2>1. \A q \in Named : q \in Nat
    BY FileInit, MatchesAre DEF Named
  <2> QED
    BY <1>1, <2>1
<1>3. {UpdateAt(p) : p \in {q \in Named : q < offset}} = {}
  BY <1>2
<1> QED
  BY <1>1, <1>3 DEF NamesInv, ResultInv

LEMMA ScanInvStep == ScanInv /\ [FormatsNext]_allVars => ScanInv'
<1> SUFFICES ASSUME ScanInv, [FormatsNext]_allVars PROVE NamesInv' /\ ResultInv'
  BY FileStep DEF ScanInv
<1>0. FileOK /\ NamesInv /\ ResultInv
  BY DEF ScanInv
<1>1. ASSUME UNCHANGED <<file, offset, updates>> PROVE NamesInv'
  <2>1. Named' = Named /\ \A q : UpdateAt(q)' = UpdateAt(q)
    BY <1>1, SameNames
  <2>2. updates' = {UpdateAt(q)' : q \in {r \in Named' : r < offset'}}
    BY <1>0, <1>1, <2>1, Zenon DEF NamesInv
  <2> QED
    BY <1>0, <1>1, <2>2, Zenon DEF NamesInv
<1>2. ASSUME UNCHANGED <<file, step, featureSet>> PROVE ResultInv'
  <2>1. Named' = Named /\ \A q : UpdateAt(q)' = UpdateAt(q)
    BY <1>2, SameNames
  <2>2. Updates' = Updates
    BY <2>1, Zenon DEF Updates
  <2> QED
    BY <1>0, <1>2, <2>1, <2>2, Zenon DEF ResultInv
<1>3. CASE ScanBuildID
  <2>1. UNCHANGED <<file, offset, updates>> /\ step' \notin {"end", "noUpdate"}
    BY <1>3 DEF ScanBuildID
  <2> QED
    BY <1>1, <2>1 DEF ResultInv
<1>4. CASE FindNext
  <2>1. UNCHANGED <<file, step, featureSet>>
    BY <1>4 DEF FindNext
  <2> QED
    BY <1>0, <1>2, <1>4, <2>1, FindStep
<1>5. CASE Answer
  <2>1. UNCHANGED <<file, offset, updates>>
    BY <1>5 DEF Answer
  <2> QED
    BY <1>0, <1>1, <1>5, <2>1, AnswerStep
<1>6. CASE UNCHANGED scanVars
  BY <1>1, <1>2, <1>6 DEF scanVars
<1> QED
  BY <1>3, <1>4, <1>5, <1>6 DEF FormatsNext, ScanNext, Rests, allVars

LEMMA FoundNewest == ScanInv => NewestFound
<1> SUFFICES ASSUME FileOK, ResultInv PROVE NewestFound
  BY DEF ScanInv
<1> DEFINE Number(p) == Decimal(SubSeq(Tail16(p), 1, Max(Digits(p))))
           Suffix(p) == From(Tail16(p), Max(Digits(p)))
<1>1. ASSUME NEW p \in Named
      PROVE  /\ Suffix(p) = UpdateAt(p).suffix
             /\ Number(p) \in Nat /\ Major(UpdateAt(p)) = Number(p) % Wide
             /\ UpdateAt(p).digits \o UpdateAt(p).suffix = Tail16(p)
  <2>1. /\ SubSeq(Tail16(p), 1, Max(Digits(p))) = UpdateAt(p).digits
        /\ Suffix(p) = UpdateAt(p).suffix
        /\ UpdateAt(p).digits \in Seq(DigitChar)
        /\ UpdateAt(p).digits \o UpdateAt(p).suffix = Tail16(p)
    BY NameRead
  <2>2. Decimal(UpdateAt(p).digits) \in Nat
        /\ Major(UpdateAt(p)) = Decimal(UpdateAt(p).digits) % Wide
    BY <2>1, MajorIs
  <2> QED
    BY <2>1, <2>2, Zenon
<1> HIDE DEF Number, Suffix
<1>2. ASSUME step = "end", \A p \in Named : Number(p) < Wide
      PROVE  \E p \in Named :
                /\ featureSet = Tail16(p)
                /\ \A q \in Named : /\ Number(p) >= Number(q)
                                    /\ Number(p) = Number(q) => ~After(Suffix(q), Suffix(p))
  <2>1. \A p \in Named : Major(UpdateAt(p)) = Number(p)
    <3>1. \A n, w \in Nat : n < w => n % w = n
      OBVIOUS
    <3> QED
      BY <1>1, <1>2, <3>1, SizesAssumption
  <2>2. PICK p \in Named :
          /\ featureSet = UpdateAt(p).digits \o UpdateAt(p).suffix
          /\ \A q \in Named : ~Newer(UpdateAt(q), UpdateAt(p))
    BY <1>2, Zenon DEF ResultInv, Updates
  <2>3. ASSUME NEW q \in Named
        PROVE  /\ Number(p) >= Number(q)
               /\ Number(p) = Number(q) => ~After(Suffix(q), Suffix(p))
    <3>1. ~Newer(UpdateAt(q), UpdateAt(p))
      BY <2>2
    <3>2. IF Number(q) # Number(p) THEN ~(Number(q) > Number(p))
                                   ELSE ~After(Suffix(q), Suffix(p))
      BY <1>1, <2>1, <3>1, Zenon DEF Newer
    <3>3. Number(q) \in Nat /\ Number(p) \in Nat
      BY <1>1
    <3> QED
      BY <3>2, <3>3
  <2> QED
    BY <1>1, <2>2, <2>3
<1> QED
  BY <1>2 DEF NewestFound, ResultInv, Named, Digits, Number, Suffix

\* The feature set is the newest one that .rdata names, whatever else it holds and in whatever
\* order the names come (tools/version/main.go:84-161).
THEOREM NewestChosen == FormatsSpec => []NewestFound
BY ScanInvInit, ScanInvStep, FoundNewest, PTL DEF FormatsSpec

(***************************************************************************)
(* Cutting a text into parts. Split folds over the text; what it makes of  *)
(* one more token, and of what lies before and behind a separator.         *)
(***************************************************************************)
LEMMA SplitFold ==
    ASSUME NEW n \in Nat, NEW s, DOMAIN s = 1 .. n, NEW c
    PROVE  \E f : Runs(f, Cutting(c), s, n) /\ Split(s, c) = f[1 .. n]
<1> DEFINE F == CHOOSE f : Folds(f, Cutting(c), s, n)
<1>1. Cutting(c) # Reading /\ Cutting(c)[2] = c
  BY DEF Cutting, Reading
<1>2. Folds(F, Cutting(c), s, n)
  BY FoldExists
<1>3. Split(s, c) = F[1 .. n]
  BY <1>1 DEF Split, FoldLeft, MapThenFoldSet, Folds, Start, Act
<1> HIDE DEF F
<1>4. Runs(F, Cutting(c), s, n)
  BY <1>2, FoldRuns, Zenon
<1> QED
  BY <1>3, <1>4

LEMMA SplitEmpty == ASSUME NEW c PROVE Split(<< >>, c) = << << >> >>
<1>1. DOMAIN << >> = 1 .. 0 /\ 0 \in Nat /\ 1 .. 0 = {}
  OBVIOUS
<1>2. PICK f : Runs(f, Cutting(c), << >>, 0) /\ Split(<< >>, c) = f[1 .. 0]
  BY <1>1, SplitFold
<1>3. Start(Cutting(c)) = << << >> >>
  BY DEF Start, Cutting, Reading
<1> QED
  BY <1>1, <1>2, <1>3 DEF Runs

\* One more token: it ends the last part, or belongs to it.
LEMMA SplitAppend ==
    ASSUME NEW T, NEW s \in Seq(T), NEW t \in T, NEW c
    PROVE  Split(Append(s, t), c) =
              IF t = c THEN Append(Split(s, c), << >>)
              ELSE Append(Front(Split(s, c)), Append(Last(Split(s, c)), t))
<1> DEFINE n  == Len(s)
           u  == Append(s, t)
           op == Cutting(c)
<1>1. /\ n \in Nat /\ DOMAIN s = 1 .. n /\ n + 1 \in Nat /\ DOMAIN u = 1 .. n + 1
      /\ u[n + 1] = t /\ \A k \in Nat : k + 1 <= n => u[k + 1] = s[k + 1]
  OBVIOUS
<1> HIDE DEF n, u
<1>2. PICK f : Runs(f, op, s, n) /\ Split(s, c) = f[1 .. n]
  BY <1>1, SplitFold
<1>3. PICK g : Runs(g, op, u, n + 1) /\ Split(u, c) = g[1 .. n + 1]
  BY <1>1, SplitFold
<1> DEFINE E == {k \in Nat : k <= n => g[1 .. k] = f[1 .. k]}
<1>4. 0 \in E
  <2>1. 1 .. 0 = {}
    OBVIOUS
  <2> QED
    BY <1>2, <1>3, <2>1 DEF Runs
<1>5. \A k \in E : k + 1 \in E
  <2> SUFFICES ASSUME NEW k \in Nat, k \in E, k + 1 <= n PROVE g[1 .. k + 1] = f[1 .. k + 1]
    OBVIOUS
  <2>1. k <= n /\ k + 1 <= n + 1
    BY <1>1
  <2>2. g[1 .. k] = f[1 .. k] /\ u[k + 1] = s[k + 1]
    BY <1>1, <2>1
  <2>3. f[1 .. k + 1] = Act(op, f[1 .. k], s[k + 1])
    BY <1>2 DEF Runs
  <2>4. g[1 .. k + 1] = Act(op, g[1 .. k], u[k + 1])
    BY <1>3, <2>1 DEF Runs
  <2> QED
    BY <2>2, <2>3, <2>4, Zenon
<1>6. E = Nat
  <2> HIDE DEF E
  <2>1. E \in SUBSET Nat
    BY DEF E
  <2> QED
    BY <1>4, <1>5, <2>1, Induct
<1>7. g[1 .. n] = f[1 .. n]
  BY <1>1, <1>6
<1>8. g[1 .. n + 1] = Act(op, g[1 .. n], u[n + 1])
  BY <1>1, <1>3 DEF Runs
<1>9. Split(u, c) = Act(op, Split(s, c), t)
  BY <1>1, <1>2, <1>3, <1>7, <1>8, Zenon
<1>10. op # Reading /\ op[2] = c
  BY DEF Cutting, Reading
<1> HIDE DEF op
<1> QED
  BY <1>9, <1>10 DEF Act, u

LEMMA FrontLast ==
    ASSUME NEW T, NEW s \in Seq(T), s # << >>
    PROVE  Front(s) \in Seq(T) /\ Len(Front(s)) = Len(s) - 1 /\ Last(s) \in T
<1>1. Len(s) \in Nat \ {0} /\ s \in [1 .. Len(s) -> T]
  BY EmptySeq
<1> QED
  BY <1>1 DEF Front, Last

LEMMA ConcatAppend ==
    ASSUME NEW T, NEW s \in Seq(T), NEW t \in Seq(T), NEW x \in T
    PROVE  s \o Append(t, x) = Append(s \o t, x)
<1>1. Append(t, x) = t \o <<x>> /\ <<x>> \in Seq(T)
  BY AppendIsConcat
<1>2. s \o t \in Seq(T)
  BY ConcatProperties
<1>3. Append(s \o t, x) = (s \o t) \o <<x>>
  BY <1>2, AppendIsConcat
<1> QED
  BY <1>1, <1>2, <1>3, ConcatAssociative

LEMMA ConcatEnds ==
    ASSUME NEW T, NEW s \in Seq(T), NEW t \in Seq(T), t # << >>
    PROVE  Front(s \o t) = s \o Front(t) /\ Last(s \o t) = Last(t)
<1> DEFINE n == Len(s)
           m == Len(t)
           u == s \o t
<1>1. n \in Nat /\ m \in Nat \ {0} /\ s \in [1 .. n -> T] /\ t \in [1 .. m -> T]
  BY EmptySeq
<1>2. /\ u \in Seq(T) /\ Len(u) = n + m
      /\ \A i \in 1 .. n + m : u[i] = IF i <= n THEN s[i] ELSE t[i - n]
  BY ConcatProperties
<1>3. u # << >>
  BY <1>1, <1>2
<1>4. Front(u) \in Seq(T) /\ Len(Front(u)) = (n + m) - 1
  BY <1>2, <1>3, FrontLast
<1>5. Front(t) \in Seq(T) /\ Len(Front(t)) = m - 1
  BY FrontLast
<1>6. /\ s \o Front(t) \in Seq(T) /\ Len(s \o Front(t)) = n + (m - 1)
      /\ \A i \in 1 .. n + (m - 1) : (s \o Front(t))[i] = IF i <= n THEN s[i] ELSE Front(t)[i - n]
  BY <1>5, ConcatProperties, ZenonT(30)
<1>7. \A i \in 1 .. (n + m) - 1 : Front(u)[i] = u[i]
  BY <1>1, <1>2 DEF Front
<1>8. \A i \in 1 .. m - 1 : Front(t)[i] = t[i]
  BY <1>1 DEF Front
<1>9. (n + m) - 1 = n + (m - 1)
  BY <1>1
<1> HIDE DEF n, m, u
<1>10. ASSUME NEW i \in 1 .. (n + m) - 1 PROVE Front(u)[i] = (s \o Front(t))[i]
  <2>1. i \in 1 .. n + m /\ i \in 1 .. n + (m - 1)
    BY <1>1
  <2>2. CASE i <= n
    BY <1>2, <1>6, <1>7, <2>1, <2>2
  <2>3. CASE ~(i <= n)
    <3>1. i - n \in 1 .. m - 1
      BY <1>1, <2>3
    <3>2. Front(u)[i] = t[i - n] /\ (s \o Front(t))[i] = Front(t)[i - n]
      BY <1>2, <1>6, <1>7, <2>1, <2>3
    <3> QED
      BY <1>8, <3>1, <3>2
  <2> QED
    BY <2>2, <2>3
<1>11. Front(u) = s \o Front(t)
  BY <1>4, <1>6, <1>9, <1>10, SeqEqual
<1>12. Last(u) = Last(t)
  <2>1. Last(u) = u[n + m] /\ Last(t) = t[m]
    BY <1>2 DEF Last, m
  <2>2. n + m \in 1 .. n + m /\ ~(n + m <= n) /\ (n + m) - n = m
    BY <1>1
  <2> QED
    BY <1>2, <2>1, <2>2
<1> QED
  BY <1>11, <1>12 DEF u

\* Induction over sequences.
LEMMA Grows ==
    ASSUME NEW T, NEW S \in SUBSET Seq(T), << >> \in S, \A s \in S : \A t \in T : Append(s, t) \in S
    PROVE  S = Seq(T)
<1> DEFINE E == {n \in Nat : \A s \in Seq(T) : Len(s) = n => s \in S}
<1>1. 0 \in E
  <2>1. \A s \in Seq(T) : Len(s) = 0 => s = << >>
    BY EmptySeq
  <2> QED
    BY <2>1
<1>2. ASSUME NEW n \in E PROVE n + 1 \in E
  <2>1. ASSUME NEW s \in Seq(T), Len(s) = n + 1 PROVE s \in S
    <3>1. s # << >>
      BY <2>1, EmptySeq
    <3>2. PICK r \in Seq(T), t \in T : s = Append(r, t)
      BY <3>1, SequenceEmptyOrAppend
    <3>3. Len(r) = n
      BY <2>1, <3>2
    <3>4. r \in S
      BY <3>3
    <3> QED
      BY <3>2, <3>4
  <2> QED
    BY <2>1
<1>3. E = Nat
  <2> HIDE DEF E
  <2>1. E \in SUBSET Nat
    BY DEF E
  <2> QED
    BY <1>1, <1>2, <2>1, Induct
<1>4. ASSUME NEW s \in Seq(T) PROVE s \in S
  <2>1. Len(s) \in E
    BY <1>3, LenProperties
  <2> QED
    BY <2>1
<1> QED
  BY <1>4

LEMMA Appended ==
    ASSUME NEW T, NEW s \in Seq(T), NEW x \in T
    PROVE  Append(s, x) \in Seq(T) /\ Append(s, x) # << >>
BY AppendProperties

LEMMA SplitType ==
    ASSUME NEW T, NEW s \in Seq(T), NEW c
    PROVE  Split(s, c) \in Seq(Seq(T)) /\ Split(s, c) # << >>
<1> DEFINE S == {r \in Seq(T) : Split(r, c) \in Seq(Seq(T)) /\ Split(r, c) # << >>}
<1>1. << >> \in S
  <2>1. << >> \in Seq(T)
    OBVIOUS
  <2>2. << << >> >> \in Seq(Seq(T)) /\ << << >> >> # << >>
    OBVIOUS
  <2> QED
    BY <2>1, <2>2, SplitEmpty
<1>2. ASSUME NEW r \in S, NEW t \in T PROVE Append(r, t) \in S
  <2> DEFINE p == Split(r, c)
  <2>1. p \in Seq(Seq(T)) /\ p # << >> /\ r \in Seq(T)
    OBVIOUS
  <2>2. Split(Append(r, t), c) = IF t = c THEN Append(p, << >>)
                                 ELSE Append(Front(p), Append(Last(p), t))
    BY <2>1, SplitAppend
  <2> HIDE DEF p
  <2>3. Front(p) \in Seq(Seq(T)) /\ Last(p) \in Seq(T)
    BY <2>1, FrontLast
  <2>4. Append(Last(p), t) \in Seq(T) /\ << >> \in Seq(T) /\ Append(r, t) \in Seq(T)
    BY <2>1, <2>3
  <2>5. Append(p, << >>) \in Seq(Seq(T)) /\ Append(p, << >>) # << >>
    BY <2>1, <2>4, AppendProperties
  <2>6. /\ Append(Front(p), Append(Last(p), t)) \in Seq(Seq(T))
        /\ Append(Front(p), Append(Last(p), t)) # << >>
    <3> DEFINE e == Append(Last(p), t)
               f == Front(p)
               Q == Seq(T)
    <3>1. f \in Seq(Q) /\ e \in Q
      BY <2>3, <2>4
    <3> HIDE DEF e, f, Q
    <3>2. Append(f, e) \in Seq(Q) /\ Append(f, e) # << >>
      BY <3>1, Appended, Zenon
    <3> QED
      BY <3>2 DEF e, f, Q
  <2> QED
    BY <2>2, <2>4, <2>5, <2>6
<1>3. S = Seq(T)
  <2> HIDE DEF S
  <2>1. S \in SUBSET Seq(T)
    BY DEF S
  <2> QED
    BY <1>1, <1>2, <2>1, Grows
<1> QED
  BY <1>3

\* Text without the separator is one part.
LEMMA SplitWhole ==
    ASSUME NEW T, NEW c, NEW s \in Seq(T \ {c})
    PROVE  Split(s, c) = <<s>>
<1> DEFINE D == T \ {c}
           S == {r \in Seq(D) : Split(r, c) = <<r>>}
<1>1. << >> \in S
  BY SplitEmpty
<1>2. ASSUME NEW r \in S, NEW t \in D PROVE Append(r, t) \in S
  <2>1. Split(r, c) = <<r>> /\ r \in Seq(D)
    OBVIOUS
  <2> HIDE DEF D
  <2>2. t # c
    BY DEF D
  <2>3. Split(Append(r, t), c) = Append(Front(<<r>>), Append(Last(<<r>>), t))
    BY <2>1, <2>2, SplitAppend, SMTT(30)
  <2>4. Front(<<r>>) = << >> /\ Last(<<r>>) = r
    BY SubSeqEmpty DEF Front, Last
  <2>5. Append(r, t) \in Seq(D)
    BY <2>1
  <2>6. Append(<< >>, Append(r, t)) = <<Append(r, t)>>
    BY <2>5
  <2> QED
    BY <2>3, <2>4, <2>5, <2>6
<1>3. S = Seq(D)
  <2> HIDE DEF S, D
  <2>1. S \in SUBSET Seq(D)
    BY DEF S
  <2> QED
    BY <1>1, <1>2, <2>1, Grows
<1> QED
  BY <1>3

\* A separator parts what comes before it from what comes behind it.
LEMMA SplitAt ==
    ASSUME NEW T, NEW c \in T, NEW s \in Seq(T), NEW t \in Seq(T)
    PROVE  Split((s \o <<c>>) \o t, c) = Split(s, c) \o Split(t, c)
<1> DEFINE a == s \o <<c>>
           p == Split(s, c)
           S == {r \in Seq(T) : Split(a \o r, c) = p \o Split(r, c)}
<1>1. a = Append(s, c) /\ a \in Seq(T)
  BY AppendIsConcat, AppendProperties
<1>2. p \in Seq(Seq(T)) /\ << >> \in Seq(T) /\ << >> \in Seq(Seq(T))
  BY SplitType
<1>3. << >> \in S
  <2>1. a \o << >> = a
    BY <1>1, ConcatEmptySeq
  <2>2. Split(Append(s, c), c) = Append(Split(s, c), << >>)
    BY SplitAppend
  <2>3. Append(p, << >>) = p \o << << >> >>
    BY <1>2, AppendIsConcat
  <2> QED
    BY <1>1, <1>2, <2>1, <2>2, <2>3, SplitEmpty
<1> HIDE DEF a, p
<1>4. ASSUME NEW r \in S, NEW x \in T PROVE Append(r, x) \in S
  <2> DEFINE q == Split(r, c)
  <2>1. r \in Seq(T) /\ Split(a \o r, c) = p \o q
    OBVIOUS
  <2> HIDE DEF S
  <2>2. q \in Seq(Seq(T)) /\ q # << >> /\ a \o r \in Seq(T) /\ Append(r, x) \in Seq(T)
    BY <1>1, <2>1, SplitType, ConcatProperties
  <2>3. Split(Append(r, x), c) = IF x = c THEN Append(q, << >>)
                                 ELSE Append(Front(q), Append(Last(q), x))
    BY <2>1, SplitAppend
  <2>4. a \o Append(r, x) = Append(a \o r, x)
    BY <1>1, <2>1, ConcatAppend
  <2>5. Split(a \o Append(r, x), c) = IF x = c THEN Append(p \o q, << >>)
                                      ELSE Append(Front(p \o q), Append(Last(p \o q), x))
    <3> DEFINE b == a \o r
    <3>1. b \in Seq(T)
      BY <2>2
    <3> HIDE DEF b
    <3>2. Split(Append(b, x), c) = IF x = c THEN Append(Split(b, c), << >>)
                                   ELSE Append(Front(Split(b, c)), Append(Last(Split(b, c)), x))
      BY <3>1, SplitAppend
    <3> QED
      BY <2>1, <2>4, <3>2 DEF b
  <2> HIDE DEF q
  <2>6. Split(a \o Append(r, x), c) = p \o Split(Append(r, x), c)
    <3>1. CASE x = c
      <4>1. Append(p \o q, << >>) = p \o Append(q, << >>)
        <5> DEFINE e == << >>
                   Q == Seq(T)
        <5>1. p \in Seq(Q) /\ q \in Seq(Q) /\ e \in Q
          BY <1>2, <2>2
        <5> HIDE DEF e, Q
        <5>2. \A u, v \in Seq(Q) : \A y \in Q : u \o Append(v, y) = Append(u \o v, y)
          BY ConcatAppend
        <5>3. Append(p \o q, e) = p \o Append(q, e)
          BY <5>1, <5>2, Zenon
        <5> QED
          BY <5>3 DEF e
      <4> QED
        BY <2>3, <2>5, <3>1, <4>1
    <3>2. CASE x # c
      <4>1. Front(p \o q) = p \o Front(q) /\ Last(p \o q) = Last(q)
        BY <1>2, <2>2, ConcatEnds
      <4>2. Front(q) \in Seq(Seq(T)) /\ Last(q) \in Seq(T)
        BY <2>2, FrontLast
      <4>3. Append(Last(q), x) \in Seq(T)
        BY <4>2
      <4>4. Append(p \o Front(q), Append(Last(q), x)) = p \o Append(Front(q), Append(Last(q), x))
        <5> DEFINE e == Append(Last(q), x)
                   f == Front(q)
                   Q == Seq(T)
        <5>1. p \in Seq(Q) /\ f \in Seq(Q) /\ e \in Q
          BY <1>2, <4>2, <4>3
        <5> HIDE DEF e, f, Q
        <5>2. \A u, v \in Seq(Q) : \A y \in Q : u \o Append(v, y) = Append(u \o v, y)
          BY ConcatAppend
        <5>3. Append(p \o f, e) = p \o Append(f, e)
          BY <5>1, <5>2, Zenon
        <5> QED
          BY <5>3 DEF e, f
      <4> QED
        BY <2>3, <2>5, <3>2, <4>1, <4>4
    <3> QED
      BY <3>1, <3>2
  <2> QED
    BY <2>2, <2>6 DEF S
<1>5. S = Seq(T)
  <2> HIDE DEF S
  <2>1. S \in SUBSET Seq(T)
    BY DEF S
  <2> QED
    BY <1>3, <1>4, <2>1, Grows
<1>6. Split(a \o t, c) = p \o Split(t, c)
  BY <1>5
<1> QED
  BY <1>6 DEF a, p

\* The same for the recursion of FlattenSeq.
Flattens(f, d, n) == f = [i \in 1 .. n |-> IF i = 1 THEN d[i] ELSE f[i - 1] \o d[i]]

LEMMA FlattenerExists == \A d : \A n \in Nat : \E f : Flattens(f, d, n)
<1> SUFFICES ASSUME NEW d PROVE \A n \in Nat : \E f : Flattens(f, d, n)
  OBVIOUS
<1> DEFINE E == {n \in Nat : \E f : Flattens(f, d, n)}
<1>1. 0 \in E
  <2> DEFINE f == [i \in 1 .. 0 |-> 0]
  <2>1. f = [i \in 1 .. 0 |-> IF i = 1 THEN d[i] ELSE f[i - 1] \o d[i]]
    OBVIOUS
  <2> QED
    BY <2>1 DEF Flattens
<1>2. \A n \in E : n + 1 \in E
  <2> SUFFICES ASSUME NEW n \in Nat, NEW f, Flattens(f, d, n)
               PROVE  \E g : Flattens(g, d, n + 1)
    OBVIOUS
  <2> DEFINE last == IF n = 0 THEN d[1] ELSE f[n] \o d[n + 1]
             g    == [i \in 1 .. n + 1 |-> IF i = n + 1 THEN last ELSE f[i]]
  <2>1. ASSUME NEW i \in 1 .. n + 1 PROVE g[i] = IF i = 1 THEN d[i] ELSE g[i - 1] \o d[i]
    <3>1. CASE i = n + 1
      <4>1. g[n + 1] = last /\ (n + 1) - 1 = n /\ (n + 1 = 1 <=> n = 0)
        OBVIOUS
      <4>2. n # 0 => g[n] = f[n]
        OBVIOUS
      <4> QED
        BY <3>1, <4>1, <4>2
    <3>2. CASE i # n + 1
      <4>1. i \in 1 .. n /\ g[i] = f[i] /\ (i # 1 => i - 1 \in 1 .. n /\ g[i - 1] = f[i - 1])
        BY <3>2
      <4>2. f[i] = IF i = 1 THEN d[i] ELSE f[i - 1] \o d[i]
        BY <4>1 DEF Flattens
      <4> QED
        BY <4>1, <4>2
    <3> QED
      BY <3>1, <3>2
  <2>2. g = [i \in 1 .. n + 1 |-> g[i]]
    OBVIOUS
  <2> HIDE DEF g
  <2>3. Flattens(g, d, n + 1)
    BY <2>1, <2>2 DEF Flattens
  <2> QED
    BY <2>3
<1>3. E = Nat
  <2>1. E \in SUBSET Nat
    OBVIOUS
  <2> HIDE DEF E
  <2> QED
    BY <1>1, <1>2, <2>1, Induct
<1> QED
  BY <1>3

\* The parts are put together one behind the other.
Joins(f, d, n) ==
    /\ FlattenSeq(d) = f[n] /\ f[1] = d[1]
    /\ \A k \in Nat : k # 0 /\ k + 1 <= n => f[k + 1] = f[k] \o d[k + 1]

LEMMA FlattenIs ==
    ASSUME NEW n \in Nat, n # 0, NEW d, Len(d) = n
    PROVE  \E f : Joins(f, d, n)
<1> DEFINE f == CHOOSE g : Flattens(g, d, n)
<1>1. Flattens(f, d, n)
  BY FlattenerExists
<1>2. FlattenSeq(d) = f[n]
  BY DEF FlattenSeq, Flattens
<1> HIDE DEF f
<1>3. f[1] = d[1]
  <2>1. 1 \in 1 .. n
    OBVIOUS
  <2> QED
    BY <1>1, <2>1 DEF Flattens
<1>4. ASSUME NEW k \in Nat, k # 0, k + 1 <= n PROVE f[k + 1] = f[k] \o d[k + 1]
  <2>1. k + 1 \in 1 .. n /\ k + 1 # 1 /\ (k + 1) - 1 = k
    BY <1>4
  <2> QED
    BY <1>1, <2>1 DEF Flattens
<1> QED
  BY <1>2, <1>3, <1>4 DEF Joins

(***************************************************************************)
(* The headers of a message, up to the empty line.                         *)
(***************************************************************************)
Plain == Token \ {NL}

\* p is the first k lines, with a line end between one and the next.
IsHead(p, lines, k) ==
    /\ p \in Seq(Token) /\ p # << >>
    /\ Split(p, NL) \in Seq(Seq(Token)) /\ Len(Split(p, NL)) = k
    /\ \A i \in 1 .. k : Split(p, NL)[i] = lines[i]
    /\ \A i \in 1 .. Len(p) : p[i] = NL => i < Len(p) /\ p[i + 1] # NL

LEMMA PlainText ==
    ASSUME NEW s \in Seq(Plain) PROVE s \in Seq(Token) /\ \A i \in 1 .. Len(s) : s[i] # NL
<1>1. Len(s) \in Nat /\ \A i \in 1 .. Len(s) : s[i] \in Plain
  OBVIOUS
<1>2. Plain \subseteq Token
  BY DEF Plain
<1>3. s \in Seq(Token)
  BY <1>2, SeqMonotonic
<1> QED
  BY <1>1, <1>3 DEF Plain

LEMMA HeadStart ==
    ASSUME NEW lines, lines[1] \in Seq(Plain), lines[1] # << >>
    PROVE  IsHead(lines[1], lines, 1)
<1> DEFINE c == lines[1]
<1>1. c \in Seq(Token) /\ \A i \in 1 .. Len(c) : c[i] # NL
  BY PlainText
<1>2. Split(c, NL) = <<c>>
  BY SplitWhole DEF Plain
<1>3. <<c>> \in Seq(Seq(Token)) /\ Len(<<c>>) = 1 /\ \A i \in 1 .. 1 : <<c>>[i] = lines[i]
  BY <1>1
<1> QED
  BY <1>1, <1>2, <1>3 DEF IsHead

LEMMA HeadGrows ==
    ASSUME NEW k \in Nat, NEW lines, NEW p, IsHead(p, lines, k),
           NEW c \in Seq(Plain), c # << >>, c = lines[k + 1]
    PROVE  IsHead((p \o <<NL>>) \o c, lines, k + 1)
<1> DEFINE n == Len(p)
           m == Len(c)
           a == p \o <<NL>>
           q == a \o c
<1>1. c \in Seq(Token) /\ c # << >> /\ m \in Nat \ {0} /\ \A i \in 1 .. m : c[i] # NL
  BY PlainText, EmptySeq
<1>2. p \in Seq(Token) /\ n \in Nat \ {0} /\ NL \in Token
  BY EmptySeq, TokenAssumption DEF IsHead
<1>3. Split(c, NL) = <<c>>
  BY SplitWhole DEF Plain
<1>4. Split(q, NL) = Split(p, NL) \o <<c>>
  <2>1. Split((p \o <<NL>>) \o c, NL) = Split(p, NL) \o Split(c, NL)
    BY <1>1, <1>2, SplitAt
  <2> QED
    BY <1>3, <2>1
<1>5. /\ Split(q, NL) \in Seq(Seq(Token)) /\ Len(Split(q, NL)) = k + 1
      /\ \A i \in 1 .. k + 1 : Split(q, NL)[i] = lines[i]
  <2> DEFINE r == Split(p, NL)
             w == <<c>>
             v == Split(q, NL)
             Q == Seq(Token)
  <2>1. r \in Seq(Q) /\ Len(r) = k /\ (\A i \in 1 .. k : r[i] = lines[i])
    BY DEF IsHead
  <2>2. w \in Seq(Q) /\ Len(w) = 1 /\ w[1] = lines[k + 1]
    BY <1>1
  <2>3. v = r \o w
    BY <1>4
  <2> HIDE DEF r, w, v, Q
  <2>4. /\ v \in Seq(Q) /\ Len(v) = k + 1
        /\ \A i \in 1 .. k + 1 : v[i] = IF i <= k THEN r[i] ELSE w[i - k]
    <3>1. /\ r \o w \in Seq(Q) /\ Len(r \o w) = Len(r) + Len(w)
          /\ \A i \in 1 .. Len(r) + Len(w) :
                (r \o w)[i] = IF i <= Len(r) THEN r[i] ELSE w[i - Len(r)]
      BY <2>1, <2>2, ConcatProperties
    <3> QED
      BY <2>1, <2>2, <2>3, <3>1
  <2>5. ASSUME NEW i \in 1 .. k + 1 PROVE v[i] = lines[i]
    <3>1. CASE i <= k
      BY <2>1, <2>4, <3>1
    <3>2. CASE i = k + 1
      <4>1. ~(k + 1 <= k) /\ (k + 1) - k = 1
        OBVIOUS
      <4> QED
        BY <2>2, <2>4, <3>2, <4>1
    <3> QED
      BY <3>1, <3>2
  <2> QED
    BY <2>4, <2>5 DEF v, Q
<1>6. \A i \in 1 .. n : p[i] = NL => i < n /\ p[i + 1] # NL
  BY DEF IsHead
<1>7. /\ a \in Seq(Token) /\ Len(a) = n + 1 /\ a[n + 1] = NL
      /\ \A i \in 1 .. n : a[i] = p[i]
  BY <1>2
<1>8. /\ q \in Seq(Token) /\ Len(q) = (n + 1) + m
      /\ \A i \in 1 .. (n + 1) + m : q[i] = IF i <= n + 1 THEN a[i] ELSE c[i - (n + 1)]
  <2> HIDE DEF a
  <2>1. /\ a \o c \in Seq(Token) /\ Len(a \o c) = Len(a) + Len(c)
        /\ \A i \in 1 .. Len(a) + Len(c) :
              (a \o c)[i] = IF i <= Len(a) THEN a[i] ELSE c[i - Len(a)]
    BY <1>1, <1>7, ConcatProperties, ZenonT(30)
  <2> QED
    BY <1>7, <2>1
<1>9. ASSUME NEW i \in 1 .. (n + 1) + m, q[i] = NL
      PROVE  i < (n + 1) + m /\ q[i + 1] # NL
  <2> HIDE DEF n, m, a, q
  <2>1. i <= n + 1
    <3> SUFFICES ASSUME ~(i <= n + 1) PROVE FALSE
      OBVIOUS
    <3>1. i - (n + 1) \in 1 .. m
      BY <1>1, <1>2
    <3> QED
      BY <1>1, <1>8, <1>9, <3>1
  <2>2. i < (n + 1) + m /\ i + 1 \in 1 .. (n + 1) + m
    BY <1>1, <1>2, <2>1
  <2>3. CASE i = n + 1
    <3>1. ~(i + 1 <= n + 1) /\ (i + 1) - (n + 1) = 1 /\ 1 \in 1 .. m
      BY <1>1, <1>2, <2>3
    <3> QED
      BY <1>1, <1>8, <2>2, <3>1
  <2>4. CASE i <= n
    <3>1. q[i] = p[i] /\ i \in 1 .. n
      BY <1>2, <1>7, <1>8, <2>1, <2>4
    <3>2. i < n /\ p[i + 1] # NL
      BY <1>6, <1>9, <3>1
    <3>3. i + 1 \in 1 .. n /\ i + 1 <= n + 1
      BY <1>2, <3>1, <3>2
    <3>4. q[i + 1] = p[i + 1]
      BY <1>7, <1>8, <2>2, <3>3
    <3> QED
      BY <2>2, <3>2, <3>4
  <2> QED
    BY <1>2, <2>1, <2>3, <2>4
<1>10. q # << >>
  BY <1>1, <1>2, <1>8
<1> QED
  BY <1>5, <1>8, <1>9, <1>10 DEF IsHead

LinesOK(n, lines, d) ==
    \A i \in 1 .. n : lines[i] \in Seq(Plain) /\ lines[i] # << >> /\ d[i] = lines[i] \o <<NL>>

LEMMA HeadIs ==
    ASSUME NEW n \in Nat, n # 0, NEW lines, NEW d, Len(d) = n, LinesOK(n, lines, d)
    PROVE  \E p : IsHead(p, lines, n) /\ FlattenSeq(d) = p \o <<NL>>
<1>0. PICK f : Joins(f, d, n)
  BY FlattenIs, Zenon
<1>1. /\ FlattenSeq(d) = f[n] /\ f[1] = d[1]
      /\ \A k \in Nat : k # 0 /\ k + 1 <= n => f[k + 1] = f[k] \o d[k + 1]
  BY <1>0 DEF Joins
<1> DEFINE E == {k \in Nat : k # 0 /\ k <= n => \E p : IsHead(p, lines, k) /\ f[k] = p \o <<NL>>}
<1>2. 0 \in E
  OBVIOUS
<1>3. ASSUME NEW k \in E PROVE k + 1 \in E
  <2> SUFFICES ASSUME k + 1 <= n
               PROVE  \E p : IsHead(p, lines, k + 1) /\ f[k + 1] = p \o <<NL>>
    <3>1. k + 1 \in Nat
      OBVIOUS
    <3> QED
      BY <3>1
  <2>1. CASE k = 0
    <3>1. 1 \in 1 .. n /\ k + 1 = 1
      BY <2>1
    <3>2. f[1] = lines[1] \o <<NL>> /\ IsHead(lines[1], lines, 1)
      BY <1>1, <3>1, HeadStart DEF LinesOK
    <3> QED
      BY <3>1, <3>2
  <2>2. CASE k # 0
    <3>1. k + 1 \in 1 .. n /\ k <= n /\ k \in Nat
      OBVIOUS
    <3>2. PICK p : IsHead(p, lines, k) /\ f[k] = p \o <<NL>>
      BY <2>2, <3>1
    <3> DEFINE c == lines[k + 1]
               q == (p \o <<NL>>) \o c
    <3>3. c \in Seq(Plain) /\ c # << >> /\ c = lines[k + 1] /\ d[k + 1] = c \o <<NL>>
      BY <3>1 DEF LinesOK
    <3> HIDE DEF c
    <3>4. IsHead(q, lines, k + 1)
      BY <3>1, <3>2, <3>3, HeadGrows
    <3>5. f[k + 1] = (p \o <<NL>>) \o (c \o <<NL>>)
      BY <1>1, <2>2, <3>1, <3>2, <3>3
    <3>6. q \o <<NL>> = (p \o <<NL>>) \o (c \o <<NL>>)
      <4> DEFINE a == p \o <<NL>>
                 w == <<NL>>
      <4>1. p \in Seq(Token)
        BY <3>2 DEF IsHead
      <4>2. a \in Seq(Token) /\ c \in Seq(Token) /\ w \in Seq(Token)
        <5>1. c \in Seq(Token)
          BY <3>3, PlainText
        <5>2. NL \in Token
          BY TokenAssumption
        <5> QED
          BY <4>1, <5>1, <5>2
      <4> HIDE DEF a, w
      <4>3. (a \o c) \o w = a \o (c \o w)
        BY <4>2, ConcatAssociative
      <4> QED
        BY <4>3 DEF a, w
    <3> QED
      BY <3>4, <3>5, <3>6
  <2> QED
    BY <2>1, <2>2
<1>4. E = Nat
  <2> HIDE DEF E
  <2>1. E \in SUBSET Nat
    BY DEF E
  <2> QED
    BY <1>2, <1>3, <2>1, Induct
<1>5. \E p : IsHead(p, lines, n) /\ f[n] = p \o <<NL>>
  <2>1. n \in E
    BY <1>4
  <2>2. n <= n
    OBVIOUS
  <2> QED
    BY <2>1, <2>2
<1>6. FlattenSeq(d) = f[n]
  BY <1>1
<1> QED
  BY <1>5, <1>6, Zenon

LEMMA One == ASSUME NEW T, NEW s \in Seq(T), NEW i \in 1 .. Len(s) PROVE SubSeq(s, i, i) = <<s[i]>>
<1> DEFINE a == SubSeq(s, i, i)
           b == <<s[i]>>
<1>1. Len(s) \in Nat /\ s[i] \in T
  OBVIOUS
<1>2. a \in Seq(T) /\ Len(a) = 1 /\ a[1] = s[i]
  BY <1>1
<1>3. b \in Seq(T) /\ Len(b) = 1 /\ b[1] = s[i]
  BY <1>1
<1> HIDE DEF a, b
<1>4. \A j \in 1 .. Len(a) : a[j] = b[j]
  BY <1>2, <1>3
<1>5. a = b
  BY <1>2, <1>3, <1>4, SeqEqual
<1> QED
  BY <1>5 DEF a, b

(***************************************************************************)
(* One line: a name, a colon, a space, a value.                            *)
(***************************************************************************)
LEMMA TrimTo ==
    ASSUME NEW T, NEW s \in Seq(T), NEW a \in 1 .. Len(s), NEW b \in a .. Len(s),
           s[a] # SP, s[b] # SP, \A i \in 1 .. Len(s) : i < a \/ i > b => s[i] = SP
    PROVE  TrimSpace(s) = SubSeq(s, a, b)
<1> DEFINE kept == {i \in DOMAIN s : s[i] # SP}
<1>1. Len(s) \in Nat /\ DOMAIN s = 1 .. Len(s)
  OBVIOUS
<1>2. /\ a \in kept /\ b \in kept /\ kept \in SUBSET Nat /\ kept \in SUBSET (0 .. Len(s))
      /\ \A i \in kept : a <= i /\ i <= b
  BY <1>1
<1>3. TrimSpace(s) = IF kept = {} THEN << >> ELSE SubSeq(s, Min(kept), Max(kept))
  BY DEF TrimSpace
<1> HIDE DEF kept
<1>4. Min(kept) \in kept /\ \A y \in kept : Min(kept) <= y
  BY <1>2, MinIs
<1>5. Max(kept) \in kept /\ \A y \in kept : Max(kept) >= y
  BY <1>1, <1>2, MaxIs
<1>6. a <= Min(kept) /\ Min(kept) <= a /\ b >= Max(kept) /\ Max(kept) >= b
  BY <1>2, <1>4, <1>5
<1>7. Min(kept) \in Nat /\ Max(kept) \in Nat /\ a \in Nat /\ b \in Nat
  BY <1>1, <1>2, <1>4, <1>5
<1>8. a = Min(kept) /\ b = Max(kept)
  BY <1>6, <1>7
<1> QED
  BY <1>2, <1>3, <1>8

LEMMA TrimIs ==
    ASSUME NEW T, NEW v \in Seq(T), Trimmed(v) PROVE TrimSpace(v) = v
<1>1. CASE v = << >>
  BY <1>1 DEF TrimSpace
<1>2. CASE v # << >>
  <2>1. Len(v) \in Nat \ {0} /\ 1 \in 1 .. Len(v) /\ Len(v) \in 1 .. Len(v)
    BY <1>2, EmptySeq
  <2>2. v[1] # SP /\ v[Len(v)] # SP
    BY <1>2, <2>1 DEF Trimmed, Last
  <2>3. \A i \in 1 .. Len(v) : ~(i < 1 \/ i > Len(v))
    BY <2>1
  <2>4. TrimSpace(v) = SubSeq(v, 1, Len(v))
    BY <2>1, <2>2, <2>3, TrimTo
  <2> QED
    BY <2>4, SubSeqFull
<1> QED
  BY <1>1, <1>2

LEMMA TrimSpaced ==
    ASSUME NEW T, SP \in T, NEW v \in Seq(T), Trimmed(v) PROVE TrimSpace(<<SP>> \o v) = v
<1> DEFINE w == <<SP>> \o v
           n == Len(v)
<1>1. /\ w \in Seq(T) /\ n \in Nat /\ Len(w) = n + 1 /\ w[1] = SP
      /\ \A i \in 1 .. n : w[i + 1] = v[i]
  OBVIOUS
<1>2. CASE v = << >>
  <2>1. n = 0
    BY <1>2
  <2>2. \A i \in DOMAIN w : i = 1
    BY <1>1, <2>1
  <2>3. \A i \in DOMAIN w : w[i] = SP
    BY <1>1, <2>2
  <2> HIDE DEF w
  <2> QED
    BY <1>2, <2>3 DEF TrimSpace
<1>3. CASE v # << >>
  <2>1. n \in Nat \ {0} /\ n \in 1 .. n
    BY <1>3, EmptySeq
  <2>2. v[1] # SP /\ v[n] # SP
    BY <1>3, <2>1 DEF Trimmed, Last
  <2> HIDE DEF w, n
  <2>3. /\ 2 \in 1 .. Len(w) /\ n + 1 \in 2 .. Len(w) /\ w[2] # SP /\ w[n + 1] # SP
        /\ \A i \in 1 .. Len(w) : i < 2 \/ i > n + 1 => w[i] = SP
    <3>1. 1 \in 1 .. n /\ 1 + 1 = 2
      BY <2>1
    <3> QED
      BY <1>1, <2>1, <2>2, <3>1
  <2>4. TrimSpace(w) = SubSeq(w, 2, n + 1)
    BY <1>1, <2>3, TrimTo
  <2>5. SubSeq(w, 2, n + 1) = v
    <3>1. /\ SubSeq(w, 1 + 1, 1 + n) \in Seq(T) /\ Len(SubSeq(w, 1 + 1, 1 + n)) = n
          /\ \A i \in 1 .. n : SubSeq(w, 1 + 1, 1 + n)[i] = w[1 + i]
      BY <1>1, Slice
    <3>2. 1 + 1 = 2 /\ 1 + n = n + 1 /\ \A i \in 1 .. n : 1 + i = i + 1
      BY <1>1
    <3>3. \A i \in 1 .. n : SubSeq(w, 2, n + 1)[i] = v[i]
      BY <1>1, <3>1, <3>2
    <3>4. SubSeq(w, 2, n + 1) \in Seq(T) /\ Len(SubSeq(w, 2, n + 1)) = Len(v)
      BY <3>1, <3>2 DEF n
    <3> QED
      BY <3>3, <3>4, SeqEqual DEF n
  <2> QED
    BY <2>4, <2>5 DEF w
<1> QED
  BY <1>2, <1>3

LEMMA LineRead ==
    ASSUME NEW key \in Token \ {NL, ":", SP}, NEW v \in Seq(Plain), Trimmed(v)
    PROVE  LET line == <<key, ":", SP>> \o v
           IN /\ line \in Seq(Plain) /\ line # << >>
              /\ Index(<<":">>, line) = 2
              /\ TrimSpace(SubSeq(line, 1, 2 - 1)) = <<key>>
              /\ TrimSpace(SubSeq(line, 2 + 1, Len(line))) = v
<1> DEFINE n    == Len(v)
           name == <<key, ":", SP>>
           line == name \o v
<1>1. key \in Plain /\ ":" \in Plain /\ SP \in Plain /\ key # ":" /\ key # SP
  BY TokenAssumption DEF Plain, NL, SP
<1>2. name \in Seq(Plain) /\ Len(name) = 3 /\ name[1] = key /\ name[2] = ":" /\ name[3] = SP
  BY <1>1
<1>3. /\ line \in Seq(Plain) /\ n \in Nat /\ Len(line) = 3 + n
      /\ \A i \in 1 .. 3 + n : line[i] = IF i <= 3 THEN name[i] ELSE v[i - 3]
  <2> HIDE DEF name
  <2>1. /\ name \o v \in Seq(Plain) /\ Len(name \o v) = Len(name) + Len(v)
        /\ \A i \in 1 .. Len(name) + Len(v) :
              (name \o v)[i] = IF i <= Len(name) THEN name[i] ELSE v[i - Len(name)]
    BY <1>2, ConcatProperties
  <2>2. Len(v) \in Nat
    OBVIOUS
  <2> QED
    BY <1>2, <2>1, <2>2
<1>4. /\ 1 \in 1 .. 3 + n /\ 2 \in 1 .. 3 + n /\ 3 \in 1 .. 3 + n
      /\ 1 <= 3 /\ 2 <= 3 /\ 3 <= 3
  BY <1>3
<1> HIDE DEF name, line, n
<1>5. line[1] = key /\ line[2] = ":" /\ line[3] = SP
  BY <1>2, <1>3, <1>4
<1>6. ASSUME NEW i \in 1 .. n PROVE line[3 + i] = v[i]
  <2>1. 3 + i \in 1 .. 3 + n /\ ~(3 + i <= 3) /\ (3 + i) - 3 = i
    BY <1>3
  <2> QED
    BY <1>3, <2>1
<1>7. line # << >>
  BY <1>3
<1>8. SubSeq(line, 1, 1) = <<key>> /\ SubSeq(line, 2, 2) = <<":">>
  <2>1. SubSeq(line, 1, 1) = <<line[1]>>
    BY <1>3, <1>4, One
  <2>2. SubSeq(line, 2, 2) = <<line[2]>>
    BY <1>3, <1>4, One
  <2> QED
    BY <1>5, <2>1, <2>2
<1>9. Index(<<":">>, line) = 2
  <2> DEFINE P == Places(<<":">>, line)
  <2>1. P = {i \in 1 .. 3 + n : SubSeq(line, i, i) = <<":">>}
    <3>1. Len(<<":">>) = 1 /\ (Len(line) - 1) + 1 = 3 + n
      BY <1>3
    <3>2. P = {i \in 1 .. (Len(line) - 1) + 1 : SubSeq(line, i, i + 1 - 1) = <<":">>}
      BY <3>1 DEF Places
    <3>3. \A i \in Int : i + 1 - 1 = i
      OBVIOUS
    <3> QED
      BY <3>1, <3>2, <3>3
  <2>2. <<key>> # <<":">>
    BY <1>1
  <2>3. 2 \in P /\ 1 \notin P /\ P \in SUBSET Nat
    BY <1>3, <1>4, <1>8, <2>1, <2>2
  <2> HIDE DEF P
  <2>4. Min(P) \in P /\ \A y \in P : Min(P) <= y
    BY <2>3, MinIs
  <2>5. Min(P) \in Nat /\ Min(P) # 1 /\ Min(P) <= 2 /\ Min(P) # 0
    BY <2>1, <2>3, <2>4
  <2>6. Min(P) = 2
    BY <2>5
  <2> QED
    BY <2>3, <2>6 DEF Index, P
<1>10. TrimSpace(<<key>>) = <<key>>
  <2>1. <<key>> \in Seq(Plain) /\ Trimmed(<<key>>)
    BY <1>1 DEF Trimmed, Last
  <2> QED
    BY <2>1, TrimIs
<1>11. SubSeq(line, 3, Len(line)) = <<SP>> \o v
  <2> DEFINE r == SubSeq(line, 3, Len(line))
             w == <<SP>> \o v
  <2>1. w \in Seq(Plain) /\ Len(w) = 1 + n /\ w[1] = SP /\ \A i \in 1 .. n : w[1 + i] = v[i]
    BY <1>1 DEF n
  <2>2. /\ SubSeq(line, 2 + 1, 2 + (1 + n)) \in Seq(Plain) /\ Len(SubSeq(line, 2 + 1, 2 + (1 + n))) = 1 + n
        /\ \A i \in 1 .. 1 + n : SubSeq(line, 2 + 1, 2 + (1 + n))[i] = line[2 + i]
    <3>1. 1 + n \in Nat /\ 2 + (1 + n) <= Len(line)
      BY <1>3
    <3> QED
      BY <1>3, <3>1, Slice
  <2>3. 2 + 1 = 3 /\ 2 + (1 + n) = Len(line)
    BY <1>3
  <2>4. r \in Seq(Plain) /\ Len(r) = 1 + n /\ \A i \in 1 .. 1 + n : r[i] = line[2 + i]
    BY <2>2, <2>3
  <2> HIDE DEF r, w
  <2>5. ASSUME NEW i \in 1 .. 1 + n PROVE r[i] = w[i]
    <3>1. CASE i = 1
      <4>1. 2 + 1 = 3
        OBVIOUS
      <4> QED
        BY <1>5, <2>1, <2>4, <3>1, <4>1
    <3>2. CASE i # 1
      <4> DEFINE j == i - 1
      <4>1. j \in 1 .. n /\ i = 1 + j /\ 2 + i = 3 + j
        BY <1>3, <3>2
      <4> HIDE DEF j
      <4> QED
        BY <1>6, <2>1, <2>4, <4>1
    <3> QED
      BY <3>1, <3>2
  <2>6. r = w
    BY <2>1, <2>4, <2>5, SeqEqual
  <2> QED
    BY <2>6 DEF r, w
<1>12. TrimSpace(<<SP>> \o v) = v
  BY <1>1, TrimSpaced
<1>13. 2 - 1 = 1 /\ 2 + 1 = 3
  OBVIOUS
<1>14. /\ TrimSpace(SubSeq(line, 1, 2 - 1)) = <<key>>
       /\ TrimSpace(SubSeq(line, 2 + 1, Len(line))) = v
  BY <1>8, <1>10, <1>11, <1>12, <1>13
<1> QED
  BY <1>3, <1>7, <1>9, <1>14 DEF line, name

\* The first empty line of a message is the one behind the headers.
Divided(m, p, body) ==
    /\ Index(<<NL, NL>>, m) = Len(p) + 1
    /\ SubSeq(m, 1, (Len(p) + 1) - 1) = p
    /\ SubSeq(m, (Len(p) + 1) + 2, Len(m)) = body

LEMMA MessageRead ==
    ASSUME NEW k \in Nat, NEW lines, NEW p, IsHead(p, lines, k), NEW body \in Seq(Token)
    PROVE  Divided(((p \o <<NL>>) \o <<NL>>) \o body, p, body)
<1> DEFINE n == Len(p)
           b == Len(body)
           h == (p \o <<NL>>) \o <<NL>>
           m == h \o body
<1>1. /\ p \in Seq(Token) /\ n \in Nat /\ b \in Nat /\ NL \in Token
      /\ \A i \in 1 .. n : p[i] = NL => i < n /\ p[i + 1] # NL
  <2>1. p \in Seq(Token) /\ \A i \in 1 .. Len(p) : p[i] = NL => i < Len(p) /\ p[i + 1] # NL
    BY DEF IsHead
  <2>2. NL \in Token
    BY TokenAssumption
  <2> QED
    BY <2>1, <2>2
<1>2. /\ h \in Seq(Token) /\ Len(h) = n + 2 /\ h[n + 1] = NL /\ h[n + 2] = NL
      /\ \A i \in 1 .. n : h[i] = p[i]
  <2> DEFINE a == p \o <<NL>>
  <2>1. a \in Seq(Token) /\ Len(a) = n + 1 /\ a[n + 1] = NL /\ \A i \in 1 .. n : a[i] = p[i]
    BY <1>1
  <2> HIDE DEF a, n
  <2>2. /\ a \o <<NL>> \in Seq(Token) /\ Len(a \o <<NL>>) = (n + 1) + 1
        /\ (a \o <<NL>>)[(n + 1) + 1] = NL
        /\ \A i \in 1 .. n + 1 : (a \o <<NL>>)[i] = a[i]
    BY <1>1, <2>1
  <2>3. (n + 1) + 1 = n + 2 /\ n + 1 \in 1 .. n + 1 /\ \A i \in 1 .. n : i \in 1 .. n + 1
    BY <1>1
  <2> QED
    BY <2>1, <2>2, <2>3 DEF a
<1> HIDE DEF h
<1>3. /\ m \in Seq(Token) /\ Len(m) = (n + 2) + b
      /\ \A i \in 1 .. (n + 2) + b : m[i] = IF i <= n + 2 THEN h[i] ELSE body[i - (n + 2)]
  <2>1. /\ h \o body \in Seq(Token) /\ Len(h \o body) = Len(h) + Len(body)
        /\ \A i \in 1 .. Len(h) + Len(body) :
              (h \o body)[i] = IF i <= Len(h) THEN h[i] ELSE body[i - Len(h)]
    BY <1>2, ConcatProperties
  <2> QED
    BY <1>2, <2>1
<1> HIDE DEF m, n, b
<1>4. /\ m[n + 1] = NL /\ m[n + 2] = NL
      /\ \A i \in 1 .. n : m[i] = p[i]
      /\ \A i \in 1 .. b : m[(n + 2) + i] = body[i]
  <2>1. n + 1 \in 1 .. (n + 2) + b /\ n + 1 <= n + 2 /\ n + 2 \in 1 .. (n + 2) + b /\ n + 2 <= n + 2
    BY <1>1
  <2>2. \A i \in 1 .. n : i \in 1 .. (n + 2) + b /\ i <= n + 2
    BY <1>1
  <2>3. \A i \in 1 .. b : /\ (n + 2) + i \in 1 .. (n + 2) + b /\ ~((n + 2) + i <= n + 2)
                          /\ ((n + 2) + i) - (n + 2) = i
    BY <1>1
  <2> QED
    BY <1>2, <1>3, <2>1, <2>2, <2>3
<1>5. Index(<<NL, NL>>, m) = n + 1
  <2> DEFINE P == Places(<<NL, NL>>, m)
  <2>1. P = {i \in 1 .. (n + 1) + b : SubSeq(m, i, i + 2 - 1) = <<NL, NL>>}
    <3>1. Len(<<NL, NL>>) = 2 /\ (Len(m) - 2) + 1 = (n + 1) + b
      BY <1>1, <1>3
    <3> QED
      BY <3>1 DEF Places
  <2>2. ASSUME NEW i \in 1 .. (n + 1) + b
        PROVE  SubSeq(m, i, i + 2 - 1) = <<NL, NL>> <=> m[i] = NL /\ m[i + 1] = NL
    <3> DEFINE s == SubSeq(m, i, i + 2 - 1)
    <3>1. i \in 1 .. Len(m) /\ i + 1 \in 1 .. Len(m) /\ i + 2 - 1 = i + 1
      BY <1>1, <1>3
    <3>2. s \in Seq(Token) /\ Len(s) = 2 /\ s[1] = m[i] /\ s[2] = m[i + 1]
      BY <1>3, <3>1
    <3> HIDE DEF s
    <3>3. s = <<s[1], s[2]>>
      BY <3>2
    <3>4. \A x, y : <<x, y>> = <<NL, NL>> <=> x = NL /\ y = NL
      OBVIOUS
    <3> QED
      BY <3>2, <3>3, <3>4 DEF s
  <2>3. n + 1 \in P
    <3>1. n + 1 \in 1 .. (n + 1) + b /\ (n + 1) + 1 = n + 2
      BY <1>1
    <3> QED
      BY <1>4, <2>1, <2>2, <3>1
  <2>4. ASSUME NEW i \in P PROVE n + 1 <= i
    <3> SUFFICES ASSUME ~(n + 1 <= i) PROVE FALSE
      OBVIOUS
    <3>1. i \in 1 .. (n + 1) + b /\ m[i] = NL /\ m[i + 1] = NL
      BY <2>1, <2>2
    <3> HIDE DEF P
    <3>2. i \in 1 .. n
      BY <1>1, <3>1
    <3>3. i < n /\ p[i + 1] # NL
      BY <1>1, <1>4, <3>1, <3>2
    <3>4. i + 1 \in 1 .. n
      BY <1>1, <3>2, <3>3
    <3> QED
      BY <1>4, <3>1, <3>3, <3>4
  <2> HIDE DEF P
  <2>5. P \in SUBSET Nat
    <3>1. \A i \in P : i \in 1 .. (n + 1) + b
      BY <2>1
    <3> QED
      BY <1>1, <3>1
  <2>6. Min(P) \in P /\ \A y \in P : Min(P) <= y
    BY <2>3, <2>5, MinIs
  <2>7. Min(P) \in Nat /\ n + 1 <= Min(P) /\ Min(P) <= n + 1
    BY <2>3, <2>4, <2>5, <2>6
  <2>8. Min(P) = n + 1
    BY <1>1, <2>7
  <2> QED
    BY <2>3, <2>8 DEF Index, P
<1>6. SubSeq(m, 1, (n + 1) - 1) = p
  <2> DEFINE r == SubSeq(m, 1, (n + 1) - 1)
  <2>1. (n + 1) - 1 = n /\ n \in 0 .. Len(m)
    BY <1>1, <1>3
  <2>2. r \in Seq(Token) /\ Len(r) = n /\ \A i \in 1 .. n : r[i] = m[i]
    BY <1>3, <2>1, Cut
  <2> HIDE DEF r
  <2>3. r = p
    BY <1>1, <1>4, <2>2, SeqEqual DEF n
  <2> QED
    BY <2>3 DEF r
<1>7. SubSeq(m, (n + 1) + 2, Len(m)) = body
  <2> DEFINE r == SubSeq(m, (n + 1) + 2, Len(m))
             a == n + 2
  <2>1. a \in Nat /\ a + b <= Len(m) /\ a + 1 = (n + 1) + 2 /\ a + b = Len(m)
    BY <1>1, <1>3
  <2>2. \A i \in 1 .. b : m[a + i] = body[i]
    BY <1>4
  <2> HIDE DEF a
  <2>3. /\ SubSeq(m, a + 1, a + b) \in Seq(Token) /\ Len(SubSeq(m, a + 1, a + b)) = b
        /\ \A i \in 1 .. b : SubSeq(m, a + 1, a + b)[i] = m[a + i]
    BY <1>1, <1>3, <2>1, Slice
  <2>4. r \in Seq(Token) /\ Len(r) = b /\ \A i \in 1 .. b : r[i] = body[i]
    BY <2>1, <2>2, <2>3
  <2> HIDE DEF r
  <2>5. r = body
    BY <2>4, SeqEqual DEF b
  <2> QED
    BY <2>5 DEF r
<1> QED
  BY <1>5, <1>6, <1>7 DEF m, h, n, Divided

\* Whoever walks a map meets every key.
LEMMA OrderCovers ==
    ASSUME NEW S, IsFiniteSet(S), NEW order \in SetToSeqs(S)
    PROVE  /\ Cardinality(S) \in Nat /\ order \in [1 .. Cardinality(S) -> S]
           /\ \A x \in S : \E i \in 1 .. Cardinality(S) : order[i] = x
<1> DEFINE n == Cardinality(S)
           D == 1 .. n
<1>1. n \in Nat
  BY FS_CardinalityType
<1>2. order \in [D -> S] /\ \A i, j \in D : i # j => order[i] # order[j]
  BY DEF SetToSeqs
<1>3. order \in Injection(D, S)
  BY <1>2 DEF Injection, IsInjective
<1>4. Cardinality(D) = n
  <2>1. Cardinality(1 .. n) = IF 1 > n THEN 0 ELSE n - 1 + 1
    BY <1>1, FS_Interval
  <2> HIDE DEF n
  <2> QED
    BY <1>1, <2>1
<1>5. order \in Surjection(D, S)
  BY <1>3, <1>4, FS_Injection
<1> QED
  BY <1>1, <1>2, <1>5 DEF Surjection

\* The headers that a message carries.
HeadersOK(all) ==
    /\ IsFiniteSet(DOMAIN all)
    /\ \A key \in DOMAIN all : /\ key \in Token \ {NL, ":", SP}
                              /\ all[key] \in Seq(Plain) /\ Trimmed(all[key])

LineOf(all, key) == <<key, ":", SP>> \o all[key]

\* All of them are walked, each in its place.
Walked(order, n, all) ==
    /\ order \in [1 .. n -> DOMAIN all]
    /\ \A x \in DOMAIN all : \E i \in 1 .. n : order[i] = x

\* What is to be read: the value of the id among the headers, and the body.
Expected(all, body) ==
    IF body = << >> THEN Unparsed
    ELSE [id |-> IF "PsyResponseID" \in DOMAIN all THEN all["PsyResponseID"] ELSE << >>,
          payload |-> body]

LEMMA ParseRead ==
    ASSUME NEW n \in Nat, n # 0, NEW all, HeadersOK(all), NEW order, Walked(order, n, all), NEW C,
           C = [i \in 1 .. n |-> LineOf(all, order[i])],
           NEW p, IsHead(p, C, n), NEW body \in Seq(Token)
    PROVE  parseMessage(((p \o <<NL>>) \o <<NL>>) \o body) = Expected(all, body)
<1> DEFINE m     == ((p \o <<NL>>) \o <<NL>>) \o body
           index == Index(<<NL, NL>>, m)
           lines == Split(SubSeq(m, 1, index - 1), NL)
           Colon(i) == Index(<<":">>, lines[i])
           Key(i)   == TrimSpace(SubSeq(lines[i], 1, Colon(i) - 1))
           Value(i) == TrimSpace(SubSeq(lines[i], Colon(i) + 1, Len(lines[i])))
           ids      == {i \in DOMAIN lines : Colon(i) # 0 /\ Key(i) = <<"PsyResponseID">>}
           payload  == SubSeq(m, index + 2, Len(m))
<1>1. parseMessage(m) =
         IF index = 0 \/ ~IsJSON(payload) THEN Unparsed
         ELSE [id |-> IF ids = {} THEN << >> ELSE Value(Max(ids)), payload |-> payload]
  BY DEF parseMessage
<1>2. IsHead(p, C, n)
  OBVIOUS
<1>3. index = Len(p) + 1 /\ SubSeq(m, 1, index - 1) = p /\ payload = body
  <2>1. Divided(m, p, body)
    BY <1>2, MessageRead, Zenon
  <2> HIDE DEF m
  <2> QED
    BY <2>1 DEF Divided
<1> HIDE DEF m, payload
<1>4. index # 0
  <2>1. Len(p) \in Nat
    BY <1>2 DEF IsHead
  <2> QED
    BY <1>3, <2>1
<1> HIDE DEF index
<1>5. DOMAIN lines = 1 .. n /\ \A i \in 1 .. n : lines[i] = C[i]
  <2>1. lines = Split(p, NL)
    BY <1>3
  <2>2. /\ Split(p, NL) \in Seq(Seq(Token)) /\ Len(Split(p, NL)) = n
        /\ \A i \in 1 .. n : Split(p, NL)[i] = C[i]
    BY <1>2 DEF IsHead
  <2> HIDE DEF lines
  <2>3. DOMAIN lines = 1 .. Len(lines)
    BY <2>1, <2>2
  <2> QED
    BY <2>1, <2>2, <2>3
<1> HIDE DEF lines
<1>6. ASSUME NEW i \in 1 .. n
      PROVE  Colon(i) = 2 /\ Key(i) = <<order[i]>> /\ Value(i) = all[order[i]]
  <2> DEFINE key  == order[i]
             v    == all[key]
             line == <<key, ":", SP>> \o v
  <2>1. key \in DOMAIN all
    BY DEF Walked
  <2>2. key \in Token \ {NL, ":", SP} /\ v \in Seq(Plain) /\ Trimmed(v)
    BY <2>1 DEF HeadersOK
  <2>3. lines[i] = line
    BY <1>5 DEF LineOf
  <2> HIDE DEF key, v
  <2>4. /\ Index(<<":">>, line) = 2
        /\ TrimSpace(SubSeq(line, 1, 2 - 1)) = <<key>>
        /\ TrimSpace(SubSeq(line, 2 + 1, Len(line))) = v
    BY <2>2, LineRead
  <2> HIDE DEF line
  <2>5. Colon(i) = 2
    BY <2>3, <2>4, Zenon
  <2>6. Key(i) = <<key>> /\ Value(i) = v
    BY <2>3, <2>4, <2>5, Zenon
  <2> QED
    BY <2>5, <2>6 DEF key, v
<1> HIDE DEF Colon, Key, Value
<1>7. ids = {i \in 1 .. n : order[i] = "PsyResponseID"}
  <2>1. \A i \in 1 .. n : Colon(i) # 0 /\ Key(i) = <<"PsyResponseID">> <=> order[i] = "PsyResponseID"
    BY <1>6
  <2> QED
    BY <1>5, <2>1
<1> HIDE DEF ids
<1>8. CASE "PsyResponseID" \in DOMAIN all
  <2>1. ids # {}
    BY <1>7, <1>8 DEF Walked
  <2>2. ids \in SUBSET (0 .. n)
    BY <1>7
  <2>3. Max(ids) \in ids
    BY <2>1, <2>2, MaxIs
  <2>4. Value(Max(ids)) = all["PsyResponseID"]
    BY <1>6, <1>7, <2>3
  <2> QED
    BY <1>1, <1>3, <1>4, <1>8, <2>1, <2>4 DEF m, IsJSON, Expected
<1>9. CASE "PsyResponseID" \notin DOMAIN all
  <2>1. ids = {}
    BY <1>7, <1>9 DEF Walked
  <2> QED
    BY <1>1, <1>3, <1>4, <1>9, <2>1 DEF m, IsJSON, Expected
<1> QED
  BY <1>8, <1>9

LEMMA MessageSurvives ==
    ASSUME NEW headers \in HeaderMaps, NEW body \in Bodies, NEW m \in buildMessages(headers, body)
    PROVE  parseMessage(m) = Expected(headers, body)
<1> DEFINE signed == [key \in DOMAIN headers \cup {"PsySig"} |->
                         IF key = "PsySig" THEN <<"signature">> ELSE headers[key]]
           all    == IF body = << >> THEN headers ELSE signed
           Line(key) == <<key, ":", SP>> \o all[key] \o <<NL>>
           D      == DOMAIN all
           n      == Cardinality(D)
<1>1. PICK order \in SetToSeqs(D) :
         m = FlattenSeq([i \in DOMAIN order |-> Line(order[i])]) \o <<NL>> \o body
  BY DEF buildMessages
<1>2. HeadersOK(headers)
  BY TextAssumption DEF HeadersOK, Plain
<1>3. HeadersOK(signed)
  <2>1. DOMAIN signed = DOMAIN headers \cup {"PsySig"}
    OBVIOUS
  <2>2. IsFiniteSet(DOMAIN signed)
    BY <1>2, <2>1, FS_AddElement DEF HeadersOK
  <2>3. "PsySig" \in Token \ {NL, ":", SP} /\ "signature" \in Plain /\ "signature" # SP
    BY TokenAssumption DEF NL, SP, Plain
  <2>4. <<"signature">> \in Seq(Plain) /\ Trimmed(<<"signature">>)
    BY <2>3 DEF Trimmed, Last
  <2>5. ASSUME NEW key \in DOMAIN signed
        PROVE  key \in Token \ {NL, ":", SP} /\ signed[key] \in Seq(Plain) /\ Trimmed(signed[key])
    <3>1. CASE key = "PsySig"
      BY <2>3, <2>4, <3>1
    <3>2. CASE key # "PsySig"
      <4>1. key \in DOMAIN headers /\ signed[key] = headers[key]
        BY <3>2
      <4> QED
        BY <1>2, <4>1 DEF HeadersOK
    <3> QED
      BY <3>1, <3>2
  <2> QED
    BY <2>2, <2>5 DEF HeadersOK
<1>4. HeadersOK(all) /\ body \in Seq(Token)
  BY <1>2, <1>3, TextAssumption
<1>5. body # << >> => D # {}
  OBVIOUS
<1>6. Expected(all, body) = Expected(headers, body)
  BY DEF Expected
<1> HIDE DEF all
<1>7. n \in Nat /\ Walked(order, n, all)
  <2>1. IsFiniteSet(D)
    BY <1>4 DEF HeadersOK
  <2> QED
    BY <1>1, <2>1, OrderCovers DEF Walked
<1>8. CASE n = 0
  <2>1. body = << >>
    <3>1. 1 .. n = {}
      BY <1>8
    <3> HIDE DEF n
    <3>2. D = {}
      BY <1>7, <3>1 DEF Walked
    <3> QED
      BY <1>5, <3>2
  <2>2. DOMAIN order = 1 .. 0 /\ 1 .. 0 = {}
    BY <1>7, <1>8 DEF Walked
  <2> DEFINE d == [i \in DOMAIN order |-> Line(order[i])]
  <2>3. d = << >>
    BY <2>2
  <2>4. FlattenSeq(<< >>) = << >>
    BY DEF FlattenSeq
  <2>5. m = << >> \o <<NL>> \o << >>
    BY <1>1, <2>1, <2>3, <2>4
  <2>6. Len(m) = 1 /\ Len(<<NL, NL>>) = 2
    BY <2>5
  <2>7. Index(<<NL, NL>>, m) = 0
    <3>1. 1 .. (Len(m) - Len(<<NL, NL>>)) + 1 = {}
      BY <2>6
    <3>2. Places(<<NL, NL>>, m) = {}
      BY <3>1 DEF Places
    <3> QED
      BY <3>2 DEF Index
  <2> QED
    BY <2>1, <2>7 DEF parseMessage, Expected
<1>9. CASE n # 0
  <2> DEFINE d == [i \in DOMAIN order |-> Line(order[i])]
             C == [i \in 1 .. n |-> LineOf(all, order[i])]
  <2>1. DOMAIN order = 1 .. n
    BY <1>7 DEF Walked
  <2>2. ASSUME NEW i \in 1 .. n
        PROVE  C[i] \in Seq(Plain) /\ C[i] # << >> /\ d[i] = C[i] \o <<NL>>
    <3> DEFINE key == order[i]
               v   == all[key]
    <3>1. key \in D
      BY <1>7 DEF Walked
    <3>2. key \in Token \ {NL, ":", SP} /\ v \in Seq(Plain) /\ Trimmed(v)
      BY <1>4, <3>1 DEF HeadersOK
    <3>3. C[i] = <<key, ":", SP>> \o v /\ d[i] = <<key, ":", SP>> \o v \o <<NL>>
      BY <2>1 DEF LineOf
    <3> HIDE DEF key, v
    <3>4. <<key, ":", SP>> \o v \in Seq(Plain) /\ <<key, ":", SP>> \o v # << >>
      BY <3>2, LineRead
    <3> QED
      BY <3>3, <3>4
  <2>3. Len(d) = n
    BY <1>7, <2>1
  <2> HIDE DEF d, C
  <2>4. PICK p : IsHead(p, C, n) /\ FlattenSeq(d) = p \o <<NL>>
    <3>1. LinesOK(n, C, d)
      BY <2>2 DEF LinesOK
    <3> QED
      BY <1>7, <1>9, <2>3, <3>1, HeadIs, Zenon
  <2>5. m = ((p \o <<NL>>) \o <<NL>>) \o body
    BY <1>1, <2>4 DEF d
  <2>6. C = [i \in 1 .. n |-> LineOf(all, order[i])]
    BY DEF C
  <2> HIDE DEF D, n
  <2>7. parseMessage(((p \o <<NL>>) \o <<NL>>) \o body) = Expected(all, body)
    BY <1>4, <1>7, <1>9, <2>4, <2>6, ParseRead, Zenon
  <2> QED
    BY <1>6, <2>5, <2>7
<1> QED
  BY <1>7, <1>8, <1>9

(***************************************************************************)
(* The id of a player.                                                     *)
(***************************************************************************)
\* There is one part if there is no separator.
LEMMA OnePart ==
    ASSUME NEW T, NEW c \in T, NEW s \in Seq(T)
    PROVE  /\ Len(Split(s, c)) \in Nat \ {0}
           /\ c \notin ToSet(s) => Split(s, c) = <<s>>
           /\ c \in ToSet(s) => Len(Split(s, c)) # 1
<1>1. Len(s) \in Nat /\ DOMAIN s = 1 .. Len(s) /\ \A i \in 1 .. Len(s) : s[i] \in T
  OBVIOUS
<1>2. \A r \in Seq(T) : Len(Split(r, c)) \in Nat \ {0}
  <2> SUFFICES ASSUME NEW r \in Seq(T) PROVE Len(Split(r, c)) \in Nat \ {0}
    OBVIOUS
  <2>1. Split(r, c) \in Seq(Seq(T)) /\ Split(r, c) # << >>
    BY SplitType
  <2> QED
    BY <2>1, EmptySeq
<1>3. ASSUME c \notin ToSet(s) PROVE Split(s, c) = <<s>>
  <2>1. \A i \in 1 .. Len(s) : s[i] \in T \ {c}
    BY <1>1, <1>3 DEF ToSet
  <2>2. s \in Seq(T \ {c})
    BY <1>1, <2>1
  <2> QED
    BY <2>2, SplitWhole
<1>4. ASSUME c \in ToSet(s) PROVE Len(Split(s, c)) # 1
  <2>1. PICK i \in 1 .. Len(s) : s[i] = c
    BY <1>1, <1>4 DEF ToSet
  <2> DEFINE n == Len(s)
             a == SubSeq(s, 1, i - 1)
             b == SubSeq(s, i + 1, n)
  <2>2. a \in Seq(T) /\ b \in Seq(T)
    BY <1>1, <2>1
  <2>3. s = (a \o <<c>>) \o b
    <3>1. SubSeq(s, 1, i - 1) \o <<s[i]>> = SubSeq(s, 1, i)
      BY <1>1, SubSeqRecursiveSecond
    <3>2. SubSeq(s, 1, i) \o SubSeq(s, i + 1, n) = SubSeq(s, 1, n)
      <4>1. 1 \in 1 .. n + 1 /\ i \in 1 - 1 .. n /\ n \in i .. n
        BY <1>1, <2>1
      <4> QED
        BY <4>1, ConcatAdjacentSubSeq
    <3>3. SubSeq(s, 1, n) = s
      BY SubSeqFull
    <3> QED
      BY <2>1, <3>1, <3>2, <3>3
  <2> HIDE DEF a, b
  <2>4. Split((a \o <<c>>) \o b, c) = Split(a, c) \o Split(b, c)
    BY <2>2, SplitAt
  <2>5. Split(a, c) \in Seq(Seq(T)) /\ Split(b, c) \in Seq(Seq(T))
    BY <2>2, SplitType
  <2>6. Len(Split(a, c) \o Split(b, c)) = Len(Split(a, c)) + Len(Split(b, c))
    BY <2>5, ConcatProperties
  <2>7. Len(Split(a, c)) \in Nat \ {0} /\ Len(Split(b, c)) \in Nat \ {0}
    BY <1>2, <2>2
  <2>8. Len(Split(s, c)) = Len(Split(a, c)) + Len(Split(b, c))
    BY <2>3, <2>4, <2>6
  <2> QED
    BY <2>7, <2>8
<1> QED
  BY <1>2, <1>3, <1>4

LEMMA Three ==
    ASSUME NEW Q, NEW x \in Q, NEW y \in Q, NEW z \in Q
    PROVE  <<x>> \o (<<y>> \o <<z>>) = <<x, y, z>>
<1> DEFINE s == <<y>> \o <<z>>
           t == <<x>> \o s
           u == <<x, y, z>>
<1>1. s \in Seq(Q) /\ Len(s) = 2 /\ s[1] = y /\ s[2] = z
  OBVIOUS
<1> HIDE DEF s
<1>2. t \in Seq(Q) /\ Len(t) = 3 /\ t[1] = x /\ t[2] = y /\ t[3] = z
  <2> DEFINE r == <<x>>
  <2>1. r \in Seq(Q) /\ Len(r) = 1 /\ r[1] = x
    OBVIOUS
  <2> HIDE DEF r
  <2>2. /\ r \o s \in Seq(Q) /\ Len(r \o s) = Len(r) + Len(s)
        /\ \A i \in 1 .. Len(r) + Len(s) : (r \o s)[i] = IF i <= Len(r) THEN r[i] ELSE s[i - Len(r)]
    BY <1>1, <2>1, ConcatProperties
  <2>3. 1 \in 1 .. 3 /\ 2 \in 1 .. 3 /\ 3 \in 1 .. 3 /\ 2 - 1 = 1 /\ 3 - 1 = 2 /\ 1 + 2 = 3
    OBVIOUS
  <2> QED
    BY <1>1, <2>1, <2>2, <2>3 DEF r
<1>3. u \in Seq(Q) /\ Len(u) = 3 /\ u[1] = x /\ u[2] = y /\ u[3] = z
  OBVIOUS
<1> HIDE DEF t, u
<1>4. \A i \in 1 .. Len(t) : t[i] = u[i]
  BY <1>2, <1>3
<1>5. t = u
  BY <1>2, <1>3, <1>4, SeqEqual
<1> QED
  BY <1>5 DEF s, t, u

LEMMA PlayerSurvives ==
    ASSUME NEW platform \in Platforms, NEW id \in Ids
    PROVE  ParsePlayerID(NewPlayerID(platform, id)) =
              IF "|" \in ToSet(id) THEN << >> ELSE << <<platform>>, id>>
<1> DEFINE a == <<platform>>
           q == Split(id, "|")
           t == (id \o <<"|">>) \o <<"0">>
           w == NewPlayerID(platform, id)
<1>1. /\ platform \in Token \ {"|"} /\ id \in Seq(Token) /\ "|" \in Token
      /\ "0" \in Token \ {"|"}
  BY TokenAssumption, TextAssumption
<1>2. a \in Seq(Token \ {"|"}) /\ <<"0">> \in Seq(Token \ {"|"}) /\ a \in Seq(Token) /\ <<"0">> \in Seq(Token)
  BY <1>1
<1>3. t \in Seq(Token)
  BY <1>1, <1>2
<1>4. w = (a \o <<"|">>) \o t
  <2>1. <<platform, "|">> = a \o <<"|">>
    BY <1>1
  <2>2. <<"|", "0">> = <<"|">> \o <<"0">>
    BY <1>1
  <2> DEFINE h == a \o <<"|">>
             b == <<"|">>
             z == <<"0">>
  <2>3. h \in Seq(Token) /\ b \in Seq(Token) /\ z \in Seq(Token)
    BY <1>1, <1>2
  <2>4. w = (h \o id) \o (b \o z)
    BY <2>1, <2>2 DEF NewPlayerID
  <2> HIDE DEF a, h, b, z
  <2>5. (h \o id) \o (b \o z) = h \o (id \o (b \o z))
    <3> DEFINE u == b \o z
    <3>1. u \in Seq(Token)
      BY <2>3, ConcatProperties
    <3> HIDE DEF u
    <3>2. (h \o id) \o u = h \o (id \o u)
      BY <1>1, <2>3, <3>1, ConcatAssociative, SMTT(30)
    <3> QED
      BY <3>2 DEF u
  <2>6. (id \o b) \o z = id \o (b \o z)
    BY <1>1, <2>3, ConcatAssociative
  <2> QED
    BY <2>4, <2>5, <2>6 DEF h, b, z
<1>5. Split(t, "|") = q \o << <<"0">> >>
  <2>1. Split(t, "|") = q \o Split(<<"0">>, "|")
    BY <1>1, <1>2, SplitAt
  <2>2. Split(<<"0">>, "|") = << <<"0">> >>
    BY <1>2, SplitWhole
  <2> QED
    BY <2>1, <2>2
<1>6. Split(a, "|") = <<a>>
  BY <1>2, SplitWhole
<1> HIDE DEF t
<1>7. Split(w, "|") = <<a>> \o (q \o << <<"0">> >>)
  <2>1. Split((a \o <<"|">>) \o t, "|") = Split(a, "|") \o Split(t, "|")
    BY <1>1, <1>2, <1>3, SplitAt, ZenonT(30)
  <2> QED
    BY <1>4, <1>5, <1>6, <2>1
<1>8. /\ q \in Seq(Seq(Token)) /\ Len(q) \in Nat \ {0}
      /\ "|" \notin ToSet(id) => q = <<id>>
      /\ "|" \in ToSet(id) => Len(q) # 1
  BY <1>1, SplitType, OnePart
<1> HIDE DEF q, w, a
<1>9. <<a>> \in Seq(Seq(Token)) /\ << <<"0">> >> \in Seq(Seq(Token))
  BY <1>2
<1>10. CASE "|" \notin ToSet(id)
  <2>1. Split(w, "|") = <<a, id, <<"0">> >>
    <3> DEFINE Q == Seq(Token)
               z == <<"0">>
    <3>1. a \in Q /\ id \in Q /\ z \in Q
      BY <1>1, <1>2
    <3> HIDE DEF Q, z
    <3>2. <<a>> \o (<<id>> \o <<z>>) = <<a, id, z>>
      BY <3>1, Three
    <3> QED
      BY <1>7, <1>8, <1>10, <3>2 DEF z
  <2> QED
    BY <1>10, <2>1 DEF ParsePlayerID, a, w
<1>11. CASE "|" \in ToSet(id)
  <2> DEFINE Q == Seq(Token)
             e == <<a>>
             z == << <<"0">> >>
  <2>1. e \in Seq(Q) /\ z \in Seq(Q) /\ q \in Seq(Q) /\ Len(e) = 1 /\ Len(z) = 1
    BY <1>8, <1>9
  <2> HIDE DEF Q, e, z
  <2>2. q \o z \in Seq(Q) /\ Len(q \o z) = Len(q) + Len(z)
    BY <2>1, ConcatProperties
  <2>3. Len(e \o (q \o z)) = Len(e) + Len(q \o z)
    BY <2>1, <2>2, ConcatProperties
  <2>4. Len(Split(w, "|")) = 1 + (Len(q) + 1)
    BY <1>7, <2>1, <2>2, <2>3 DEF e, z
  <2>5. Len(q) \in Nat /\ Len(q) # 1
    BY <1>8, <1>11
  <2>6. Len(Split(w, "|")) # 3
    <3>1. \A k \in Nat : k # 1 => 1 + (k + 1) # 3
      OBVIOUS
    <3> QED
      BY <2>4, <2>5, <3>1, Zenon
  <2> QED
    BY <1>11, <2>6 DEF ParsePlayerID, w
<1> QED
  BY <1>10, <1>11

(***************************************************************************)
(* The text never changes.                                                 *)
(***************************************************************************)
LEMMA TextInit == FormatsInit => RoundTrip
<1> SUFFICES ASSUME FormatsInit PROVE RoundTrip
  OBVIOUS
<1>1. text = NoText \/ text \in Messages \/ text \in PlayerIDs
  BY DEF FormatsInit
<1>2. CASE text = NoText
  BY <1>2 DEF RoundTrip, NoText
<1>3. CASE text \in Messages
  <2>1. PICK headers \in HeaderMaps, body \in Bodies : text \in Built(headers, body)
    BY <1>3 DEF Messages
  <2>2. PICK m \in buildMessages(headers, body) :
           text = [kind |-> "message", of |-> <<headers, body>>, is |-> m]
    BY <2>1 DEF Built
  <2>3. text.kind = "message" /\ text.of[1] = headers /\ text.of[2] = body /\ text.is = m
    BY <2>2
  <2> QED
    BY <2>3, MessageSurvives DEF RoundTrip, Expected
<1>4. CASE text \in PlayerIDs
  <2>1. PICK platform \in Platforms, id \in Ids :
           text = [kind |-> "player", of |-> <<platform, id>>, is |-> NewPlayerID(platform, id)]
    BY <1>4 DEF PlayerIDs
  <2>2. /\ text.kind = "player" /\ text.of[1] = platform /\ text.of[2] = id
        /\ text.is = NewPlayerID(platform, id)
    BY <2>1
  <2> QED
    BY <2>2, PlayerSurvives DEF RoundTrip
<1> QED
  BY <1>1, <1>2, <1>3, <1>4

\* Whatever its headers, their order and the body, a message is parsed to its id and its body,
\* and the id of a player to platform and id (psynetrpc.go:94-148, playerid.go:29-41).
THEOREM TextsSurvive == FormatsSpec => []RoundTrip
<1>1. RoundTrip /\ [FormatsNext]_allVars => RoundTrip'
  <2>1. [FormatsNext]_allVars => text' = text
    BY DEF FormatsNext, Rests, allVars
  <2> QED
    BY <2>1 DEF RoundTrip
<1> QED
  BY TextInit, <1>1, PTL DEF FormatsSpec
================================================================================
