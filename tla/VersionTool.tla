------------------------------ MODULE VersionTool ------------------------------
(***************************************************************************)
(* tools/version: a command that scans a game binary for the build id and  *)
(* for the newest feature set named in it. The sizes are scaled down: a    *)
(* cell of the file is half a 64-bit pointer or a character, and the       *)
(* needle is shorter. Offsets count from 0, as in the code.                *)
(***************************************************************************)
EXTENDS Integers, SequencesExt

CONSTANTS
    Files,    \* binaries: is64, base, export, shift, cells, and the bytes of .rdata
    Half,     \* the values of half a pointer (2^32 in the code)
    Wide,     \* the values of the number that the digits are read into (2^64 in the code)
    Needle    \* the bytes of "PrimeUpdate", two for each character

Byte == 0 .. 255

ASSUME SizesAssumption ==
    /\ Half \in Nat \ {0} /\ Wide \in Nat \ {0}
    /\ Needle \in Seq(Byte) /\ Len(Needle) > 0 /\ Len(Needle) % 2 = 0

ASSUME FilesAssumption ==
    \A f \in Files : /\ f.is64 \in BOOLEAN /\ {f.base, f.export, f.shift} \subseteq Nat
                     /\ f.cells \in Seq(Nat) /\ f.rdata \in Seq(Byte)

VARIABLES
    file,
    step,       \* "buildID", "featureSet", "end"; "noBuildID", "noUpdate" after an error
    buildID,
    offset,     \* where the search in .rdata goes on
    updates,    \* what it has found: digits and suffix
    featureSet

scanVars == <<file, step, buildID, offset, updates, featureSet>>

Fresh ==
    /\ step = "buildID" /\ offset = 0 /\ updates = {}
    /\ buildID = << >> /\ featureSet = << >>

ScanInit == file \in Files /\ Fresh

From(s, start) == SubSeq(s, start + 1, Len(s))
Before(s, stops) ==
    LET at == {i \in DOMAIN s : s[i] \in stops}
    IN IF at = {} THEN s ELSE SubSeq(s, 1, Min(at) - 1)

(***************************************************************************)
(* scanBuildID.                                                            *)
(***************************************************************************)
\* What saferwall/pe makes of an address: far away if no section has it.
GetOffsetFromRva(rva) ==
    IF rva - file.shift \in 0 .. Len(file.cells) - 1 THEN rva - file.shift
                                                     ELSE Half + Len(file.cells)

\* (Mutated: the address keeps its 64 bits.)
Uint32Wide(v) == v
Uint32(v)     == v % Half

\* A whole 64-bit pointer is read and subtracted from, also in a 32-bit binary.
ScanBuildID ==
    /\ step = "buildID"
    /\ LET ptrOff   == GetOffsetFromRva(file.export)
           stringVA == file.cells[ptrOff + 1] + Half * file.cells[ptrOff + 2]
           strOff   == GetOffsetFromRva(Uint32(stringVA - file.base))
       IN IF file.export = 0 \/ ptrOff + 2 > Len(file.cells) \/ strOff >= Len(file.cells)
          THEN step' = "noBuildID" /\ UNCHANGED buildID
          ELSE /\ step' = "featureSet"
               /\ buildID' = Before(From(file.cells, strOff), {0})
    /\ UNCHANGED <<file, offset, updates, featureSet>>

(***************************************************************************)
(* scanFeatureSet.                                                         *)
(***************************************************************************)
Matches(from) ==
    {p \in from .. Len(file.rdata) - Len(Needle) :
        SubSeq(file.rdata, p + 1, p + Len(Needle)) = Needle}

Chars(bytes) == [i \in 1 .. Len(bytes) \div 2 |-> bytes[2 * i - 1] + 256 * bytes[2 * i]]

\* The characters after a match, cut into digits and what follows them.
Tail16(p) == Before(Chars(From(file.rdata, p + Len(Needle))), 0 .. 32)
UpdateAt(p) ==
    LET digits == Before(Tail16(p), Nat \ (48 .. 57))
    IN [digits |-> digits, suffix |-> From(Tail16(p), Len(digits))]

FindNext ==
    /\ step = "featureSet" /\ Matches(offset) # {}
    /\ LET p == Min(Matches(offset)) IN
          /\ offset' = p + 1
          /\ updates' = IF p % 2 # 0 \/ UpdateAt(p).digits = << >> THEN updates
                        ELSE updates \cup {UpdateAt(p)}
    /\ UNCHANGED <<file, step, buildID, featureSet>>

Major(u) == FoldLeft(LAMBDA n, digit : (10 * n + digit - 48) % Wide, 0, u.digits)

\* The order of strings.
After(s, t) ==
    \E i \in DOMAIN s : /\ i <= Len(t) + 1 /\ SubSeq(s, 1, i - 1) = SubSeq(t, 1, i - 1)
                        /\ i = Len(t) + 1 \/ s[i] > t[i]

\* (Mutated: the digits are not read as a number.)
NewerText(u, v) ==
    IF u.digits # v.digits THEN After(u.digits, v.digits) ELSE After(u.suffix, v.suffix)
Newer(u, v) ==
    IF Major(u) # Major(v) THEN Major(u) > Major(v) ELSE After(u.suffix, v.suffix)

\* The sort is not stable: of two that it does not tell apart either may come first.
Answer ==
    /\ step = "featureSet" /\ Matches(offset) = {}
    /\ IF updates = {} THEN step' = "noUpdate" /\ UNCHANGED featureSet
       ELSE /\ step' = "end"
            /\ \E u \in updates :
                  /\ \A v \in updates : ~Newer(v, u)
                  /\ featureSet' = u.digits \o u.suffix
    /\ UNCHANGED <<file, buildID, offset, updates>>

ScanNext == ScanBuildID \/ FindNext \/ Answer

(***************************************************************************)
(* Properties.                                                             *)
(***************************************************************************)
\* The address of the build id that the binary itself uses: its pointers have the width
\* of its class. If it leads into the file, the text there, up to a zero, is the answer,
\* whatever lies behind a 32-bit pointer (tools/version/main.go:47-79, 163-173).
BuildIDFound ==
    LET at == file.export - file.shift
        va == file.cells[at + 1] + (IF file.is64 THEN Half * file.cells[at + 2] ELSE 0)
        to == va - file.base - file.shift
    IN /\ file.export # 0 /\ at >= 0 /\ at + 2 <= Len(file.cells)
       /\ va - file.base \in 0 .. Half - 1 /\ to \in 0 .. Len(file.cells) - 1
       => /\ step # "noBuildID"
          /\ step # "buildID" =>
                /\ buildID = SubSeq(file.cells, to + 1, to + Len(buildID))
                /\ 0 \notin ToSet(buildID)
                /\ to + Len(buildID) = Len(file.cells) \/ file.cells[to + Len(buildID) + 1] = 0

\* The number that digits stand for.
Decimal(digits) ==
    LET value[n \in 0 .. Len(digits)] ==
            IF n = 0 THEN 0 ELSE 10 * value[n - 1] + digits[n] - 48
    IN value[Len(digits)]

\* The answer is the name with the highest number of all that .rdata holds at an even
\* place, and the last in string order among those, if no number overflows; there is an
\* error only if .rdata holds no name (tools/version/main.go:84-161).
NewestFound ==
    LET Named     == {p \in Matches(0) : p % 2 = 0 /\ Tail16(p) # << >> /\ Tail16(p)[1] \in 48 .. 57}
        Digits(p) == {i \in DOMAIN Tail16(p) : \A j \in 1 .. i : Tail16(p)[j] \in 48 .. 57}
        Number(p) == Decimal(SubSeq(Tail16(p), 1, Max(Digits(p))))
        Suffix(p) == From(Tail16(p), Max(Digits(p)))
    IN /\ step = "noUpdate" => Named = {}
       /\ step = "end" /\ (\A p \in Named : Number(p) < Wide) =>
             \E p \in Named :
                /\ featureSet = Tail16(p)
                /\ \A q \in Named :
                      /\ Number(p) >= Number(q)
                      /\ Number(p) = Number(q) => ~After(Suffix(q), Suffix(p))
================================================================================
