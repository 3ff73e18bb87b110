------------------------------- MODULE MCFormats -------------------------------
(***************************************************************************)
(* The algorithms on data, one sample at a time: a build id, a text that   *)
(* is built and parsed, a game binary.                                     *)
(***************************************************************************)
EXTENDS Crc32, Codec, VersionTool

allVars == <<vars, scanVars, text>>

\* Short inputs of crc32 over bytes with few, many, low and high ones, and the version
\* strings of buildid_test.go.
Dot      == -2     \* the distance of "." from "0"
Digit(s) == [i \in DOMAIN s |-> 48 + s[i]]

Vectors == {
    [text |-> Digit(<<2,6,0,3,1,6, Dot, 8,0,7,9,1, Dot, 5,1,2,2,6,9>>), want |-> 1210528741],
    [text |-> Digit(<<2,6,0,4,2,0, Dot, 8,6,0,6,9, Dot, 5,1,5,6,0,5>>), want |-> 1273328361],
    [text |-> Digit(<<2,6,0,5,0,6, Dot, 2,6,7,0,0, Dot, 5,1,7,2,1,0>>), want |-> -1652286008]}

Bytes    == {0, 1, 54, 128, 170, 255}
MCInputs == BoundedSeq(Bytes, 2) \cup {BuildBytes(v.text) : v \in Vectors}

\* Messages with the names that matter in every place, and ids of players.
MCHeaders ==
    LET Value == [PsyTime       |-> {<<"1">>, <<"PsyResponseID", ":", SP, "1">>},
                  PsyResponseID |-> {<<"id">>},
                  PsyPing       |-> {<< >>}]
    IN UNION {{h \in [names -> UNION {Value[k] : k \in names}] : \A k \in names : h[k] \in Value[k]} :
                names \in SUBSET DOMAIN Value}
MCBodies    == BoundedSeq({"{}", NL, ":", "PsyResponseID"}, 3)
MCPlatforms == {"Epic", "Steam"}
MCIds       == BoundedSeq({"a", "0", "|"}, 4)
MCToken     == {NL, ":", SP, "|", "0", "1", "a", "{}", "id", "signature", "PsySig", "PsyTime",
                "PsyResponseID", "PsyPing"} \cup MCPlatforms

\* Binaries: every way the pointer and the text may lie in four cells; names in .rdata
\* put together from up to five pieces, at even and odd places.
MCHalf   == 4
MCWide   == 32
MCNeedle == <<80, 0>>
Binary(is64, base, export, cells, rdata) ==
    [is64 |-> is64, base |-> base, export |-> export, shift |-> 1, cells |-> cells, rdata |-> rdata]
NoFile   == Binary(TRUE, 0, 0, << >>, << >>)
Pieces   == {MCNeedle, <<0, 0>> \o MCNeedle, <<49, 0>>, <<50, 0>>, <<95, 0>>, <<0>>}
Sections == {FlattenSeq(s) : s \in BoundedSeq(Pieces, 5)}
MCFiles  ==
    {Binary(b < 0, IF b < 0 THEN -b ELSE b, e, c, << >>) :
            b \in {0, 1, 3, -1, -6}, e \in 0 .. 4, c \in [1 .. 4 -> 0 .. MCHalf - 1]}
    \cup {Binary(TRUE, 1, 1, <<3, 0, 0, 0>>, s) : s \in Sections}

FormatsInit ==
    \/ Init /\ text = NoText /\ file = NoFile /\ Fresh
    \/ data = << >> /\ Init /\ text = NoText /\ ScanInit
    \/ data = << >> /\ Init /\ text \in Messages \cup PlayerIDs /\ file = NoFile /\ Fresh

Rests == Finished /\ step \notin {"buildID", "featureSet"} /\ UNCHANGED allVars

FormatsNext ==
    \/ Next /\ ~Finished /\ UNCHANGED <<scanVars, text>>
    \/ ScanNext /\ UNCHANGED <<vars, text>>
    \/ Rests

FormatsSpec == FormatsInit /\ [][FormatsNext]_allVars

\* decodeBuildID maps the three version strings to the build ids that the test
\* expects, the negative one included (buildid.go:3-9, buildid_test.go:10-12).
KnownBuildIDs ==
    \A v \in Vectors : Finished /\ data = BuildBytes(v.text) => result = v.want
================================================================================
