---------------------------- MODULE SignIn_proofs ----------------------------
(***************************************************************************)
(* Theorems about SignIn, for any callers, programs and bounds.            *)
(***************************************************************************)
EXTENDS SignIn, FiniteSetTheorems, TLAPS

Saving(c) == pc[c] \in {"save", "write"}

\* A token about to be saved is live, and nobody else holds it: not the file, not a
\* caller that has read the file, not another caller that saves. So nobody can present
\* it, which is what might make Epic take it back.
HandInv ==
    \A c \in Callers : Saving(c) /\ hand[c] # Blank =>
        /\ hand[c] \in live /\ hand[c] # file
        /\ \A d \in Callers : old[d] # hand[c]
        /\ \A d \in Callers \ {c} : Saving(d) => hand[d] # hand[c]

IInv == TypeOK /\ HandInv /\ SavedTokenLives

LEMMA InitOK == Init => IInv
<1> SUFFICES ASSUME Init PROVE IInv
  OBVIOUS
<1> USE NamesAssumption, LimitsAssumption DEF Init, NothingYet, Begin, Programs, Fields, Blank, Torn, Url
<1>1. program \in [Callers -> Programs]
  OBVIOUS
<1>2. \A c \in Callers : pc[c] \in {"start", "ask", "device", "failed", "auth"}
                         /\ (pc[c] = "start" => program[c] = "setup")
  BY <1>1
<1>3. TypeOK
  BY <1>2 DEF TypeOK
<1>4. HandInv /\ SavedTokenLives
  BY <1>2 DEF HandInv, Saving, SavedTokenLives
<1>5. QED
  BY <1>3, <1>4 DEF IInv

(***************************************************************************)
(* The actions, grouped by what they can disturb.                          *)
(***************************************************************************)
\* The requests and AuthPlayer: the file and the tokens are left alone.
Move(c) == UserAnswers(c) \/ EpicAnswers(c) \/ EpicFails(c) \/ PsyNetAnswers(c)
           \/ DialBlank(c) \/ DialReturns(c)
Looks(c) == AuthPlayer(c) \/ postJSON(c) \/ establishSocket(c)

LEMMA MoveType == ASSUME TypeOK, NEW c \in Callers, Move(c) PROVE TypeOK'
  BY DEF TypeOK, Move, UserAnswers, EpicAnswers, EpicFails, PsyNetAnswers, DialBlank,
         DialReturns, OnError, At, Goto, epic, psyNet, watch, Blank, Torn, Url

\* What a sign-in sees is a version or torn.
LEMMA SeeType ==
    ASSUME TypeOK, NEW c \in Callers, NEW fs, See(c, fs)
    PROVE  seen' \in [Callers -> SUBSET (Versions \cup {Torn})]
<1>1. PICK value \in [fs -> Versions \cup {Torn}] :
          seen' = [seen EXCEPT ![c] = @ \cup {value[f] : f \in fs}]
  BY DEF See
<1>2. {value[f] : f \in fs} \subseteq Versions \cup {Torn}
  OBVIOUS
<1>3. QED
  BY <1>1, <1>2 DEF TypeOK

LEMMA LooksType == ASSUME TypeOK, NEW c \in Callers, Looks(c) PROVE TypeOK'
<1>1. SUFFICES ASSUME NEW from, NEW fs, NEW to \in {"post", "posted", "dialing"},
                      Look(c, from, fs, to)
               PROVE  TypeOK'
  BY DEF Looks, AuthPlayer, postJSON, establishSocket
<1>2. seen' \in [Callers -> SUBSET (Versions \cup {Torn})]
  BY <1>1, SeeType DEF Look
<1>3. overlap' \in [Callers -> BOOLEAN]
  <2>1. PICK b : b \in BOOLEAN /\ overlap' = [overlap EXCEPT ![c] = b]
    <3> DEFINE b == overlap[c] \/ (Shared(c) /\ setter.at # "idle")
    <3>1. b \in BOOLEAN /\ overlap' = [overlap EXCEPT ![c] = b]
      BY <1>1 DEF Look
    <3>2. QED
      BY <3>1
  <2>2. QED
    BY <2>1 DEF TypeOK
<1>4. QED
  BY <1>1, <1>2, <1>3 DEF TypeOK, Look, Goto, epic, psyNet

LEMMA MoveOK == ASSUME IInv, NEW c \in Callers, Move(c) \/ Looks(c) PROVE IInv'
<1>1. TypeOK'
  BY MoveType, LooksType DEF IInv
<1>2. /\ UNCHANGED <<file, live, old, excused>>
      /\ ~Saving(c) /\ ~Saving(c)'
      /\ \A d \in Callers \ {c} : pc'[d] = pc[d] /\ hand'[d] = hand[d]
  BY DEF IInv, TypeOK, Move, Looks, UserAnswers, EpicAnswers, EpicFails, PsyNetAnswers,
         DialBlank, DialReturns, AuthPlayer, postJSON, establishSocket, Look, OnError,
         At, Goto, Saving, epic
<1>3. HandInv'
  BY <1>2 DEF IInv, HandInv, Saving, Blank
<1>4. SavedTokenLives'
  BY <1>2 DEF IInv, SavedTokenLives, Saving, At, Blank
<1>5. QED
  BY <1>1, <1>3, <1>4 DEF IInv

\* A new token is nobody's, and what is taken back was nobody's to save.
LEMMA IssueOK ==
    ASSUME IInv, NEW c \in Callers, Issue(c)
    PROVE  /\ issued' = issued + 1 /\ issued' \in 1 .. MaxTokens
           /\ live' \subseteq 1 .. issued' /\ issued' \in live'
           /\ live \ {old[c]} \subseteq live' /\ (At(c, "code") => live \subseteq live')
           /\ file # issued' /\ \A d \in Callers : old[d] # issued' /\ hand[d] # issued'
<1>1. issued \in Nat /\ issued' = issued + 1 /\ issued' \in 1 .. MaxTokens
  BY LimitsAssumption DEF IInv, TypeOK, Issue
<1>2. PICK lost \in SUBSET {old[c]} :
         live' = (IF At(c, "refresh") THEN live \ lost ELSE live) \cup {issued'}
  BY DEF Issue
<1>3. live \subseteq 1 .. issued /\ 1 .. issued \subseteq 1 .. issued'
  BY <1>1 DEF IInv, TypeOK
<1>4. issued' \in 1 .. issued'
  BY <1>1
<1>5. live' \subseteq 1 .. issued' /\ issued' \in live' /\ live \ {old[c]} \subseteq live'
  BY <1>2, <1>3, <1>4
<1>6. At(c, "code") => live \subseteq live'
  BY <1>2 DEF At
<1>7. file # issued' /\ \A d \in Callers : old[d] # issued' /\ hand[d] # issued'
  BY <1>1 DEF IInv, TypeOK, Blank, Torn, Url
<1>8. QED
  BY <1>1, <1>5, <1>6, <1>7

\* The token a caller presents is not one that is about to be saved.
LEMMA PresentedOK ==
    ASSUME IInv, NEW c \in Callers
    PROVE  \A d \in Callers : Saving(d) /\ hand[d] # Blank => hand[d] \in live \ {old[c]}
  BY DEF IInv, HandInv

LEMMA TokenReturnedOK == ASSUME IInv, NEW c \in Callers, TokenReturned(c) PROVE IInv'
<1> USE DEF TokenReturned
<1>1. pc[c] \in {"refresh", "code"}
  BY DEF Issue, Honours, At
<1>2. TypeOK'
  BY <1>1, IssueOK DEF IInv, TypeOK, Keeps, At, Goto, epic, psyNet, watch
<1>3. HandInv'
  <2> SUFFICES ASSUME NEW d \in Callers, Saving(d)', hand'[d] # Blank
               PROVE  /\ hand'[d] \in live' /\ hand'[d] # file
                      /\ \A e \in Callers : old[e] # hand'[d]
                      /\ \A e \in Callers \ {d} : Saving(e)' => hand'[e] # hand'[d]
    BY DEF HandInv, Saving, Blank
  <2>1. hand'[c] = issued' /\ \A e \in Callers \ {c} : hand'[e] = hand[e] /\ (Saving(e)' => Saving(e))
    BY DEF IInv, TypeOK, Goto, Saving
  <2>2. CASE d = c
    BY <2>1, <2>2, IssueOK
  <2>3. CASE d # c
    BY <2>1, <2>3, IssueOK, PresentedOK DEF IInv, HandInv
  <2>4. QED
    BY <2>2, <2>3
<1>4. SavedTokenLives'
  <2>1. \A d \in Callers \ {c} : pc'[d] = pc[d]
    BY DEF IInv, TypeOK, Goto
  <2>2. CASE file \in live /\ file \notin live'
    <3>1. At(c, "refresh") /\ old[c] = file
      BY <1>1, <2>2, IssueOK DEF At
    <3>2. At(c, "save")'
      BY <3>1 DEF IInv, TypeOK, Keeps, At, Goto
    <3>3. QED
      BY <3>1, <3>2 DEF SavedTokenLives, At
  <2>3. CASE ~(file \in live /\ file \notin live')
    BY <1>1, <2>1, <2>3 DEF IInv, SavedTokenLives, At
  <2>4. QED
    BY <2>2, <2>3
<1>5. QED
  BY <1>2, <1>3, <1>4 DEF IInv

LEMMA TokenLostOK == ASSUME IInv, NEW c \in Callers, TokenLost(c) PROVE IInv'
<1> USE DEF TokenLost
<1>1. pc[c] \in {"refresh", "code"} /\ ~Saving(c)'
  BY DEF IInv, TypeOK, Issue, Honours, At, OnError, Goto, Saving
<1>2. TypeOK'
  BY <1>1, IssueOK DEF IInv, TypeOK, OnError, At, Goto, epic, psyNet, watch
<1>3. HandInv'
  <2>1. \A e \in Callers : Saving(e)' => Saving(e)
    BY <1>1 DEF IInv, TypeOK, OnError, Goto, Saving
  <2>2. QED
    BY <2>1, IssueOK, PresentedOK DEF IInv, HandInv, Blank
<1>4. SavedTokenLives'
  <2>1. \A d \in Callers \ {c} : pc'[d] = pc[d]
    BY DEF IInv, TypeOK, OnError, Goto
  <2>2. QED
    BY <1>1, <2>1, IssueOK DEF IInv, SavedTokenLives, At, Blank
<1>5. QED
  BY <1>2, <1>3, <1>4 DEF IInv

LEMMA TokenBlankOK == ASSUME IInv, NEW c \in Callers, TokenBlank(c) PROVE IInv'
<1> USE DEF TokenBlank
<1>1. TypeOK'
  BY DEF IInv, TypeOK, Keeps, At, Goto, epic, psyNet, watch, Blank
<1>2. \A d \in Callers \ {c} : pc'[d] = pc[d] /\ hand'[d] = hand[d]
  BY DEF IInv, TypeOK, Goto
<1>3. hand'[c] = Blank /\ ~Saving(c)
  BY DEF IInv, TypeOK, At, Saving
<1>4. HandInv'
  BY <1>2, <1>3 DEF IInv, HandInv, Saving, epic, Blank
<1>5. SavedTokenLives'
  BY <1>2, <1>3 DEF IInv, SavedTokenLives, Saving, At, epic, Blank
<1>6. QED
  BY <1>1, <1>4, <1>5 DEF IInv

LEMMA ReadFileOK == ASSUME IInv, NEW c \in Callers, ReadFile(c) PROVE IInv'
<1> USE DEF ReadFile
<1>1. TypeOK'
  BY DEF IInv, TypeOK, At, Goto, epic, psyNet, watch
<1>2. \A d \in Callers \ {c} : pc'[d] = pc[d] /\ old'[d] = old[d]
  BY DEF IInv, TypeOK, Goto
<1>3. old'[c] = file /\ ~Saving(c) /\ ~Saving(c)'
  BY DEF IInv, TypeOK, At, Goto, Saving
<1>4. HandInv'
  BY <1>2, <1>3 DEF IInv, HandInv, Saving, epic, Blank
<1>5. SavedTokenLives'
  BY <1>2, <1>3 DEF IInv, SavedTokenLives, Saving, At, epic, Blank
<1>6. QED
  BY <1>1, <1>4, <1>5 DEF IInv

LEMMA SaveOK == ASSUME IInv, NEW c \in Callers, Open(c) \/ WriteFile(c) PROVE IInv'
<1>1. pc[c] \in {"save", "write"} /\ program[c] = "setup"
  BY DEF IInv, TypeOK, Open, WriteFile, At
<1>2. \A d \in Callers \ {c} : pc'[d] = pc[d]
  BY DEF IInv, TypeOK, Open, WriteFile, Goto
<1>3. CASE Open(c)
  <2>1. TypeOK'
    BY <1>1, <1>3 DEF IInv, TypeOK, Open, At, Goto, epic, psyNet, watch
  <2>2. HandInv'
    BY <1>1, <1>2, <1>3 DEF IInv, HandInv, Saving, Open, epic, Blank
  <2>3. SavedTokenLives'
    BY <1>1, <1>2, <1>3 DEF IInv, TypeOK, SavedTokenLives, Open, At, Goto, epic, Blank
  <2>4. QED
    BY <2>1, <2>2, <2>3 DEF IInv
<1>4. CASE WriteFile(c)
  <2> USE <1>4 DEF WriteFile, Written
  <2>1. hand[c] \in live \cup {Blank} /\ Saving(c) /\ ~Saving(c)'
    BY DEF IInv, TypeOK, HandInv, Saving, At, Goto
  <2>6. excused' \in BOOLEAN /\ (excused' \/ (file' = hand[c] /\ hand[c] # Blank))
    <3>1. CASE file' \in Written(c) /\ excused' = (file' <= Blank)
      <4>1. (file' <= Blank) \in BOOLEAN
        OBVIOUS
      <4>2. CASE file' <= Blank
        BY <3>1, <4>1, <4>2
      <4>3. CASE ~(file' <= Blank)
        <5>1. file' = hand[c] /\ hand[c] # Blank
          BY <3>1, <4>3 DEF Blank, Torn
        <5>2. QED
          BY <3>1, <4>1, <5>1
      <4>4. QED
        BY <4>2, <4>3
    <3>2. CASE excused' = TRUE /\ UNCHANGED file
      BY <3>2
    <3>3. QED
      BY <3>1, <3>2
  <2>7. file' \in (1 .. issued) \cup {Blank, Torn}
    BY <2>1 DEF IInv, TypeOK
  <2>2. TypeOK'
    BY <2>1, <2>6, <2>7 DEF IInv, TypeOK, At, Goto, epic, psyNet, watch
  <2>3. HandInv'
    BY <1>2, <2>1 DEF IInv, TypeOK, HandInv, Saving, epic, Blank, Torn
  <2>4. SavedTokenLives'
    BY <2>1, <2>6 DEF SavedTokenLives, epic
  <2>5. QED
    BY <2>2, <2>3, <2>4 DEF IInv
<1>5. QED
  BY <1>3, <1>4

LEMMA RestartOK == ASSUME IInv, NEW c \in Callers, Restart(c) PROVE IInv'
<1> USE DEF Restart
<1>1. program[c] \in Programs /\ program \in Casts
  BY NamesAssumption DEF IInv, TypeOK
<1>2. PICK label \in Begin[program[c]] : Goto(c, label)
  OBVIOUS
<1>3. /\ label \in {"start", "ask", "device", "failed", "auth"}
      /\ label = "start" => program[c] = "setup"
  BY <1>1, <1>2 DEF Begin, Programs
<1>4. /\ \A d \in Callers \ {c} : pc'[d] = pc[d] /\ hand'[d] = hand[d] /\ old'[d] = old[d]
      /\ pc'[c] = label /\ old'[c] = Blank
  BY <1>2 DEF IInv, TypeOK, Goto
<1>5. TypeOK'
  <2>1. runs' \in 0 .. MaxRuns
    BY LimitsAssumption DEF IInv, TypeOK
  <2>2. seen' \in [Callers -> SUBSET (Versions \cup {Torn})] /\ overlap' \in [Callers -> BOOLEAN]
    BY DEF IInv, TypeOK
  <2>3. excused' \in BOOLEAN
    OBVIOUS
  <2>4. QED
    BY <1>2, <1>3, <2>1, <2>2, <2>3 DEF IInv, TypeOK, Goto, epic, psyNet, Blank
<1>6. HandInv'
  BY <1>3, <1>4 DEF IInv, HandInv, Saving, epic, Blank
<1>7. SavedTokenLives'
  BY <1>3, <1>4 DEF IInv, SavedTokenLives, At, epic, Blank
<1>8. QED
  BY <1>5, <1>6, <1>7 DEF IInv

LEMMA SetOK == ASSUME IInv, SetVersion \/ SetField PROVE IInv'
<1>1. UNCHANGED <<program, pc, file, epic, hand, old, runs, excused, seen>>
  BY DEF SetVersion, SetField, watch
<1>2. overlap' \in [Callers -> BOOLEAN]
  BY DEF IInv, TypeOK, SetVersion, SetField, watch
<1>3. sets' \in 0 .. MaxSets
  BY LimitsAssumption DEF IInv, TypeOK, SetVersion, SetField
<1>4. ver' \in [Fields -> Versions] /\ setter' \in [at : Fields \cup {"idle"}, to : Versions]
  BY DEF IInv, TypeOK, SetVersion, SetField, Fields, AfterField
<1>5. TypeOK'
  BY <1>1, <1>2, <1>3, <1>4 DEF IInv, TypeOK, epic
<1>6. HandInv' /\ SavedTokenLives'
  BY <1>1 DEF IInv, HandInv, SavedTokenLives, Saving, At, epic, Blank
<1>7. QED
  BY <1>5, <1>6 DEF IInv

LEMMA StepOK == IInv /\ [Next]_vars => IInv'
<1> SUFFICES ASSUME IInv, [Next]_vars PROVE IInv'
  OBVIOUS
<1>1. CASE \E c \in Callers : Local(c) \/ Peers(c) \/ EpicFails(c) \/ Restart(c)
  <2>1. PICK c \in Callers : Local(c) \/ Peers(c) \/ EpicFails(c) \/ Restart(c)
    BY <1>1
  <2>2. CASE Local(c)
    BY <2>2, ReadFileOK, SaveOK, MoveOK DEF Local, Move, Looks
  <2>3. CASE Peers(c)
    BY <2>3, TokenReturnedOK, TokenLostOK, TokenBlankOK, MoveOK DEF Peers, Move
  <2>4. CASE EpicFails(c)
    BY <2>4, MoveOK DEF Move
  <2>5. CASE Restart(c)
    BY <2>5, RestartOK
  <2>6. QED
    BY <2>1, <2>2, <2>3, <2>4, <2>5
<1>2. CASE SetVersion \/ SetField
  BY <1>2, SetOK
<1>3. CASE Ended \/ UNCHANGED vars
  <2>1. UNCHANGED <<program, pc, file, epic, hand, old, runs, excused, psyNet, watch>>
    BY <1>3 DEF Ended, vars
  <2>2. TypeOK'
    BY <2>1 DEF IInv, TypeOK, epic, psyNet, watch
  <2>3. HandInv' /\ SavedTokenLives'
    BY <2>1 DEF IInv, HandInv, SavedTokenLives, Saving, At, epic, Blank
  <2>4. QED
    BY <2>2, <2>3 DEF IInv
<1>4. QED
  BY <1>1, <1>2, <1>3 DEF Next

\* The types of the variables, and that only setup touches the file, whatever the
\* programs, peers and processes do (setup.go:20-34).
THEOREM TypeCorrect == Spec => []TypeOK
<1>1. IInv => TypeOK
  BY DEF IInv
<1>2. QED
  BY <1>1, InitOK, StepOK, PTL DEF Spec

\* For any number of processes that share the file: it holds a live token, or its successor
\* is about to be written, or one of the named accidents has happened (setup.go:20-34).
THEOREM TokenKept == Spec => []SavedTokenLives
<1>1. IInv => SavedTokenLives
  BY DEF IInv
<1>2. QED
  BY <1>1, InitOK, StepOK, PTL DEF Spec

(***************************************************************************)
(* The version that a sign-in sees.                                        *)
(***************************************************************************)
\* A SetVersion has written the fields it is past. What a sign-in has seen undisturbed is the
\* one version that all fields still have, or the default of a PsyNet of its own.
Only(v) == {v}
VersionInv ==
    /\ setter.at # "game" => ver["game"] = setter.to
    /\ setter.at \in {"build", "idle"} => ver["feature"] = setter.to
    /\ setter.at = "idle" => ver["build"] = setter.to
    /\ \A c \in Callers : ~overlap[c] =>
          \/ seen[c] = {}
          \/ Shared(c) /\ setter.at = "idle" /\ seen[c] = Only(setter.to)
          \/ ~Shared(c) /\ seen[c] = Only(Default)

LEMMA ReadsOne ==
    ASSUME TypeOK, VersionInv, NEW c \in Callers, NEW f \in Fields,
           Shared(c) => setter.at = "idle"
    PROVE  Reads(c, f) = Only(IF Shared(c) THEN setter.to ELSE Default)
<1>1. CASE Shared(c)
  BY <1>1 DEF Reads, VersionInv, Fields, Only
<1>2. CASE ~Shared(c)
  BY <1>2 DEF Reads, Only
<1>3. QED
  BY <1>1, <1>2

\* One look: the version joins those already seen.
LEMMA LookVersion ==
    ASSUME TypeOK, VersionInv, NEW c \in Callers, NEW from, NEW fs, NEW to,
           fs \subseteq Fields, fs # {}, Look(c, from, fs, to)
    PROVE  VersionInv'
<1>1. UNCHANGED <<program, ver, setter, sets>>
  BY DEF Look, psyNet
<1>2. \A d \in Callers \ {c} : seen'[d] = seen[d] /\ overlap'[d] = overlap[d]
  BY DEF Look, See, TypeOK
<1>3. ASSUME ~overlap'[c]
      PROVE  \/ Shared(c) /\ setter.at = "idle" /\ seen'[c] = Only(setter.to)
             \/ ~Shared(c) /\ seen'[c] = Only(Default)
  <2>1. ~overlap[c] /\ (Shared(c) => setter.at = "idle")
    <3>1. overlap'[c] = (overlap[c] \/ (Shared(c) /\ setter.at # "idle"))
      BY Zenon DEF Look, TypeOK
    <3>2. QED
      BY <1>3, <3>1, Zenon
  <2> DEFINE v == IF Shared(c) THEN setter.to ELSE Default
  <2>2. \A f \in fs : Reads(c, f) = Only(v)
    BY <2>1, ReadsOne
  <2>3. PICK value \in [fs -> Versions \cup {Torn}] :
           /\ \A f \in fs : value[f] \in Reads(c, f)
           /\ seen' = [seen EXCEPT ![c] = @ \cup {value[f] : f \in fs}]
    BY DEF Look, See
  <2>4. {value[f] : f \in fs} = Only(v)
    BY <2>2, <2>3 DEF Only
  <2>5. seen'[c] = seen[c] \cup Only(v)
    BY <2>3, <2>4 DEF TypeOK
  <2>6. seen[c] = {} \/ seen[c] = Only(v)
    BY <2>1 DEF VersionInv
  <2>7. seen'[c] = Only(v)
    BY <2>5, <2>6 DEF Only
  <2>8. QED
    BY <2>1, <2>7
<1>4. QED
  BY <1>1, <1>2, <1>3 DEF VersionInv, Shared

LEMMA VersionStep == ASSUME TypeOK, VersionInv, [Next]_vars PROVE VersionInv'
<1>1. CASE SetVersion
  <2>1. setter.at = "idle" /\ setter'.at = "game" /\ UNCHANGED <<program, ver, seen>>
    BY <1>1 DEF SetVersion
  <2>2. \A c \in Callers : ~overlap'[c] => seen[c] = {}
    BY <1>1, Zenon DEF SetVersion
  <2>3. QED
    BY <2>1, <2>2 DEF VersionInv
<1>2. CASE SetField
  <2>1. /\ setter.at \in Fields /\ setter' = [setter EXCEPT !.at = AfterField[setter.at]]
        /\ ver' = [ver EXCEPT ![setter.at] = setter.to]
        /\ UNCHANGED <<program, seen, overlap>>
    BY <1>2 DEF SetField, TypeOK, watch
  <2>2. setter'.to = setter.to /\ setter'.at = AfterField[setter.at]
    BY <2>1 DEF TypeOK
  <2>3. QED
    BY <2>1, <2>2 DEF VersionInv, TypeOK, Fields, AfterField, Shared
<1>3. CASE \E c \in Callers : Looks(c)
  BY <1>3, LookVersion DEF Looks, AuthPlayer, postJSON, establishSocket, Fields
<1>4. CASE \E c \in Callers : Restart(c)
  BY <1>4 DEF Restart, VersionInv, TypeOK, psyNet, Shared
<1>5. CASE \/ \E c \in Callers : ReadFile(c) \/ Open(c) \/ WriteFile(c) \/ DialBlank(c)
           \/ \E c \in Callers : Peers(c) \/ EpicFails(c)
           \/ Ended \/ UNCHANGED vars
  <2>1. UNCHANGED <<program, ver, setter, sets, seen, overlap>>
    BY <1>5 DEF ReadFile, Open, WriteFile, DialBlank, Peers, UserAnswers, TokenReturned,
       TokenBlank, TokenLost, EpicAnswers, PsyNetAnswers, DialReturns, EpicFails, Ended,
       vars, psyNet, watch
  <2>2. QED
    BY <2>1 DEF VersionInv, Shared
<1>6. QED
  BY <1>1, <1>2, <1>3, <1>4, <1>5 DEF Next, Local, Looks

LEMMA VersionInitOK == NothingYet => VersionInv
BY DEF NothingYet, VersionInv, Fields

LEMMA OneVersionSeen == IInv /\ VersionInv => OneVersion
<1> SUFFICES ASSUME IInv, VersionInv, NEW c \in Callers, ~overlap[c]
             PROVE  Torn \notin seen[c] /\ Cardinality(seen[c]) <= 1
  BY DEF OneVersion
<1>1. CASE seen[c] = {}
  BY <1>1, FS_EmptySet
<1>2. CASE \E v \in Versions : seen[c] = {v}
  <2>1. PICK v \in Versions : seen[c] = {v}
    BY <1>2
  <2>2. Cardinality({v}) = 1
    BY FS_Singleton
  <2>3. QED
    BY <2>1, <2>2, NamesAssumption
<1>3. QED
  BY <1>1, <1>2, NamesAssumption DEF IInv, TypeOK, VersionInv, Only

\* For any number of goroutines that sign in over one PsyNet and any calls of SetVersion: unless
\* one was under way meanwhile, a sign-in reads one version (psynet.go:96-100, auth.go:42).
THEOREM VersionKept == Spec => []OneVersion
<1>1. Init => VersionInv
  BY VersionInitOK DEF Init
<1>2. IInv /\ VersionInv /\ [Next]_vars => VersionInv'
  BY VersionStep DEF IInv
<1>3. QED
  BY InitOK, StepOK, OneVersionSeen, <1>1, <1>2, PTL DEF Spec
=============================================================================
