--------------------------------- MODULE Codec ---------------------------------
(***************************************************************************)
(* The two text formats of the library: a WebSocket message, built by      *)
(* buildMessage and read by parseMessage, and a player id. Text is a       *)
(* sequence of tokens: a line end, a separator, a space, a name or a word. *)
(***************************************************************************)
EXTENDS Integers, SequencesExt

CONSTANTS
    Token,         \* what text is made of
    HeaderMaps,    \* what messages are built from: headers, and bodies
    Bodies,
    Platforms,     \* what player ids are built from
    Ids

VARIABLE text      \* what was built, from what, and as what kind of thing

NL == "CRLF"
SP == "SP"

\* The names of headers are words, and their values keep to one line and need no trimming.
\* (The code sends names of services, ids, signatures and versions.)
Trimmed(value) == value # << >> => Head(value) # SP /\ Last(value) # SP

ASSUME TokenAssumption == {NL, SP, ":", "|", "0", "PsySig", "signature"} \subseteq Token

ASSUME TextAssumption ==
    /\ \A headers \in HeaderMaps :
          /\ IsFiniteSet(DOMAIN headers)
          /\ \A key \in DOMAIN headers : /\ key \in Token \ {NL, ":", SP}
                                        /\ headers[key] \in Seq(Token \ {NL})
                                        /\ Trimmed(headers[key])
    /\ Bodies \subseteq Seq(Token) /\ Ids \subseteq Seq(Token) /\ Platforms \subseteq Token \ {"|"}

Unparsed == [id |-> << >>, payload |-> << >>]     \* an error is returned

\* Where a pattern begins in s for the first time, 0 for nowhere.
Places(pattern, s) ==
    {i \in 1 .. Len(s) - Len(pattern) + 1 : SubSeq(s, i, i + Len(pattern) - 1) = pattern}
\* (Mutated: for the last time.)
IndexLast(pattern, s) == Max({0} \cup Places(pattern, s))
Index(pattern, s)     == IF Places(pattern, s) = {} THEN 0 ELSE Min(Places(pattern, s))

\* The parts between the separators, one more than there are separators.
Split(s, separator) ==
    FoldLeft(LAMBDA parts, token :
                IF token = separator THEN Append(parts, << >>)
                                     ELSE Append(Front(parts), Append(Last(parts), token)),
             << << >> >>, s)

TrimSpace(s) ==
    LET kept == {i \in DOMAIN s : s[i] # SP}
    IN IF kept = {} THEN << >> ELSE SubSeq(s, Min(kept), Max(kept))

IsJSON(payload) == payload # << >>         \* any text, for this purpose, but not none

\* Of two headers with one name the last counts; a line without a colon is skipped.
parseMessage(message) ==
    LET index    == Index(<<NL, NL>>, message)
        lines    == Split(SubSeq(message, 1, index - 1), NL)
        Colon(i) == Index(<<":">>, lines[i])
        Key(i)   == TrimSpace(SubSeq(lines[i], 1, Colon(i) - 1))
        Value(i) == TrimSpace(SubSeq(lines[i], Colon(i) + 1, Len(lines[i])))
        ids      == {i \in DOMAIN lines : Colon(i) # 0 /\ Key(i) = <<"PsyResponseID">>}
        payload  == SubSeq(message, index + 2, Len(message))
    IN IF index = 0 \/ ~IsJSON(payload) THEN Unparsed
       ELSE [id |-> IF ids = {} THEN << >> ELSE Value(Max(ids)), payload |-> payload]

\* The messages that may be built, one for each order in which the map of headers is
\* walked. A body is signed; an empty one stands for nil.
buildMessages(headers, body) ==
    LET all == IF body = << >> THEN headers
               ELSE [key \in DOMAIN headers \cup {"PsySig"} |->
                       IF key = "PsySig" THEN <<"signature">> ELSE headers[key]]
        Line(key) == <<key, ":", SP>> \o all[key] \o <<NL>>
    IN {FlattenSeq([i \in DOMAIN order |-> Line(order[i])]) \o <<NL>> \o body :
            order \in SetToSeqs(DOMAIN all)}

NewPlayerID(platform, id) == <<platform, "|">> \o id \o <<"|", "0">>

ParsePlayerID(playerID) ==
    LET parts == Split(playerID, "|")
    IN IF Len(parts) # 3 THEN << >> ELSE <<parts[1], parts[2]>>

\* What is built: messages and ids of players.
Built(headers, body) ==
    {[kind |-> "message", of |-> <<headers, body>>, is |-> m] : m \in buildMessages(headers, body)}
Messages  == UNION {Built(headers, body) : headers \in HeaderMaps, body \in Bodies}
PlayerIDs == {[kind |-> "player", of |-> <<platform, id>>, is |-> NewPlayerID(platform, id)] :
                platform \in Platforms, id \in Ids}
NoText    == [kind |-> "none", of |-> << >>, is |-> << >>]

(***************************************************************************)
(* Properties.                                                             *)
(***************************************************************************)
\* What was built is parsed to what it was built from: a message, in whatever order its
\* headers come and whatever its headers and its body hold, to the id and the body
\* (psynetrpc.go:94-148); a player id to the platform and the id, unless the id holds
\* the separator, which is an error and never another player (playerid.go:29-41).
RoundTrip ==
    /\ text.kind = "message" =>
          LET headers == text.of[1]
              body    == text.of[2]
          IN parseMessage(text.is) =
                IF body = << >> THEN Unparsed
                ELSE [id |-> IF "PsyResponseID" \in DOMAIN headers THEN headers["PsyResponseID"]
                                                                   ELSE << >>,
                      payload |-> body]
    /\ text.kind = "player" =>
          ParsePlayerID(text.is) =
             IF "|" \in ToSet(text.of[2]) THEN << >> ELSE << <<text.of[1]>>, text.of[2]>>
================================================================================
