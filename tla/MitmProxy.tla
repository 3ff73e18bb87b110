------------------------------- MODULE MitmProxy -------------------------------
(***************************************************************************)
(* The HTTP side of tools/mitm/main.go: one exchange of the game through   *)
(* the reverse proxy, which rewrites the answer of PsyNet and signs it     *)
(* again. A body is its form and the WebSocket address in it; a signature  *)
(* is the pair of what it was computed from.                               *)
(***************************************************************************)
EXTENDS Integers, SequencesExt

CONSTANTS
    Times,      \* the values of PsyTime
    MaxValues   \* bound on the values of one header

ASSUME ProxyBounds == MaxValues \in Nat

VARIABLES
    stage,      \* "game", "director", "upstream", "modify", "answered", "failed", "socket"
    response,   \* body and headers; a header is the sequence of its values
    repeated    \* not in the code: has PsyNet sent PsyTime more than once

proxyVars == <<stage, response, repeated>>

Body(form, url) == [form |-> form, url |-> url]
Result  == Body("result", "psynet")     \* a JSON object with a Result object
Others  == {Body("object", "none"), Body("opaque", "none"), Body("opaque", "psynet")}
Nothing == [body |-> Body("opaque", "none"), PsyTime |-> << >>, PsySig |-> << >>,
            SetCookie |-> << >>, ContentLength |-> << >>]

Get(values)      == IF values = << >> THEN "" ELSE Head(values)
Sign(time, body) == <<time, body>>

ProxyInit ==
    /\ stage = "game" /\ response = Nothing /\ repeated = FALSE

GameAsks ==
    /\ stage = "game" /\ stage' = "director"
    /\ UNCHANGED <<response, repeated>>

\* The request goes on to PsyNet: whole, or as much of its body as could be read, since the
\* error is ignored. PsyNet may give any answer, or none, to either.
Director ==
    /\ stage = "director" /\ stage' = "upstream"
    /\ UNCHANGED <<response, repeated>>

PsyNetAnswers ==
    /\ stage = "upstream"
    /\ \/ /\ stage' = "modify"
          /\ \E body \in Others \cup {Result}, times \in BoundedSeq(Times, MaxValues),
                cookies \in BoundedSeq(Times, MaxValues) :
                /\ response' = [body |-> body, PsyTime |-> times, SetCookie |-> cookies,
                                PsySig |-> <<Sign(Get(times), body)>>, ContentLength |-> <<body>>]
                /\ repeated' = (Len(times) > 1)
       \/ stage' = "failed" /\ UNCHANGED <<response, repeated>>     \* the proxy answers 502

\* What ReadAll returns; its error is ignored, and half an object is none.
ReadAll(body) == {body, [body EXCEPT !.form = "opaque"]}

Rewritten(body) == IF body.form = "result" THEN Body("result", "relay") ELSE body

\* (Mutated: the answer of PsyNet is signed.)
SignedEarly(body) == body
Signed(body)      == Rewritten(body)

\* The values of a header are set one after the other, each in place of those before.
Reset(values) == IF values = << >> THEN values ELSE <<Last(values)>>

ModifyResponse ==
    /\ stage = "modify" /\ stage' = "answered"
    /\ \E body \in ReadAll(response.body) :
          response' = [body          |-> Rewritten(body),
                       PsySig        |-> <<Sign(Get(response.PsyTime), Signed(body))>>,
                       PsyTime       |-> Reset(response.PsyTime),
                       SetCookie     |-> Reset(response.SetCookie),
                       ContentLength |-> <<Rewritten(body)>>]
    /\ UNCHANGED repeated

\* The game opens the address it was given.
GameDials ==
    /\ stage = "answered" /\ response.body = Rewritten(Result)
    /\ stage' = "socket" /\ response' = Nothing /\ repeated' = FALSE

ProxyNext == GameAsks \/ Director \/ PsyNetAnswers \/ ModifyResponse \/ GameDials

(***************************************************************************)
(* Properties.                                                             *)
(***************************************************************************)
\* The signature that the game gets is one of the body and the PsyTime that it gets, and
\* a Result object in that body leads to the relay; unless PsyNet sends several values of
\* PsyTime, of which the first is signed and the last is sent
\* (tools/mitm/main.go:100-131; its README: "Properly re-signs").
SignedAsDelivered ==
    stage = "answered" /\ ~repeated =>
        /\ response.PsySig = <<Sign(Get(response.PsyTime), response.body)>>
        /\ response.ContentLength = <<response.body>>
        /\ response.body.form = "result" => response.body.url = "relay"
================================================================================
