------------------------------ MODULE DeviceAuth ------------------------------
(***************************************************************************)
(* The device authorization grant of egs.go: a program asks for a device   *)
(* code, shows it, and calls WaitForDeviceAuthorization, which polls the   *)
(* token endpoint until the user has authorized the device. Time is in     *)
(* ticks since the code was issued; it passes while the program shows the  *)
(* code, waits for an answer or sleeps. The token endpoint and the user    *)
(* are part of the model.                                                  *)
(***************************************************************************)
EXTENDS Integers

CONSTANTS
    Intervals,     \* what the server may ask for as polling interval, 0 if nothing
    Lifetimes,     \* the lifetimes a device code may have
    MaxDelay,      \* bound on the time before the program starts to wait
    HttpTimeout,   \* the time after which the HTTP client gives a request up
    MaxOversleep   \* bound on how much longer than asked time.Sleep takes

ASSUME ParametersAssumption ==
    /\ Intervals \subseteq Nat /\ Lifetimes \subseteq Nat
    /\ {MaxDelay, HttpTimeout, MaxOversleep} \subseteq Nat

VARIABLES
    now,
    device,   \* the DeviceAuthResponse: interval and lifetime
    grant,    \* server side: "pending", "approved" by the user, token "issued"
    pc,       \* "ask", "show", "loop", "poll", "sleep", "end"
    since,    \* when the code was shown, the poll sent, the sleep begun
    left,     \* the iterations the loop has left
    answer,   \* what the server answered to the poll under way
    polledAt, \* when the last poll was sent, -1 before the first
    broke,    \* has a poll failed for a reason of the network or the encoding
    result    \* "none"; "token", "blank" (nil error, no token), "timedOut", "failed"; "panic"

vars == <<now, device, grant, pc, since, left, answer, polledAt, broke, result>>

Init ==
    /\ now = 0 /\ since = 0 /\ left = 0 /\ polledAt = -1
    /\ device \in [interval : Intervals, expiresIn : Lifetimes]
    /\ grant = "pending" /\ answer = "none" /\ broke = FALSE
    /\ pc = "ask" /\ result = "none"

Return(r) == pc' = "end" /\ result' = r

AuthenticateWithDevice ==          \* a device code, or any of its error returns
    /\ pc = "ask"
    /\ \/ pc' = "show" /\ result' = result
       \/ Return("failed")
    /\ UNCHANGED <<now, device, grant, since, left, answer, polledAt, broke>>

\* (Mutated: one round too few, as of a loop that counts from 1.)
RoundsShort == device.expiresIn \div device.interval - 1
Rounds      == device.expiresIn \div device.interval

BeginWait ==      \* the range of the loop is evaluated once; division by 0 panics
    /\ pc = "show"
    /\ \/ /\ device.interval = 0
          /\ Return("panic") /\ left' = left
       \/ /\ device.interval # 0
          /\ pc' = "loop" /\ left' = Rounds /\ result' = result
    /\ UNCHANGED <<now, device, grant, since, answer, polledAt, broke>>

PollSend ==
    /\ pc = "loop" /\ left > 0
    /\ pc' = "poll" /\ left' = left - 1
    /\ since' = now /\ polledAt' = now
    /\ answer' = "none"
    /\ UNCHANGED <<now, device, grant, broke, result>>

GiveUp ==                                            \* the loop is exhausted
    /\ pc = "loop" /\ left <= 0
    /\ Return("timedOut")
    /\ UNCHANGED <<now, device, grant, since, left, answer, polledAt, broke>>

\* The endpoint issues the token once, to the first poll it serves after the user
\* has approved and before the code expires. It may answer 200 with a body that
\* holds no token ("{}", "null"), and serve a poll late, when the client no longer
\* waits for the answer.
PollServed ==
    /\ pc \in {"poll", "sleep"} /\ answer = "none"
    /\ \/ /\ grant = "approved" /\ now < device.expiresIn
          /\ grant' = "issued" /\ answer' = "token"
       \/ /\ ~(grant = "approved" /\ now < device.expiresIn)
          /\ grant' = grant /\ answer' = "error"
       \/ grant' = grant /\ answer' = "blank"
    /\ UNCHANGED <<now, device, pc, since, left, polledAt, broke, result>>

\* requestEOSToken takes every 200 that parses for a token and returns it, and that
\* ends the wait; any error is swallowed.
\* (Mutated: no timeout, and the answer to the last poll is not looked at.)
PollReturnsUnread ==
    /\ pc = "poll"
    /\ \/ /\ answer \in {"token", "blank"} /\ left > 0 /\ Return(answer)
          /\ UNCHANGED <<since, broke>>
       \/ /\ answer = "error" \/ (answer \in {"token", "blank"} /\ left = 0)
          /\ pc' = "sleep" /\ since' = now
          /\ UNCHANGED <<broke, result>>
    /\ UNCHANGED <<now, device, grant, left, answer, polledAt>>
PollReturns ==
    /\ pc = "poll"
    /\ \/ /\ answer \in {"token", "blank"} /\ Return(answer)
          /\ UNCHANGED <<since, broke>>
       \/ /\ answer = "error"
          /\ pc' = "sleep" /\ since' = now
          /\ UNCHANGED <<broke, result>>
       \/ /\ broke' = TRUE             \* no answer in time, or one that is unreadable
          /\ pc' = "sleep" /\ since' = now
          /\ UNCHANGED result
    /\ UNCHANGED <<now, device, grant, left, answer, polledAt>>

\* (Mutated: the interval taken for nanoseconds, as without "* time.Second".)
SleptNanos(t) == TRUE
Slept(t)      == now - t >= device.interval

Wake ==
    /\ pc = "sleep" /\ Slept(since)
    /\ pc' = "loop"
    /\ UNCHANGED <<now, device, grant, since, left, answer, polledAt, broke, result>>

Patience == CASE pc = "show"  -> MaxDelay
              [] pc = "poll"  -> HttpTimeout
              [] pc = "sleep" -> device.interval + MaxOversleep
              [] OTHER        -> 0
Tick ==
    /\ now - since < Patience
    /\ now' = now + 1
    /\ UNCHANGED <<device, grant, pc, since, left, answer, polledAt, broke, result>>

Approve ==             \* the user completes authorization at VerificationURI
    /\ pc \notin {"ask", "end"} /\ grant = "pending" /\ now < device.expiresIn
    /\ grant' = "approved"
    /\ UNCHANGED <<now, device, pc, since, left, answer, polledAt, broke, result>>

Done == pc = "end" /\ UNCHANGED vars

Wait == PollSend \/ GiveUp \/ PollReturns \/ Wake
Next == AuthenticateWithDevice \/ BeginWait \/ Wait \/ PollServed
        \/ Tick \/ Approve \/ Done

\* The clock and the goroutine that waits go on; nothing is assumed of the user
\* and of the server.
Spec == Init /\ [][Next]_vars /\ WF_vars(Tick) /\ WF_vars(Wait)

\* Every variable keeps to its domain; no round is left over when the loop ends.
TypeOK ==
    /\ now \in Nat /\ since \in 0 .. now /\ polledAt \in -1 .. now
    /\ device \in [interval : Intervals, expiresIn : Lifetimes]
    /\ grant \in {"pending", "approved", "issued"}
    /\ pc \in {"ask", "show", "loop", "poll", "sleep", "end"}
    /\ left \in Nat /\ broke \in BOOLEAN
    /\ answer \in {"none", "error", "token", "blank"}
    /\ result \in {"none", "token", "blank", "timedOut", "failed", "panic"}

\* The loop swallows every error and takes every 200 for the token, yet it does not
\* drop a token the endpoint has issued: however the wait ends, by giving up or
\* with an answer that holds none, only a poll that broke can have lost it. What
\* it returns as a token was issued (egs.go:238-247, 324-332).
OutcomeHonest ==
    /\ result = "token" => grant = "issued"
    /\ pc = "end" /\ grant = "issued" => result = "token" \/ broke

\* The device code has less than one interval to live when the wait is given up:
\* the rounding of the quotient costs at most one poll (egs.go:323).
GivesUpLate == result = "timedOut" => now + device.interval > device.expiresIn

\* The server is not polled more often than it asked for, whatever the answers
\* took (egs.go:324-328).
PollSpacing ==
    [][pc = "loop" /\ pc' = "poll" /\ polledAt >= 0 =>
          now - polledAt >= device.interval]_vars

\* The wait ends, without an answer from the server too (egs.go:75, 322-332).
WaitEnds == pc = "loop" ~> pc = "end"

\* The wait returns a token once the user has completed authorization in time,
\* unless a poll broke (egs.go:321).
CompletionReturned == result = "timedOut" /\ ~broke => grant = "pending"
===============================================================================
