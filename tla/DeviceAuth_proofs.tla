-------------------------- MODULE DeviceAuth_proofs --------------------------
(***************************************************************************)
(* For all intervals, lifetimes and delays: the loop does not drop a token *)
(* that was issued, whatever else it is answered, and does not poll too    *)
(* often or give up too early.                                             *)
(***************************************************************************)
EXTENDS DeviceAuth, TLAPS

\* A token is in the answer to the poll under way, returned, or lost with a
\* poll that broke; a poll served late is one that broke.
TokenInv ==
    /\ answer = "token" => grant = "issued"
    /\ grant = "issued" /\ ~broke => (pc = "poll" /\ answer = "token") \/ result = "token"
    /\ pc = "sleep" /\ answer = "none" => broke
    /\ pc # "end" => result = "none"
    /\ result = "token" => grant = "issued"

AInv == TypeOK /\ TokenInv

LEMMA Start == Init => AInv
<1> SUFFICES ASSUME Init PROVE AInv
  OBVIOUS
<1>1. TypeOK
  <2>1. 0 \in 0 .. 0 /\ -1 \in -1 .. 0
    OBVIOUS
  <2>2. QED
    BY <2>1 DEF Init, TypeOK
<1>2. TokenInv
  BY DEF Init, TokenInv
<1>3. QED
  BY <1>1, <1>2 DEF AInv

LEMMA QuotientNat == ASSUME NEW e \in Nat, NEW i \in Nat, i # 0
                     PROVE  e \div i \in Nat
  OBVIOUS

LEMMA Step == AInv /\ [Next]_vars => AInv'
<1> SUFFICES ASSUME AInv, [Next]_vars PROVE AInv'
  OBVIOUS
<1> USE ParametersAssumption DEF AInv, TypeOK, TokenInv
<1>1. CASE AuthenticateWithDevice
  BY <1>1 DEF AuthenticateWithDevice, Return
<1>2. CASE BeginWait
  <2>1. CASE device.interval = 0
    BY <1>2, <2>1 DEF BeginWait, Return
  <2>2. CASE device.interval # 0
    <3>1. device.interval \in Nat /\ device.expiresIn \in Nat
      OBVIOUS
    <3>2. Rounds \in Nat
      BY <2>2, <3>1, QuotientNat DEF Rounds
    <3>3. QED
      BY <1>2, <2>2, <3>2 DEF BeginWait
  <2>3. QED
    BY <2>1, <2>2
<1>3. CASE PollSend
  BY <1>3 DEF PollSend
<1>4. CASE GiveUp
  BY <1>4 DEF GiveUp, Return
<1>5. CASE PollReturns
  <2>1. CASE answer \in {"token", "blank"} /\ Return(answer) /\ UNCHANGED <<since, broke>>
    BY <1>5, <2>1 DEF PollReturns, Return
  <2>2. CASE /\ answer = "error" /\ pc' = "sleep" /\ since' = now
             /\ UNCHANGED <<broke, result>>
    BY <1>5, <2>2 DEF PollReturns
  <2>3. CASE /\ broke' = TRUE /\ pc' = "sleep" /\ since' = now
             /\ UNCHANGED result
    BY <1>5, <2>3 DEF PollReturns
  <2>4. QED
    BY <1>5, <2>1, <2>2, <2>3 DEF PollReturns
<1>6. CASE Wake
  BY <1>6 DEF Wake
<1>7. CASE PollServed
  BY <1>7 DEF PollServed
<1>8. CASE Tick
  BY <1>8 DEF Tick
<1>9. CASE Approve
  BY <1>9 DEF Approve
<1>10. CASE Done \/ UNCHANGED vars
  BY <1>10 DEF Done, vars
<1>11. QED
  BY <1>1, <1>2, <1>3, <1>4, <1>5, <1>6, <1>7, <1>8, <1>9, <1>10 DEF Next, Wait

LEMMA Inductive == Spec => []AInv
<1>1. QED
  BY Start, Step, PTL DEF Spec

\* The variables of the device grant keep to their domains (egs.go:280-332).
THEOREM GrantTypes == Spec => []TypeOK
<1>1. AInv => TypeOK
  BY DEF AInv
<1>2. QED
  BY <1>1, Inductive, PTL

\* However WaitForDeviceAuthorization ends, an answer 200 without a token included, what
\* it returns as a token was issued, and it loses an issued token only with a poll that
\* broke (egs.go:238-247, 324-332).
THEOREM NoTokenDropped == Spec => []OutcomeHonest
<1>1. AInv => OutcomeHonest
  BY DEF AInv, TypeOK, TokenInv, OutcomeHonest
<1>2. QED
  BY <1>1, Inductive, PTL

(***************************************************************************)
(* Time: how often the loop polls, and when it gives up.                   *)
(***************************************************************************)
\* The last poll is not younger than the sleep under way; a sleep that is over was as long
\* as the interval.
SpaceInv ==
    /\ pc \in {"ask", "show"} => polledAt = -1
    /\ pc \in {"poll", "sleep"} => polledAt <= since
    /\ pc = "loop" /\ polledAt >= 0 => now - polledAt >= device.interval

LEMMA SpaceStep == ASSUME TypeOK, SpaceInv, [Next]_vars PROVE SpaceInv'
<1> USE ParametersAssumption DEF TypeOK, SpaceInv
<1>i. device.interval \in Nat
  OBVIOUS
<1>t. device.interval \in Nat /\ polledAt \in Int /\ now \in Int /\ since \in Int
  BY <1>i
<1>1. CASE AuthenticateWithDevice \/ BeginWait
  BY <1>1 DEF AuthenticateWithDevice, BeginWait, Return
<1>2. CASE PollSend \/ GiveUp \/ PollServed
  BY <1>2 DEF PollSend, GiveUp, PollServed, Return
<1>3. CASE PollReturns
  BY <1>3 DEF PollReturns, Return
<1>4. CASE Wake
  BY <1>4, <1>t DEF Wake, Slept
<1>5. CASE Tick
  BY <1>5, <1>t DEF Tick
<1>6. CASE Approve \/ Done \/ UNCHANGED vars
  BY <1>6 DEF Approve, Done, vars
<1> QED
  BY <1>1, <1>2, <1>3, <1>4, <1>5, <1>6 DEF Next, Wait

\* The server is not polled more often than it asked for (egs.go:324-328).
THEOREM PollsSpaced == Spec => PollSpacing
<1>1. Init => SpaceInv
  BY DEF Init, SpaceInv
<1>2. TypeOK /\ SpaceInv /\ [Next]_vars => SpaceInv'
  BY SpaceStep
<1>3. SpaceInv /\ [Next]_vars =>
        [pc = "loop" /\ pc' = "poll" /\ polledAt >= 0 => now - polledAt >= device.interval]_vars
  BY DEF SpaceInv
<1> QED
  BY GrantTypes, <1>1, <1>2, <1>3, PTL DEF Spec, PollSpacing

\* Each iteration the loop has behind it took an interval at least.
LateInv ==
    /\ pc \in {"loop", "poll", "sleep"} => device.interval # 0 /\ left <= Rounds
    /\ pc = "loop" => (Rounds - left) * device.interval <= now
    /\ pc \in {"poll", "sleep"} => /\ left < Rounds
                                   /\ (Rounds - left - 1) * device.interval <= since
    /\ GivesUpLate

LEMMA RoundsUp ==
    ASSUME NEW e \in Nat, NEW i \in Nat, i # 0
    PROVE  e \div i \in Nat /\ (e \div i) * i + i > e
  OBVIOUS

LEMMA OneMore ==
    ASSUME NEW r \in Nat, NEW l \in Nat, NEW i \in Nat
    PROVE  (r - l - 1) * i + i = (r - l) * i /\ r - (l - 1) - 1 = r - l /\ (r - r) * i = 0
  OBVIOUS

LEMMA LateStep == ASSUME TypeOK, LateInv, [Next]_vars PROVE LateInv'
<1>d. /\ device.interval \in Nat /\ device.expiresIn \in Nat
      /\ now \in Nat /\ left \in Nat
  BY ParametersAssumption DEF TypeOK
<1>s. since \in Nat /\ since <= now
  BY <1>d DEF TypeOK
<1>r. device.interval # 0 => Rounds \in Nat /\ Rounds * device.interval + device.interval > device.expiresIn
  BY <1>d, RoundsUp DEF Rounds
<1>u. device' = device => Rounds' = Rounds
  BY DEF Rounds
<1> USE DEF LateInv, GivesUpLate
<1>1. CASE AuthenticateWithDevice
  BY <1>1 DEF AuthenticateWithDevice, Return
<1>2. CASE BeginWait
  <2>1. CASE device.interval = 0
    BY <1>2, <2>1 DEF BeginWait, Return
  <2>2. CASE device.interval # 0
    <3>1. left' = Rounds /\ Rounds' = Rounds /\ pc' = "loop" /\ pc = "show"
          /\ UNCHANGED <<now, device, result>>
      BY <1>2, <2>2, <1>u DEF BeginWait
    <3>2. (Rounds - Rounds) * device.interval = 0
      BY <1>r, <1>d, <2>2, OneMore
    <3> QED
      BY <1>d, <1>r, <2>2, <3>1, <3>2
  <2> QED
    BY <2>1, <2>2
<1>3. CASE PollSend
  <2>1. /\ pc = "loop" /\ pc' = "poll" /\ left > 0 /\ left' = left - 1 /\ since' = now
        /\ Rounds' = Rounds /\ UNCHANGED <<now, device, result>>
    BY <1>3, <1>u DEF PollSend
  <2>2. Rounds - left' - 1 = Rounds - left /\ left' < Rounds
    BY <1>d, <1>r, <2>1
  <2>3. (Rounds - left' - 1) * device.interval <= now
    BY <2>1, <2>2
  <2> QED
    BY <1>d, <1>r, <2>1, <2>2, <2>3
<1>4. CASE GiveUp
  <2>1. /\ pc = "loop" /\ pc' = "end" /\ left = 0 /\ UNCHANGED <<now, device>>
    BY <1>4, <1>d DEF GiveUp, Return
  <2>2. Rounds - left = Rounds /\ Rounds * device.interval <= now
    BY <1>d, <1>r, <2>1
  <2> QED
    BY <1>d, <1>r, <2>1, <2>2, RoundsUp DEF Rounds
<1>5. CASE PollServed
  BY <1>5, <1>u DEF PollServed
<1>6. CASE PollReturns
  <2>1. /\ pc = "poll" /\ pc' \in {"sleep", "end"} /\ since' \in {now, since} /\ Rounds' = Rounds
        /\ result' \in {result, "token", "blank"} /\ UNCHANGED <<now, device, left>>
    BY <1>6, <1>u DEF PollReturns, Return
  <2>2. (Rounds - left - 1) * device.interval \in Int
    BY <1>d, <1>r, <2>1
  <2> QED
    BY <1>d, <1>r, <1>s, <2>1, <2>2
<1>7. CASE Wake
  <2>1. /\ pc = "sleep" /\ pc' = "loop" /\ now - since >= device.interval /\ Rounds' = Rounds
        /\ UNCHANGED <<now, device, left, result>>
    BY <1>7, <1>u DEF Wake, Slept
  <2>2. (Rounds - left) * device.interval = (Rounds - left - 1) * device.interval + device.interval
    BY <1>d, <1>r, <2>1, OneMore
  <2>3. (Rounds - left - 1) * device.interval \in Int
    BY <1>d, <1>r, <2>1
  <2> QED
    BY <1>d, <1>r, <1>s, <2>1, <2>2, <2>3
<1>8. CASE Tick
  <2>1. now' = now + 1 /\ Rounds' = Rounds /\ UNCHANGED <<device, pc, since, left, result>>
    BY <1>8, <1>u DEF Tick
  <2>2. pc = "loop" => (Rounds - left) * device.interval \in Int
    BY <1>d, <1>r
  <2> QED
    BY <1>d, <1>r, <2>1, <2>2
<1>9. CASE Approve \/ Done \/ UNCHANGED vars
  BY <1>9, <1>u DEF Approve, Done, vars
<1> QED
  BY <1>1, <1>2, <1>3, <1>4, <1>5, <1>6, <1>7, <1>8, <1>9 DEF Next, Wait

\* The device code has less than an interval to live when the wait is given up, whatever the
\* polls took (egs.go:323).
THEOREM GivenUpLate == Spec => []GivesUpLate
<1>1. Init => LateInv
  BY DEF Init, LateInv, GivesUpLate
<1>2. TypeOK /\ LateInv /\ [Next]_vars => LateInv'
  BY LateStep
<1>3. LateInv => GivesUpLate
  BY DEF LateInv
<1> QED
  BY GrantTypes, <1>1, <1>2, <1>3, PTL DEF Spec
===============================================================================
