------------------------------ MODULE Mitm_proofs ------------------------------
(***************************************************************************)
(* Theorems about the relay, the proxy and the program of the two, for any *)
(* capacities, any number of messages and any number of header values.     *)
(***************************************************************************)
EXTENDS MCMitm, SequenceTheorems, TLAPS

Sent == 1 .. MaxSent     \* the messages there may be

\* A message read and taken away, and the room of a connection, in terms of sequences.
LEMMA HeadOff ==
    ASSUME NEW q \in Seq(Sent), q # << >>
    PROVE  /\ Head(q) \in Sent /\ <<Head(q)>> \in Seq(Sent)
           /\ Tail(q) \in Seq(Sent) /\ Len(Tail(q)) = Len(q) - 1
           /\ <<Head(q)>> \o Tail(q) = q
<1>1. Head(q) \in Sent /\ Tail(q) \in Seq(Sent) /\ Len(Tail(q)) = Len(q) - 1
      /\ Len(q) \in Nat \ {0}
  BY HeadTailProperties, EmptySeq
<1>2. <<Head(q)>> \in Seq(Sent)
  BY <1>1
<1>3. SubSeq(q, 1, Len(q)) = <<q[1]>> \o SubSeq(q, 2, Len(q))
  BY <1>1, SubSeqRecursiveFirst
<1>4. SubSeq(q, 1, Len(q)) = q /\ SubSeq(q, 2, Len(q)) = Tail(q) /\ q[1] = Head(q)
  BY SubSeqFull, TailIsSubSeq
<1>5. QED
  BY <1>1, <1>2, <1>3, <1>4

LEMMA Joining ==
    ASSUME NEW p \in Seq(Sent), NEW q \in Seq(Sent)
    PROVE  p \o q \in Seq(Sent) /\ Len(p \o q) = Len(p) + Len(q)
  BY ConcatProperties

\* The sequences of TypeOK, one by one.
Shape == /\ inbuf \in [Sides -> Seq(Sent)] /\ held \in [Sides -> Seq(Sent)]
         /\ outbuf \in [Sides -> Seq(Sent)] /\ got \in [Sides -> Seq(Sent)]
         /\ \A s \in Sides : Len(inbuf[s]) <= Cap /\ Len(outbuf[s]) <= Cap /\ Len(held[s]) <= 1
Rank  == /\ peer \in [Sides -> {"there", "gone"}]
         /\ conn \in [Sides -> {"none", "open", "closed"}]
         /\ sent \in [Sides -> 0 .. MaxSent] /\ done \in BOOLEAN
         /\ pc \in [Sides -> Labels] /\ pc["server"] \in {"unborn", "read", "write", "end"}
         /\ pc["client"] # "unborn"

LEMMA Parts == TypeOK <=> Shape /\ Rank
  BY DEF TypeOK, Shape, Rank, Sent

LEMMA InitType == Init => TypeOK
<1> SUFFICES ASSUME Init PROVE Shape /\ Rank
  BY Parts
<1>1. << >> \in Seq(Sent) /\ Len(<< >>) = 0
  BY EmptySeq
<1>2. Shape
  BY <1>1, BoundsAssumption DEF Init, Shape, All
<1>3. Rank
  <2>1. 0 \in 0 .. MaxSent
    BY BoundsAssumption
  <2>2. peer \in [Sides -> {"there", "gone"}] /\ conn \in [Sides -> {"none", "open", "closed"}]
        /\ sent \in [Sides -> 0 .. MaxSent] /\ done \in BOOLEAN
    BY <2>1 DEF Init, All
  <2>3. pc \in [Sides -> Labels] /\ pc["server"] = "unborn" /\ pc["client"] = "upgrade"
    BY DEF Init, Sides, Labels
  <2> QED
    BY <2>2, <2>3 DEF Rank
<1> QED
  BY <1>2, <1>3

LEMMA TypeStep == ASSUME TypeOK, [Next]_vars PROVE TypeOK'
<1>0. Shape /\ Rank
  BY Parts
<1> SUFFICES Shape' /\ Rank'
  BY DEF TypeOK, Shape, Rank, Sent
<1> USE <1>0, BoundsAssumption DEF At, peerVars, bufVars
<1>1. CASE Upgrade \/ Dial \/ Await \/ Closes
  <2>1. Shape'
    BY <1>1 DEF Upgrade, Dial, Await, Closes, CloseConn, Shape
  <2>2. Rank'
    BY <1>1 DEF Upgrade, Dial, Await, Closes, CloseConn, All, Rank, Sides, Labels
  <2> QED
    BY <2>1, <2>2
<1>2. ASSUME NEW s \in Sides, Read(s) PROVE Shape' /\ Rank'
  <2>1. inbuf[s] \in Seq(Sent) /\ inbuf[s] # << >>
    BY <1>2 DEF Read, Shape
  <2>2. <<Head(inbuf[s])>> \in Seq(Sent) /\ Tail(inbuf[s]) \in Seq(Sent)
        /\ Len(Tail(inbuf[s])) <= Cap /\ Len(<<Head(inbuf[s])>>) = 1
    BY <2>1, HeadOff, EmptySeq DEF Shape
  <2>3. Shape'
    BY <1>2, <2>2 DEF Read, Shape
  <2>4. Rank'
    BY <1>2 DEF Read, Rank, Sides, Labels
  <2> QED
    BY <2>3, <2>4
<1>3. ASSUME NEW s \in Sides, Write(s) PROVE Shape' /\ Rank'
  <2>1. Other(s) \in Sides
    BY DEF Other, Sides
  <2>2. \A t \in Sides : /\ outbuf[t] \o held[s] \in Seq(Sent)
                         /\ Room(t) => Len(outbuf[t] \o held[s]) <= Cap
    <3> TAKE t \in Sides
    <3>1. outbuf[t] \in Seq(Sent) /\ held[s] \in Seq(Sent) /\ Len(held[s]) <= 1
      BY DEF Shape
    <3>2. Len(outbuf[t]) \in Nat /\ Len(held[s]) \in Nat
      BY <3>1, LenProperties
    <3>3. outbuf[t] \o held[s] \in Seq(Sent)
          /\ Len(outbuf[t] \o held[s]) = Len(outbuf[t]) + Len(held[s])
      BY <3>1, Joining
    <3>4. Room(t) => Len(outbuf[t]) + Len(held[s]) <= Cap
      <4>1. \A a, b \in Nat : a < Cap /\ b <= 1 => a + b <= Cap
        OBVIOUS
      <4> QED
        BY <3>1, <3>2, <4>1, Zenon DEF Room
    <3> QED
      BY <3>3, <3>4, Zenon
  <2>3. << >> \in Seq(Sent) /\ Len(<< >>) = 0
    BY EmptySeq
  <2>4. Shape'
    <3> DEFINE t == Other(s)
    <3>1. \/ Room(t) /\ outbuf' = [outbuf EXCEPT ![t] = outbuf[t] \o held[s]]
          \/ UNCHANGED outbuf
      BY <1>3 DEF Write
    <3>2. outbuf' \in [Sides -> Seq(Sent)] /\ \A u \in Sides : Len(outbuf'[u]) <= Cap
      <4> HIDE DEF t
      <4> QED
        BY <2>1, <2>2, <3>1 DEF Shape, t
    <3>3. held' = [held EXCEPT ![s] = << >>] /\ UNCHANGED <<inbuf, got>>
      BY <1>3 DEF Write, NextMessage
    <3> QED
      BY <2>3, <3>2, <3>3 DEF Shape
  <2>5. Rank'
    BY <1>3 DEF Write, NextMessage, Rank, Sides, Labels
  <2> QED
    BY <2>4, <2>5
<1>4. ASSUME NEW s \in Sides, Fail(s) PROVE Shape' /\ Rank'
  <2>1. done' \in BOOLEAN /\ UNCHANGED <<peer, sent, got, conn, inbuf, held, outbuf>>
    BY <1>4, Zenon DEF Fail
  <2>2. pc' = [pc EXCEPT ![s] = IF s = "client" THEN "wait" ELSE "end"]
    BY <1>4 DEF Fail
  <2> QED
    BY <2>1, <2>2 DEF Shape, Rank, Sides, Labels
<1>5. ASSUME NEW s \in Sides, Send(s) PROVE Shape' /\ Rank'
  <2>1. sent[s] + 1 \in Sent /\ sent' = [sent EXCEPT ![s] = sent[s] + 1]
        /\ sent'[s] = sent[s] + 1
    BY <1>5 DEF Send, Sent, Rank
  <2>2. inbuf[s] \in Seq(Sent) /\ Len(inbuf[s]) < Cap
    BY <1>5 DEF Send, Shape
  <2>3. Append(inbuf[s], sent'[s]) \in Seq(Sent) /\ Len(Append(inbuf[s], sent'[s])) <= Cap
    BY <2>1, <2>2
  <2>4. Shape'
    BY <1>5, <2>3 DEF Send, Shape
  <2>5. Rank'
    BY <1>5, <2>1 DEF Send, Rank, Sent
  <2> QED
    BY <2>4, <2>5
<1>6. ASSUME NEW s \in Sides, Receive(s) PROVE Shape' /\ Rank'
  <2>1. outbuf[s] \in Seq(Sent) /\ outbuf[s] # << >> /\ got[s] \in Seq(Sent)
    BY <1>6 DEF Receive, Shape
  <2>2. Head(outbuf[s]) \in Sent /\ Tail(outbuf[s]) \in Seq(Sent) /\ Len(Tail(outbuf[s])) <= Cap
    BY <2>1, HeadOff, LenProperties DEF Shape
  <2>3. Append(got[s], Head(outbuf[s])) \in Seq(Sent)
    BY <2>1, <2>2
  <2>4. Shape'
    BY <1>6, <2>2, <2>3 DEF Receive, Shape
  <2>5. Rank'
    BY <1>6 DEF Receive, Rank
  <2> QED
    BY <2>4, <2>5
<1>7. ASSUME NEW s \in Sides, Leave(s) PROVE Shape' /\ Rank'
  BY <1>7 DEF Leave, Shape, Rank
<1>8. CASE Rest \/ UNCHANGED vars
  BY <1>8 DEF Rest, vars, Shape, Rank
<1>9. "client" \in Sides /\ "server" \in Sides
  BY DEF Sides
<1> QED
  BY <1>1, <1>2, <1>3, <1>4, <1>5, <1>6, <1>7, <1>8, <1>9
     DEF Next, Handler, Upstream, Copy, Peers

\* Every variable keeps to its domain and every buffer to its capacity, whatever the peers
\* do (tools/mitm/main.go:172-203).
THEOREM TypeCorrect == Spec => []TypeOK
<1>1. TypeOK /\ [Next]_vars => TypeOK'
  BY TypeStep
<1> QED
  BY InitType, <1>1, PTL DEF Spec

(***************************************************************************)
(* Who closes what, and when.                                              *)
(***************************************************************************)
\* The goroutine is started by a successful dial and has ended once done is closed; the
\* handler closes nothing before that.
PhaseInv ==
    /\ pc["client"] \in {"upgrade", "dial"} =>
          pc["server"] = "unborn" /\ \A s \in Sides : conn[s] # "closed"
    /\ done => pc["server"] = "end"
    /\ pc["client"] \in {"closeServer", "closeClient", "end"} => pc["server"] \in {"unborn", "end"}
    /\ NoCloseInUse

LEMMA PhaseStep == ASSUME TypeOK, PhaseInv, [Next]_vars PROVE PhaseInv'
<1> USE DEF PhaseInv, NoCloseInUse, At, Sides
<1>0. Rank
  BY Parts
<1>1. CASE Upgrade \/ Dial \/ Closes
  BY <1>0, <1>1 DEF Rank, Upgrade, Dial, Closes, CloseConn, All
<1>2. CASE Await
  BY <1>0, <1>2 DEF Rank, Await, Joined
<1>3. ASSUME NEW s \in Sides, Fail(s) PROVE PhaseInv'
  <2>1. pc[s] \in {"read", "write"} /\ UNCHANGED conn
        /\ pc' = [pc EXCEPT ![s] = IF s = "client" THEN "wait" ELSE "end"]
    BY <1>3 DEF Fail, ReadFails, WriteFails
  <2>2. done' => done \/ s = "server"
    BY <1>3, Zenon DEF Fail, ClosesDone
  <2> QED
    BY <1>0, <2>1, <2>2 DEF Rank
<1>4. ASSUME NEW s \in Sides, Read(s) \/ Write(s) PROVE PhaseInv'
  <2>1. pc[s] \in {"read", "write"} /\ UNCHANGED conn /\ UNCHANGED done
    BY <1>4, Zenon DEF Read, Write
  <2>2. \E label \in {"read", "write"} : pc' = [pc EXCEPT ![s] = label]
    BY <1>4 DEF Read, Write, NextMessage
  <2>3. CASE s = "client"
    BY <1>0, <2>1, <2>2, <2>3 DEF Rank
  <2>4. CASE s = "server"
    BY <1>0, <2>1, <2>2, <2>4, Zenon DEF Rank
  <2> QED
    BY <2>3, <2>4
<1>5. CASE Peers \/ Rest \/ UNCHANGED vars
  BY <1>5 DEF Peers, Send, Receive, Leave, Rest, vars
<1> QED
  BY <1>1, <1>2, <1>3, <1>4, <1>5 DEF Next, Handler, Upstream, Copy

\* No connection is closed while the goroutine may read from it or write to it, however the
\* two copiers fail (tools/mitm/main.go:150, 168, 205).
THEOREM ClosedUnused == Spec => []NoCloseInUse
<1>1. Init => PhaseInv
  BY DEF Init, PhaseInv, NoCloseInUse, All, Sides
<1>2. TypeOK /\ PhaseInv /\ [Next]_vars => PhaseInv'
  BY PhaseStep
<1>3. PhaseInv => NoCloseInUse
  BY DEF PhaseInv
<1>4. Spec => []PhaseInv
  BY TypeCorrect, <1>1, <1>2, PTL DEF Spec
<1> QED
  BY <1>3, <1>4, PTL

(***************************************************************************)
(* Messages on their way: what a step does to the sequence they form.      *)
(***************************************************************************)
LEMMA ReadLine ==
    ASSUME NEW p \in Seq(Sent), NEW i \in Seq(Sent), i # << >>
    PROVE  (p \o <<Head(i)>>) \o Tail(i) = (p \o << >>) \o i
<1>1. <<Head(i)>> \in Seq(Sent) /\ Tail(i) \in Seq(Sent) /\ <<Head(i)>> \o Tail(i) = i
  BY HeadOff
<1>2. (p \o <<Head(i)>>) \o Tail(i) = p \o (<<Head(i)>> \o Tail(i))
  BY <1>1, ConcatAssociative
<1>3. p \o << >> = p
  BY ConcatEmptySeq
<1> QED
  BY <1>1, <1>2, <1>3, Zenon

LEMMA WriteLine ==
    ASSUME NEW g \in Seq(Sent), NEW o \in Seq(Sent), NEW h \in Seq(Sent), NEW i \in Seq(Sent)
    PROVE  ((g \o (o \o h)) \o << >>) \o i = ((g \o o) \o h) \o i
<1>1. g \o (o \o h) = (g \o o) \o h
  BY ConcatAssociative, SMTT(30)
<1>2. (g \o o) \o h \in Seq(Sent)
  BY Joining
<1>3. ((g \o o) \o h) \o << >> = (g \o o) \o h
  BY <1>2, ConcatEmptySeq
<1> QED
  BY <1>1, <1>3, Zenon

LEMMA ReceiveLine ==
    ASSUME NEW g \in Seq(Sent), NEW o \in Seq(Sent), o # << >>
    PROVE  Append(g, Head(o)) \o Tail(o) = g \o o
<1>1. <<Head(o)>> \in Seq(Sent) /\ Tail(o) \in Seq(Sent) /\ <<Head(o)>> \o Tail(o) = o
      /\ Head(o) \in Sent
  BY HeadOff
<1>2. Append(g, Head(o)) = g \o <<Head(o)>>
  BY <1>1, AppendIsConcat
<1>3. (g \o <<Head(o)>>) \o Tail(o) = g \o (<<Head(o)>> \o Tail(o))
  BY <1>1, ConcatAssociative
<1> QED
  BY <1>1, <1>2, <1>3, Zenon

FirstN(n) == [k \in 1 .. n |-> k]

LEMMA SendLine ==
    ASSUME NEW p \in Seq(Sent), NEW i \in Seq(Sent), NEW n \in Nat, n + 1 \in Sent,
           p \o i = FirstN(n)
    PROVE  p \o Append(i, n + 1) = FirstN(n + 1)
<1>1. <<n + 1>> \in Seq(Sent)
  OBVIOUS
<1>2. Append(i, n + 1) = i \o <<n + 1>>
  BY AppendIsConcat
<1>3. p \o (i \o <<n + 1>>) = (p \o i) \o <<n + 1>>
  BY <1>1, ConcatAssociative, SMTT(30)
<1>4. (p \o i) \o <<n + 1>> = Append(p \o i, n + 1)
  BY Joining, AppendIsConcat
<1>5. Append(FirstN(n), n + 1) = FirstN(n + 1)
  BY DEF FirstN
<1> QED
  BY <1>2, <1>3, <1>4, <1>5, Zenon

(***************************************************************************)
(* Nothing is lost, doubled or overtaken.                                  *)
(***************************************************************************)
BothThere == peer["client"] = "there" /\ peer["server"] = "there"
Line(s) == got[Other(s)] \o outbuf[Other(s)] \o held[s] \o inbuf[s]

\* A copier holds a message only between reading and writing it.
HeldInv ==
    \A s \in Sides : pc[s] \in {"upgrade", "dial", "unborn", "read"} => held[s] = << >>

LEMMA HeldStep == ASSUME TypeOK, PhaseInv, HeldInv, [Next]_vars PROVE HeldInv'
<1> USE DEF HeldInv, At
<1>0. Shape /\ Rank
  BY Parts
<1>1. CASE Upgrade \/ Dial \/ Await \/ Closes
  BY <1>0, <1>1 DEF Rank, PhaseInv, Upgrade, Dial, Await, Closes, CloseConn, All, bufVars, Sides
<1>2. ASSUME NEW s \in Sides, Read(s) PROVE HeldInv'
  BY <1>0, <1>2 DEF Shape, Rank, Read
<1>3. ASSUME NEW s \in Sides, Write(s) PROVE HeldInv'
  BY <1>0, <1>3 DEF Shape, Rank, Write, NextMessage
<1>4. ASSUME NEW s \in Sides, Fail(s) PROVE HeldInv'
  <2>1. UNCHANGED held /\ pc' = [pc EXCEPT ![s] = IF s = "client" THEN "wait" ELSE "end"]
    BY <1>4 DEF Fail, bufVars
  <2> QED
    BY <1>0, <2>1 DEF Rank
<1>5. CASE Peers \/ Rest \/ UNCHANGED vars
  BY <1>5 DEF Peers, Send, Receive, Leave, Rest, vars, bufVars
<1>6. "client" \in Sides /\ "server" \in Sides
  BY DEF Sides
<1> QED
  BY <1>1, <1>2, <1>3, <1>4, <1>5, <1>6 DEF Next, Handler, Upstream, Copy

LEMMA FaithfulStep ==
    ASSUME TypeOK, PhaseInv, HeldInv, Faithful, [Next]_vars PROVE Faithful'
<1>0. Shape /\ Rank
  BY Parts
<1> SUFFICES ASSUME NEW t \in Sides, BothThere' PROVE (Line(t) = FirstN(sent[t]))'
  BY DEF Faithful, BothThere, Line, FirstN
<1>1. Other(t) \in Sides /\ Other(t) # t /\ (\A s \in Sides : s = t \/ s = Other(t))
      /\ \A s \in Sides : s = Other(t) <=> t = Other(s)
  BY DEF Other, Sides
<1>2. BothThere
  <2>1. peer' = peer \/ \E s \in Sides : Leave(s)
    BY Zenon DEF Next, Handler, Upgrade, Dial, Upstream, Copy, Read, Write, Fail, Await,
                 Closes, CloseConn, Peers, Send, Receive, Rest, vars, peerVars
  <2>2. ASSUME NEW s \in Sides, Leave(s) PROVE FALSE
    BY <1>0, <2>2 DEF Leave, BothThere, Rank, Sides
  <2> QED
    BY <2>1, <2>2, Zenon DEF BothThere
<1>3. Line(t) = FirstN(sent[t])
  BY <1>2 DEF Faithful, BothThere, Line, FirstN
<1>4. /\ got[Other(t)] \in Seq(Sent) /\ outbuf[Other(t)] \in Seq(Sent)
      /\ held[t] \in Seq(Sent) /\ inbuf[t] \in Seq(Sent)
  BY <1>0, <1>1 DEF Shape
<1>5. got[Other(t)] \o outbuf[Other(t)] \in Seq(Sent)
      /\ got[Other(t)] \o outbuf[Other(t)] \o held[t] \in Seq(Sent)
  BY <1>4, Joining
<1>6. ASSUME UNCHANGED <<sent, got, inbuf, held, outbuf>> PROVE (Line(t) = FirstN(sent[t]))'
  BY <1>3, <1>6, Zenon DEF Line
<1>7. ASSUME NEW s \in Sides, Read(s) PROVE (Line(t) = FirstN(sent[t]))'
  <2>1. held[s] = << >> /\ inbuf[s] # << >>
        /\ held' = [held EXCEPT ![s] = <<Head(inbuf[s])>>]
        /\ inbuf' = [inbuf EXCEPT ![s] = Tail(inbuf[s])]
        /\ UNCHANGED <<sent, got, outbuf>>
    BY <1>7 DEF Read, HeldInv, At, peerVars
  <2>2. CASE s = t
    <3>1. held'[t] = <<Head(inbuf[t])>> /\ inbuf'[t] = Tail(inbuf[t])
      BY <1>0, <2>1, <2>2 DEF Shape
    <3>2. (got[Other(t)] \o outbuf[Other(t)]) \o <<Head(inbuf[t])>> \o Tail(inbuf[t])
            = FirstN(sent[t])
      <4>1. ((got[Other(t)] \o outbuf[Other(t)]) \o <<Head(inbuf[t])>>) \o Tail(inbuf[t])
              = ((got[Other(t)] \o outbuf[Other(t)]) \o << >>) \o inbuf[t]
        BY <1>4, <1>5, <2>1, <2>2, ReadLine
      <4> QED
        BY <1>3, <2>1, <2>2, <4>1, Zenon DEF Line
    <3> QED
      BY <2>1, <3>1, <3>2, Zenon DEF Line
  <2>3. CASE s # t
    <3>1. held'[t] = held[t] /\ inbuf'[t] = inbuf[t]
      BY <1>0, <2>1, <2>3 DEF Shape
    <3> QED
      BY <1>3, <2>1, <3>1, Zenon DEF Line
  <2> QED
    BY <2>2, <2>3
<1>8. ASSUME NEW s \in Sides, Write(s) PROVE (Line(t) = FirstN(sent[t]))'
  <2>1. Other(s) \in Sides
    BY DEF Other, Sides
  <2>2. /\ outbuf' = [outbuf EXCEPT ![Other(s)] = outbuf[Other(s)] \o held[s]]
        /\ held' = [held EXCEPT ![s] = << >>] /\ UNCHANGED <<sent, got, inbuf>>
    BY <1>8, <1>2, <2>1 DEF Write, NextMessage, BothThere, peerVars, Sides
  <2>3. CASE s = t
    <3> DEFINE g == got[Other(t)]  o == outbuf[Other(t)]  h == held[t]  i == inbuf[t]
    <3>1. held'[t] = << >> /\ outbuf'[Other(t)] = outbuf[Other(t)] \o held[t]
      BY <1>0, <1>1, <2>2, <2>3 DEF Shape
    <3>2. ((g \o (o \o h)) \o << >>) \o i = FirstN(sent[t])
      <4>1. g \in Seq(Sent) /\ o \in Seq(Sent) /\ h \in Seq(Sent) /\ i \in Seq(Sent)
        BY <1>4
      <4>2. ((g \o o) \o h) \o i = FirstN(sent[t])
        BY <1>3 DEF Line
      <4> HIDE DEF g, o, h, i
      <4> QED
        BY <4>1, <4>2, WriteLine
    <3> QED
      BY <2>2, <3>1, <3>2, Zenon DEF Line
  <2>4. CASE s # t
    <3>1. held'[t] = held[t] /\ outbuf'[Other(t)] = outbuf[Other(t)]
      BY <1>0, <1>1, <2>1, <2>2, <2>4 DEF Shape, Other, Sides
    <3> QED
      BY <1>3, <2>2, <3>1, Zenon DEF Line
  <2> QED
    BY <2>3, <2>4
<1>9. ASSUME NEW s \in Sides, Send(s) PROVE (Line(t) = FirstN(sent[t]))'
  <2>1. /\ sent[s] < MaxSent /\ sent' = [sent EXCEPT ![s] = sent[s] + 1]
        /\ inbuf' = [inbuf EXCEPT ![s] = Append(inbuf[s], sent'[s])]
        /\ UNCHANGED <<got, outbuf, held>>
    BY <1>9 DEF Send
  <2>2. CASE s = t
    <3>1. sent[t] \in Nat /\ sent[t] + 1 \in Sent /\ sent'[t] = sent[t] + 1
          /\ inbuf'[t] = Append(inbuf[t], sent[t] + 1)
      <4>1. sent[t] \in Nat /\ sent[t] + 1 \in Sent
        BY <1>0, <2>1, <2>2, BoundsAssumption DEF Rank, Sent
      <4>2. sent'[t] = sent[t] + 1
        BY <1>0, <2>1, <2>2 DEF Rank
      <4> QED
        BY <1>0, <2>1, <2>2, <4>1, <4>2 DEF Shape
    <3>2. (got[Other(t)] \o outbuf[Other(t)] \o held[t]) \o Append(inbuf[t], sent[t] + 1)
            = FirstN(sent[t] + 1)
      <4>1. (got[Other(t)] \o outbuf[Other(t)] \o held[t]) \o inbuf[t] = FirstN(sent[t])
        BY <1>3, Zenon DEF Line
      <4> QED
        BY <1>4, <1>5, <3>1, <4>1, SendLine
    <3> QED
      BY <2>1, <3>1, <3>2, Zenon DEF Line
  <2>3. CASE s # t
    <3>1. sent'[t] = sent[t] /\ inbuf'[t] = inbuf[t]
      BY <1>0, <2>1, <2>3 DEF Shape, Rank
    <3> QED
      BY <1>3, <2>1, <3>1, Zenon DEF Line
  <2> QED
    BY <2>2, <2>3
<1>10. ASSUME NEW s \in Sides, Receive(s) PROVE (Line(t) = FirstN(sent[t]))'
  <2>1. /\ outbuf[s] # << >> /\ got' = [got EXCEPT ![s] = Append(got[s], Head(outbuf[s]))]
        /\ outbuf' = [outbuf EXCEPT ![s] = Tail(outbuf[s])]
        /\ UNCHANGED <<sent, inbuf, held>>
    BY <1>10 DEF Receive
  <2>2. CASE s = Other(t)
    <3>1. got'[s] = Append(got[s], Head(outbuf[s])) /\ outbuf'[s] = Tail(outbuf[s])
      BY <1>0, <2>1 DEF Shape
    <3>2. Append(got[s], Head(outbuf[s])) \o Tail(outbuf[s]) = got[s] \o outbuf[s]
      BY <1>4, <2>1, <2>2, ReceiveLine
    <3>3. got'[s] \o outbuf'[s] = got[s] \o outbuf[s]
      BY <3>1, <3>2, Zenon
    <3> QED
      BY <1>3, <2>1, <2>2, <3>3, Zenon DEF Line
  <2>3. CASE s # Other(t)
    <3>1. got'[Other(t)] = got[Other(t)] /\ outbuf'[Other(t)] = outbuf[Other(t)]
      BY <1>0, <1>1, <2>1, <2>3 DEF Shape
    <3> QED
      BY <1>3, <2>1, <3>1, Zenon DEF Line
  <2> QED
    BY <2>2, <2>3
<1>11. CASE \/ Upgrade \/ Dial \/ Await \/ Closes \/ Rest \/ UNCHANGED vars
            \/ \E s \in Sides : Fail(s) \/ Leave(s)
  BY <1>6, <1>11 DEF Upgrade, Dial, Await, Closes, CloseConn, Rest, Fail, Leave, vars, peerVars,
                     bufVars
<1>12. "client" \in Sides /\ "server" \in Sides
  BY DEF Sides
<1> QED
  BY <1>7, <1>8, <1>9, <1>10, <1>11, <1>12 DEF Next, Handler, Upstream, Copy, Peers

RelayInv == TypeOK /\ PhaseInv /\ HeldInv /\ Faithful

LEMMA RelayInit == Init => RelayInv
<1>1. Init => PhaseInv /\ HeldInv
  BY DEF Init, PhaseInv, NoCloseInUse, HeldInv, All, Sides
<1>2. Init => Faithful
  <2>1. << >> \o << >> \o << >> \o << >> = FirstN(0)
    BY DEF FirstN
  <2> QED
    BY <2>1 DEF Init, Faithful, FirstN, All, Other, Sides
<1> QED
  BY InitType, <1>1, <1>2 DEF RelayInv

LEMMA RelayStep == RelayInv /\ [Next]_vars => RelayInv'
BY TypeStep, PhaseStep, HeldStep, FaithfulStep DEF RelayInv

\* While both peers are there what one receives is what the other has sent, in order, and
\* the rest is on its way (tools/mitm/main.go:172-203).
THEOREM NothingLost == Spec => []Faithful
<1>1. RelayInv => Faithful
  BY DEF RelayInv
<1> QED
  BY RelayInit, RelayStep, <1>1, PTL DEF Spec

(***************************************************************************)
(* The program of both: the exchange, and the session it leads to.         *)
(***************************************************************************)
\* A header is set to one value, its last; of one value at most that is the first, too.
LEMMA ResetKeepsOne ==
    ASSUME NEW S, NEW values \in Seq(S), Len(values) <= 1
    PROVE  Get(Reset(values)) = Get(values)
<1>1. CASE values = << >>
  BY <1>1 DEF Reset
<1>2. CASE values # << >>
  <2>1. Len(values) = 1 /\ Head(values) = values[1]
    BY <1>2, EmptySeq, HeadTailProperties
  <2>2. Reset(values) = <<Head(values)>>
    BY <1>2, <2>1 DEF Reset, Last
  <2> QED
    BY <1>2, <2>2 DEF Get
<1> QED
  BY <1>1, <1>2

LEMMA BoundedIsSeq == ASSUME NEW values \in BoundedSeq(Times, MaxValues) PROVE values \in Seq(Times)
BY ProxyBounds DEF BoundedSeq, SeqOf

\* Before the answer is rewritten it is known whether PsyTime has several values.
SignedInv ==
    /\ stage = "modify" => /\ response.PsyTime \in Seq(Times)
                           /\ ~repeated => Len(response.PsyTime) <= 1
    /\ SignedAsDelivered

LEMMA SignedInit == MitmInit => SignedInv
BY DEF MitmInit, ProxyInit, SignedInv, SignedAsDelivered

LEMMA SignedStep == SignedInv /\ [MitmNext]_mitmVars => SignedInv'
<1> SUFFICES ASSUME SignedInv, [MitmNext]_mitmVars PROVE SignedInv'
  OBVIOUS
<1> USE DEF SignedInv, SignedAsDelivered
<1>1. CASE GameAsks \/ Director \/ GameDials
  BY <1>1 DEF GameAsks, Director, GameDials
<1>2. CASE PsyNetAnswers
  <2>1. CASE stage' = "failed"
    BY <2>1
  <2>2. CASE stage' = "modify"
    <3>1. PICK body \in Others \cup {Result}, times \in BoundedSeq(Times, MaxValues),
               cookies \in BoundedSeq(Times, MaxValues) :
              /\ response' = [body |-> body, PsyTime |-> times, SetCookie |-> cookies,
                              PsySig |-> <<Sign(Get(times), body)>>, ContentLength |-> <<body>>]
              /\ repeated' = (Len(times) > 1)
      BY <1>2, <2>2 DEF PsyNetAnswers
    <3>2. times \in Seq(Times) /\ response'.PsyTime = times /\ Len(times) \in Nat
      BY <3>1, BoundedIsSeq, LenProperties
    <3>3. ~repeated' => Len(times) <= 1
      <4>1. Len(times) > 1 \/ Len(times) <= 1
        BY <3>2
      <4> QED
        BY <3>1, <4>1, Zenon
    <3> QED
      BY <2>2, <3>2, <3>3
  <2> QED
    BY <1>2, <2>1, <2>2 DEF PsyNetAnswers
<1>3. CASE ModifyResponse
  <2>1. PICK body :
            response' = [body          |-> Rewritten(body),
                         PsySig        |-> <<Sign(Get(response.PsyTime), Rewritten(body))>>,
                         PsyTime       |-> Reset(response.PsyTime),
                         SetCookie     |-> Reset(response.SetCookie),
                         ContentLength |-> <<Rewritten(body)>>]
    BY <1>3 DEF ModifyResponse, Signed
  <2>2. stage = "modify" /\ stage' = "answered" /\ repeated' = repeated
    BY <1>3 DEF ModifyResponse
  <2>3. ~repeated => Get(Reset(response.PsyTime)) = Get(response.PsyTime)
    BY <2>2, ResetKeepsOne
  <2>4. Rewritten(body).form = "result" => Rewritten(body).url = "relay"
    BY DEF Rewritten, Body
  <2>5. /\ response'.PsySig = <<Sign(Get(response.PsyTime), Rewritten(body))>>
        /\ response'.PsyTime = Reset(response.PsyTime)
        /\ response'.body = Rewritten(body) /\ response'.ContentLength = <<Rewritten(body)>>
    BY <2>1
  <2> HIDE DEF Rewritten
  <2> QED
    BY <2>2, <2>3, <2>4, <2>5
<1>4. CASE UNCHANGED proxyVars
  BY <1>4 DEF proxyVars
<1> QED
  BY <1>1, <1>2, <1>3, <1>4
     DEF MitmNext, ProxyNext, Relays, NoSession, mitmVars

\* What the game is given is signed as PsyNet would sign it and leads to the relay, for any values
\* of the headers and any number of them (tools/mitm/main.go:100-131).
THEOREM AnswersAreSigned == MitmSpec => []SignedAsDelivered
<1>1. SignedInv => SignedAsDelivered
  BY DEF SignedInv
<1> QED
  BY SignedInit, SignedStep, <1>1, PTL DEF MitmSpec

\* The program does nothing to the session that the relay does not do, so what is proved of the
\* relay holds of the program (tools/mitm/main.go:59-206).
THEOREM SessionIsRelay ==
    MitmSpec => Init /\ [][Next]_vars /\ [](TypeOK /\ NoCloseInUse /\ Faithful)
<1>1. MitmInit => Init
  BY DEF MitmInit
<1>2. [MitmNext]_mitmVars => [Next]_vars
  BY DEF MitmNext, Relays, NoSession, mitmVars
<1>3. RelayInv => TypeOK /\ NoCloseInUse /\ Faithful
  BY DEF RelayInv, PhaseInv
<1> QED
  BY <1>1, <1>2, <1>3, RelayInit, RelayStep, PTL DEF MitmSpec
===============================================================================
