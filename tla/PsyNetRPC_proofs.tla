-------------------------- MODULE PsyNetRPC_proofs --------------------------
(***************************************************************************)
(* The proofs about PsyNetRPC, for every set of calls and every capacity.  *)
(* TypeStep shows that the types are inductive; LockStep .. PanicStep each *)
(* carry one part of IInv over every action; the theorems at the end read  *)
(* the properties off the invariant.                                       *)
(***************************************************************************)
EXTENDS PsyNetRPC_props, SequenceTheorems, TLAPS

USE DEF At, Goto, conn, callVars, loopVars, clientVars, allButPc

LEMMA ChanForEntry ==
    ASSUME TypeOK, NEW i, ChanFor(i) # NoCall
    PROVE  \E e \in pendingReqs : e.id = i /\ e.call = ChanFor(i)
BY DEF ChanFor

LEMMA ChanForType ==
    ASSUME TypeOK, NEW i PROVE ChanFor(i) \in Calls \cup {NoCall}
<1>1. CASE ChanFor(i) = NoCall
  BY <1>1
<1>2. CASE ChanFor(i) # NoCall
  BY <1>2, ChanForEntry DEF TypeOK
<1> QED BY <1>1, <1>2

LEMMA MessageTypes ==
    /\ \A k \in Kinds : /\ Plain(k) \in Messages
                        /\ \A i \in IDs, c \in Calls \cup {NoCall} : Msg(k, i, c) \in Messages
    /\ NoMsg \in Messages
BY DEF Plain, Msg, Messages, NoMsg, IDs, NoID, Kinds

LEMMA EmptyMessages ==
    << >> \in Seq(Messages) /\ \A n \in Nat : Len(<< >>) <= n
OBVIOUS

LEMMA TypeInit == Init => TypeOK
<1> SUFFICES ASSUME Init PROVE TypeOK
  OBVIOUS
<1>1. pc \in [Procs -> Labels]
  BY DEF Init, Labels
<1>2. /\ nextID \in Nat /\ reqID \in [Calls -> IDs]
      /\ pushed \in 0 .. MaxPush /\ surplus \in Int
  BY BoundsAssumption DEF Init, IDs, NoID
<1>3. /\ eventCh \in Seq(Messages) /\ Len(eventCh) <= EventCap
      /\ outbox \in Seq(Messages) /\ Len(outbox) <= OutCap
      /\ inbox \in Seq(Messages) /\ Len(inbox) <= InCap
  BY BoundsAssumption, EmptyMessages DEF Init
<1> QED BY <1>1, <1>2, <1>3, MessageTypes DEF Init, TypeOK

\* Every step moves its goroutine to a label.
LEMMA LabelStep == ASSUME TypeOK, [Next]_vars PROVE pc' \in [Procs -> Labels]
<1> USE DEF TypeOK, Labels, Procs, Closers
<1>1. ASSUME NEW c \in Calls, CallStart(c) PROVE pc' \in [Procs -> Labels]
  BY <1>1 DEF CallStart
<1>2. ASSUME NEW c \in Calls, GetID(c) PROVE pc' \in [Procs -> Labels]
  BY <1>2 DEF GetID
<1>3. ASSUME NEW c \in Calls, SendLock(c) PROVE pc' \in [Procs -> Labels]
  BY <1>3 DEF SendLock
<1>4. ASSUME NEW c \in Calls, SendOK(c) PROVE pc' \in [Procs -> Labels]
  BY <1>4 DEF SendOK
<1>5. ASSUME NEW c \in Calls, SendFail(c) PROVE pc' \in [Procs -> Labels]
  BY <1>5 DEF SendFail
<1>6. ASSUME NEW c \in Calls, AwaitResponse(c) PROVE pc' \in [Procs -> Labels]
  BY <1>6 DEF AwaitResponse
<1>7. ASSUME NEW c \in Calls, AwaitCtx(c) PROVE pc' \in [Procs -> Labels]
  BY <1>7 DEF AwaitCtx
<1>8. ASSUME NEW c \in Calls, ReapTake(c) PROVE pc' \in [Procs -> Labels]
  BY <1>8 DEF ReapTake
<1>9. ASSUME NEW c \in Calls, ReapClose(c) PROVE pc' \in [Procs -> Labels]
  BY <1>9 DEF ReapClose
<1>10. ASSUME NEW c \in Calls, CtxDone(c) PROVE pc' \in [Procs -> Labels]
  BY <1>10 DEF CtxDone
<1>11. ASSUME NEW p \in Closers, CloseLock(p) PROVE pc' \in [Procs -> Labels]
  BY <1>11 DEF CloseLock
<1>12. ASSUME NEW p \in Closers, CloseFinish(p) PROVE pc' \in [Procs -> Labels]
  BY <1>12 DEF CloseFinish
<1>13. ASSUME NEW p \in Closers, CloseEvent(p) PROVE pc' \in [Procs -> Labels]
  BY <1>13 DEF CloseEvent
<1>14. CASE ReadPong
  BY <1>14 DEF ReadPong
<1>15. CASE ReadMsg
  BY <1>15 DEF ReadMsg, Route
<1>16. CASE LookupPending
  BY <1>16 DEF LookupPending
<1>17. CASE Deliver
  BY <1>17 DEF Deliver
<1>18. CASE EmitEvent
  BY <1>18 DEF EmitEvent
<1>19. CASE ReadErr
  BY <1>19 DEF ReadErr
<1>20. CASE PingFire
  BY <1>20 DEF PingFire
<1>21. CASE PingLock
  BY <1>21 DEF PingLock
<1>22. CASE PingWriteOK
  BY <1>22 DEF PingWriteOK
<1>23. CASE PingWriteFail
  BY <1>23 DEF PingWriteFail
<1>24. CASE PongArrives
  BY <1>24 DEF PongArrives
<1>25. CASE PongTimeout
  BY <1>25 DEF PongTimeout
<1>26. CASE PingResched
  BY <1>26 DEF PingResched, Scheduled
<1>27. CASE AuthSchedule
  BY <1>27 DEF AuthSchedule, Scheduled
<1>28. CASE UserClose
  BY <1>28 DEF UserClose
<1>29. CASE ForeignGetID
  BY <1>29 DEF ForeignGetID
<1>30. CASE Consume
  BY <1>30 DEF Consume
<1>31. CASE SrvRead
  BY <1>31 DEF SrvRead
<1>32. CASE \E m \in owed : SrvReply(m)
  BY <1>32 DEF SrvReply
<1>33. CASE SrvPong \/ SrvPush
  BY <1>33 DEF SrvPong, SrvPush
<1>34. CASE WireFail
  BY <1>34 DEF WireFail
<1>35. CASE UNCHANGED vars
  BY <1>35 DEF vars
<1> QED
  BY <1>1, <1>2, <1>3, <1>4, <1>5, <1>6, <1>7, <1>8, <1>9, <1>10, <1>11,
     <1>12, <1>13, <1>14, <1>15, <1>16, <1>17, <1>18, <1>19, <1>20, <1>21,
     <1>22, <1>23, <1>24, <1>25, <1>26, <1>27, <1>28, <1>29, <1>30, <1>31,
     <1>32, <1>33, <1>34, <1>35 DEF Next, SendRequest, Reap, Close, Read,
     Ping, Server, Terminated

\* Every step keeps the types: TypeOK is inductive.
LEMMA TypeStep == ASSUME TypeOK, [Next]_vars PROVE TypeOK'
<1> USE BoundsAssumption DEF TypeOK, reqVars, chanVars, reapVars, readVars,
        pingVars, evVars, netVars
<1>0. pc' \in [Procs -> Labels]
  BY LabelStep
<1>1. ASSUME NEW c \in Calls, CallStart(c) PROVE TypeOK'
  BY <1>0, <1>1 DEF CallStart
<1>2. ASSUME NEW c \in Calls, GetID(c) PROVE TypeOK'
  BY <1>0, <1>2 DEF GetID, Drawn, IDs
<1>3. ASSUME NEW c \in Calls, SendLock(c) PROVE TypeOK'
  <2>1. Without(reqID[c]) \cup {[id |-> reqID[c], call |-> c]} \subseteq [id : IDs, call : Calls]
    BY DEF Without
  <2> QED BY <1>0, <1>3, <2>1 DEF SendLock, Procs
<1>4. ASSUME NEW c \in Calls, SendOK(c) PROVE TypeOK'
  <2>1. outbox' \in Seq(Messages) /\ Len(outbox') <= OutCap
    BY <1>0, <1>4, MessageTypes DEF SendOK, Written, WriteSucceeds, Kinds
  <2> QED BY <1>0, <1>4, <2>1 DEF SendOK
<1>5. ASSUME NEW c \in Calls, SendFail(c) PROVE TypeOK'
  BY <1>0, <1>5 DEF SendFail, Without
<1>6. ASSUME NEW c \in Calls, AwaitResponse(c) PROVE TypeOK'
  <2>1. buf' \in [Calls -> Calls \cup {NoCall}] /\ got' \in [Calls -> Calls \cup {NoCall}]
    BY <1>6 DEF AwaitResponse
  <2>2. panic' \in {panic, "nilDeref"}
    BY <1>6 DEF AwaitResponse
  <2> QED BY <1>0, <1>6, <2>1, <2>2 DEF AwaitResponse
<1>7. ASSUME NEW c \in Calls, AwaitCtx(c) PROVE TypeOK'
  BY <1>0, <1>7 DEF AwaitCtx
<1>8. ASSUME NEW c \in Calls, ReapTake(c) PROVE TypeOK'
  BY <1>0, <1>8, ChanForType DEF ReapTake, Without
<1>9. ASSUME NEW c \in Calls, ReapClose(c) PROVE TypeOK'
  BY <1>0, <1>9 DEF ReapClose
<1>10. ASSUME NEW c \in Calls, CtxDone(c) PROVE TypeOK'
  BY <1>0, <1>10 DEF CtxDone
<1>11. ASSUME NEW p \in Closers, CloseLock(p) PROVE TypeOK'
  BY <1>0, <1>11 DEF CloseLock, Procs, Closers
<1>12. ASSUME NEW p \in Closers, CloseFinish(p) PROVE TypeOK'
  <2>1. Registered \subseteq Calls
    BY DEF Registered
  <2>2. surplus' \in Int
    BY <1>12 DEF CloseFinish
  <2>3. chClosed' \subseteq Calls /\ pendingReqs' = {} /\ owed' = {}
        /\ panic' \in {panic, "closeOfClosed"}
    BY <1>12, <2>1 DEF CloseFinish
  <2> QED BY <1>0, <1>12, <2>2, <2>3, EmptyMessages DEF CloseFinish
<1>13. ASSUME NEW p \in Closers, CloseEvent(p) PROVE TypeOK'
  <2>1. eventCh' \in Seq(Messages) /\ Len(eventCh') <= EventCap
    BY <1>0, <1>13, MessageTypes DEF CloseEvent, sendEvent, EventFits, Kinds
  <2> QED BY <1>0, <1>13, <2>1, MessageTypes DEF CloseEvent
<1>14. CASE ReadPong
  BY <1>0, <1>14 DEF ReadPong
<1>15. CASE ReadMsg
  BY <1>0, <1>15 DEF ReadMsg, Route
<1>16. CASE LookupPending
  BY <1>0, <1>16, ChanForType DEF LookupPending
<1>17. CASE Deliver
  <2>1. rmsg.body \in Calls \cup {NoCall}
    BY DEF Messages
  <2>2. buf' \in [Calls -> Calls \cup {NoCall}]
    BY <1>0, <1>17, <2>1 DEF Deliver
  <2> QED BY <1>0, <1>17, <2>2, MessageTypes DEF Deliver
<1>18. CASE EmitEvent
  <2>1. eventCh' \in Seq(Messages) /\ Len(eventCh') <= EventCap
    BY <1>0, <1>18, MessageTypes DEF EmitEvent, sendEvent, EventFits, Kinds
  <2> QED BY <1>0, <1>18, <2>1, MessageTypes DEF EmitEvent
<1>19. CASE ReadErr
  BY <1>0, <1>19 DEF ReadErr
<1>20. CASE PingFire
  BY <1>0, <1>20 DEF PingFire
<1>21. CASE PingLock
  BY <1>0, <1>21 DEF PingLock, Procs, Closers
<1>22. CASE PingWriteOK
  <2>1. outbox' \in Seq(Messages) /\ Len(outbox') <= OutCap
    BY <1>0, <1>22, MessageTypes DEF PingWriteOK, Written, WriteSucceeds, Kinds
  <2> QED BY <1>0, <1>22, <2>1 DEF PingWriteOK
<1>23. CASE PingWriteFail
  BY <1>0, <1>23 DEF PingWriteFail
<1>24. CASE PongArrives
  BY <1>0, <1>24 DEF PongArrives
<1>25. CASE PongTimeout
  BY <1>0, <1>25 DEF PongTimeout
<1>26. CASE PingResched
  BY <1>0, <1>26 DEF PingResched, schedulePing, Scheduled
<1>27. CASE AuthSchedule
  BY <1>0, <1>27 DEF AuthSchedule, schedulePing, Scheduled
<1>28. CASE UserClose
  BY <1>0, <1>28 DEF UserClose
<1>29. CASE ForeignGetID
  BY <1>0, <1>29 DEF ForeignGetID, Drawn
<1>30. CASE Consume
  BY <1>0, <1>30 DEF Consume
<1>31. CASE SrvRead
  <2>1. Head(outbox) \in Messages /\ outbox' \in Seq(Messages) /\ Len(outbox') <= OutCap
    BY <1>31 DEF SrvRead
  <2>2. owed' \subseteq Messages /\ surplus' \in Int
    BY <1>31, <2>1 DEF SrvRead
  <2> QED BY <1>0, <1>31, <2>1, <2>2 DEF SrvRead
<1>32. CASE \E m \in owed : SrvReply(m)
  <2> PICK m \in owed : SrvReply(m)
    BY <1>0, <1>32
  <2>1. \A k \in Kinds : Msg(k, m.id, m.body) \in Messages
    BY MessageTypes DEF Messages
  <2>2. inbox' \in Seq(Messages) /\ Len(inbox') <= InCap
    BY <2>1, MessageTypes DEF SrvReply, Kinds
  <2> QED BY <2>2 DEF SrvReply
<1>33. CASE SrvPong \/ SrvPush
  <2>1. PICK x \in {Plain("pong"), NoMsg} : inbox' = Append(inbox, x)
    BY <1>33 DEF SrvPong, SrvPush
  <2>2. x \in Messages /\ Len(inbox) < InCap
    BY <1>33, MessageTypes DEF SrvPong, SrvPush, Kinds
  <2>3. inbox' \in Seq(Messages) /\ Len(inbox') <= InCap
    BY <2>1, <2>2, BoundsAssumption
  <2>4. CASE SrvPong
    BY <1>0, <2>3, <2>4 DEF SrvPong
  <2>5. CASE SrvPush
    BY <1>0, <2>3, <2>5, BoundsAssumption DEF SrvPush
  <2> QED BY <1>33, <2>4, <2>5
<1>34. CASE WireFail
  BY <1>0, <1>34, EmptyMessages DEF WireFail
<1>35. CASE UNCHANGED vars
  BY <1>0, <1>35 DEF vars
<1> QED
  BY <1>1, <1>2, <1>3, <1>4, <1>5, <1>6, <1>7, <1>8, <1>9, <1>10, <1>11,
     <1>12, <1>13, <1>14, <1>15, <1>16, <1>17, <1>18, <1>19, <1>20, <1>21,
     <1>22, <1>23, <1>24, <1>25, <1>26, <1>27, <1>28, <1>29, <1>30, <1>31,
     <1>32, <1>33, <1>34, <1>35 DEF Next, SendRequest, Reap, Close, Read,
     Ping, Server, Terminated

\* The variables of the connection keep to their domains and the channels to
\* their capacities, whatever these are (psynetrpc.go:31-57).
THEOREM TypeCorrect == SafeSpec => []TypeOK
<1>1. TypeOK /\ [Next]_vars => TypeOK'
  BY TypeStep
<1> QED BY TypeInit, <1>1, PTL DEF SafeSpec

\* The lock is taken when it is free and given back by its holder.
LEMMA LockStep == ASSUME TypeOK, LockInv, [Next]_vars PROVE LockInv'
<1> USE CallsAssumption DEF TypeOK, LockInv, Holding, Procs, Closers
<1>1. ASSUME NEW c \in Calls, CallStart(c) PROVE LockInv'
  BY <1>1 DEF CallStart
<1>2. ASSUME NEW c \in Calls, GetID(c) PROVE LockInv'
  BY <1>2 DEF GetID, Drawn
<1>3. ASSUME NEW c \in Calls, SendLock(c) PROVE LockInv'
  BY <1>3 DEF SendLock, Recheck, Without
<1>4. ASSUME NEW c \in Calls, SendOK(c) PROVE LockInv'
  BY <1>4 DEF SendOK, Written, WriteSucceeds
<1>5. ASSUME NEW c \in Calls, SendFail(c) PROVE LockInv'
  BY <1>5 DEF SendFail, Without
<1>6. ASSUME NEW c \in Calls, AwaitResponse(c) PROVE LockInv'
  BY <1>6 DEF AwaitResponse
<1>7. ASSUME NEW c \in Calls, AwaitCtx(c) PROVE LockInv'
  BY <1>7 DEF AwaitCtx
<1>8. ASSUME NEW p \in Closers, CloseLock(p) PROVE LockInv'
  BY <1>8 DEF CloseLock
<1>9. ASSUME NEW p \in Closers, CloseFinish(p) PROVE LockInv'
  BY <1>9 DEF CloseFinish, Registered
<1>10. ASSUME NEW p \in Closers, CloseEvent(p) PROVE LockInv'
  BY <1>10 DEF CloseEvent, sendEvent, EventFits
<1>11. CASE ReadMsg
  BY <1>11 DEF ReadMsg, Route
<1>12. CASE LookupPending
  BY <1>12 DEF LookupPending
<1>13. CASE Deliver
  BY <1>13 DEF Deliver
<1>14. CASE EmitEvent
  BY <1>14 DEF EmitEvent, sendEvent, EventFits
<1>15. CASE ReadErr
  BY <1>15 DEF ReadErr
<1>16. CASE PingFire
  BY <1>16 DEF PingFire
<1>17. CASE PingLock
  BY <1>17 DEF PingLock
<1>18. CASE PingWriteOK
  BY <1>18 DEF PingWriteOK, Written, WriteSucceeds
<1>19. CASE PingWriteFail
  BY <1>19 DEF PingWriteFail
<1>20. CASE PongArrives
  BY <1>20 DEF PongArrives
<1>21. CASE PongTimeout
  BY <1>21 DEF PongTimeout
<1>22. CASE PingResched
  BY <1>22 DEF PingResched, schedulePing, Scheduled
<1>23. CASE AuthSchedule
  BY <1>23 DEF AuthSchedule, schedulePing, Scheduled
<1>24. CASE UserClose
  BY <1>24 DEF UserClose
<1>25. CASE \/ \E c \in Calls : ReapTake(c) \/ ReapClose(c) \/ CtxDone(c)
            \/ ReadPong \/ ForeignGetID \/ Consume \/ SrvRead
            \/ (\E m \in owed : SrvReply(m)) \/ SrvPong \/ SrvPush \/ WireFail \/ UNCHANGED vars
  BY <1>25 DEF ReapTake, ReapClose, CtxDone, ReadPong, ForeignGetID, Consume,
     SrvRead, SrvReply, SrvPong, SrvPush, WireFail, vars
<1> QED
  BY <1>1, <1>2, <1>3, <1>4, <1>5, <1>6, <1>7, <1>8, <1>9, <1>10, <1>11,
     <1>12, <1>13, <1>14, <1>15, <1>16, <1>17, <1>18, <1>19, <1>20, <1>21,
     <1>22, <1>23, <1>24, <1>25 DEF Next, SendRequest, Reap, Close, Read,
     Ping, Server, Terminated


\* An id is drawn once, and an entry keeps the id of its call.
LEMMA IdStep == ASSUME TypeOK, IdInv, ChanInv, [Next]_vars PROVE IdInv'
<1> USE CallsAssumption DEF TypeOK, IdInv, Procs, Closers, IDs, NoID, reqVars
<1>1. ASSUME NEW c \in Calls, CallStart(c) PROVE IdInv'
  BY <1>1 DEF CallStart
<1>2. ASSUME NEW c \in Calls, GetID(c) PROVE IdInv'
  BY <1>2 DEF GetID, Drawn, ChanInv, Registered
<1>3. ASSUME NEW c \in Calls, SendLock(c) PROVE IdInv'
  BY <1>3 DEF SendLock, Recheck, Without
<1>4. ASSUME NEW c \in Calls, SendOK(c) PROVE IdInv'
  BY <1>4 DEF SendOK, Written, WriteSucceeds
<1>5. ASSUME NEW c \in Calls, SendFail(c) PROVE IdInv'
  BY <1>5 DEF SendFail, Without
<1>6. ASSUME NEW c \in Calls, AwaitResponse(c) PROVE IdInv'
  BY <1>6 DEF AwaitResponse
<1>7. ASSUME NEW c \in Calls, AwaitCtx(c) PROVE IdInv'
  BY <1>7 DEF AwaitCtx
<1>8. ASSUME NEW c \in Calls, ReapTake(c) PROVE IdInv'
  BY <1>8 DEF ReapTake, Without
<1>9. ASSUME NEW p \in Closers, CloseLock(p) PROVE IdInv'
  BY <1>9 DEF CloseLock
<1>10. ASSUME NEW p \in Closers, CloseFinish(p) PROVE IdInv'
  BY <1>10 DEF CloseFinish, Registered
<1>11. ASSUME NEW p \in Closers, CloseEvent(p) PROVE IdInv'
  BY <1>11 DEF CloseEvent, sendEvent, EventFits
<1>12. CASE ReadMsg
  BY <1>12 DEF ReadMsg, Route
<1>13. CASE LookupPending
  BY <1>13 DEF LookupPending
<1>14. CASE Deliver
  BY <1>14 DEF Deliver
<1>15. CASE EmitEvent
  BY <1>15 DEF EmitEvent, sendEvent, EventFits
<1>16. CASE ReadErr
  BY <1>16 DEF ReadErr
<1>17. CASE PingFire
  BY <1>17 DEF PingFire
<1>18. CASE PingLock
  BY <1>18 DEF PingLock
<1>19. CASE PingWriteOK
  BY <1>19 DEF PingWriteOK, Written, WriteSucceeds
<1>20. CASE PingWriteFail
  BY <1>20 DEF PingWriteFail
<1>21. CASE PongArrives
  BY <1>21 DEF PongArrives
<1>22. CASE PongTimeout
  BY <1>22 DEF PongTimeout
<1>23. CASE PingResched
  BY <1>23 DEF PingResched, schedulePing, Scheduled
<1>24. CASE AuthSchedule
  BY <1>24 DEF AuthSchedule, schedulePing, Scheduled
<1>25. CASE UserClose
  BY <1>25 DEF UserClose
<1>26. CASE ForeignGetID
  BY <1>26 DEF ForeignGetID, Drawn
<1>27. CASE \/ \E c \in Calls : ReapClose(c) \/ CtxDone(c)
            \/ ReadPong \/ Consume \/ SrvRead \/ (\E m \in owed : SrvReply(m))
            \/ SrvPong \/ SrvPush \/ WireFail \/ UNCHANGED vars
  BY <1>27 DEF ReapClose, CtxDone, ReadPong, Consume, SrvRead, SrvReply,
     SrvPong, SrvPush, WireFail, vars
<1> QED
  BY <1>1, <1>2, <1>3, <1>4, <1>5, <1>6, <1>7, <1>8, <1>9, <1>10, <1>11,
     <1>12, <1>13, <1>14, <1>15, <1>16, <1>17, <1>18, <1>19, <1>20, <1>21,
     <1>22, <1>23, <1>24, <1>25, <1>26, <1>27 DEF Next, SendRequest, Reap,
     Close, Read, Ping, Server, Terminated


\* A response channel is closed by the goroutine that unregistered it.
LEMMA ChanStep == ASSUME TypeOK, LockInv, IdInv, ChanInv, [Next]_vars PROVE ChanInv'
<1> USE CallsAssumption DEF TypeOK, ChanInv, Procs, Closers, Registered,
   reapVars, chanVars
<1>1. ASSUME NEW c \in Calls, CallStart(c) PROVE ChanInv'
  BY <1>1 DEF CallStart
<1>2. ASSUME NEW c \in Calls, GetID(c) PROVE ChanInv'
  BY <1>2 DEF GetID, Drawn
<1>3. ASSUME NEW c \in Calls, SendLock(c) PROVE ChanInv'
  BY <1>3 DEF SendLock, Recheck, Without
<1>4. ASSUME NEW c \in Calls, SendOK(c) PROVE ChanInv'
  BY <1>4 DEF SendOK, Written, WriteSucceeds
<1>5. ASSUME NEW c \in Calls, SendFail(c) PROVE ChanInv'
  BY <1>5 DEF SendFail, Without
<1>6. ASSUME NEW c \in Calls, AwaitResponse(c) PROVE ChanInv'
  BY <1>6 DEF AwaitResponse
<1>7. ASSUME NEW c \in Calls, AwaitCtx(c) PROVE ChanInv'
  BY <1>7 DEF AwaitCtx
<1>8. ASSUME NEW c \in Calls, ReapTake(c) PROVE ChanInv'
  <2>1. ChanFor(reqID[c]) \in {c, NoCall}
    BY ChanForEntry DEF IdInv
  <2>2. c \notin Registered'
    BY <1>8 DEF ReapTake, Without, IdInv
  <2>3. ChanFor(reqID[c]) = c => c \in Registered
    BY ChanForEntry, CallsAssumption
  <2>4. Registered' \subseteq Registered
    BY <1>8 DEF ReapTake, Without
  <2> HIDE DEF Registered
  <2> QED BY <1>8, <2>1, <2>2, <2>3, <2>4, CallsAssumption DEF ReapTake
<1>9. ASSUME NEW c \in Calls, ReapClose(c) PROVE ChanInv'
  BY <1>9 DEF ReapClose
<1>10. ASSUME NEW p \in Closers, CloseLock(p) PROVE ChanInv'
  BY <1>10 DEF CloseLock
<1>11. ASSUME NEW p \in Closers, CloseFinish(p) PROVE ChanInv'
  BY <1>11 DEF CloseFinish, Registered
<1>12. ASSUME NEW p \in Closers, CloseEvent(p) PROVE ChanInv'
  BY <1>12 DEF CloseEvent, sendEvent, EventFits
<1>13. CASE ReadMsg
  BY <1>13 DEF ReadMsg, Route
<1>14. CASE LookupPending
  BY <1>14 DEF LookupPending
<1>15. CASE Deliver
  BY <1>15 DEF Deliver
<1>16. CASE EmitEvent
  BY <1>16 DEF EmitEvent, sendEvent, EventFits
<1>17. CASE ReadErr
  BY <1>17 DEF ReadErr
<1>18. CASE PingFire
  BY <1>18 DEF PingFire
<1>19. CASE PingLock
  BY <1>19 DEF PingLock
<1>20. CASE PingWriteOK
  BY <1>20 DEF PingWriteOK, Written, WriteSucceeds
<1>21. CASE PingWriteFail
  BY <1>21 DEF PingWriteFail
<1>22. CASE PongArrives
  BY <1>22 DEF PongArrives
<1>23. CASE PongTimeout
  BY <1>23 DEF PongTimeout
<1>24. CASE PingResched
  BY <1>24 DEF PingResched, schedulePing, Scheduled
<1>25. CASE AuthSchedule
  BY <1>25 DEF AuthSchedule, schedulePing, Scheduled
<1>26. CASE UserClose
  BY <1>26 DEF UserClose
<1>27. CASE \/ \E c \in Calls : CtxDone(c)
            \/ ReadPong \/ ForeignGetID \/ Consume \/ SrvRead
            \/ (\E m \in owed : SrvReply(m)) \/ SrvPong \/ SrvPush \/ WireFail \/ UNCHANGED vars
  BY <1>27 DEF CtxDone, ReadPong, ForeignGetID, Consume, SrvRead, SrvReply,
     SrvPong, SrvPush, WireFail, vars
<1> QED
  BY <1>1, <1>2, <1>3, <1>4, <1>5, <1>6, <1>7, <1>8, <1>9, <1>10, <1>11,
     <1>12, <1>13, <1>14, <1>15, <1>16, <1>17, <1>18, <1>19, <1>20, <1>21,
     <1>22, <1>23, <1>24, <1>25, <1>26, <1>27 DEF Next, SendRequest, Reap,
     Close, Read, Ping, Server, Terminated


\* The channel found under the id of a response is that of the call it answers.
LEMMA OwnChannel ==
    ASSUME TypeOK, IdInv, Genuine(rmsg), rmsg.kind = "resp", ChanFor(rmsg.id) # NoCall
    PROVE  ChanFor(rmsg.id) = rmsg.body
<1>1. PICK e \in pendingReqs : e.id = rmsg.id /\ e.call = ChanFor(rmsg.id)
  BY ChanForEntry
<1>2. e.call \in Calls
  BY DEF TypeOK
<1>3. rmsg.body \in Calls /\ rmsg.id = reqID[rmsg.body] /\ rmsg.id # NoID
  BY DEF Genuine
<1>4. reqID[e.call] = rmsg.id
  BY <1>1 DEF IdInv
<1> QED BY <1>1, <1>2, <1>3, <1>4 DEF IdInv

\* A message keeps the id of its call on its way there and back, and the reader
\* hands a response to the call it was written for.
LEMMA MsgStep == ASSUME TypeOK, IdInv, MsgInv, [Next]_vars PROVE MsgInv'
<1> USE CallsAssumption DEF TypeOK, MsgInv, Genuine, Procs, Closers, reqVars,
   chanVars, readVars, netVars
<1>1. ASSUME NEW c \in Calls, GetID(c) PROVE MsgInv'
  BY <1>1 DEF GetID, IdInv
<1>2. ASSUME NEW c \in Calls, SendOK(c) PROVE MsgInv'
  BY <1>2 DEF SendOK, Written, WriteSucceeds, Msg, IdInv
<1>3. ASSUME NEW c \in Calls, AwaitResponse(c) PROVE MsgInv'
  BY <1>3 DEF AwaitResponse
<1>4. ASSUME NEW p \in Closers, CloseFinish(p) PROVE MsgInv'
  <2>1. Len(outbox') = 0 /\ owed' = {}
    BY <1>4 DEF CloseFinish
  <2>2. \A i \in 1 .. Len(outbox') : FALSE
    BY <2>1
  <2>3. UNCHANGED <<inbox, rmsg, rch, reqID, buf, got>> /\ pc'["reader"] \in {pc["reader"], "closeEvent"}
    BY <1>4 DEF CloseFinish
  <2> QED BY <2>1, <2>2, <2>3
<1>5. CASE ReadPong
  BY <1>5 DEF ReadPong
<1>6. CASE ReadMsg
  BY <1>6 DEF ReadMsg, Route
<1>7. CASE LookupPending
  BY <1>7, OwnChannel DEF LookupPending
<1>8. CASE Deliver
  <2>1. CASE panic' = "sendOnClosed" /\ UNCHANGED <<buf, pc, readVars>>
    BY <1>8, <2>1 DEF Deliver
  <2>2. CASE rch \notin chClosed /\ panic' = panic
    <3>1. rch \in Calls /\ rmsg.body = rch
      BY <1>8 DEF Deliver
    <3>2. \A c \in Calls : buf'[c] \in {c, NoCall} /\ got'[c] \in {c, NoCall}
      BY <1>8, <2>2, <3>1 DEF Deliver
    <3>3. rmsg'.kind = "push" /\ pc'["reader"] = "read"
      BY <1>8, <2>2 DEF Deliver, NoMsg, Plain, Msg
    <3> QED BY <1>8, <3>2, <3>3 DEF Deliver
  <2> QED BY <1>8, <2>1, <2>2 DEF Deliver
<1>9. CASE EmitEvent
  BY <1>9 DEF EmitEvent, NoMsg, Plain, Msg
<1>10. CASE PingWriteOK
  BY <1>10 DEF PingWriteOK, Written, WriteSucceeds, Msg, Plain
<1>11. CASE SrvRead
  BY <1>11 DEF SrvRead
<1>12. CASE \E m \in owed : SrvReply(m)
  <2>1. PICK m \in owed : SrvReply(m)
    BY <1>12
  <2>2. PICK x \in {Msg("resp", m.id, m.body), Plain("push")} : inbox' = Append(inbox, x)
    BY <2>1 DEF SrvReply
  <2>3. Genuine(x) /\ reqID' = reqID
    BY <2>1, <2>2 DEF SrvReply, Messages, Kinds, Msg, Plain
  <2>4. \A i \in 1 .. Len(inbox') : inbox'[i] = x \/ \E j \in 1 .. Len(inbox) : inbox'[i] = inbox[j]
    BY <2>2
  <2>5. (\A i \in 1 .. Len(inbox) : Genuine(inbox[i]))'
    BY <2>3, <2>4
  <2>6. UNCHANGED <<outbox, rmsg, rch, pc, reqID, buf, got>> /\ owed' \subseteq owed
    BY <2>1 DEF SrvReply
  <2> QED BY <2>5, <2>6
<1>13. CASE SrvPong \/ SrvPush
  <2>1. PICK x \in {Plain("pong"), NoMsg} : inbox' = Append(inbox, x)
    BY <1>13 DEF SrvPong, SrvPush
  <2>2. Genuine(x) /\ UNCHANGED <<outbox, owed, rmsg, rch, pc, reqID, buf, got>>
    BY <1>13 DEF SrvPong, SrvPush, NoMsg, Plain, Msg
  <2>3. \A i \in 1 .. Len(inbox') : inbox'[i] = x \/ \E j \in 1 .. Len(inbox) : inbox'[i] = inbox[j]
    BY <2>1
  <2>4. (\A i \in 1 .. Len(inbox) : Genuine(inbox[i]))'
    <3>1. ASSUME NEW i \in 1 .. Len(inbox') PROVE Genuine(inbox'[i])
      BY <2>2, <2>3
    <3> QED BY <2>2, <3>1
  <2> QED BY <2>2, <2>4
<1>14. CASE WireFail
  BY <1>14 DEF WireFail
<1>15. CASE \/ \E c \in Calls : CallStart(c) \/ SendLock(c) \/ SendFail(c) \/ AwaitCtx(c)
            \/ \E c \in Calls : ReapTake(c) \/ ReapClose(c) \/ CtxDone(c)
            \/ \E p \in Closers : CloseLock(p) \/ CloseEvent(p)
            \/ ReadErr \/ PingFire \/ PingLock \/ PingWriteFail
            \/ PongArrives \/ PongTimeout \/ PingResched \/ AuthSchedule
            \/ UserClose \/ ForeignGetID \/ Consume \/ UNCHANGED vars
  BY <1>15 DEF CallStart, SendLock, SendFail, AwaitCtx, ReapTake, ReapClose,
     CtxDone, CloseLock, CloseEvent, ReadErr, PingFire, PingLock,
     PingWriteFail, PongArrives, PongTimeout, PingResched, AuthSchedule,
     UserClose, ForeignGetID, Consume, vars
<1> QED
  BY <1>1, <1>2, <1>3, <1>4, <1>5, <1>6, <1>7, <1>8, <1>9, <1>10, <1>11,
     <1>12, <1>13, <1>14, <1>15 DEF Next, SendRequest, Reap, Close, Read,
     Ping, Server, Terminated


\* The goroutine that takes the connection down is the only one to announce it.
LEMMA DiscStep == ASSUME TypeOK, LockInv, DiscInv, [Next]_vars PROVE DiscInv'
<1> USE CallsAssumption DEF TypeOK, DiscInv, Procs, Closers, evVars
<1>1. ASSUME NEW c \in Calls, CallStart(c) PROVE DiscInv'
  BY <1>1 DEF CallStart
<1>2. ASSUME NEW c \in Calls, GetID(c) PROVE DiscInv'
  BY <1>2 DEF GetID, Drawn
<1>3. ASSUME NEW c \in Calls, SendLock(c) PROVE DiscInv'
  BY <1>3 DEF SendLock, Recheck, Without
<1>4. ASSUME NEW c \in Calls, SendOK(c) PROVE DiscInv'
  BY <1>4 DEF SendOK, Written, WriteSucceeds
<1>5. ASSUME NEW c \in Calls, SendFail(c) PROVE DiscInv'
  BY <1>5 DEF SendFail, Without
<1>6. ASSUME NEW c \in Calls, AwaitResponse(c) PROVE DiscInv'
  BY <1>6 DEF AwaitResponse
<1>7. ASSUME NEW c \in Calls, AwaitCtx(c) PROVE DiscInv'
  BY <1>7 DEF AwaitCtx
<1>8. ASSUME NEW p \in Closers, CloseLock(p) PROVE DiscInv'
  BY <1>8 DEF CloseLock
<1>9. ASSUME NEW p \in Closers, CloseFinish(p) PROVE DiscInv'
  BY <1>9 DEF CloseFinish, LockInv, Holding
<1>10. ASSUME NEW p \in Closers, CloseEvent(p) PROVE DiscInv'
  BY <1>10 DEF CloseEvent, sendEvent, EventFits
<1>11. CASE ReadMsg
  BY <1>11 DEF ReadMsg, Route
<1>12. CASE LookupPending
  BY <1>12 DEF LookupPending
<1>13. CASE Deliver
  BY <1>13 DEF Deliver
<1>14. CASE EmitEvent
  BY <1>14 DEF EmitEvent, sendEvent, EventFits
<1>15. CASE ReadErr
  BY <1>15 DEF ReadErr
<1>16. CASE PingFire
  BY <1>16 DEF PingFire
<1>17. CASE PingLock
  BY <1>17 DEF PingLock
<1>18. CASE PingWriteOK
  BY <1>18 DEF PingWriteOK, Written, WriteSucceeds
<1>19. CASE PingWriteFail
  BY <1>19 DEF PingWriteFail
<1>20. CASE PongArrives
  BY <1>20 DEF PongArrives
<1>21. CASE PongTimeout
  BY <1>21 DEF PongTimeout
<1>22. CASE PingResched
  BY <1>22 DEF PingResched, schedulePing, Scheduled
<1>23. CASE AuthSchedule
  BY <1>23 DEF AuthSchedule, schedulePing, Scheduled
<1>24. CASE UserClose
  BY <1>24 DEF UserClose
<1>25. CASE \/ \E c \in Calls : ReapTake(c) \/ ReapClose(c) \/ CtxDone(c)
            \/ ReadPong \/ ForeignGetID \/ Consume \/ SrvRead
            \/ (\E m \in owed : SrvReply(m)) \/ SrvPong \/ SrvPush \/ WireFail \/ UNCHANGED vars
  BY <1>25 DEF ReapTake, ReapClose, CtxDone, ReadPong, ForeignGetID, Consume,
     SrvRead, SrvReply, SrvPong, SrvPush, WireFail, vars
<1> QED
  BY <1>1, <1>2, <1>3, <1>4, <1>5, <1>6, <1>7, <1>8, <1>9, <1>10, <1>11,
     <1>12, <1>13, <1>14, <1>15, <1>16, <1>17, <1>18, <1>19, <1>20, <1>21,
     <1>22, <1>23, <1>24, <1>25 DEF Next, SendRequest, Reap, Close, Read,
     Ping, Server, Terminated

\* The timer is armed on a live connection only, and Close stops it.
LEMMA TimerStep == ASSUME TypeOK, TimerStopped, [Next]_vars PROVE TimerStopped'
<1> USE CallsAssumption DEF TypeOK, TimerStopped, Procs, Closers, pingVars
<1>1. ASSUME NEW c \in Calls, CallStart(c) PROVE TimerStopped'
  BY <1>1 DEF CallStart
<1>2. ASSUME NEW c \in Calls, GetID(c) PROVE TimerStopped'
  BY <1>2 DEF GetID, Drawn
<1>3. ASSUME NEW c \in Calls, SendLock(c) PROVE TimerStopped'
  BY <1>3 DEF SendLock, Recheck, Without
<1>4. ASSUME NEW c \in Calls, SendOK(c) PROVE TimerStopped'
  BY <1>4 DEF SendOK, Written, WriteSucceeds
<1>5. ASSUME NEW c \in Calls, SendFail(c) PROVE TimerStopped'
  BY <1>5 DEF SendFail, Without
<1>6. ASSUME NEW c \in Calls, AwaitResponse(c) PROVE TimerStopped'
  BY <1>6 DEF AwaitResponse
<1>7. ASSUME NEW c \in Calls, AwaitCtx(c) PROVE TimerStopped'
  BY <1>7 DEF AwaitCtx
<1>8. ASSUME NEW p \in Closers, CloseLock(p) PROVE TimerStopped'
  BY <1>8 DEF CloseLock
<1>9. ASSUME NEW p \in Closers, CloseFinish(p) PROVE TimerStopped'
  BY <1>9 DEF CloseFinish, Registered
<1>10. ASSUME NEW p \in Closers, CloseEvent(p) PROVE TimerStopped'
  BY <1>10 DEF CloseEvent, sendEvent, EventFits
<1>11. CASE ReadMsg
  BY <1>11 DEF ReadMsg, Route
<1>12. CASE LookupPending
  BY <1>12 DEF LookupPending
<1>13. CASE Deliver
  BY <1>13 DEF Deliver
<1>14. CASE EmitEvent
  BY <1>14 DEF EmitEvent, sendEvent, EventFits
<1>15. CASE ReadErr
  BY <1>15 DEF ReadErr
<1>16. CASE PingFire
  BY <1>16 DEF PingFire
<1>17. CASE PingLock
  BY <1>17 DEF PingLock
<1>18. CASE PingWriteOK
  BY <1>18 DEF PingWriteOK, Written, WriteSucceeds
<1>19. CASE PingWriteFail
  BY <1>19 DEF PingWriteFail
<1>20. CASE PongArrives
  BY <1>20 DEF PongArrives
<1>21. CASE PongTimeout
  BY <1>21 DEF PongTimeout
<1>22. CASE PingResched
  BY <1>22 DEF PingResched, schedulePing, Scheduled
<1>23. CASE AuthSchedule
  BY <1>23 DEF AuthSchedule, schedulePing, Scheduled
<1>24. CASE UserClose
  BY <1>24 DEF UserClose
<1>25. CASE \/ \E c \in Calls : ReapTake(c) \/ ReapClose(c) \/ CtxDone(c)
            \/ ReadPong \/ ForeignGetID \/ Consume \/ SrvRead
            \/ (\E m \in owed : SrvReply(m)) \/ SrvPong \/ SrvPush \/ WireFail \/ UNCHANGED vars
  BY <1>25 DEF ReapTake, ReapClose, CtxDone, ReadPong, ForeignGetID, Consume,
     SrvRead, SrvReply, SrvPong, SrvPush, WireFail, vars
<1> QED
  BY <1>1, <1>2, <1>3, <1>4, <1>5, <1>6, <1>7, <1>8, <1>9, <1>10, <1>11,
     <1>12, <1>13, <1>14, <1>15, <1>16, <1>17, <1>18, <1>19, <1>20, <1>21,
     <1>22, <1>23, <1>24, <1>25 DEF Next, SendRequest, Reap, Close, Read,
     Ping, Server, Terminated

\* A request is registered under the lock that finds the connection up.
LEMMA DrainedStep == ASSUME TypeOK, ClosedMeansDrained, [Next]_vars PROVE ClosedMeansDrained'
<1> USE DEF TypeOK, ClosedMeansDrained
<1>1. ASSUME NEW c \in Calls, SendLock(c) PROVE ClosedMeansDrained'
  BY <1>1 DEF SendLock, Recheck, Without
<1>2. ASSUME NEW c \in Calls, SendFail(c) PROVE ClosedMeansDrained'
  BY <1>2 DEF SendFail, Without
<1>3. ASSUME NEW c \in Calls, ReapTake(c) PROVE ClosedMeansDrained'
  BY <1>3 DEF ReapTake, Without
<1>4. ASSUME NEW p \in Closers, CloseFinish(p) PROVE ClosedMeansDrained'
  BY <1>4 DEF CloseFinish, Registered
<1>5. CASE \/ \E c \in Calls : CallStart(c) \/ GetID(c) \/ SendOK(c) \/ AwaitResponse(c)
           \/ \E c \in Calls : AwaitCtx(c) \/ ReapClose(c) \/ CtxDone(c)
           \/ \E p \in Closers : CloseLock(p) \/ CloseEvent(p)
           \/ ReadPong \/ ReadMsg \/ LookupPending \/ Deliver
           \/ EmitEvent \/ ReadErr \/ PingFire \/ PingLock
           \/ PingWriteOK \/ PingWriteFail \/ PongArrives \/ PongTimeout
           \/ PingResched \/ AuthSchedule \/ UserClose \/ ForeignGetID
           \/ Consume \/ SrvRead \/ (\E m \in owed : SrvReply(m)) \/ SrvPong \/ SrvPush
           \/ WireFail \/ UNCHANGED vars
  BY <1>5 DEF CallStart, GetID, SendOK, AwaitResponse, AwaitCtx, ReapClose,
     CtxDone, CloseLock, CloseEvent, ReadPong, ReadMsg, LookupPending,
     Deliver, EmitEvent, ReadErr, PingFire, PingLock, PingWriteOK,
     PingWriteFail, PongArrives, PongTimeout, PingResched, AuthSchedule,
     UserClose, ForeignGetID, Consume, SrvRead, SrvReply, SrvPong, SrvPush, WireFail,
     vars
<1> QED
  BY <1>1, <1>2, <1>3, <1>4, <1>5 DEF Next, SendRequest, Reap, Close, Read,
     Ping, Server, Terminated

\* No channel is closed twice: whoever closes one has taken it out of the map.
LEMMA PanicStep ==
  ASSUME TypeOK, ChanInv, panic # "closeOfClosed", [Next]_vars
  PROVE  panic' # "closeOfClosed"
<1> USE DEF ChanInv
<1>1. ASSUME NEW c \in Calls, AwaitResponse(c) PROVE panic' # "closeOfClosed"
  BY <1>1 DEF AwaitResponse
<1>2. ASSUME NEW c \in Calls, ReapClose(c) PROVE panic' # "closeOfClosed"
  BY <1>2 DEF ReapClose
<1>3. ASSUME NEW p \in Closers, CloseFinish(p) PROVE panic' # "closeOfClosed"
  BY <1>3 DEF CloseFinish, Registered
<1>4. CASE Deliver
  BY <1>4 DEF Deliver
<1>5. CASE \/ \E c \in Calls : CallStart(c) \/ GetID(c) \/ SendLock(c) \/ SendOK(c)
           \/ \E c \in Calls : SendFail(c) \/ AwaitCtx(c) \/ ReapTake(c) \/ CtxDone(c)
           \/ \E p \in Closers : CloseLock(p) \/ CloseEvent(p)
           \/ ReadPong \/ ReadMsg \/ LookupPending \/ EmitEvent
           \/ ReadErr \/ PingFire \/ PingLock \/ PingWriteOK
           \/ PingWriteFail \/ PongArrives \/ PongTimeout \/ PingResched
           \/ AuthSchedule \/ UserClose \/ ForeignGetID \/ Consume
           \/ SrvRead \/ (\E m \in owed : SrvReply(m)) \/ SrvPong \/ SrvPush \/ WireFail
           \/ UNCHANGED vars
  BY <1>5 DEF CallStart, GetID, SendLock, SendOK, SendFail, AwaitCtx,
     ReapTake, CtxDone, CloseLock, CloseEvent, ReadPong, ReadMsg,
     LookupPending, EmitEvent, ReadErr, PingFire, PingLock, PingWriteOK,
     PingWriteFail, PongArrives, PongTimeout, PingResched, AuthSchedule,
     UserClose, ForeignGetID, Consume, SrvRead, SrvReply, SrvPong, SrvPush, WireFail,
     vars
<1> QED
  BY <1>1, <1>2, <1>3, <1>4, <1>5 DEF Next, SendRequest, Reap, Close, Read,
     Ping, Server, Terminated


LEMMA IInvInit == Init => IInv
<1> SUFFICES ASSUME Init PROVE IInv
  OBVIOUS
<1>1. Registered = {}
  BY DEF Init, Registered
<1>2. LockInv /\ IdInv /\ DiscInv /\ TimerStopped
  BY CallsAssumption DEF Init, LockInv, Holding, IdInv, DiscInv, TimerStopped, Procs, Closers, NoID
<1>3. ChanInv /\ ClosedMeansDrained /\ panic # "closeOfClosed"
  BY <1>1 DEF Init, ChanInv, ClosedMeansDrained
<1>4. MsgInv
  BY DEF Init, MsgInv, Genuine, NoMsg, Plain, Msg, Procs, Closers
<1> QED BY TypeInit, <1>2, <1>3, <1>4 DEF IInv

LEMMA IInvStep == IInv /\ [Next]_vars => IInv'
BY TypeStep, LockStep, IdStep, ChanStep, MsgStep, DiscStep, TimerStep, DrainedStep,
   PanicStep DEF IInv

\* The connection keeps its inductive invariant, for any number of calls and any
\* capacities of the channels and buffers (psynetrpc.go:65-92, 150-312).
THEOREM Invariance == SafeSpec => []IInv
BY IInvInit, IInvStep, PTL DEF SafeSpec

\* No request is registered on a connection that was torn down, however the
\* teardown falls between the two checks of a send (psynetrpc.go:79-82, 257-263).
THEOREM Drained == SafeSpec => []ClosedMeansDrained
<1>1. IInv => ClosedMeansDrained
  BY DEF IInv
<1> QED BY Invariance, <1>1, PTL

\* No response channel is closed twice, by any interleaving of Close with the
\* cleanup goroutines (psynetrpc.go:80, 275-282).
THEOREM ClosedOnce == SafeSpec => []NoDoubleClose
<1>1. IInv => NoDoubleClose
  BY DEF IInv, NoDoubleClose
<1> QED BY Invariance, <1>1, PTL

\* A registered channel is open, so neither Close nor a cleanup goroutine finds
\* a closed one in the map (psynetrpc.go:79-82, 275-282).
THEOREM OpenWhileRegistered == SafeSpec => []RegisteredIsOpen
<1>1. IInv => RegisteredIsOpen
  BY DEF IInv, ChanInv, RegisteredIsOpen
<1> QED BY Invariance, <1>1, PTL

\* A call returns the answer to its own request (psynetrpc.go:223-229, 243, 263).
THEOREM OwnResponse == SafeSpec => []ResponseMatch
<1>1. IInv => ResponseMatch
  BY DEF IInv, MsgInv, ResponseMatch
<1> QED BY Invariance, <1>1, PTL

\* No ping timer outlives the connection (psynetrpc.go:74-77, 154-158).
THEOREM NoTimerLeft == SafeSpec => []TimerStopped
<1>1. IInv => TimerStopped
  BY DEF IInv
<1> QED BY Invariance, <1>1, PTL

\* The three goroutines that may call Close announce one Disconnected between
\* them (psynetrpc.go:66-67, 85).
THEOREM AnnouncedOnce == SafeSpec => []OneDisconnect
<1>1. IInv => OneDisconnect
  BY DEF IInv, DiscInv, OneDisconnect
<1> QED BY Invariance, <1>1, PTL
=============================================================================
