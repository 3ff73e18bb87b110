-------------------------- MODULE PsyNetRPC_endings --------------------------
(***************************************************************************)
(* How a call ends, and how a ping does: more theorems about PsyNetRPC,    *)
(* from the invariant that PsyNetRPC_proofs establishes.                   *)
(***************************************************************************)
EXTENDS PsyNetRPC_proofs, FiniteSetTheorems

USE DEF At, Goto, conn, callVars, loopVars, clientVars, allButPc

(***************************************************************************)
(* The steps, as a call sees them.                                         *)
(***************************************************************************)
\* What a call is made of stays as it is; a process that has panicked stands still.
Quiet ==
    /\ UNCHANGED <<connected, pendingReqs, reqID, chClosed, ctxDone, reaper, got, panic>>
    /\ \A c \in Calls : pc'[c] = pc[c]
    /\ panic = "none" \/ UNCHANGED vars

LEMMA Steps ==
    ASSUME TypeOK, [Next]_vars
    PROVE  \/ \E c \in Calls : CallStart(c) \/ SendRequest(c) \/ Reap(c) \/ CtxDone(c)
           \/ \E p \in Closers : CloseFinish(p)
           \/ Deliver
           \/ Quiet
<1> USE CallsAssumption DEF Quiet, TypeOK, Procs, Closers, reqVars, chanVars, reapVars
<1>1. ASSUME NEW p \in Closers, CloseLock(p) PROVE Quiet
  BY <1>1 DEF CloseLock
<1>2. ASSUME NEW p \in Closers, CloseEvent(p) PROVE Quiet
  BY <1>2 DEF CloseEvent
<1>3. CASE ReadPong \/ ReadMsg \/ LookupPending \/ EmitEvent \/ ReadErr
  BY <1>3 DEF ReadPong, ReadMsg, LookupPending, EmitEvent, ReadErr
<1>4. CASE PingFire \/ PingLock \/ PingWriteOK \/ PingWriteFail
  BY <1>4 DEF PingFire, PingLock, PingWriteOK, PingWriteFail
<1>5. CASE PongArrives \/ PongTimeout \/ PingResched \/ AuthSchedule \/ UserClose
  BY <1>5 DEF PongArrives, PongTimeout, PingResched, AuthSchedule, UserClose
<1>6. CASE ForeignGetID \/ Consume \/ SrvRead \/ SrvPong \/ SrvPush \/ WireFail
  BY <1>6 DEF ForeignGetID, Consume, SrvRead, SrvPong, SrvPush, WireFail
<1>7. CASE \E m \in owed : SrvReply(m)
  BY <1>7 DEF SrvReply
<1>8. CASE UNCHANGED vars
  BY <1>8 DEF vars
<1> QED
  BY <1>1, <1>2, <1>3, <1>4, <1>5, <1>6, <1>7, <1>8
     DEF Next, Close, Read, Ping, Server, Terminated

\* An id names one entry: taking it out of the map takes out its own call and no other.
LEMMA OwnEntry ==
    ASSUME TypeOK, IdInv, NEW c \in Calls
    PROVE  {e.call : e \in Without(reqID[c])} = Registered \ {c}
<1>1. \A e \in pendingReqs : e.call \in Calls /\ (e.id = reqID[c] <=> e.call = c)
  BY DEF TypeOK, IdInv
<1> QED
  BY <1>1 DEF Without, Registered

LEMMA Entering ==
    ASSUME TypeOK, IdInv, NEW c \in Calls, SendLock(c)
    PROVE  \/ Registered' = Registered \cup {c} /\ connected /\ pc' = [pc EXCEPT ![c] = "write"]
           \/ Registered' = Registered /\ pc' = [pc EXCEPT ![c] = "failed"]
<1>1. CASE Recheck /\ pendingReqs' = Without(reqID[c]) \cup {[id |-> reqID[c], call |-> c]}
           /\ pc' = [pc EXCEPT ![c] = "write"]
  <2> DEFINE r == [id |-> reqID[c], call |-> c]
  <2>1. r.call = c
    OBVIOUS
  <2>2. Registered' = {e.call : e \in Without(reqID[c])} \cup {c}
    <3> HIDE DEF r
    <3> QED
      BY <1>1, <2>1, Zenon DEF Registered, r
  <2> QED
    BY <1>1, <2>2, OwnEntry DEF Recheck
<1>2. CASE pendingReqs' = pendingReqs /\ pc' = [pc EXCEPT ![c] = "failed"]
  BY <1>2 DEF Registered
<1> QED
  BY <1>1, <1>2 DEF SendLock

LEMMA Leaving ==
    ASSUME TypeOK, IdInv, NEW c \in Calls, SendFail(c) \/ ReapTake(c)
    PROVE  Registered' = Registered \ {c}
<1>1. pendingReqs' = Without(reqID[c])
  BY DEF SendFail, ReapTake
<1>2. Registered' = {e.call : e \in Without(reqID[c])}
  BY <1>1 DEF Registered
<1> QED
  BY <1>2, OwnEntry

LEMMA Staying ==
    ASSUME NEW c \in Calls,
           \/ CallStart(c) \/ GetID(c) \/ SendOK(c) \/ AwaitResponse(c) \/ AwaitCtx(c)
           \/ ReapClose(c) \/ CtxDone(c)
    PROVE  Registered' = Registered
BY DEF CallStart, GetID, SendOK, AwaitResponse, AwaitCtx, ReapClose, CtxDone, Registered

(***************************************************************************)
(* What ends a call, and what a panic means.                               *)
(***************************************************************************)
\* A call being written is registered. One that waits is registered, or its context is
\* done, or its channel is closed, which has one cause or the other. It has nothing until
\* it is done.
EndInv ==
    /\ \A c \in Calls : /\ pc[c] = "write" => c \in Registered
                        /\ pc[c] = "await" => c \in Registered \cup ctxDone \cup chClosed
                        /\ reaper[c] = "close" => c \in ctxDone
                        /\ pc[c] # "done" => got[c] = NoCall
    /\ \A c \in chClosed : c \in ctxDone \/ ~connected
    /\ PanicCause

LEMMA EndInit == Init => EndInv
BY DEF Init, EndInv, PanicCause, Procs, Closers, CallsAssumption

LEMMA EndStep == ASSUME IInv, EndInv, [Next]_vars PROVE EndInv'
<1> USE CallsAssumption DEF EndInv, PanicCause, Procs, Closers
<1>0. TypeOK /\ LockInv /\ IdInv /\ ChanInv
  BY DEF IInv
<1>t. /\ pc \in [Procs -> Labels] /\ got \in [Calls -> Calls \cup {NoCall}]
      /\ reaper \in [Calls -> {"none", "watch", "close", "end"}]
      /\ chClosed \subseteq Calls /\ ctxDone \subseteq Calls /\ Registered \subseteq Calls
  BY <1>0 DEF TypeOK, Registered
<1>1. ASSUME NEW c \in Calls, CallStart(c) \/ GetID(c) \/ AwaitCtx(c) PROVE EndInv'
  <2>1. CASE CallStart(c)
    BY <1>t, <2>1, Staying DEF CallStart, chanVars, reapVars
  <2>2. CASE GetID(c)
    BY <1>t, <2>2, Staying DEF GetID, chanVars, reapVars
  <2>3. CASE AwaitCtx(c)
    BY <1>t, <2>3, Staying DEF AwaitCtx, chanVars, reapVars
  <2> QED
    BY <1>1, <2>1, <2>2, <2>3
<1>2. ASSUME NEW c \in Calls, SendLock(c) PROVE EndInv'
  BY <1>2, <1>t, <1>0, Entering DEF SendLock, chanVars, reapVars
<1>3. ASSUME NEW c \in Calls, SendOK(c) PROVE EndInv'
  BY <1>3, <1>t, Staying DEF SendOK, chanVars
<1>4. ASSUME NEW c \in Calls, SendFail(c) PROVE EndInv'
  <2>1. Registered' = Registered \ {c} /\ pc' = [pc EXCEPT ![c] = "failed"] /\ panic = "none"
        /\ pc[c] = "write"
    BY <1>4, <1>0, Leaving DEF SendFail
  <2>2. UNCHANGED <<got, reaper, ctxDone, chClosed, connected, panic>>
    BY <1>4 DEF SendFail, chanVars, reapVars
  <2> QED
    BY <1>t, <2>1, <2>2
<1>5. ASSUME NEW c \in Calls, AwaitResponse(c) PROVE EndInv'
  BY <1>5, <1>t, Staying DEF AwaitResponse, reapVars
<1>6. ASSUME NEW c \in Calls, ReapTake(c) PROVE EndInv'
  <2>1. c \in ctxDone /\ reaper[c] = "watch" /\ Registered' = Registered \ {c}
    BY <1>6, <1>0, Leaving DEF ReapTake
  <2>2. pc[c] # "write"
    BY <2>1, <1>0 DEF ChanInv
  <2>3. \A d \in Calls : d # c => reaper'[d] = reaper[d]
    BY <1>6, <1>t DEF ReapTake
  <2>4. UNCHANGED <<pc, got, ctxDone, chClosed, connected, panic>> /\ panic = "none"
    BY <1>6 DEF ReapTake, chanVars
  <2> QED
    BY <2>1, <2>2, <2>3, <2>4
<1>7. ASSUME NEW c \in Calls, ReapClose(c) PROVE EndInv'
  <2>1. reaper[c] = "close" /\ c \in ctxDone /\ chClosed' = chClosed \cup {c} /\ panic' = "none"
    BY <1>7, <1>0 DEF ReapClose, ChanInv
  <2>2. reaper' = [reaper EXCEPT ![c] = "end"] /\ Registered' = Registered
        /\ UNCHANGED <<pc, got, ctxDone, connected>>
    BY <1>7, Staying DEF ReapClose
  <2> QED
    BY <1>t, <2>1, <2>2
<1>8. ASSUME NEW c \in Calls, CtxDone(c) PROVE EndInv'
  BY <1>8, <1>t, Staying DEF CtxDone, chanVars, reapVars
<1>9. ASSUME NEW p \in Closers, CloseFinish(p) PROVE EndInv'
  <2>1. mu = p /\ \A c \in Calls : pc[c] # "write"
    BY <1>9, <1>0 DEF CloseFinish, LockInv, Holding
  <2>2. \A c \in Calls : pc'[c] = pc[c]
    BY <1>9, <1>t DEF CloseFinish
  <2>3. panic' = "none" /\ connected' = FALSE /\ chClosed' = chClosed \cup Registered
        /\ UNCHANGED <<ctxDone, got, reaper>>
    BY <1>9, <1>0 DEF CloseFinish, ChanInv, reapVars
  <2> QED
    BY <2>1, <2>2, <2>3
<1>10. CASE Deliver
  BY <1>10, <1>t, <1>0 DEF Deliver, TypeOK, Registered, reapVars, readVars
<1>11. CASE Quiet
  <2>1. UNCHANGED <<connected, chClosed, ctxDone, reaper, got, panic>> /\ Registered' = Registered
        /\ \A c \in Calls : pc'[c] = pc[c]
    BY <1>11 DEF Quiet, Registered
  <2>2. panic = "none" \/ UNCHANGED <<pc, rch>>
    BY <1>11, Zenon DEF Quiet, vars, readVars
  <2>3. PanicCause'
    BY <2>1, <2>2, <1>t
  <2> QED
    BY <2>1, <2>3
<1> QED
  BY <1>0, <1>1, <1>2, <1>3, <1>4, <1>5, <1>6, <1>7, <1>8, <1>9, <1>10, <1>11, Steps
     DEF SendRequest, Reap

\* The two invariants of a call hold together, for any number of calls and any capacities
\* (psynetrpc.go:223-303).
THEOREM Endings == SafeSpec => [](IInv /\ EndInv)
<1>1. IInv /\ EndInv /\ [Next]_vars => EndInv'
  BY EndStep
<1> QED
  BY IInvInit, IInvStep, EndInit, <1>1, PTL DEF SafeSpec

\* A caller that waits can be woken, whatever comes between its registration and its answer
\* (psynetrpc.go:223-229, 263, 273-283).
THEOREM WaiterCanWake == SafeSpec => []NoLostWaiter
<1>1. EndInv => NoLostWaiter
  BY DEF EndInv, NoLostWaiter
<1> QED
  BY Endings, <1>1, PTL

\* A panic is the work of a context that ended or of Close (psynetrpc.go:229, 290-291).
THEOREM PanicExplained == SafeSpec => []PanicCause
<1>1. EndInv => PanicCause
  BY DEF EndInv
<1> QED
  BY Endings, <1>1, PTL

\* No request evicts the entry of another: an entry goes when its own write fails, its
\* context ends or the connection is torn down (psynetrpc.go:263-266, 275-277, 79-82).
THEOREM NobodyEvicted == SafeSpec => EntryKept
<1>1. ASSUME IInv, [Next]_vars, NEW d \in Registered \ Registered'
      PROVE  pc[d] = "write" \/ d \in ctxDone \/ ~connected'
  <2>0. TypeOK /\ IdInv
    BY <1>1 DEF IInv
  <2>1. ASSUME NEW c \in Calls, SendLock(c) PROVE FALSE
    BY <1>1, <2>0, <2>1, Entering
  <2>2. ASSUME NEW c \in Calls, SendFail(c) PROVE pc[d] = "write"
    BY <1>1, <2>0, <2>2, Leaving DEF SendFail
  <2>3. ASSUME NEW c \in Calls, ReapTake(c) PROVE d \in ctxDone
    BY <1>1, <2>0, <2>3, Leaving DEF ReapTake
  <2>4. ASSUME NEW c \in Calls,
               \/ CallStart(c) \/ GetID(c) \/ SendOK(c) \/ AwaitResponse(c) \/ AwaitCtx(c)
               \/ ReapClose(c) \/ CtxDone(c)
        PROVE  FALSE
    BY <1>1, <2>4, Staying
  <2>5. ASSUME NEW p \in Closers, CloseFinish(p) PROVE ~connected'
    BY <2>5 DEF CloseFinish
  <2>6. CASE Deliver \/ Quiet
    BY <1>1, <2>6 DEF Deliver, Quiet, Registered
  <2> QED
    BY <1>1, <2>0, <2>1, <2>2, <2>3, <2>4, <2>5, <2>6, Steps DEF SendRequest, Reap
<1>2. IInv /\ [Next]_vars =>
        [\A c \in Registered \ Registered' :
            pc[c] = "write" \/ c \in ctxDone \/ ~connected']_vars
  BY <1>1
<1> QED
  BY Invariance, <1>2, PTL DEF SafeSpec, EntryKept

(***************************************************************************)
(* The client implements RpcPromise.                                       *)
(***************************************************************************)
StatusMap == [c \in Calls |-> StatusOf(c)]
TableMap  == {c \in Registered : pc[c] # "write"}

LEMMA MapInit == Init => Promise!Init
BY CallsAssumption DEF Init, Promise!Init, StatusOf, Registered, Procs, Closers

\* A call whose label and answer stay keeps its status; one that moves changes its own only.
LEMMA StatusKept ==
    ASSUME NEW c \in Calls, pc'[c] = pc[c], got'[c] = got[c] PROVE StatusOf(c)' = StatusOf(c)
BY DEF StatusOf

LEMMA StatusMoves ==
    ASSUME NEW c \in Calls, \A d \in Calls \ {c} : pc'[d] = pc[d] /\ got'[d] = got[d]
    PROVE  StatusMap' = [StatusMap EXCEPT ![c] = StatusOf(c)']
<1>1. \A d \in Calls \ {c} : StatusOf(d)' = StatusOf(d)
  BY StatusKept
<1> QED
  BY <1>1 DEF StatusMap

\* The moves of RpcPromise, in terms of what they stand for.
Kept == UNCHANGED <<connected, ctxDone, panic>>
Stands == Kept /\ StatusMap' = StatusMap /\ TableMap' = TableMap
Turns(c, from, to) ==
    /\ StatusMap[c] = from /\ StatusMap' = [StatusMap EXCEPT ![c] = to]

LEMMA Moves ==
    ASSUME panic = "none"
    PROVE  /\ \A c \in Calls :
                /\ Turns(c, "new", "open") /\ TableMap' = TableMap \cup {c} /\ connected /\ Kept
                     => Promise!Next
                /\ \/ Turns(c, "new", "refused")
                   \/ Turns(c, "open", "answered")
                   \/ Turns(c, "open", "expired") /\ c \in ctxDone
                   => (TableMap' = TableMap /\ Kept => Promise!Next)
                /\ ctxDone' = ctxDone \cup {c} /\ StatusMap' = StatusMap /\ TableMap' = TableMap
                     /\ UNCHANGED <<connected, panic>> => Promise!Next
                /\ c \in ctxDone \cap TableMap /\ TableMap' = TableMap \ {c}
                     /\ StatusMap' = StatusMap /\ Kept => Promise!Next
           /\ connected /\ connected' = FALSE /\ TableMap' = {} /\ StatusMap' = StatusMap
                /\ UNCHANGED <<ctxDone, panic>> => Promise!Next
           /\ panic' # "none" /\ StatusMap' = StatusMap /\ TableMap' = TableMap
                /\ UNCHANGED <<connected, ctxDone>> => Promise!Next
<1> USE DEF Turns, Kept, StatusMap, TableMap, Promise!Next, Promise!Become
<1>1. ASSUME NEW c \in Calls, Turns(c, "new", "open"), TableMap' = TableMap \cup {c}, connected, Kept
      PROVE  Promise!Next
  BY <1>1 DEF Promise!Accept
<1>2. ASSUME NEW c \in Calls, Turns(c, "new", "refused"), TableMap' = TableMap, Kept
      PROVE  Promise!Next
  BY <1>2 DEF Promise!Refuse
<1>3. ASSUME NEW c \in Calls, Turns(c, "open", "answered"), TableMap' = TableMap, Kept
      PROVE  Promise!Next
  BY <1>3 DEF Promise!Answer
<1>4. ASSUME NEW c \in Calls, Turns(c, "open", "expired"), c \in ctxDone, TableMap' = TableMap, Kept
      PROVE  Promise!Next
  BY <1>4 DEF Promise!Expire
<1>5. ASSUME NEW c \in Calls, ctxDone' = ctxDone \cup {c}, StatusMap' = StatusMap,
             TableMap' = TableMap, UNCHANGED <<connected, panic>>
      PROVE  Promise!Next
  BY <1>5 DEF Promise!TimeOut
<1>6. ASSUME NEW c \in Calls, c \in ctxDone \cap TableMap, TableMap' = TableMap \ {c},
             StatusMap' = StatusMap, Kept
      PROVE  Promise!Next
  BY <1>6 DEF Promise!Drop
<1>7. ASSUME connected, connected' = FALSE, TableMap' = {}, StatusMap' = StatusMap,
             UNCHANGED <<ctxDone, panic>>
      PROVE  Promise!Next
  BY <1>7 DEF Promise!GoDown
<1>8. ASSUME panic' # "none", StatusMap' = StatusMap, TableMap' = TableMap,
             UNCHANGED <<connected, ctxDone>>
      PROVE  Promise!Next
  BY <1>8 DEF Promise!Die
<1> HIDE DEF Turns, Kept, StatusMap, TableMap, Promise!Next
<1> QED
  BY <1>1, <1>2, <1>3, <1>4, <1>5, <1>6, <1>7, <1>8, Zenon

LEMMA StandsStill == Stands => UNCHANGED Promise!vars
BY DEF Stands, Kept, StatusMap, TableMap, Promise!vars

LEMMA MapStep == ASSUME IInv, EndInv, [Next]_vars PROVE [Promise!Next]_Promise!vars
<1> SUFFICES Promise!Next \/ Stands
  BY StandsStill
<1> USE CallsAssumption DEF Kept
<1>0. TypeOK /\ LockInv /\ IdInv /\ ChanInv /\ MsgInv
  BY DEF IInv
<1>t. /\ pc \in [Procs -> Labels] /\ got \in [Calls -> Calls \cup {NoCall}]
      /\ \A c \in Calls : c \in Procs /\ got[c] \in {c, NoCall}
  BY <1>0 DEF TypeOK, MsgInv, Procs
<1>r. Registered \subseteq Calls
  BY <1>0 DEF TypeOK, Registered
<1>1. ASSUME NEW c \in Calls, CallStart(c) \/ GetID(c) \/ SendLock(c) \/ SendFail(c)
      PROVE  Promise!Next \/ Stands
  <2>1. Kept /\ UNCHANGED got /\ panic = "none" /\ pc[c] \in {"new", "getID", "send", "write"}
    BY <1>1 DEF CallStart, GetID, SendLock, SendFail, chanVars
  <2>2. \E l \in {"getID", "send", "write", "failed"} : pc' = [pc EXCEPT ![c] = l]
    BY <1>1 DEF CallStart, GetID, SendLock, SendFail
  <2>3. StatusMap' = [StatusMap EXCEPT ![c] = StatusOf(c)']
    BY <1>t, <2>1, <2>2, StatusMoves
  <2>4. StatusMap[c] = "new" /\ StatusOf(c)' \in {"new", "refused"}
    BY <1>t, <2>1, <2>2 DEF StatusMap, StatusOf
  <2>5. TableMap' = TableMap
    <3>0. \A d \in Calls \ {c} : pc'[d] = pc[d]
      BY <1>t, <2>2
    <3>1. CASE CallStart(c) \/ GetID(c)
      <4>1. c \notin Registered /\ Registered' = Registered
        BY <1>0, <3>1, Staying DEF ChanInv, CallStart, GetID
      <4> QED
        BY <3>0, <1>r, <4>1 DEF TableMap
    <3>2. CASE SendLock(c)
      <4>1. c \notin Registered
        BY <1>0, <3>2 DEF ChanInv, SendLock
      <4>2. \/ Registered' = Registered \cup {c} /\ pc'[c] = "write"
            \/ Registered' = Registered
        BY <1>0, <1>t, <3>2, Entering
      <4> QED
        BY <3>0, <1>r, <4>1, <4>2 DEF TableMap
    <3>3. CASE SendFail(c)
      <4>1. Registered' = Registered \ {c} /\ pc[c] = "write"
        BY <1>0, <3>3, Leaving DEF SendFail
      <4> QED
        BY <3>0, <1>r, <4>1 DEF TableMap
    <3> QED
      BY <1>1, <3>1, <3>2, <3>3
  <2>6. CASE StatusOf(c)' = "refused"
    BY <2>1, <2>3, <2>4, <2>5, <2>6, Moves DEF Turns
  <2>7. CASE StatusOf(c)' = "new"
    <3>1. StatusMap' = StatusMap
      BY <2>3, <2>4, <2>7 DEF StatusMap
    <3> QED
      BY <2>1, <2>5, <3>1 DEF Stands
  <2> QED
    BY <2>4, <2>6, <2>7
<1>2. ASSUME NEW c \in Calls, SendOK(c) PROVE Promise!Next
  <2>1. Kept /\ UNCHANGED got /\ panic = "none" /\ pc[c] = "write" /\ c \in Registered
    BY <1>2 DEF SendOK, chanVars, EndInv
  <2>2. connected
    BY <1>0, <1>t, <2>1 DEF LockInv, Holding, Procs
  <2>3. \E l \in {"await", "sent"} : pc' = [pc EXCEPT ![c] = l]
    BY <1>2 DEF SendOK
  <2>4. StatusMap' = [StatusMap EXCEPT ![c] = StatusOf(c)']
    BY <1>t, <2>1, <2>3, StatusMoves
  <2>5. StatusMap[c] = "new" /\ StatusOf(c)' = "open"
    BY <1>t, <2>1, <2>3 DEF StatusMap, StatusOf
  <2>6. TableMap' = TableMap \cup {c}
    BY <1>2, <1>t, <2>1, <2>3, Staying DEF TableMap
  <2> QED
    BY <2>1, <2>2, <2>4, <2>5, <2>6, Moves DEF Turns
<1>3. ASSUME NEW c \in Calls, AwaitResponse(c) PROVE Promise!Next
  <2>1. panic = "none" /\ pc[c] = "await" /\ Registered' = Registered
        /\ UNCHANGED <<connected, ctxDone>>
    BY <1>3, Staying DEF AwaitResponse
  <2>2. CASE buf[c] # NoCall /\ got' = [got EXCEPT ![c] = buf[c]]
             /\ pc' = [pc EXCEPT ![c] = "done"] /\ panic' = panic
    <3>1. got'[c] = c /\ pc'[c] = "done"
      BY <1>0, <1>t, <2>2 DEF MsgInv
    <3>2. StatusMap' = [StatusMap EXCEPT ![c] = StatusOf(c)']
      BY <1>t, <2>2, StatusMoves
    <3>3. StatusMap[c] = "open" /\ StatusOf(c)' = "answered"
      BY <2>1, <3>1 DEF StatusMap, StatusOf
    <3>4. TableMap' = TableMap
      BY <1>t, <2>1, <2>2 DEF TableMap
    <3> QED
      BY <2>1, <2>2, <3>2, <3>3, <3>4, Moves DEF Turns
  <2>3. CASE panic' = "nilDeref" /\ UNCHANGED <<pc, buf, got>>
    <3>1. StatusMap' = StatusMap /\ TableMap' = TableMap
      BY <2>1, <2>3, StatusKept DEF StatusMap, TableMap
    <3> QED
      BY <2>1, <2>3, <3>1, Moves
  <2> QED
    BY <1>3, <2>2, <2>3 DEF AwaitResponse
<1>4. ASSUME NEW c \in Calls, AwaitCtx(c) PROVE Promise!Next
  <2>1. Kept /\ UNCHANGED got /\ panic = "none" /\ pc[c] = "await" /\ c \in ctxDone
        /\ pc' = [pc EXCEPT ![c] = "expired"]
    BY <1>4 DEF AwaitCtx, chanVars
  <2>2. StatusMap' = [StatusMap EXCEPT ![c] = StatusOf(c)']
    BY <1>t, <2>1, StatusMoves
  <2>3. StatusMap[c] = "open" /\ StatusOf(c)' = "expired"
    BY <1>t, <2>1 DEF StatusMap, StatusOf
  <2>4. TableMap' = TableMap
    BY <1>4, <1>t, <2>1, Staying DEF TableMap
  <2> QED
    BY <2>1, <2>2, <2>3, <2>4, Moves DEF Turns
<1>5. ASSUME NEW c \in Calls, ReapTake(c) PROVE Promise!Next \/ Stands
  <2>1. Kept /\ UNCHANGED <<got, pc>> /\ panic = "none" /\ reaper[c] = "watch" /\ c \in ctxDone
        /\ Registered' = Registered \ {c}
    BY <1>5, <1>0, Leaving DEF ReapTake, chanVars
  <2>2. StatusMap' = StatusMap /\ TableMap' = TableMap \ {c}
    BY <2>1, StatusKept DEF StatusMap, TableMap
  <2>3. CASE c \in TableMap
    BY <2>1, <2>2, <2>3, Moves
  <2>4. CASE c \notin TableMap
    BY <2>1, <2>2, <2>4 DEF Stands
  <2> QED
    BY <2>3, <2>4
<1>6. ASSUME NEW c \in Calls, ReapClose(c) PROVE Stands
  <2>1. Kept /\ UNCHANGED <<got, pc>> /\ Registered' = Registered
    BY <1>6, <1>0, Staying DEF ReapClose, ChanInv
  <2> QED
    BY <2>1, StatusKept DEF Stands, StatusMap, TableMap
<1>7. ASSUME NEW c \in Calls, CtxDone(c) PROVE Promise!Next
  <2>1. UNCHANGED <<got, pc, connected, panic>> /\ panic = "none" /\ Registered' = Registered
        /\ ctxDone' = ctxDone \cup {c}
    BY <1>7, Staying DEF CtxDone, chanVars
  <2>2. StatusMap' = StatusMap /\ TableMap' = TableMap
    BY <2>1, StatusKept DEF StatusMap, TableMap
  <2> QED
    BY <2>1, <2>2, Moves
<1>8. ASSUME NEW p \in Closers, CloseFinish(p) PROVE Promise!Next
  <2>1. panic = "none" /\ panic' = "none" /\ connected' = FALSE /\ Registered' = {}
        /\ UNCHANGED <<got, ctxDone>>
    BY <1>8, <1>0 DEF CloseFinish, ChanInv, Registered
  <2>2. connected
    BY <1>8, <1>0 DEF CloseFinish, LockInv, Holding, Procs, Closers
  <2>3. \A c \in Calls : pc'[c] = pc[c]
    BY <1>8, <1>t DEF CloseFinish, Closers
  <2>4. StatusMap' = StatusMap /\ TableMap' = {}
    BY <2>1, <2>3, StatusKept DEF StatusMap, TableMap
  <2> QED
    BY <2>1, <2>2, <2>4, Moves
<1>9. CASE Deliver
  <2>1. UNCHANGED <<got, connected, ctxDone>> /\ panic = "none" /\ Registered' = Registered
        /\ \A c \in Calls : pc'[c] = pc[c]
    BY <1>9, <1>t DEF Deliver, Registered, Closers
  <2>2. StatusMap' = StatusMap /\ TableMap' = TableMap
    BY <1>r, <2>1, StatusKept DEF StatusMap, TableMap
  <2>3. CASE panic' = "none"
    BY <2>1, <2>2, <2>3 DEF Stands
  <2>4. CASE panic' # "none"
    BY <2>1, <2>2, <2>4, Moves
  <2> QED
    BY <2>3, <2>4
<1>10. CASE Quiet
  <2>1. UNCHANGED <<got, connected, ctxDone, panic>> /\ Registered' = Registered
        /\ \A c \in Calls : pc'[c] = pc[c]
    BY <1>10 DEF Quiet, Registered
  <2>2. StatusMap' = StatusMap /\ TableMap' = TableMap
    BY <1>r, <2>1, StatusKept DEF StatusMap, TableMap
  <2> QED
    BY <2>1, <2>2 DEF Stands
<1> QED
  BY <1>0, <1>1, <1>2, <1>3, <1>4, <1>5, <1>6, <1>7, <1>8, <1>9, <1>10, Steps
     DEF SendRequest, Reap

\* The client keeps the promise of RpcPromise, for any number of calls, any capacities, any
\* faults of the wire and any answers of the server (psynetrpc.go:65-92, 194-312).
THEOREM PromiseKept == SafeSpec => KeepsPromise
<1>1. IInv /\ EndInv /\ [Next]_vars => [Promise!Next]_Promise!vars
  BY MapStep
<1> QED
  BY Endings, MapInit, <1>1, PTL DEF SafeSpec, KeepsPromise, Promise!Spec

(***************************************************************************)
(* Which responses become events.                                          *)
(***************************************************************************)
\* The messages there are, on their way or kept; the ids under which a response would find
\* its caller; the labels of a call past its write.
Elems(q)  == {q[k] : k \in 1 .. Len(q)}
Seen      == Elems(outbox) \cup Elems(inbox) \cup owed \cup {rmsg} \cup Elems(eventCh)
IdsTaken  == {e.id : e \in pendingReqs}
PastWrite == {"await", "sent", "done", "expired"}
Carries(m) == m.kind \in {"req", "resp"}
Free(m)    == m.kind = "resp" => m.id \notin IdsTaken

\* A message that carries an id was written for a call that is past its write; an event
\* carries an id only if no entry has it any more.
SeenInv ==
    /\ \A m \in Seen : Carries(m) =>
          m.body \in Calls /\ m.id = reqID[m.body] /\ m.id # NoID /\ pc[m.body] \in PastWrite
    /\ \A m \in Elems(eventCh) : Free(m)
    /\ pc["reader"] = "event" => Free(rmsg)

LEMMA NotFound == ASSUME TypeOK, NEW i PROVE ChanFor(i) = NoCall <=> i \notin IdsTaken
<1>1. \A e \in pendingReqs : e.call \in Calls /\ e.call # NoCall
  BY CallsAssumption DEF TypeOK
<1> QED
  BY <1>1 DEF ChanFor, IdsTaken

LEMMA TailElems ==
    ASSUME NEW S, NEW q \in Seq(S), q # << >>
    PROVE  Elems(Tail(q)) \subseteq Elems(q) /\ Head(q) \in Elems(q)
<1>1. /\ \A k \in 1 .. Len(Tail(q)) : k + 1 \in 1 .. Len(q) /\ Tail(q)[k] = q[k + 1]
      /\ 1 \in 1 .. Len(q) /\ Head(q) = q[1]
  OBVIOUS
<1> QED
  BY <1>1 DEF Elems

LEMMA AppendElems ==
    ASSUME NEW S, NEW q \in Seq(S), NEW x \in S
    PROVE  Elems(Append(q, x)) \subseteq Elems(q) \cup {x}
<1>1. \A k \in 1 .. Len(Append(q, x)) :
          Append(q, x)[k] = x \/ (k \in 1 .. Len(q) /\ Append(q, x)[k] = q[k])
  OBVIOUS
<1> QED
  BY <1>1 DEF Elems

LEMMA NoElems == Elems(<< >>) = {}
BY DEF Elems

\* What a step adds to the messages: the request that is written, the answer to a request
\* there is, or a message without an id.
Follows(m) == \/ m \in Seen \/ ~Carries(m)
              \/ \E n \in Seen : Carries(n) /\ m.id = n.id /\ m.body = n.body
              \/ \E c \in Calls : SendOK(c) /\ m.id = reqID[c] /\ m.body = c

LEMMA SeenStep == ASSUME TypeOK, MsgInv, [Next]_vars PROVE \A m \in Seen' : Follows(m)
<1>t. /\ outbox \in Seq(Messages) /\ inbox \in Seq(Messages) /\ eventCh \in Seq(Messages)
      /\ owed \subseteq Messages /\ rmsg \in Messages
  BY DEF TypeOK
<1>m. \A k \in Kinds \ {"req", "resp"} : Plain(k) \in Messages /\ ~Carries(Plain(k))
  BY MessageTypes DEF Carries, Plain, Msg, Kinds
<1>n. ~Carries(NoMsg) /\ NoMsg \in Messages
  BY <1>m, MessageTypes DEF NoMsg, Kinds
<1> USE DEF Seen
<1>1. ASSUME NEW c \in Calls, SendOK(c) PROVE \A m \in Seen' : Follows(m)
  <2>1. Msg("req", reqID[c], c) \in Messages
    BY MessageTypes DEF TypeOK, Kinds
  <2>2. Elems(outbox') \subseteq Elems(outbox) \cup {Msg("req", reqID[c], c)}
    BY <1>1, <1>t, <2>1, AppendElems DEF SendOK, Written
  <2>3. UNCHANGED <<inbox, owed, rmsg, eventCh>>
    BY <1>1 DEF SendOK, readVars, evVars
  <2> QED
    BY <1>1, <2>2, <2>3 DEF Follows, Msg
<1>2. CASE PingWriteOK
  <2>1. Elems(outbox') \subseteq Elems(outbox) \cup {Plain("ping")}
    BY <1>2, <1>t, <1>m, AppendElems DEF PingWriteOK, Written, Kinds
  <2>2. UNCHANGED <<inbox, owed, rmsg, eventCh>>
    BY <1>2 DEF PingWriteOK, readVars, evVars
  <2> QED
    BY <1>m, <2>1, <2>2 DEF Follows, Kinds
<1>3. ASSUME NEW p \in Closers, CloseFinish(p) PROVE \A m \in Seen' : Follows(m)
  BY <1>3, NoElems DEF CloseFinish, readVars, evVars, Follows
<1>4. ASSUME NEW p \in Closers, CloseEvent(p) PROVE \A m \in Seen' : Follows(m)
  <2>1. Elems(eventCh') \subseteq Elems(eventCh) \cup {Plain("disc")}
    BY <1>4, <1>t, <1>m, AppendElems DEF CloseEvent, sendEvent, Kinds
  <2>2. UNCHANGED <<inbox, outbox, owed, rmsg>>
    BY <1>4 DEF CloseEvent, readVars, netVars
  <2> QED
    BY <1>m, <2>1, <2>2 DEF Follows, Kinds
<1>5. CASE ReadPong
  <2>1. Elems(inbox') \subseteq Elems(inbox) /\ UNCHANGED <<outbox, owed, rmsg, eventCh>>
    BY <1>5, <1>t, TailElems DEF ReadPong, readVars, evVars
  <2> QED
    BY <2>1 DEF Follows
<1>6. CASE ReadMsg
  <2>1. Elems(inbox') \subseteq Elems(inbox) /\ rmsg' \in Elems(inbox)
        /\ UNCHANGED <<outbox, owed, eventCh>>
    BY <1>6, <1>t, TailElems DEF ReadMsg, evVars
  <2> QED
    BY <2>1 DEF Follows
<1>7. CASE Deliver
  <2>1. rmsg' \in {rmsg, NoMsg} /\ UNCHANGED <<inbox, outbox, owed, eventCh>>
    BY <1>7 DEF Deliver, readVars, evVars, netVars
  <2> QED
    BY <1>n, <2>1 DEF Follows
<1>8. CASE EmitEvent
  <2>1. Elems(eventCh') \subseteq Elems(eventCh) \cup {rmsg} /\ rmsg' = NoMsg
        /\ UNCHANGED <<inbox, outbox, owed>>
    BY <1>8, <1>t, AppendElems DEF EmitEvent, sendEvent, netVars
  <2> QED
    BY <1>n, <2>1 DEF Follows
<1>9. CASE Consume
  <2>1. Elems(eventCh') \subseteq Elems(eventCh) /\ UNCHANGED <<inbox, outbox, owed, rmsg>>
    BY <1>9, <1>t, TailElems DEF Consume, readVars, netVars
  <2> QED
    BY <2>1 DEF Follows
<1>10. CASE SrvRead
  <2>1. Elems(outbox') \subseteq Elems(outbox) /\ owed' \subseteq owed \cup Elems(outbox)
        /\ UNCHANGED <<inbox, rmsg, eventCh>>
    BY <1>10, <1>t, TailElems DEF SrvRead, readVars, evVars
  <2> QED
    BY <2>1 DEF Follows
<1>11. ASSUME NEW m \in owed, SrvReply(m) PROVE \A n \in Seen' : Follows(n)
  <2>1. PICK x \in {Msg("resp", m.id, m.body), Plain("push")} : inbox' = Append(inbox, x)
    BY <1>11 DEF SrvReply
  <2>2. owed' \subseteq owed /\ UNCHANGED <<outbox, rmsg, eventCh>>
    BY <1>11 DEF SrvReply, readVars, evVars
  <2>3. x \in Messages /\ Follows(x)
    <3>1. CASE x = Msg("resp", m.id, m.body)
      <4>1. Msg("resp", m.id, m.body) \in Messages /\ Carries(m)
        BY <1>t, MessageTypes DEF Messages, Kinds, MsgInv, Carries
      <4> QED
        BY <3>1, <4>1 DEF Follows, Msg
    <3>2. CASE x = Plain("push")
      BY <1>m, <3>2 DEF Follows, Kinds
    <3> QED
      BY <2>1, <3>1, <3>2
  <2>4. Elems(inbox') \subseteq Elems(inbox) \cup {x}
    BY <1>t, <2>1, <2>3, AppendElems
  <2> QED
    BY <2>2, <2>3, <2>4 DEF Follows
<1>12. CASE SrvPong \/ SrvPush
  <2>1. PICK x \in {Plain("pong"), NoMsg} : inbox' = Append(inbox, x)
    BY <1>12 DEF SrvPong, SrvPush
  <2>2. x \in Messages /\ ~Carries(x)
    BY <1>m, <1>n, <2>1 DEF Kinds
  <2>3. Elems(inbox') \subseteq Elems(inbox) \cup {x} /\ UNCHANGED <<outbox, owed, rmsg, eventCh>>
    BY <1>12, <1>t, <2>1, <2>2, AppendElems DEF SrvPong, SrvPush, readVars, evVars
  <2> QED
    BY <2>2, <2>3 DEF Follows
<1>13. CASE WireFail
  <2>1. Elems(outbox') \subseteq Elems(outbox) /\ owed' = {} /\ UNCHANGED <<inbox, rmsg, eventCh>>
    BY <1>13, NoElems DEF WireFail, readVars, evVars
  <2> QED
    BY <2>1 DEF Follows
<1>14. ASSUME UNCHANGED <<inbox, outbox, owed, rmsg, eventCh>> PROVE \A m \in Seen' : Follows(m)
  BY <1>14 DEF Follows
<1>15. ASSUME NEW c \in Calls,
              \/ CallStart(c) \/ GetID(c) \/ SendLock(c) \/ SendFail(c) \/ AwaitResponse(c)
              \/ AwaitCtx(c) \/ ReapTake(c) \/ ReapClose(c) \/ CtxDone(c)
       PROVE  UNCHANGED <<inbox, outbox, owed, rmsg, eventCh>>
  BY <1>15 DEF CallStart, GetID, SendLock, SendFail, AwaitResponse, AwaitCtx, ReapTake, ReapClose,
     CtxDone, readVars, evVars, netVars
<1>16. CASE \/ \E p \in Closers : CloseLock(p)
            \/ LookupPending \/ ReadErr \/ PingFire \/ PingLock \/ PingWriteFail \/ PongArrives
            \/ PongTimeout \/ PingResched \/ AuthSchedule \/ UserClose \/ ForeignGetID
            \/ UNCHANGED vars
  <2>1. UNCHANGED <<inbox, outbox, owed, rmsg, eventCh>>
    BY <1>16 DEF CloseLock, LookupPending, ReadErr, PingFire, PingLock, PingWriteFail,
       PongArrives, PongTimeout, PingResched, AuthSchedule, UserClose, ForeignGetID, vars,
       readVars, evVars, netVars
  <2> QED
    BY <1>14, <2>1
<1> QED
  BY <1>1, <1>2, <1>3, <1>4, <1>5, <1>6, <1>7, <1>8, <1>9, <1>10, <1>11, <1>12, <1>13, <1>14,
     <1>15, <1>16 DEF Next, SendRequest, Reap, Close, Read, Ping, Server, Terminated

\* A call past its write stays there, under its id.
LEMMA PastStep ==
    ASSUME TypeOK, IdInv, [Next]_vars, NEW c \in Calls, reqID[c] # NoID
    PROVE  reqID'[c] = reqID[c] /\ (pc[c] \in PastWrite => pc'[c] \in PastWrite)
<1>t. pc \in [Procs -> Labels] /\ reqID \in [Calls -> IDs] /\ Calls \subseteq Procs
  BY DEF TypeOK, Procs
<1> USE DEF PastWrite, reqVars
<1>1. ASSUME NEW d \in Calls, GetID(d)
      PROVE  reqID'[c] = reqID[c] /\ (pc[c] \in PastWrite => pc'[c] \in PastWrite)
  BY <1>1, <1>t DEF GetID, IdInv
<1>2. ASSUME NEW d \in Calls, \/ CallStart(d) \/ SendLock(d) \/ SendOK(d) \/ SendFail(d)
                              \/ AwaitResponse(d) \/ AwaitCtx(d)
      PROVE  reqID'[c] = reqID[c] /\ (pc[c] \in PastWrite => pc'[c] \in PastWrite)
  BY <1>2, <1>t DEF CallStart, SendLock, SendOK, SendFail, AwaitResponse, AwaitCtx
<1>3. ASSUME NEW d \in Calls, Reap(d) \/ CtxDone(d)
      PROVE  UNCHANGED <<pc, reqID>>
  BY <1>3 DEF Reap, ReapTake, ReapClose, CtxDone
<1>4. ASSUME NEW p \in Closers, CloseFinish(p) PROVE reqID'[c] = reqID[c] /\ pc'[c] = pc[c]
  BY <1>4, <1>t, CallsAssumption DEF CloseFinish, Closers
<1>5. CASE Deliver
  BY <1>5, <1>t, CallsAssumption DEF Deliver, Closers
<1>6. CASE Quiet
  BY <1>6 DEF Quiet
<1> QED
  BY <1>1, <1>2, <1>3, <1>4, <1>5, <1>6, Steps DEF SendRequest

\* A new entry is that of a call about to write.
LEMMA IdsStep ==
    ASSUME TypeOK, [Next]_vars
    PROVE  \A i \in IdsTaken' : i \in IdsTaken \/ \E c \in Calls : pc[c] = "send" /\ i = reqID[c]
<1>1. ASSUME NEW c \in Calls, SendLock(c)
      PROVE  \A i \in IdsTaken' : i \in IdsTaken \/ (pc[c] = "send" /\ i = reqID[c])
  BY <1>1 DEF SendLock, IdsTaken, Without
<1>2. ASSUME NEW c \in Calls, \/ CallStart(c) \/ GetID(c) \/ SendOK(c) \/ SendFail(c)
                              \/ AwaitResponse(c) \/ AwaitCtx(c) \/ Reap(c) \/ CtxDone(c)
      PROVE  pendingReqs' \subseteq pendingReqs
  BY <1>2 DEF CallStart, GetID, SendOK, SendFail, AwaitResponse, AwaitCtx, Reap, ReapTake,
     ReapClose, CtxDone, Without
<1>3. CASE Deliver \/ Quiet \/ \E p \in Closers : CloseFinish(p)
  BY <1>3 DEF Deliver, Quiet, CloseFinish, IdsTaken
<1>4. ASSUME pendingReqs' \subseteq pendingReqs PROVE IdsTaken' \subseteq IdsTaken
  BY <1>4 DEF IdsTaken
<1> QED
  BY <1>1, <1>2, <1>3, <1>4, Steps DEF SendRequest

\* What becomes an event is no response, or its id was looked up before.
Unclaimed(m) == m.kind # "resp" \/ (m \in Seen /\ Free(m))

LEMMA EventStep ==
    ASSUME TypeOK, SeenInv, [Next]_vars
    PROVE  /\ \A m \in Elems(eventCh') : Unclaimed(m)
           /\ pc'["reader"] = "event" => Unclaimed(rmsg')
<1> DEFINE Goal == /\ \A m \in Elems(eventCh') : Unclaimed(m)
                   /\ pc'["reader"] = "event" => Unclaimed(rmsg')
<1>t. /\ inbox \in Seq(Messages) /\ eventCh \in Seq(Messages) /\ rmsg \in Messages
      /\ pc \in [Procs -> Labels] /\ Procs = Calls \cup Closers
      /\ "reader" \in Closers /\ "reader" \notin Calls
  BY CallsAssumption DEF TypeOK, Procs, Closers
<1>e. \A m \in Elems(eventCh) : Unclaimed(m)
  BY DEF SeenInv, Unclaimed, Seen
<1>1. CASE EmitEvent
  <2>1. Elems(eventCh') \subseteq Elems(eventCh) \cup {rmsg}
    BY <1>1, <1>t, AppendElems DEF EmitEvent, sendEvent
  <2>2. Unclaimed(rmsg) /\ pc'["reader"] = "read"
    BY <1>1, <1>t DEF EmitEvent, SeenInv, Unclaimed, Seen
  <2> QED
    BY <1>e, <2>1, <2>2
<1>2. ASSUME NEW p \in Closers, CloseEvent(p) PROVE Goal
  <2>1. Plain("disc") \in Messages /\ Plain("disc").kind = "disc"
    BY MessageTypes DEF Kinds, Plain, Msg
  <2>2. Elems(eventCh') \subseteq Elems(eventCh) \cup {Plain("disc")}
    BY <1>2, <1>t, <2>1, AppendElems DEF CloseEvent, sendEvent
  <2>3. pc'["reader"] = "event" => pc["reader"] = "event" /\ rmsg' = rmsg
    BY <1>2, <1>t DEF CloseEvent, readVars
  <2>4. Unclaimed(Plain("disc"))
    BY <2>1 DEF Unclaimed
  <2> QED
    BY <1>e, <2>2, <2>3, <2>4 DEF SeenInv, Unclaimed, Seen
<1>3. CASE Consume
  <2>1. Elems(eventCh') \subseteq Elems(eventCh) /\ UNCHANGED <<pc, rmsg>>
    BY <1>3, <1>t, TailElems DEF Consume, readVars
  <2> QED
    BY <1>e, <2>1 DEF SeenInv, Unclaimed, Seen
<1>4. CASE ReadMsg
  <2>1. eventCh' = eventCh /\ pc'["reader"] = Route(rmsg')
    BY <1>4, <1>t DEF ReadMsg, evVars
  <2> QED
    BY <1>e, <2>1 DEF Route, Unclaimed
<1>5. CASE LookupPending
  <2>1. UNCHANGED <<eventCh, rmsg>>
    BY <1>5 DEF LookupPending, evVars
  <2>2. pc'["reader"] = "event" => rmsg.id \notin IdsTaken
    BY <1>5, <1>t, NotFound DEF LookupPending
  <2> QED
    BY <1>e, <2>1, <2>2 DEF Unclaimed, Free, Seen
<1>6. CASE Deliver
  <2>1. eventCh' = eventCh /\ pc'["reader"] # "event"
    BY <1>6, <1>t DEF Deliver, evVars
  <2> QED
    BY <1>e, <2>1
<1>7. ASSUME UNCHANGED <<eventCh, rmsg>>, pc'["reader"] = "event" => pc["reader"] = "event"
      PROVE  Goal
  BY <1>e, <1>7 DEF SeenInv, Unclaimed, Seen
<1>8. ASSUME NEW c \in Calls, CallStart(c) \/ SendRequest(c) \/ Reap(c) \/ CtxDone(c)
      PROVE  UNCHANGED <<eventCh, rmsg>> /\ pc'["reader"] = pc["reader"]
  BY <1>8, <1>t DEF CallStart, SendRequest, GetID, SendLock, SendOK, SendFail, AwaitResponse,
     AwaitCtx, Reap, ReapTake, ReapClose, CtxDone, readVars, evVars
<1>9. ASSUME NEW p \in Closers, CloseLock(p) \/ CloseFinish(p)
      PROVE  UNCHANGED <<eventCh, rmsg>> /\ (pc'["reader"] = "event" => pc["reader"] = "event")
  BY <1>9, <1>t DEF CloseLock, CloseFinish, readVars, evVars
<1>10. CASE \/ ReadPong \/ ReadErr \/ PingFire \/ PingLock \/ PingWriteOK \/ PingWriteFail
            \/ PongArrives \/ PongTimeout \/ PingResched \/ AuthSchedule \/ UserClose
            \/ ForeignGetID \/ SrvRead \/ (\E m \in owed : SrvReply(m)) \/ SrvPong \/ SrvPush \/ WireFail
            \/ UNCHANGED vars
  <2>1. UNCHANGED <<eventCh, rmsg>>
    BY <1>10 DEF ReadPong, ReadErr, PingFire, PingLock, PingWriteOK, PingWriteFail, PongArrives,
       PongTimeout, PingResched, AuthSchedule, UserClose, ForeignGetID, SrvRead, SrvReply,
       SrvPong, SrvPush, WireFail, vars, readVars, evVars
  <2>2. pc'["reader"] = "event" => pc["reader"] = "event"
    BY <1>10, <1>t DEF ReadPong, ReadErr, PingFire, PingLock, PingWriteOK, PingWriteFail,
       PongArrives, PongTimeout, PingResched, AuthSchedule, UserClose, ForeignGetID, SrvRead,
       SrvReply, SrvPong, SrvPush, WireFail, vars, Scheduled
  <2> QED
    BY <1>7, <2>1, <2>2
<1> QED
  BY <1>1, <1>2, <1>3, <1>4, <1>5, <1>6, <1>7, <1>8, <1>9, <1>10
     DEF Next, Close, Read, Ping, Server, Terminated

LEMMA SeenInvStep == ASSUME IInv, SeenInv, [Next]_vars PROVE SeenInv'
<1>0. TypeOK /\ IdInv /\ MsgInv
  BY DEF IInv
<1> DEFINE Ok(m) == Carries(m) => /\ m.body \in Calls /\ m.id = reqID[m.body] /\ m.id # NoID
                                  /\ pc[m.body] \in PastWrite
<1>1. \A m : Ok(m) => Ok(m)'
  BY <1>0, PastStep DEF Carries
<1>2. \A m \in Seen' : Ok(m)'
  <2> SUFFICES ASSUME NEW m \in Seen', Follows(m), Carries(m) PROVE Ok(m)'
    BY <1>0, SeenStep DEF Carries
  <2>1. CASE m \in Seen
    BY <1>1, <2>1 DEF SeenInv
  <2>2. CASE \E n \in Seen : Carries(n) /\ m.id = n.id /\ m.body = n.body
    <3> PICK n \in Seen : Carries(n) /\ m.id = n.id /\ m.body = n.body
      BY <2>2
    <3>1. Ok(n)'
      BY <1>1 DEF SeenInv
    <3> QED
      BY <3>1 DEF Carries
  <2>3. CASE \E c \in Calls : SendOK(c) /\ m.id = reqID[c] /\ m.body = c
    <3> PICK c \in Calls : SendOK(c) /\ m.id = reqID[c] /\ m.body = c
      BY <2>3
    <3>1. reqID[c] # NoID /\ reqID' = reqID /\ pc'[c] \in PastWrite
      BY <1>0 DEF SendOK, IdInv, TypeOK, PastWrite, Procs, reqVars
    <3> QED
      BY <3>1
  <2> QED
    BY <2>1, <2>2, <2>3 DEF Follows
<1>3. \A m \in Seen : Free(m) => Free(m)'
  <2> SUFFICES ASSUME NEW m \in Seen, m.kind = "resp", m.id \notin IdsTaken, m.id \in IdsTaken'
               PROVE  FALSE
    BY DEF Free
  <2>1. PICK c \in Calls : pc[c] = "send" /\ m.id = reqID[c]
    BY <1>0, IdsStep
  <2>2. m.body \in Calls /\ m.id = reqID[m.body] /\ m.id # NoID /\ pc[m.body] \in PastWrite
    BY DEF SeenInv, Carries
  <2> QED
    BY <1>0, <2>1, <2>2 DEF IdInv, PastWrite
<1>4. \A m : Unclaimed(m) => Free(m)'
  BY <1>3 DEF Unclaimed, Free
<1>5. (\A m \in Elems(eventCh) : Free(m))' /\ (pc["reader"] = "event" => Free(rmsg))'
  BY <1>0, <1>4, EventStep
<1> QED
  BY <1>2, <1>5 DEF SeenInv

LEMMA SeenInit == Init => SeenInv
BY NoElems, CallsAssumption
   DEF Init, SeenInv, Seen, Carries, Free, NoMsg, Plain, Msg, Procs, Closers

\* A response is handed to Events() only when no request waits for it, also when the answer
\* comes before the request is known to be sent (psynetrpc.go:257-271, 234).
THEOREM OnlyUnclaimed == SafeSpec => []EventsUnclaimed
<1>1. IInv /\ SeenInv /\ [Next]_vars => SeenInv'
  BY SeenInvStep
<1>2. IInv /\ SeenInv => EventsUnclaimed
  BY NotFound DEF IInv, SeenInv, EventsUnclaimed, Elems, Free
<1> QED
  BY IInvInit, IInvStep, SeenInit, <1>1, <1>2, PTL DEF SafeSpec

(***************************************************************************)
(* Pings and pongs: what is about of them, in both directions, against     *)
(* what the server sent too much. The messages of one kind in a queue:     *)
(***************************************************************************)
Where(q, k) == {i \in 1 .. Len(q) : q[i].kind = k}

LEMMA WhereFinite ==
    ASSUME NEW q \in Seq(Messages), NEW k
    PROVE  /\ IsFiniteSet(Where(q, k)) /\ Number(q, k) = Cardinality(Where(q, k))
           /\ Number(q, k) \in Nat
<1>1. IsFiniteSet(1 .. Len(q))
  BY FS_Interval
<1>2. Where(q, k) \in SUBSET (1 .. Len(q))
  BY DEF Where
<1>3. IsFiniteSet(Where(q, k))
  BY <1>1, <1>2, FS_Subset
<1>4. Number(q, k) = Cardinality(Where(q, k))
  BY DEF Number, Where
<1> QED
  BY <1>3, <1>4, FS_CardinalityType

LEMMA AppendNumber ==
    ASSUME NEW q \in Seq(Messages), NEW x \in Messages, NEW k
    PROVE  Number(Append(q, x), k) = IF x.kind = k THEN Number(q, k) + 1 ELSE Number(q, k)
<1>1. /\ Len(Append(q, x)) = Len(q) + 1 /\ Append(q, x)[Len(q) + 1] = x /\ Len(q) \in Nat
      /\ \A i \in 1 .. Len(q) : Append(q, x)[i] = q[i]
      /\ Append(q, x) \in Seq(Messages) /\ Len(q) + 1 \notin 1 .. Len(q)
  OBVIOUS
<1>2. 1 .. Len(Append(q, x)) = (1 .. Len(q)) \cup {Len(q) + 1}
  BY <1>1
<1>3. Len(q) + 1 \notin Where(q, k)
  BY <1>1 DEF Where
<1>4. CASE x.kind = k
  <2>1. Where(Append(q, x), k) = Where(q, k) \cup {Len(q) + 1}
    BY <1>1, <1>2, <1>4 DEF Where
  <2>2. Cardinality(Where(q, k) \cup {Len(q) + 1}) = Cardinality(Where(q, k)) + 1
    BY <1>3, WhereFinite, FS_AddElement
  <2>3. Number(Append(q, x), k) = Cardinality(Where(Append(q, x), k))
    BY <1>1, WhereFinite
  <2>4. Number(q, k) = Cardinality(Where(q, k))
    BY WhereFinite
  <2> QED
    BY <1>4, <2>1, <2>2, <2>3, <2>4
<1>5. CASE x.kind # k
  <2>1. Where(Append(q, x), k) = Where(q, k)
    BY <1>1, <1>2, <1>5 DEF Where
  <2> QED
    BY <1>1, <1>5, <2>1, WhereFinite
<1> QED
  BY <1>4, <1>5

LEMMA TailNumber ==
    ASSUME NEW q \in Seq(Messages), q # << >>, NEW k
    PROVE  Number(Tail(q), k) = IF Head(q).kind = k THEN Number(q, k) - 1 ELSE Number(q, k)
<1>1. /\ Tail(q) \in Seq(Messages) /\ Len(Tail(q)) = Len(q) - 1 /\ Head(q) = q[1]
      /\ Len(q) \in Nat \ {0}
      /\ \A i \in 1 .. Len(Tail(q)) : Tail(q)[i] = q[i + 1]
  OBVIOUS
<1> DEFINE T == Where(Tail(q), k)
           S == Where(q, k) \ {1}
           f == [i \in T |-> i + 1]
<1>2. \A i \in T : i \in Nat /\ i + 1 \in S
  BY <1>1 DEF Where
<1>3. \A j \in S : j - 1 \in T /\ j = (j - 1) + 1
  BY <1>1 DEF Where
<1>4. \A i, j \in T : i + 1 = j + 1 => i = j
  BY <1>2
<1>5. ExistsBijection(T, S)
  <2> HIDE DEF T, S
  <2>1. f \in [T -> S]
    BY <1>2
  <2>2. f \in Injection(T, S)
    BY <1>4, <2>1 DEF Injection, IsInjective
  <2>3. \A j \in S : \E i \in T : f[i] = j
    BY <1>3
  <2>4. f \in Surjection(T, S)
    BY <2>1, <2>3 DEF Surjection
  <2> QED
    BY <2>2, <2>4 DEF ExistsBijection, Bijection
<1>6. IsFiniteSet(T) /\ Number(Tail(q), k) = Cardinality(T)
  BY <1>1, WhereFinite
<1>7. Cardinality(S) = Cardinality(T)
  BY <1>5, <1>6, FS_Bijection
<1>8. Cardinality(S) = IF 1 \in Where(q, k) THEN Number(q, k) - 1 ELSE Number(q, k)
  BY WhereFinite, FS_RemoveElement
<1>9. 1 \in Where(q, k) <=> Head(q).kind = k
  BY <1>1 DEF Where
<1> QED
  BY <1>6, <1>7, <1>8, <1>9

LEMMA EmptyNumber == \A k : Number(<< >>, k) = 0
<1>1. \A k : Where(<< >>, k) = {}
  BY DEF Where
<1> QED
  BY <1>1, FS_EmptySet DEF Number, Where

(***************************************************************************)
(* The balance of pings and pongs.                                         *)
(***************************************************************************)
InPongs  == Number(inbox, "pong")
OutPings == Number(outbox, "ping")

LEMMA Counts ==
    ASSUME TypeOK
    PROVE  InPongs \in Nat /\ OutPings \in Nat /\ InFlight \in Nat /\ surplus \in Int
           /\ InFlight = (IF pongChan THEN 1 ELSE 0) + InPongs + OutPings
<1>1. inbox \in Seq(Messages) /\ outbox \in Seq(Messages) /\ surplus \in Int
  BY DEF TypeOK
<1>2. InPongs \in Nat /\ OutPings \in Nat
  BY <1>1, WhereFinite DEF InPongs, OutPings
<1>3. InFlight = (IF pongChan THEN 1 ELSE 0) + InPongs + OutPings
  BY DEF InFlight, InPongs, OutPings
<1> QED
  BY <1>1, <1>2, <1>3

\* What is about of pings and pongs is the server's surplus at most, and one ping more while
\* an answer is waited for.
PingInv ==
    connected =>
        /\ pc["pinger"] \in {"idle", "armed", "ping", "pingWrite", "resched"} => InFlight <= surplus
        /\ pc["pinger"] = "pong" => InFlight <= surplus + 1

LEMMA PingInit == Init => PingInv
<1> SUFFICES ASSUME Init PROVE InFlight = 0 /\ surplus = 0
  BY DEF PingInv
<1>1. inbox = << >> /\ outbox = << >> /\ pongChan = FALSE /\ surplus = 0
  BY DEF Init
<1>2. Number(inbox, "pong") = 0 /\ Number(outbox, "ping") = 0
  BY <1>1, EmptyNumber
<1> QED
  BY <1>1, <1>2 DEF InFlight

\* A step that does not add to the balance, and leaves the pinger where it is.
LEMMA Flows ==
    ASSUME TypeOK, PingInv, connected' => connected,
           NEW d \in Int, NEW e \in Int, d <= e,
           InFlight' = InFlight + d, surplus' = surplus + e,
           \/ pc'["pinger"] = pc["pinger"]
           \/ pc'["pinger"] \notin {"idle", "armed", "ping", "pingWrite", "resched", "pong"}
    PROVE  PingInv'
<1>1. InFlight \in Int /\ surplus \in Int
  BY Counts
<1>2. /\ InFlight <= surplus => InFlight + d <= surplus + e
      /\ InFlight <= surplus + 1 => InFlight + d <= surplus + e + 1
  BY <1>1
<1>3. /\ InFlight <= surplus => InFlight' <= surplus'
      /\ InFlight <= surplus + 1 => InFlight' <= surplus' + 1
  BY <1>2
<1> QED
  BY <1>3 DEF PingInv

\* The pinger does nothing before AuthPlayer has scheduled the first ping.
StartInv == pc["user"] = "auth" => pc["pinger"] = "idle"

LEMMA StartStep == ASSUME TypeOK, StartInv, [Next]_vars PROVE StartInv'
<1>t. /\ pc \in [Procs -> Labels] /\ Procs = Calls \cup Closers
      /\ {"pinger", "reader", "user"} = Closers /\ "pinger" \notin Calls /\ "user" \notin Calls
  BY CallsAssumption DEF TypeOK, Procs, Closers
<1> USE DEF StartInv
<1>1. ASSUME NEW c \in Calls, CallStart(c) \/ SendRequest(c) \/ Reap(c) \/ CtxDone(c) PROVE StartInv'
  BY <1>1, <1>t DEF CallStart, SendRequest, GetID, SendLock, SendOK, SendFail, AwaitResponse,
     AwaitCtx, Reap, ReapTake, ReapClose, CtxDone
<1>2. ASSUME NEW p \in Closers, Close(p) PROVE StartInv'
  BY <1>2, <1>t DEF Close, CloseLock, CloseFinish, CloseEvent
<1>3. CASE Read
  BY <1>3, <1>t DEF Read, ReadPong, ReadMsg, LookupPending, Deliver, EmitEvent, ReadErr
<1>4. CASE Ping
  BY <1>4, <1>t DEF Ping, PingFire, PingLock, PingWriteOK, PingWriteFail, PongArrives, PongTimeout,
     PingResched, Scheduled
<1>5. CASE AuthSchedule \/ UserClose
  BY <1>5, <1>t DEF AuthSchedule, UserClose
<1>6. CASE ForeignGetID \/ Consume \/ Server \/ UNCHANGED vars
  BY <1>6 DEF ForeignGetID, Consume, Server, SrvRead, SrvReply, SrvPong,
     SrvPush, WireFail, vars
<1> QED
  BY <1>1, <1>2, <1>3, <1>4, <1>5, <1>6 DEF Next, Terminated

LEMMA PingStep == ASSUME TypeOK, TypeOK', MsgInv, StartInv, PingInv, [Next]_vars PROVE PingInv'
<1>t. /\ outbox \in Seq(Messages) /\ inbox \in Seq(Messages)
      /\ pc \in [Procs -> Labels] /\ Procs = Calls \cup Closers
      /\ {"pinger", "reader", "user"} = Closers /\ "pinger" \notin Calls
  BY CallsAssumption DEF TypeOK, Procs, Closers
<1>n. /\ InPongs \in Nat /\ OutPings \in Nat /\ InFlight \in Nat /\ surplus \in Int
      /\ InFlight = (IF pongChan THEN 1 ELSE 0) + InPongs + OutPings
  BY Counts
<1>p. InFlight' = (IF pongChan' THEN 1 ELSE 0) + InPongs' + OutPings'
  BY DEF InFlight, InPongs, OutPings
<1>i. inbox' = inbox => InPongs' = InPongs
  BY DEF InPongs
<1>o. outbox' = outbox => OutPings' = OutPings
  BY DEF OutPings
<1>f. ASSUME connected' => connected, NEW d \in Int, NEW e \in Int, d <= e,
             InFlight' = InFlight + d, surplus' = surplus + e,
             \/ pc'["pinger"] = pc["pinger"]
             \/ pc'["pinger"] \in {"end", "close", "closeWrite", "closeEvent"}
      PROVE  PingInv'
  BY <1>f, Flows
<1>s. ASSUME UNCHANGED <<outbox, inbox, surplus, pongChan>>
      PROVE  /\ InFlight' = InFlight /\ InFlight' = InFlight + 0 /\ surplus' = surplus + 0
             /\ 0 \in Int /\ 0 <= 0
  BY <1>s, <1>n, <1>p, <1>i, <1>o
<1>1. ASSUME NEW c \in Calls, SendOK(c) PROVE PingInv'
  <2>1. Msg("req", reqID[c], c) \in Messages /\ Msg("req", reqID[c], c).kind = "req"
    BY MessageTypes DEF TypeOK, Kinds, Msg
  <2>2. OutPings' = OutPings
    BY <1>1, <1>t, <2>1, AppendNumber DEF SendOK, Written, OutPings
  <2>3. UNCHANGED <<inbox, surplus, pongChan, connected>> /\ pc'["pinger"] = pc["pinger"]
    BY <1>1, <1>t DEF SendOK, pingVars
  <2>4. InFlight' = InFlight + 0 /\ surplus' = surplus + 0
    BY <1>i, <1>n, <1>p, <2>2, <2>3
  <2> QED
    BY <1>f, <2>3, <2>4
<1>2. ASSUME NEW c \in Calls,
             \/ CallStart(c) \/ GetID(c) \/ SendLock(c) \/ SendFail(c) \/ AwaitResponse(c)
             \/ AwaitCtx(c) \/ Reap(c) \/ CtxDone(c)
      PROVE  PingInv'
  <2>1. UNCHANGED <<outbox, inbox, surplus, pongChan, connected>> /\ pc'["pinger"] = pc["pinger"]
    BY <1>2, <1>t DEF CallStart, GetID, SendLock, SendFail, AwaitResponse, AwaitCtx, Reap,
       ReapTake, ReapClose, CtxDone, pingVars, netVars
  <2> QED
    BY <1>f, <1>s, <2>1
<1>3. ASSUME NEW p \in Closers, CloseFinish(p) PROVE PingInv'
  BY <1>3 DEF CloseFinish, PingInv
<1>4. ASSUME NEW p \in Closers, CloseLock(p) \/ CloseEvent(p) PROVE PingInv'
  <2>1. UNCHANGED <<outbox, inbox, surplus, pongChan, connected>>
    BY <1>4 DEF CloseLock, CloseEvent, pingVars, netVars
  <2>2. pc'["pinger"] = pc["pinger"] \/ pc'["pinger"] \in {"closeWrite", "end"}
    BY <1>4, <1>t DEF CloseLock, CloseEvent
  <2> QED
    BY <1>f, <1>s, <2>1, <2>2
<1>5. CASE ReadPong
  <2>1. /\ inbox # << >> /\ Head(inbox).kind = "pong" /\ inbox' = Tail(inbox) /\ pongChan' = TRUE
        /\ UNCHANGED <<outbox, surplus, connected, pc>>
    BY <1>5 DEF ReadPong
  <2>2. InPongs' = InPongs - 1
    BY <1>t, <2>1, TailNumber DEF InPongs
  <2>3. PICK d \in {0, -1} : InFlight' = InFlight + d
    <3>1. CASE pongChan
      BY <1>n, <1>o, <1>p, <2>1, <2>2, <3>1
    <3>2. CASE ~pongChan
      BY <1>n, <1>o, <1>p, <2>1, <2>2, <3>2
    <3> QED
      BY <3>1, <3>2
  <2>4. surplus' = surplus + 0 /\ d <= 0 /\ d \in Int
    BY <1>n, <2>1
  <2> QED
    BY <1>f, <2>1, <2>3, <2>4
<1>6. CASE ReadMsg
  <2>1. /\ inbox # << >> /\ Head(inbox).kind # "pong" /\ inbox' = Tail(inbox)
        /\ UNCHANGED <<outbox, surplus, connected, pongChan>> /\ pc'["pinger"] = pc["pinger"]
    BY <1>6, <1>t DEF ReadMsg, pingVars
  <2>2. InPongs' = InPongs
    BY <1>t, <2>1, TailNumber DEF InPongs
  <2>3. InFlight' = InFlight + 0 /\ surplus' = surplus + 0
    BY <1>n, <1>o, <1>p, <2>1, <2>2
  <2> QED
    BY <1>f, <2>1, <2>3
<1>7. CASE LookupPending \/ Deliver \/ EmitEvent \/ ReadErr \/ UserClose \/ ForeignGetID \/ Consume
           \/ UNCHANGED vars
  <2>1. UNCHANGED <<outbox, inbox, surplus, pongChan, connected>> /\ pc'["pinger"] = pc["pinger"]
    BY <1>7, <1>t DEF LookupPending, Deliver, EmitEvent, ReadErr, UserClose, ForeignGetID, Consume,
       vars, pingVars, netVars
  <2> QED
    BY <1>f, <1>s, <2>1
<1>8. CASE PingFire \/ PingLock \/ PingWriteFail \/ PongTimeout \/ PingResched \/ AuthSchedule
  <2>1. UNCHANGED <<outbox, inbox, surplus, pongChan, connected>>
    BY <1>8 DEF PingFire, PingLock, PingWriteFail, PongTimeout, PingResched, AuthSchedule, pingVars,
       netVars
  <2>2. \/ pc'["pinger"] \in {"end", "close"}
        \/ /\ pc["pinger"] \in {"idle", "armed", "ping", "resched"}
           /\ pc'["pinger"] \in {"armed", "ping", "pingWrite"}
    BY <1>8, <1>t DEF PingFire, PingLock, PingWriteFail, PongTimeout, PingResched, AuthSchedule,
       Scheduled, StartInv
  <2> QED
    BY <1>s, <2>1, <2>2 DEF PingInv
<1>9. CASE PingWriteOK
  <2>1. Plain("ping") \in Messages /\ Plain("ping").kind = "ping"
    BY MessageTypes DEF Kinds, Plain, Msg
  <2>2. pc["pinger"] = "pingWrite" /\ pc'["pinger"] = "pong"
        /\ UNCHANGED <<inbox, surplus, pongChan, connected>>
    BY <1>9, <1>t DEF PingWriteOK, pingVars
  <2>3. OutPings' \in {OutPings, OutPings + 1}
    BY <1>9, <1>t, <2>1, AppendNumber DEF PingWriteOK, Written, OutPings
  <2>4. InFlight' \in {InFlight, InFlight + 1}
    <3>1. CASE OutPings' = OutPings
      BY <1>i, <1>n, <1>p, <2>2, <3>1
    <3>2. CASE OutPings' = OutPings + 1
      BY <1>i, <1>n, <1>p, <2>2, <3>2
    <3> QED
      BY <2>3, <3>1, <3>2
  <2>5. connected => InFlight <= surplus
    BY <2>2 DEF PingInv
  <2>6. InFlight <= surplus => InFlight <= surplus + 1 /\ InFlight + 1 <= surplus + 1
    BY <1>n
  <2>7. CASE InFlight' = InFlight
    BY <2>2, <2>5, <2>6, <2>7 DEF PingInv
  <2>8. CASE InFlight' = InFlight + 1
    BY <2>2, <2>5, <2>6, <2>8 DEF PingInv
  <2> QED
    BY <2>4, <2>7, <2>8
<1>10. CASE PongArrives
  <2>1. pc["pinger"] = "pong" /\ pongChan /\ pongChan' = FALSE
        /\ UNCHANGED <<outbox, inbox, surplus, connected>>
    BY <1>10 DEF PongArrives, netVars
  <2>2. pc'["pinger"] = "resched"
    BY <1>10, <1>t DEF PongArrives
  <2>3. InFlight' = InFlight - 1
    BY <1>i, <1>n, <1>o, <1>p, <2>1
  <2>4. connected => InFlight <= surplus + 1
    BY <2>1 DEF PingInv
  <2>5. InFlight <= surplus + 1 => InFlight - 1 <= surplus
    BY <1>n
  <2>6. InFlight <= surplus + 1 => InFlight' <= surplus'
    BY <2>1, <2>3, <2>5
  <2> QED
    BY <2>1, <2>2, <2>4, <2>6 DEF PingInv
<1>11. CASE SrvRead
  <2>1. /\ outbox # << >> /\ outbox' = Tail(outbox)
        /\ surplus' = IF Head(outbox).kind = "ping" THEN surplus - 1 ELSE surplus
        /\ UNCHANGED <<inbox, pongChan, connected, pc>>
    BY <1>11 DEF SrvRead, pingVars
  <2>2. OutPings' = IF Head(outbox).kind = "ping" THEN OutPings - 1 ELSE OutPings
    BY <1>t, <2>1, TailNumber DEF OutPings
  <2>3. PICK d \in {0, -1} : InFlight' = InFlight + d /\ surplus' = surplus + d
    BY <1>i, <1>n, <1>p, <2>1, <2>2
  <2>4. d \in Int /\ d <= d
    OBVIOUS
  <2> QED
    BY <1>f, <2>1, <2>3, <2>4
<1>12. ASSUME NEW m \in owed, SrvReply(m) PROVE PingInv'
  <2>1. UNCHANGED <<outbox, surplus, pongChan, connected, pc>>
    BY <1>12 DEF SrvReply, pingVars
  <2>2. PICK x \in {Msg("resp", m.id, m.body), Plain("push")} : inbox' = Append(inbox, x)
    BY <1>12 DEF SrvReply
  <2>3. x \in Messages /\ x.kind # "pong"
    BY MessageTypes DEF TypeOK, Messages, Kinds, Msg, Plain
  <2>4. InPongs' = InPongs
    BY <1>t, <2>2, <2>3, AppendNumber DEF InPongs
  <2>5. InFlight' = InFlight + 0 /\ surplus' = surplus + 0
    BY <1>n, <1>o, <1>p, <2>1, <2>4
  <2> QED
    BY <1>f, <2>1, <2>5
<1>13. CASE SrvPong
  <2>1. surplus' = surplus + 1 /\ UNCHANGED <<outbox, pongChan, connected, pc>>
    BY <1>13 DEF SrvPong, pingVars
  <2>2. Plain("pong") \in Messages /\ Plain("pong").kind = "pong"
    BY MessageTypes DEF Kinds, Plain, Msg
  <2>3. InPongs' = InPongs + 1
    BY <1>13, <1>t, <2>2, AppendNumber DEF SrvPong, InPongs
  <2>4. InFlight' = InFlight + 1
    BY <1>n, <1>o, <1>p, <2>1, <2>3
  <2> QED
    BY <1>f, <2>1, <2>4
<1>14. CASE SrvPush
  <2>1. NoMsg \in Messages /\ NoMsg.kind = "push"
    BY MessageTypes DEF NoMsg, Plain, Msg
  <2>2. InPongs' = InPongs
    BY <1>14, <1>t, <2>1, AppendNumber DEF SrvPush, InPongs
  <2>3. UNCHANGED <<outbox, surplus, pongChan, connected, pc>>
    BY <1>14 DEF SrvPush, pingVars
  <2>4. InFlight' = InFlight + 0 /\ surplus' = surplus + 0
    BY <1>n, <1>o, <1>p, <2>2, <2>3
  <2> QED
    BY <1>f, <2>3, <2>4
<1>15. CASE WireFail
  <2>1. UNCHANGED <<inbox, surplus, pongChan, connected, pc>>
    BY <1>15 DEF WireFail, pingVars
  <2>2. OutPings' \in {OutPings, 0}
    BY <1>15, EmptyNumber DEF WireFail, OutPings
  <2>3. PICK d \in Int : d <= 0 /\ OutPings' = OutPings + d
    <3>1. CASE OutPings' = OutPings
      <4>1. 0 \in Int /\ 0 <= 0 /\ OutPings = OutPings + 0
        BY <1>n
      <4> QED
        BY <3>1, <4>1
    <3>2. CASE OutPings' = 0
      <4>1. -OutPings \in Int /\ -OutPings <= 0 /\ 0 = OutPings + (-OutPings)
        BY <1>n
      <4> QED
        BY <3>2, <4>1
    <3> QED
      BY <2>2, <3>1, <3>2
  <2>4. InFlight' = InFlight + d /\ surplus' = surplus + 0
    BY <1>i, <1>n, <1>p, <2>1, <2>3
  <2> QED
    BY <1>f, <2>1, <2>3, <2>4
<1> QED
  BY <1>1, <1>2, <1>3, <1>4, <1>5, <1>6, <1>7, <1>8, <1>9, <1>10, <1>11, <1>12, <1>13, <1>14, <1>15
     DEF Next, SendRequest, Close, Read, Ping, Server, Terminated

\* A ping is answered by an earlier pong only at the cost of one the server sent too much,
\* however late the pongs come (psynetrpc.go:184, 206-210).
THEOREM PongsAreFresh == SafeSpec => []PongFresh
<1>1. Init => StartInv
  BY CallsAssumption DEF Init, StartInv, Procs, Closers
<1>2. IInv /\ IInv' /\ StartInv /\ PingInv /\ [Next]_vars => StartInv' /\ PingInv'
  BY StartStep, PingStep DEF IInv
<1>3. PingInv => PongFresh
  BY DEF PingInv, PongFresh
<1> QED
  BY IInvInit, IInvStep, PingInit, <1>1, <1>2, <1>3, PTL DEF SafeSpec
===============================================================================
