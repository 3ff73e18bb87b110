------------------------------ MODULE PsyNetRPC ------------------------------
(***************************************************************************)
(* The WebSocket client of psynetrpc.go: the goroutines that share one     *)
(* PsyNetRPC value (the callers of sendRequestSync / sendRequestAsync, the *)
(* cleanup goroutine of each request, the reader, the ping timer, and the  *)
(* user that owns the connection) and the wire and server they talk to.    *)
(*                                                                         *)
(* A critical section of p.mu is one action guarded by mu = "free", except *)
(* the three that write to the socket with p.mu held: a write can block,   *)
(* so there taking the lock and ending the write are separate actions.     *)
(* A Go panic ends the process: every action needs panic = "none".         *)
(*                                                                         *)
(* A definition marked Mutated is no part of the model: it is a bug one    *)
(* could write in place of the definition that follows it, kept to show    *)
(* that a property would notice.                                           *)
(***************************************************************************)
EXTENDS Integers, Sequences, FiniteSets

CONSTANTS
    Calls,       \* the requests of one run, one respCh each
    Sync,        \* those made by sendRequestSync; the others never read respCh
    NoCall,      \* "no channel": the zero value of chan *PsyResponse
    EventCap,    \* capacity of eventCh (32 in the code)
    InCap,       \* messages that fit in the buffers from server to client
    OutCap,      \* messages that fit in the buffers from client to server
    SrvCap,      \* requests the server keeps unanswered before it stops reading
    MaxSurplus,  \* bound on the pongs the server sends beyond the pings it has read
    MaxForeign,  \* bound on the ids other users of the shared counter take
    MaxPush,     \* bound on the unsolicited messages of the server
    Pings,       \* does a ping fall due while the calls are made (one does every 20 s)
    Duplicates,  \* may the server answer a request more than once
    Faults       \* how the wire may fail: subset of {"dead", "broken"}

Closers == {"reader", "pinger", "user"}   \* the goroutines that call Close
Procs   == Calls \cup Closers

ASSUME CallsAssumption ==
    /\ Calls \cap (Closers \cup {"free"}) = {}
    /\ NoCall \notin Calls
    /\ Sync \subseteq Calls
ASSUME BoundsAssumption ==
    /\ {EventCap, InCap, OutCap, SrvCap} \subseteq Nat \ {0}
    /\ {MaxForeign, MaxPush, MaxSurplus} \subseteq Nat
    /\ Pings \in BOOLEAN /\ Duplicates \in BOOLEAN
    /\ Faults \subseteq {"dead", "broken"}

NoID == -1
IDs  == Nat \cup {NoID}
\* A message carries its request id and, for a request or the response to it,
\* the call it was written for: that stands for the payload.
Kinds    == {"req", "ping", "resp", "pong", "push", "disc"}
Messages == [kind : Kinds, id : IDs, body : Calls \cup {NoCall}]
Msg(k, i, c) == [kind |-> k, id |-> i, body |-> c]
Plain(k)     == Msg(k, NoID, NoCall)

VARIABLES
    mu,           \* p.mu: the goroutine that holds it, or "free"
    connected,    \* p.connected
    nextID,       \* requestIDCounter.value, shared with the HTTP client
    pendingReqs,  \* p.pendingReqs: entries [id, call], call standing for its respCh
    pingTimer,    \* p.pingTimer # nil
    pongChan,     \* is there a token in p.pongChan (capacity 1)
    eventCh,      \* p.eventCh
    pc,           \* where each goroutine stands
    reqID,        \* requestID of a call
    buf,          \* the payload buffered in a call's respCh (capacity 1)
    chClosed,     \* the calls whose respCh is closed
    got,          \* the payload a call returned
    ctxDone,      \* the calls whose context is done
    reaper,       \* the cleanup goroutine of a call
    reapCh,       \* the channel it took out of pendingReqs and has to close
    rmsg, rch,    \* locals of readMessages: the message, the channel found
    wire,         \* "open", "dead" (peer silent), "broken" (reset), "closed" (by us)
    outbox, inbox,\* messages in transit to and from the server
    owed,         \* the requests the server has read and not answered
    surplus,      \* the pongs the server has sent less the pings it has read
    pushed,       \* how many messages the server pushed
    disc,         \* fate of the Disconnected event
    panic         \* "none", or the panic that ended the process

conn     == <<connected, pendingReqs>>
reqVars  == <<nextID, reqID>>
chanVars == <<buf, chClosed, got>>
reapVars == <<reaper, reapCh>>
readVars == <<rmsg, rch>>
pingVars == <<pingTimer, pongChan>>
evVars   == <<eventCh, disc>>
netVars  == <<wire, outbox, inbox, owed, surplus, pushed>>
callVars == <<ctxDone, reqVars, chanVars, reapVars>>
loopVars == <<readVars, pingVars, evVars>>
clientVars == <<conn, callVars, loopVars>>
allButPc == <<mu, panic, clientVars, netVars>>
vars     == <<pc, allButPc>>

NoMsg == Plain("push")

\* newPsyNetRPC on a dialled socket; AuthPlayer has started the reader and is
\* about to call schedulePing.
Init ==
    /\ mu = "free" /\ connected = TRUE /\ pendingReqs = {}
    /\ pingTimer = FALSE /\ pongChan = FALSE
    /\ eventCh = << >> /\ disc = "none"
    /\ nextID = 0 /\ reqID = [c \in Calls |-> NoID]
    /\ pc = [p \in Procs |-> CASE p = "reader" -> "read"
                               [] p = "pinger" -> "idle"
                               [] p = "user"   -> "auth"
                               [] OTHER        -> "new"]
    /\ buf = [c \in Calls |-> NoCall] /\ got = [c \in Calls |-> NoCall]
    /\ chClosed = {} /\ ctxDone = {}
    /\ reaper = [c \in Calls |-> "none"] /\ reapCh = [c \in Calls |-> NoCall]
    /\ rmsg = NoMsg /\ rch = NoCall
    /\ wire = "open" /\ outbox = << >> /\ inbox = << >> /\ owed = {}
    /\ surplus = 0 /\ pushed = 0 /\ panic = "none"

At(p, label)   == panic = "none" /\ pc[p] = label
Goto(p, label) == pc' = [pc EXCEPT ![p] = label]

(***************************************************************************)
(* The map of pending requests, the event channel, the socket.             *)
(***************************************************************************)
Registered == {e.call : e \in pendingReqs}
\* (Mutated: an entry that is never deleted.)
WithoutKept(i) == pendingReqs
Without(i) == {e \in pendingReqs : e.id # i}
ChanFor(i) == IF \E e \in pendingReqs : e.id = i
                THEN (CHOOSE e \in pendingReqs : e.id = i).call
                ELSE NoCall

\* Send without blocking: a full channel drops the event.
\* (Mutated: events queued without a limit.)
sendEventUnbounded(m) == eventCh' = Append(eventCh, m)
EventFits    == Len(eventCh) < EventCap
sendEvent(m) == eventCh' = IF EventFits THEN Append(eventCh, m) ELSE eventCh

\* A write returns nil once the message is in the buffers of the socket, also
\* when the peer is gone or (the message is lost) has just reset the connection.
\* It fails on a reset or closed connection, and blocks while the buffers are
\* full: no write has a deadline.
WriteSucceeds == wire = "broken" \/ (wire \in {"open", "dead"} /\ Len(outbox) < OutCap)
WriteFails    == wire \in {"broken", "closed"}
Written(m)    == outbox' = IF wire = "broken" THEN outbox ELSE Append(outbox, m)

(***************************************************************************)
(* sendRequestAsync, awaitResponse, sendRequestSync.                       *)
(***************************************************************************)
CallStart(c) ==                                    \* IsConnected
    /\ At(c, "new") /\ pc["user"] # "auth" /\ mu = "free"
    /\ Goto(c, IF connected THEN "getID" ELSE "failed")
    /\ UNCHANGED allButPc

\* requestIDCounter.getID: an atomic increment that returns the old value.
\* (Mutated: a counter that is read but not advanced.)
DrawnStale == nextID
Drawn      == nextID + 1

GetID(c) ==                   \* getID, then buildMessage, which may fail
    /\ At(c, "getID")
    /\ nextID' = Drawn
    /\ reqID' = [reqID EXCEPT ![c] = nextID]
    /\ \E next \in {"send", "failed"} : Goto(c, next)
    /\ UNCHANGED <<mu, ctxDone, panic, loopVars, chanVars, reapVars, netVars, conn>>

\* The state is checked a second time, under the lock of the registration.
\* (Mutated: the first check is trusted.)
RecheckSkipped == TRUE
Recheck        == connected

SendLock(c) ==                            \* lock, check again, register
    /\ At(c, "send") /\ mu = "free"
    /\ \/ /\ Recheck
          /\ mu' = c
          /\ pendingReqs' = Without(reqID[c]) \cup {[id |-> reqID[c], call |-> c]}
          /\ Goto(c, "write")
       \/ /\ ~Recheck
          /\ Goto(c, "failed")
          /\ UNCHANGED <<mu, pendingReqs>>
    /\ UNCHANGED <<connected, panic, callVars, loopVars, netVars>>

SendOK(c) ==           \* the write returns nil: unlock, start the cleanup goroutine
    /\ At(c, "write") /\ WriteSucceeds
    /\ Written(Msg("req", reqID[c], c))
    /\ mu' = "free"
    /\ reaper' = [reaper EXCEPT ![c] = "watch"]
    /\ Goto(c, IF c \in Sync THEN "await" ELSE "sent")
    /\ UNCHANGED <<ctxDone, panic, reapCh, wire, inbox, owed, surplus, pushed,
                   loopVars, reqVars, chanVars, conn>>

SendFail(c) ==                              \* the write fails: unregister
    /\ At(c, "write") /\ WriteFails
    /\ pendingReqs' = Without(reqID[c])
    /\ mu' = "free"
    /\ Goto(c, "failed")
    /\ UNCHANGED <<connected, panic, callVars, loopVars, netVars>>

AwaitResponse(c) ==    \* <-respCh: a buffered response, or nil once it is closed
    /\ At(c, "await")
    /\ \/ /\ buf[c] # NoCall
          /\ got' = [got EXCEPT ![c] = buf[c]]
          /\ buf' = [buf EXCEPT ![c] = NoCall]
          /\ Goto(c, "done")
          /\ UNCHANGED panic
       \/ /\ buf[c] = NoCall /\ c \in chClosed
          /\ panic' = "nilDeref"                  \* response.Error of a nil response
          /\ UNCHANGED <<pc, buf, got>>
    /\ UNCHANGED <<mu, ctxDone, chClosed, loopVars, reqVars, reapVars, netVars, conn>>

AwaitCtx(c) ==
    /\ At(c, "await") /\ c \in ctxDone
    /\ Goto(c, "expired")
    /\ UNCHANGED allButPc

ReapTake(c) ==                       \* <-ctx.Done(), then lookup and delete
    /\ panic = "none" /\ reaper[c] = "watch" /\ c \in ctxDone /\ mu = "free"
    /\ pendingReqs' = Without(reqID[c])
    /\ reapCh' = [reapCh EXCEPT ![c] = ChanFor(reqID[c])]
    /\ reaper' = [reaper EXCEPT ![c] = IF ChanFor(reqID[c]) = NoCall THEN "end" ELSE "close"]
    /\ UNCHANGED <<mu, connected, pc, ctxDone, panic, loopVars, reqVars, chanVars, netVars>>

ReapClose(c) ==                              \* close(ch), outside the lock
    /\ panic = "none" /\ reaper[c] = "close"
    /\ reaper' = [reaper EXCEPT ![c] = "end"]
    /\ chClosed' = chClosed \cup {reapCh[c]}
    /\ panic' = IF reapCh[c] \in chClosed THEN "closeOfClosed" ELSE panic
    /\ UNCHANGED <<mu, pc, ctxDone, buf, got, reapCh, loopVars, reqVars, netVars, conn>>

(***************************************************************************)
(* readMessages.                                                           *)
(***************************************************************************)
ReadPong ==                                 \* a token, unless there is one
    /\ At("reader", "read") /\ inbox # << >> /\ Head(inbox).kind = "pong"
    /\ inbox' = Tail(inbox)
    /\ pongChan' = TRUE
    /\ UNCHANGED <<mu, pc, panic, pingTimer, wire, outbox, owed, surplus, pushed,
                   callVars, readVars, evVars, conn>>

\* A "push" stands for a message that does not parse or names no request.
\* (Mutated: a request id of 0 is taken for none.)
RouteNoZero(m) == IF m.kind = "resp" /\ m.id > 0 THEN "lookup" ELSE "event"
Route(m)       == IF m.kind = "resp" THEN "lookup" ELSE "event"

ReadMsg ==
    /\ At("reader", "read") /\ inbox # << >> /\ Head(inbox).kind # "pong"
    /\ inbox' = Tail(inbox)
    /\ rmsg' = Head(inbox)
    /\ Goto("reader", Route(rmsg'))
    /\ UNCHANGED <<mu, panic, rch, wire, outbox, owed, surplus, pushed,
                   callVars, pingVars, evVars, conn>>

LookupPending ==                   \* lock, read the map, unlock; keep the channel
    /\ At("reader", "lookup") /\ mu = "free"
    /\ rch' = ChanFor(rmsg.id)
    /\ Goto("reader", IF rch' = NoCall THEN "event" ELSE "deliver")
    /\ UNCHANGED <<mu, panic, rmsg, callVars, pingVars, evVars, netVars, conn>>

Deliver ==                    \* ch <- response: blocks while the buffer is full
    /\ At("reader", "deliver")
    /\ \/ /\ rch \in chClosed
          /\ panic' = "sendOnClosed"
          /\ UNCHANGED <<pc, buf, readVars>>
       \/ /\ rch \notin chClosed /\ buf[rch] = NoCall
          /\ buf' = [buf EXCEPT ![rch] = rmsg.body]
          /\ rmsg' = NoMsg /\ rch' = NoCall
          /\ Goto("reader", "read")
          /\ UNCHANGED panic
    /\ UNCHANGED <<mu, ctxDone, chClosed, got, reqVars, reapVars, pingVars, evVars, netVars, conn>>

EmitEvent ==                                 \* sendEvent(EventTypeMessage, ..)
    /\ At("reader", "event")
    /\ sendEvent(rmsg)
    /\ rmsg' = NoMsg
    /\ Goto("reader", "read")
    /\ UNCHANGED <<mu, panic, rch, disc, callVars, pingVars, netVars, conn>>

\* ReadMessage fails; bytes already buffered may still be read first.
\* (Mutated: the error is skipped like a message that does not parse.)
ReadErrContinue ==
    /\ At("reader", "read") /\ wire \in {"broken", "closed"}
    /\ UNCHANGED vars
ReadErr ==
    /\ At("reader", "read") /\ wire \in {"broken", "closed"}
    /\ Goto("reader", "close")
    /\ UNCHANGED allButPc

(***************************************************************************)
(* schedulePing and sendPing.                                              *)
(***************************************************************************)
schedulePing ==           \* the timer is armed only on a live connection
    /\ mu = "free"
    /\ pingTimer' = (connected \/ pingTimer)
\* (Mutated: armed without the check.)
ScheduledAlways == "armed"
Scheduled == IF connected THEN "armed" ELSE "end"

AuthSchedule ==           \* AuthPlayer calls schedulePing and returns the client
    /\ At("user", "auth") /\ schedulePing
    /\ pc' = [pc EXCEPT !["user"] = "idle", !["pinger"] = Scheduled]
    /\ UNCHANGED <<mu, panic, pongChan, callVars, readVars, evVars, netVars, conn>>

PingFire ==                                   \* time.AfterFunc runs sendPing
    /\ Pings /\ At("pinger", "armed")
    /\ Goto("pinger", "ping")
    /\ UNCHANGED allButPc

PingLock ==
    /\ At("pinger", "ping") /\ mu = "free"
    /\ IF connected
         THEN mu' = "pinger" /\ Goto("pinger", "pingWrite")
         ELSE mu' = mu /\ Goto("pinger", "end")
    /\ UNCHANGED <<panic, clientVars, netVars>>

PingWriteOK ==
    /\ At("pinger", "pingWrite") /\ WriteSucceeds
    /\ Written(Plain("ping"))
    /\ mu' = "free"
    /\ Goto("pinger", "pong")
    /\ UNCHANGED <<panic, wire, inbox, owed, surplus, pushed, clientVars>>

\* (Mutated: returns with the lock held.)
PingWriteFailLocked ==
    /\ At("pinger", "pingWrite") /\ WriteFails
    /\ Goto("pinger", "end")
    /\ UNCHANGED allButPc
PingWriteFail ==             \* returns, and does not close the connection
    /\ At("pinger", "pingWrite") /\ WriteFails
    /\ mu' = "free"
    /\ Goto("pinger", "end")
    /\ UNCHANGED <<panic, clientVars, netVars>>

PongArrives ==
    /\ At("pinger", "pong") /\ pongChan
    /\ pongChan' = FALSE
    /\ Goto("pinger", "resched")
    /\ UNCHANGED <<mu, panic, pingTimer, callVars, readVars, evVars, netVars, conn>>

\* (Mutated: a timeout sends the next ping.)
PongTimeoutRetry ==
    /\ At("pinger", "pong")
    /\ Goto("pinger", "resched")
    /\ UNCHANGED allButPc
PongTimeout ==
    /\ At("pinger", "pong")
    /\ Goto("pinger", "close")
    /\ UNCHANGED allButPc

PingResched ==
    /\ At("pinger", "resched") /\ schedulePing
    /\ Goto("pinger", Scheduled)
    /\ UNCHANGED <<mu, panic, pongChan, callVars, readVars, evVars, netVars, conn>>

(***************************************************************************)
(* Close, by the reader when it stops, the pinger on a timeout, the user.  *)
(***************************************************************************)
UserClose ==
    /\ At("user", "idle")
    /\ Goto("user", "close")
    /\ UNCHANGED allButPc

\* (Mutated: the connection is torn down whether or not it is up.)
CloseLockUnchecked(p) ==
    /\ At(p, "close") /\ mu = "free"
    /\ mu' = p /\ Goto(p, "closeWrite")
    /\ UNCHANGED <<panic, clientVars, netVars>>
CloseLock(p) ==
    /\ At(p, "close") /\ mu = "free"
    /\ IF connected
         THEN mu' = p /\ Goto(p, "closeWrite")
         ELSE mu' = mu /\ Goto(p, "end")
    /\ UNCHANGED <<panic, clientVars, netVars>>

\* The close frame is written (an error is ignored), the socket closed, the
\* timer stopped, every pending channel closed and the map emptied; unlock.
CloseFinish(p) ==
    /\ At(p, "closeWrite") /\ (WriteSucceeds \/ WriteFails)
    /\ wire' = "closed"
    /\ connected' = FALSE
    /\ pingTimer' = FALSE
    /\ pc' = [pc EXCEPT ![p] = "closeEvent",
                        !["pinger"] = IF pingTimer /\ @ = "armed" THEN "end" ELSE @]
    /\ chClosed' = chClosed \cup Registered
    /\ panic' = IF Registered \cap chClosed # {} THEN "closeOfClosed" ELSE panic
    /\ pendingReqs' = {}
    /\ mu' = "free"
    /\ outbox' = << >> /\ owed' = {} /\ surplus' = 0
    /\ UNCHANGED <<ctxDone, buf, got, pongChan, inbox, pushed,
                   reqVars, reapVars, readVars, evVars>>

CloseEvent(p) ==                        \* sendEvent(EventTypeDisconnected, "")
    /\ At(p, "closeEvent")
    /\ sendEvent(Plain("disc"))
    /\ disc' = CASE disc # "none" -> "twice"
                 [] disc = "none" /\ EventFits -> "sent"
                 [] OTHER -> "dropped"
    /\ Goto(p, "end")
    /\ UNCHANGED <<mu, panic, callVars, readVars, pingVars, netVars, conn>>

(***************************************************************************)
(* What surrounds the client: contexts, the other users of the id counter, *)
(* the consumer of Events(), the server and the wire.                      *)
(***************************************************************************)
\* A context matters from the write on: nothing looks at it before.
CtxDone(c) ==
    /\ panic = "none" /\ c \notin ctxDone
    /\ pc[c] = "write" \/ reaper[c] = "watch"
    /\ ctxDone' = ctxDone \cup {c}
    /\ UNCHANGED <<mu, pc, panic, loopVars, reqVars, chanVars, reapVars, netVars, conn>>

ForeignGetID ==         \* postJSON, or another connection of the same PsyNet
    /\ panic = "none"
    /\ nextID - Cardinality({c \in Calls : reqID[c] # NoID}) < MaxForeign
    /\ nextID' = Drawn
    /\ UNCHANGED <<mu, pc, ctxDone, panic, reqID, loopVars, chanVars, reapVars, netVars, conn>>

Consume ==
    /\ panic = "none" /\ eventCh # << >>
    /\ eventCh' = Tail(eventCh)
    /\ UNCHANGED <<mu, pc, panic, disc, callVars, readVars, pingVars, netVars, conn>>

SrvRead ==
    /\ panic = "none" /\ wire = "open" /\ outbox # << >>
    /\ Cardinality(owed) < SrvCap
    /\ outbox' = Tail(outbox)
    /\ \/ /\ Head(outbox).kind = "ping"
          /\ surplus' = surplus - 1 /\ owed' = owed
       \/ /\ Head(outbox).kind # "ping"
          /\ owed' = owed \cup {Head(outbox)} /\ surplus' = surplus
    /\ UNCHANGED <<mu, pc, panic, wire, inbox, pushed, clientVars>>

\* Answers come in any order; one may not parse; with Duplicates a request may
\* be answered again.
SrvReply(m) ==
    /\ panic = "none" /\ wire = "open" /\ Len(inbox) < InCap
    /\ \E x \in {Msg("resp", m.id, m.body), Plain("push")} : inbox' = Append(inbox, x)
    /\ \/ owed' = owed \ {m}
       \/ Duplicates /\ owed' = owed
    /\ UNCHANGED <<mu, pc, panic, wire, outbox, surplus, pushed, clientVars>>

\* A pong names no ping. The server sends it for a ping it has read, or, as long as
\* MaxSurplus lets it, twice or unasked.
SrvPong ==
    /\ panic = "none" /\ wire = "open" /\ Len(inbox) < InCap /\ surplus < MaxSurplus
    /\ inbox' = Append(inbox, Plain("pong"))
    /\ surplus' = surplus + 1
    /\ UNCHANGED <<mu, pc, panic, wire, outbox, owed, pushed, clientVars>>

SrvPush ==
    /\ panic = "none" /\ wire = "open" /\ Len(inbox) < InCap /\ pushed < MaxPush
    /\ inbox' = Append(inbox, NoMsg)
    /\ pushed' = pushed + 1
    /\ UNCHANGED <<mu, pc, panic, wire, outbox, owed, surplus, clientVars>>

\* The peer falls silent, or the connection is reset; the kernel may come to
\* reset a connection whose peer is silent. What the server still had to read
\* or to answer is lost.
WireFail ==
    /\ panic = "none"
    /\ wire' \in Faults
    /\ wire = "open" \/ (wire = "dead" /\ wire' = "broken")
    /\ owed' = {}
    /\ outbox' = IF wire' = "broken" THEN << >> ELSE outbox
    /\ UNCHANGED <<mu, pc, panic, inbox, surplus, pushed, clientVars>>

(***************************************************************************)
(* The next-state relation and the specification.                          *)
(***************************************************************************)
CallEnds == {"sent", "done", "expired", "failed"}
Ended ==
    /\ \A c \in Calls : pc[c] \in CallEnds /\ reaper[c] \in {"none", "end"}
    /\ pc["reader"] = "end" /\ pc["pinger"] = "end"
    /\ pc["user"] \in {"idle", "end"}

\* Every goroutine has returned, or a panic has ended the process.
Terminated == (Ended \/ panic # "none") /\ UNCHANGED vars

SendRequest(c) == GetID(c) \/ SendLock(c) \/ SendOK(c) \/ SendFail(c)
                  \/ AwaitResponse(c) \/ AwaitCtx(c)
Reap(c)     == ReapTake(c) \/ ReapClose(c)
Close(p)    == CloseLock(p) \/ CloseFinish(p) \/ CloseEvent(p)
Read        == ReadPong \/ ReadMsg \/ LookupPending \/ Deliver \/ EmitEvent \/ ReadErr
Ping        == PingFire \/ PingLock \/ PingWriteOK \/ PingWriteFail
               \/ PongArrives \/ PongTimeout \/ PingResched
Server      == SrvRead \/ (\E m \in owed : SrvReply(m)) \/ SrvPong \/ SrvPush \/ WireFail

Next ==
    \/ \E c \in Calls : CallStart(c) \/ SendRequest(c) \/ Reap(c) \/ CtxDone(c)
    \/ \E p \in Closers : Close(p)
    \/ Read \/ Ping \/ AuthSchedule \/ UserClose
    \/ ForeignGetID \/ Consume \/ Server
    \/ Terminated

SafeSpec == Init /\ [][Next]_vars

\* Goroutines run: p.mu, which hands over to a waiter that starves, gives each
\* strong fairness. The timers fire, and every context gets done in the end.
\* Nothing is assumed of the server, the wire, the consumer, or of the user's
\* wish to call or to close.
Fairness ==
    /\ \A c \in Calls : /\ SF_vars(SendRequest(c)) /\ SF_vars(Reap(c))
                        /\ WF_vars(CtxDone(c))
    /\ SF_vars(Read \/ Close("reader"))
    /\ SF_vars(Ping \/ Close("pinger"))
    /\ SF_vars(AuthSchedule \/ Close("user"))

Spec == SafeSpec /\ Fairness

Labels == {"new", "getID", "send", "write", "await", "sent", "done", "expired", "failed",
           "read", "lookup", "deliver", "event",
           "idle", "armed", "ping", "pingWrite", "pong", "resched",
           "auth", "close", "closeWrite", "closeEvent", "end"}

\* Every variable of the connection keeps to its domain, the channels to
\* their capacities (psynetrpc.go:31-57).
TypeOK ==
    /\ mu \in Procs \cup {"free"}
    /\ connected \in BOOLEAN /\ pingTimer \in BOOLEAN /\ pongChan \in BOOLEAN
    /\ nextID \in Nat /\ reqID \in [Calls -> IDs]
    /\ pendingReqs \subseteq [id : IDs, call : Calls]
    /\ eventCh \in Seq(Messages) /\ Len(eventCh) <= EventCap
    /\ disc \in {"none", "sent", "dropped", "twice"}
    /\ pc \in [Procs -> Labels]
    /\ buf \in [Calls -> Calls \cup {NoCall}] /\ got \in [Calls -> Calls \cup {NoCall}]
    /\ chClosed \subseteq Calls /\ ctxDone \subseteq Calls
    /\ reaper \in [Calls -> {"none", "watch", "close", "end"}]
    /\ reapCh \in [Calls -> Calls \cup {NoCall}]
    /\ \A c \in Calls : reaper[c] = "close" => reapCh[c] \in Calls
    /\ rmsg \in Messages /\ rch \in Calls \cup {NoCall}
    /\ wire \in {"open", "dead", "broken", "closed"}
    /\ outbox \in Seq(Messages) /\ Len(outbox) <= OutCap
    /\ inbox \in Seq(Messages) /\ Len(inbox) <= InCap
    /\ owed \subseteq Messages /\ surplus \in Int /\ pushed \in 0 .. MaxPush
    /\ panic \in {"none", "nilDeref", "sendOnClosed", "closeOfClosed"}
=============================================================================
