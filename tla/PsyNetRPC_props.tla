--------------------------- MODULE PsyNetRPC_props ---------------------------
(***************************************************************************)
(* What is claimed of PsyNetRPC: safety, the panics and losses the code    *)
(* does not rule out, liveness, the abstract specification it implements,  *)
(* and the inductive invariant behind the proofs.                          *)
(***************************************************************************)
EXTENDS PsyNetRPC

\* Once Close has torn the connection down no request is registered: nobody
\* would ever answer it (the second check of psynetrpc.go:258, and 79-82).
ClosedMeansDrained == ~connected => pendingReqs = {}

\* Close and the cleanup goroutines of the requests both close response
\* channels (psynetrpc.go:80, 281); no channel is closed twice.
NoDoubleClose == panic # "closeOfClosed"

\* A call returns the answer to its own request, whatever the order of the
\* answers and whoever else draws ids from the counter (psynetrpc.go:223-229,
\* 243, 263, requestid.go:12-15).
ResponseMatch == \A c \in Calls : got[c] \in {c, NoCall}

\* A caller blocked in awaitResponse can be woken: its request is registered,
\* or a response is on the way to it, or its channel is closed, or its context
\* is done (psynetrpc.go:223-229, 263, 273-283).
NoLostWaiter ==
    \A c \in Calls : pc[c] = "await" =>
        \/ c \in Registered
        \/ buf[c] # NoCall \/ (pc["reader"] = "deliver" /\ rch = c)
        \/ c \in chClosed \/ c \in ctxDone

\* A response reaches the event channel only when no request waits for it:
\* registration precedes the write, under one lock (psynetrpc.go:257-271, 234).
EventsUnclaimed ==
    \A i \in 1 .. Len(eventCh) : eventCh[i].kind = "resp" =>
        ChanFor(eventCh[i].id) = NoCall

\* The ping timer is armed only on a live connection, which knows the timer it
\* has to stop: no timer outlives Close (psynetrpc.go:74-77, 154-158, auth.go:62-63).
TimerStopped == pc["pinger"] = "armed" => connected /\ pingTimer

Number(q, k) == Cardinality({i \in 1 .. Len(q) : q[i].kind = k})
InFlight     == (IF pongChan THEN 1 ELSE 0) + Number(inbox, "pong") + Number(outbox, "ping")

\* A pong names no ping, so a ping may take an earlier one for its answer; it
\* does so only if the server has sent more pongs than it was asked for. When
\* the next ping is due no more tokens, pongs and unread pings are about than
\* that, and none with a server that answers once: a surplus pong hides the
\* silence of the peer from one ping, a late one from none (psynetrpc.go:184, 206-210).
PongFresh ==
    connected /\ pc["pinger"] \in {"armed", "ping", "pingWrite", "resched"} =>
        InFlight <= surplus

\* Close may be called by the reader, the pinger and the user at once: one of
\* them tears the connection down and announces it (psynetrpc.go:66-67, 85).
OneDisconnect == disc # "twice"

\* A response channel is not closed while its request is still registered: the
\* one who closes it has taken it out of the map first (psynetrpc.go:79-82,
\* 275-282), or the reader would find a channel it must not send on.
RegisteredIsOpen == panic = "none" => Registered \cap chClosed = {}

\* The panics the code can run into have one cause, the end of a request: by its
\* context or by Close (psynetrpc.go:229, 290-291).
PanicCause ==
    /\ panic = "nilDeref" =>
         \E c \in chClosed : pc[c] = "await" /\ got[c] = NoCall /\ (c \in ctxDone \/ ~connected)
    /\ panic = "sendOnClosed" => rch \in chClosed /\ (rch \in ctxDone \/ ~connected)

\* The Disconnected event that ends the stream of events is delivered
\* (psynetrpc.go:85, 314): it is not lost to a full event channel.
DisconnectDelivered == disc # "dropped"

\* awaitResponse returns a response or an error, it never dereferences the nil
\* a closed channel yields (psynetrpc.go:290-291).
NoNilResponse == panic # "nilDeref"

\* The reader never sends on a response channel that the cleanup goroutine or
\* Close has closed meanwhile (psynetrpc.go:224-229).
NoSendOnClosed == panic # "sendOnClosed"

\* A call that was started returns: with a response, with the error of its
\* context, or because the connection is gone (psynetrpc.go:239-303).
CallCompletes ==
    \A c \in Calls : pc[c] # "new" ~> (pc[c] \in CallEnds \/ panic # "none")

\* A request does not stay in pendingReqs for ever (psynetrpc.go:273-283).
EntryReclaimed ==
    \A c \in Calls : (c \in Registered) ~> (c \notin Registered \/ panic # "none")

\* A connection whose peer falls silent or resets it is torn down: by the pong
\* timeout or by the reader (psynetrpc.go:187-189, 201-203).
DeadPeerDetected == wire \in {"dead", "broken"} ~> (~connected \/ panic # "none")

\* After the teardown the reader, the ping timer and the cleanup goroutines all
\* end: a closed connection leaks no goroutine.
GoroutinesStop ==
    ~connected ~> \/ panic # "none"
                  \/ /\ pc["reader"] = "end" /\ pc["pinger"] = "end"
                     /\ \A c \in Calls : reaper[c] \in {"none", "end"}

\* A request stays registered until its own write fails, its context is done or
\* Close tears the connection down: no other request, cleanup or answer evicts
\* it (psynetrpc.go:263-266, 275-277, 79-82).
EntryKept ==
    [][\A c \in Registered \ Registered' :
          pc[c] = "write" \/ c \in ctxDone \/ ~connected']_vars

(***************************************************************************)
(* The abstract specification. A request counts as accepted when its write *)
(* has returned: until then the lock hides its entry.                      *)
(***************************************************************************)
StatusOf(c) ==
    CASE pc[c] \in {"new", "getID", "send", "write"} -> "new"
      [] pc[c] = "failed"             -> "refused"
      [] pc[c] \in {"await", "sent"}  -> "open"
      [] pc[c] = "done" /\ got[c] = c -> "answered"
      [] pc[c] = "expired"            -> "expired"
      [] OTHER                        -> "misled"

Promise == INSTANCE RpcPromise WITH
    link     <- IF connected THEN "up" ELSE "down",
    alive    <- panic = "none",
    timedOut <- ctxDone,
    table    <- {c \in Registered : pc[c] # "write"},
    status   <- [c \in Calls |-> StatusOf(c)]

\* Whatever the interleaving of its goroutines, the client keeps the promise of
\* RpcPromise: a request is accepted only on a live link, stays on the table
\* until its context is done or the link goes down for good, and gets its own
\* answer at most once (psynetrpc.go:65-92, 194-312).
KeepsPromise == Promise!Spec

(***************************************************************************)
(* The inductive invariant.                                                *)
(***************************************************************************)
\* The holder of p.mu is the one goroutine inside a critical section that
\* writes to the socket, and the connection is up while it is there.
Holding == {"write", "pingWrite", "closeWrite"}
LockInv ==
    /\ \A p \in Procs : pc[p] \in Holding <=> mu = p
    /\ mu # "free" => connected

\* Ids are drawn once; an entry is filed under the id of its own call.
IdInv ==
    /\ \A c \in Calls : /\ reqID[c] < nextID
                        /\ pc[c] \in {"new", "getID"} => reqID[c] = NoID
                        /\ pc[c] \in {"send", "write"} => reqID[c] # NoID
    /\ \A c, d \in Calls : reqID[c] = reqID[d] /\ reqID[c] # NoID => c = d
    /\ \A e \in pendingReqs : e.id = reqID[e.call] /\ e.id # NoID

\* A response channel is open while it is registered; the goroutine that took it
\* out of the map is the one that will close it.
ChanInv ==
    /\ Registered \cap chClosed = {}
    /\ \A c \in Calls :
          /\ pc[c] \in {"new", "getID", "send"} => c \notin Registered \cup chClosed
          /\ pc[c] \in {"new", "getID", "send", "write"} => reaper[c] = "none"
          /\ reaper[c] = "close" => reapCh[c] = c /\ c \notin Registered \cup chClosed

\* Every request and every response in transit carries the id of the call it was
\* written for; what the reader found under that id is that call's channel.
Genuine(m) ==
    m.kind \in {"req", "resp"} =>
        m.body \in Calls /\ m.id = reqID[m.body] /\ m.id # NoID
MsgInv ==
    /\ \A i \in 1 .. Len(outbox) : Genuine(outbox[i]) /\ outbox[i].kind \in {"req", "ping"}
    /\ \A i \in 1 .. Len(inbox)  : Genuine(inbox[i])
    /\ \A m \in owed : Genuine(m) /\ m.kind = "req"
    /\ Genuine(rmsg)
    /\ pc["reader"] \in {"lookup", "deliver"} => rmsg.kind = "resp"
    /\ pc["reader"] = "deliver" => rch = rmsg.body
    /\ \A c \in Calls : buf[c] \in {c, NoCall} /\ got[c] \in {c, NoCall}

\* Disconnected is announced once: by the one goroutine that took the
\* connection down, and not before.
DiscInv ==
    /\ connected => disc = "none" /\ \A p \in Closers : pc[p] # "closeEvent"
    /\ \A p, q \in Closers : pc[p] = "closeEvent" /\ pc[q] = "closeEvent" => p = q
    /\ \A p \in Closers : pc[p] = "closeEvent" => disc = "none"
    /\ disc # "twice"

\* The inductive invariant of the connection (psynetrpc.go:65-92, 150-312).
IInv == /\ TypeOK /\ LockInv /\ IdInv /\ ChanInv /\ MsgInv /\ DiscInv
        /\ ClosedMeansDrained /\ TimerStopped /\ panic # "closeOfClosed"
=============================================================================
