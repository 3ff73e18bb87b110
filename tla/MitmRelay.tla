------------------------------ MODULE MitmRelay ------------------------------
(***************************************************************************)
(* The WebSocket relay of tools/mitm/main.go, one session: the handler     *)
(* accepts the game client, dials the server, and then copies what the     *)
(* client sends; a goroutine copies what the server sends.                 *)
(* A side stands for the peer, the connection to it and the copier that    *)
(* reads from it: the handler reads from "client", the goroutine from      *)
(* "server".                                                               *)
(***************************************************************************)
EXTENDS Integers, Sequences

CONSTANTS
    Cap,      \* messages that fit in the buffers of one direction of a connection
    MaxSent   \* bound on the messages of one peer

ASSUME BoundsAssumption == Cap \in Nat \ {0} /\ MaxSent \in Nat

Sides    == {"client", "server"}
Other(s) == IF s = "client" THEN "server" ELSE "client"

VARIABLES
    peer,   \* is the peer "there" or "gone"
    conn,   \* the relay's end: "none", "open", "closed"
    sent,   \* how many messages the peer has sent: they are 1, 2, ..
    inbuf,  \* messages from the peer that the relay has not read
    held,   \* the message a copier has read and not written, or none
    outbuf, \* messages to the peer that it has not received
    got,    \* the messages the peer has received
    pc,     \* where the two copiers stand
    done    \* is the channel done closed

peerVars == <<peer, sent, got>>
bufVars  == <<inbuf, held, outbuf>>
vars     == <<peer, conn, sent, inbuf, held, outbuf, got, pc, done>>

All(v) == [s \in Sides |-> v]

Init ==
    /\ peer = All("there") /\ conn = All("none") /\ sent = All(0)
    /\ inbuf = All(<< >>) /\ outbuf = All(<< >>) /\ held = All(<< >>) /\ got = All(<< >>)
    /\ pc = [s \in Sides |-> IF s = "client" THEN "upgrade" ELSE "unborn"]
    /\ done = FALSE

At(s, label) == pc[s] = label

\* The handler accepts the client, then dials the server and starts the goroutine;
\* an error returns, through the deferred Close of what is open.
Upgrade ==
    /\ At("client", "upgrade")
    /\ \/ peer["client"] = "there" /\ conn' = [conn EXCEPT !["client"] = "open"]
          /\ pc' = [pc EXCEPT !["client"] = "dial"]
       \/ pc' = [pc EXCEPT !["client"] = "end"] /\ UNCHANGED conn
    /\ UNCHANGED <<peerVars, bufVars, done>>

Dial ==
    /\ At("client", "dial")
    /\ \/ peer["server"] = "there" /\ conn' = [conn EXCEPT !["server"] = "open"]
          /\ pc' = All("read")
       \/ pc' = [pc EXCEPT !["client"] = "closeClient"] /\ UNCHANGED conn
    /\ UNCHANGED <<peerVars, bufVars, done>>

(***************************************************************************)
(* A copier: ReadMessage, WriteMessage, and so on until one fails.         *)
(***************************************************************************)
Read(s) ==
    /\ At(s, "read") /\ conn[s] = "open" /\ inbuf[s] # << >>
    /\ held' = [held EXCEPT ![s] = <<Head(inbuf[s])>>]
    /\ inbuf' = [inbuf EXCEPT ![s] = Tail(@)]
    /\ pc' = [pc EXCEPT ![s] = "write"]
    /\ UNCHANGED <<peerVars, conn, outbuf, done>>

\* (Mutated: a write that never blocks; the message stays, to be written again.)
RoomAlways(s) == TRUE
Room(s)       == Len(outbuf[s]) < Cap
KeepsMessage(s) == UNCHANGED <<held, pc>>
NextMessage(s) == held' = [held EXCEPT ![s] = << >>] /\ pc' = [pc EXCEPT ![s] = "read"]

\* A write to a peer that is gone may still return nil: the message is lost.
Write(s) ==
    LET t == Other(s) IN
    /\ At(s, "write") /\ conn[t] = "open"
    /\ \/ peer[t] = "there" /\ Room(t) /\ outbuf' = [outbuf EXCEPT ![t] = @ \o held[s]]
       \/ peer[t] = "gone" /\ UNCHANGED outbuf
    /\ NextMessage(s)
    /\ UNCHANGED <<peerVars, conn, inbuf, done>>

\* What the peer sent before it left may be read first, or be lost with it.
ReadFails(s)  == At(s, "read") /\ (peer[s] = "gone" \/ conn[s] = "closed")
WriteFails(s) == At(s, "write") /\ (peer[Other(s)] = "gone" \/ conn[Other(s)] = "closed")

\* The goroutine closes done when it ends, the handler waits for that.
\* (Mutated: only when the server is gone; the handler does not wait.)
ClosesDoneOnRead(s) == s = "server" /\ ReadFails(s)
ClosesDone(s)       == s = "server"
JoinedAlready == TRUE
Joined        == done

Fail(s) ==
    /\ ReadFails(s) \/ WriteFails(s)
    /\ pc' = [pc EXCEPT ![s] = IF s = "client" THEN "wait" ELSE "end"]
    /\ done' = (done \/ ClosesDone(s))
    /\ UNCHANGED <<peerVars, conn, bufVars>>

Await ==
    /\ At("client", "wait") /\ Joined
    /\ pc' = [pc EXCEPT !["client"] = "closeServer"]
    /\ UNCHANGED <<peerVars, conn, bufVars, done>>

CloseConn(s, from, to) ==                      \* a deferred Close of the handler
    /\ At("client", from)
    /\ conn' = [conn EXCEPT ![s] = "closed"]
    /\ pc' = [pc EXCEPT !["client"] = to]
    /\ UNCHANGED <<peerVars, bufVars, done>>

Closes == \/ CloseConn("server", "closeServer", "closeClient")
          \/ CloseConn("client", "closeClient", "end")

(***************************************************************************)
(* The peers.                                                              *)
(***************************************************************************)
Send(s) ==
    /\ peer[s] = "there" /\ conn[s] = "open"
    /\ Len(inbuf[s]) < Cap /\ sent[s] < MaxSent
    /\ sent' = [sent EXCEPT ![s] = @ + 1]
    /\ inbuf' = [inbuf EXCEPT ![s] = Append(@, sent'[s])]
    /\ UNCHANGED <<peer, conn, held, outbuf, got, pc, done>>

Receive(s) ==
    /\ peer[s] = "there" /\ outbuf[s] # << >>
    /\ got' = [got EXCEPT ![s] = Append(@, Head(outbuf[s]))]
    /\ outbuf' = [outbuf EXCEPT ![s] = Tail(@)]
    /\ UNCHANGED <<peer, conn, sent, inbuf, held, pc, done>>

Leave(s) ==
    /\ peer[s] = "there"
    /\ peer' = [peer EXCEPT ![s] = "gone"]
    /\ UNCHANGED <<conn, sent, got, bufVars, pc, done>>

Ended == At("client", "end") /\ pc["server"] \in {"unborn", "end"}
Rest  == UNCHANGED vars /\ Ended

Copy(s)  == Read(s) \/ Write(s) \/ Fail(s)
Handler  == Upgrade \/ Dial \/ Copy("client") \/ Await \/ Closes
Upstream == Copy("server")
Peers    == \E s \in Sides : Send(s) \/ Receive(s) \/ Leave(s)

Next == Handler \/ Upstream \/ Peers \/ Rest

\* The two goroutines run; the peers do as they like.
Spec == Init /\ [][Next]_vars /\ WF_vars(Handler) /\ WF_vars(Upstream)

(***************************************************************************)
(* Properties.                                                             *)
(***************************************************************************)
Labels == {"upgrade", "dial", "unborn", "read", "write", "wait",
           "closeServer", "closeClient", "end"}

\* Every variable keeps to its domain, every buffer to its capacity, and a copier
\* holds one message at most (tools/mitm/main.go:172-203).
TypeOK ==
    /\ peer \in [Sides -> {"there", "gone"}]
    /\ conn \in [Sides -> {"none", "open", "closed"}]
    /\ sent \in [Sides -> 0 .. MaxSent] /\ done \in BOOLEAN
    /\ {inbuf, held, outbuf, got} \subseteq [Sides -> Seq(1 .. MaxSent)]
    /\ \A s \in Sides : Len(inbuf[s]) <= Cap /\ Len(outbuf[s]) <= Cap /\ Len(held[s]) <= 1
    /\ pc \in [Sides -> Labels] /\ pc["server"] \in {"unborn", "read", "write", "end"}
    /\ pc["client"] # "unborn"

\* While both peers are there, what one has sent is what the other has received
\* and what is on its way, in order: nothing is lost, doubled or overtaken
\* (tools/mitm/main.go:172-203).
Faithful ==
    \A s \in Sides : peer["client"] = "there" /\ peer["server"] = "there" =>
        got[Other(s)] \o outbuf[Other(s)] \o held[s] \o inbuf[s]
            = [i \in 1 .. sent[s] |-> i]

\* The handler closes a connection only when the goroutine no longer uses it
\* (tools/mitm/main.go:150, 168, 205).
NoCloseInUse ==
    \A s \in Sides : conn[s] = "closed" => pc["server"] \in {"unborn", "end"}

\* Once both peers are gone the handler returns and leaves no connection open
\* (tools/mitm/main.go:144-206).
SessionEnds ==
    (\A s \in Sides : peer[s] = "gone")
        ~> (Ended /\ \A s \in Sides : conn[s] # "open")
==============================================================================
