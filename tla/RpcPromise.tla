------------------------------ MODULE RpcPromise ------------------------------
(***************************************************************************)
(* What one connection promises the callers of sendRequestSync and         *)
(* sendRequestAsync, without goroutines, locks, ids or messages.           *)
(*   - A request is on the table from the moment it is accepted; it is     *)
(*     accepted only while the link is up, or refused for good.            *)
(*   - It gets its own answer at most once, and only after it was accepted.*)
(*   - It leaves the table when its context is done or the link goes down, *)
(*     which happens once and clears the table.                            *)
(*   - The process may die (a panic): after that nothing happens.          *)
(***************************************************************************)
CONSTANT Calls

VARIABLES
    link,    \* "up" or "down"
    status,  \* of a call: new, refused, open, answered, expired
    table,   \* the calls whose answer would still be accepted
    timedOut,\* the calls whose context is done
    alive    \* the process has not panicked

vars == <<link, status, table, timedOut, alive>>

Init ==
    /\ link = "up" /\ alive = TRUE
    /\ status = [c \in Calls |-> "new"]
    /\ table = {} /\ timedOut = {}

Become(c, from, to) ==
    /\ status[c] = from
    /\ status' = [status EXCEPT ![c] = to]

Accept(c) ==
    /\ link = "up" /\ Become(c, "new", "open")
    /\ table' = table \cup {c}
    /\ UNCHANGED <<link, timedOut, alive>>

Refuse(c) ==
    /\ Become(c, "new", "refused")
    /\ UNCHANGED <<link, table, timedOut, alive>>

Answer(c) ==
    /\ Become(c, "open", "answered")
    /\ UNCHANGED <<link, table, timedOut, alive>>

Expire(c) ==
    /\ c \in timedOut /\ Become(c, "open", "expired")
    /\ UNCHANGED <<link, table, timedOut, alive>>

TimeOut(c) ==
    /\ timedOut' = timedOut \cup {c}
    /\ UNCHANGED <<link, status, table, alive>>

Drop(c) ==
    /\ c \in timedOut \cap table
    /\ table' = table \ {c}
    /\ UNCHANGED <<link, status, timedOut, alive>>

GoDown ==
    /\ link = "up" /\ link' = "down" /\ table' = {}
    /\ UNCHANGED <<status, timedOut, alive>>

Die == alive' = FALSE /\ UNCHANGED <<status, timedOut, link, table>>

Next ==
    /\ alive
    /\ \/ \E c \in Calls : \/ Accept(c) \/ Refuse(c) \/ Answer(c) \/ Expire(c)
                           \/ TimeOut(c) \/ Drop(c)
       \/ GoDown \/ Die

Spec == Init /\ [][Next]_vars
===============================================================================
