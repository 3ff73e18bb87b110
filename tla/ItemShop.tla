------------------------------- MODULE ItemShop -------------------------------
(***************************************************************************)
(* examples/itemshop: a program that polls the item shop on every tick and *)
(* reports when the hash of the catalogue has changed. A poll asks twice:  *)
(* for the ids of the shops, and for the catalogue of these shops; PsyNet  *)
(* may change the shops in between. A hash stands for what it was made of: *)
(* the state of the shops the ids came from, and that of the catalogue.    *)
(***************************************************************************)
EXTENDS Integers

CONSTANTS MaxChanges,   \* bound on the changes of the shops
          MaxNulls,     \* bound on the answers with a null result
          MaxAlarms     \* bound on the changes the program reports

ASSUME ShopBounds == MaxChanges \in Nat /\ MaxNulls \in Nat /\ MaxAlarms \in Nat

VARIABLES
    step,       \* "ids", "catalogue", "wait", "end", "panic"
    ids,        \* the state of the shops that the ids came from, 0 for no ids
    lastHash,   \* <<>> before the first
    tick,       \* the buffer of the ticker's channel
    socket,     \* the connection: "up", "down"
    shops,      \* PsyNet: the state of the shops, 1, 2, ..
    nulls, alarms   \* not in the code: counters

shopVars == <<step, ids, lastHash, tick, socket, shops, nulls, alarms>>

ShopInit ==
    /\ step = "ids" /\ ids = 0 /\ lastHash = << >> /\ tick = FALSE /\ socket = "up"
    /\ shops = 1 /\ nulls = 0 /\ alarms = 0

\* What GetStandardShops and GetShopCatalogue return when there is no error: the state of
\* the shops, or for a null result nothing at all.
Got(s) == \/ s = shops /\ UNCHANGED nulls
          \/ s = 0 /\ nulls < MaxNulls /\ nulls' = nulls + 1

GetIDs ==
    /\ step = "ids" /\ socket = "up"
    /\ \E s \in 0 .. MaxChanges + 1 : Got(s) /\ ids' = s
    /\ step' = "catalogue"
    /\ UNCHANGED <<lastHash, tick, socket, shops, alarms>>

\* The first content is taken as it is, another one is reported.
\* (Mutated: the last hash is set only once.)
CompareFirst(hash) ==
    /\ alarms' = alarms + (IF lastHash \in {<< >>, hash} THEN 0 ELSE 1)
    /\ lastHash' = IF lastHash = << >> THEN hash ELSE lastHash
Compare(hash) ==
    /\ alarms' = alarms + (IF lastHash \in {<< >>, hash} THEN 0 ELSE 1)
    /\ lastHash' = hash

\* A null catalogue and an empty one differ; without ids it is empty, whatever the shops.
Content(s) == CASE s = 0  -> <<0, 0>>
                [] s # 0 /\ ids = 0 -> <<0, 1>>
                [] OTHER -> <<ids, s>>

GetCatalogue ==
    /\ step = "catalogue" /\ socket = "up" /\ alarms < MaxAlarms
    /\ \E s \in 0 .. MaxChanges + 1 :
          Got(s) /\ Compare(Content(s))
    /\ step' = "wait"
    /\ UNCHANGED <<ids, tick, socket, shops>>

PollFails ==           \* an error, or no answer within 15 s: logged, and that is all
    /\ step \in {"ids", "catalogue"}
    /\ step' = "wait"
    /\ UNCHANGED <<ids, lastHash, tick, socket, shops, nulls, alarms>>

PollPanics ==          \* a request whose 15 s end, or that Close drains, may find a nil response
    /\ step \in {"ids", "catalogue"}
    /\ step' = "panic"
    /\ UNCHANGED <<ids, lastHash, tick, socket, shops, nulls, alarms>>

Poll == step = "wait" /\ tick /\ step' = "ids" /\ tick' = FALSE
        /\ UNCHANGED <<ids, lastHash, socket, shops, nulls, alarms>>

Interrupt == step = "wait" /\ step' = "end"
             /\ UNCHANGED <<ids, lastHash, tick, socket, shops, nulls, alarms>>

\* A tick that the program has not taken is kept, further ones are dropped.
Ticks == step \notin {"end", "panic"} /\ ~tick /\ tick' = TRUE
         /\ UNCHANGED <<step, ids, lastHash, socket, shops, nulls, alarms>>

Changes == shops <= MaxChanges /\ shops' = shops + 1
           /\ UNCHANGED <<step, ids, lastHash, tick, socket, nulls, alarms>>

Disconnects == socket = "up" /\ socket' = "down"     \* nothing connects it again
               /\ UNCHANGED <<step, ids, lastHash, tick, shops, nulls, alarms>>

ShopNext == GetIDs \/ GetCatalogue \/ PollFails \/ PollPanics \/ Poll
            \/ Interrupt \/ Ticks \/ Changes \/ Disconnects

ShopSpec == ShopInit /\ [][ShopNext]_shopVars

(***************************************************************************)
(* Properties.                                                             *)
(***************************************************************************)
\* Every variable keeps to its domain.
ShopTypeOK ==
    /\ step \in {"ids", "catalogue", "wait", "end", "panic"} /\ socket \in {"up", "down"}
    /\ ids \in 0 .. MaxChanges + 1 /\ shops \in 1 .. MaxChanges + 1 /\ tick \in BOOLEAN
    /\ lastHash \in {<< >>} \cup ((0 .. MaxChanges + 1) \X (0 .. MaxChanges + 1))
    /\ nulls \in 0 .. MaxNulls /\ alarms \in 0 .. MaxAlarms

\* Every report has a cause: a change of the shops, which may fall between the two requests
\* of a poll and is then reported twice, or a null result, which is taken for an empty
\* shop and reported when it comes and when it goes (itemshop/main.go:50-96).
AlarmsExplained == alarms <= 2 * (shops - 1) + 2 * nulls
===============================================================================
