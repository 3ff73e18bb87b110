# Verification of rlapi

TLA+ models, model-checking runs and machine-checked proofs for
[rlapi](../src/README.md), a Go client for Rocket League's backend: sign-in with
Epic (EGS/EOS), session establishment over HTTP, and RPC over one WebSocket.

## 1. The system

| Part | Code | State | Operations |
|---|---|---|---|
| WebSocket client | `psynetrpc.go` | `mu`, `connected`, `pendingReqs`, `pingTimer`, `pongChan`, `eventCh`, one response channel per request | `sendRequestSync/Async`, `awaitResponse`, the cleanup goroutine of each request, `readMessages`, `schedulePing`, `sendPing`, `Close`, `sendEvent` |
| Request ids | `requestid.go` | an atomic counter shared by the HTTP client and all connections of one `PsyNet` | `getID` |
| HTTP client | `psynet.go` | version strings, build id, written by `SetVersion` without a lock | `postJSON`, `establishSocket`, `SetVersion` |
| Session | `auth.go` | none of its own | `AuthPlayer`, `AuthPlayerSteam`: authenticate over HTTP, dial, start the reader, arm the ping |
| Epic sign-in | `egs.go` | an HTTP client with a timeout; codes and tokens live with the server and the caller | token requests, `AuthenticateWithDevice`, `WaitForDeviceAuthorization`, `PollDeviceAuthorization`, `RevokeEOSToken` |
| Build id, player ids | `buildid.go`, `playerid.go` | none | `decodeBuildID`, `crc32`; `NewPlayerID`, `ParsePlayerID` |
| API wrappers | `clubs.go`, `party.go`, `shops.go`, ... (17 files) | none | each fills a request, calls `sendRequestSync`, converts the result |
| Examples | `examples` | the file `.rlshops` with a refresh token; the hash of the last item shop | five programs that sign in, of which `allrequests` calls the wrappers and `itemshop` polls |
| MITM proxy and relay | `tools/mitm/main.go` | two sockets per session, a `done` channel | a reverse proxy that rewrites answers, two copying goroutines |
| Version tool | `tools/version/main.go` | the names it has found | two scans of a game binary |
| Frida scripts | `tools/frida` | other programs | - |

How they interact: a program signs in with `EGS`, hands the token to
`PsyNet.AuthPlayer`, which posts it, dials the WebSocket and starts two activities
that live as long as the connection: the reader goroutine and the ping timer. From
then on any number of goroutines call wrappers, each of which registers a response
channel in `pendingReqs`, writes a message and waits for the reader to route the
answer. A goroutine per request removes and closes the channel when the context of
the request is done; `Close` does so for all of them.

What is hard in it: several goroutines and one mutex which is held across writes
that can block, channels that are closed by one goroutine and sent on or received from by
another, answers that come late, twice, out of order or not at all, a keepalive whose
pongs name no ping, a connection torn down by three parties,
a polling loop with a lifetime, an interval and errors it swallows, a token file that
processes read, replace and die over, a version that changes while it is read, answers
of `null` that pass for data, and programs that fail halfway through what they would
undo at the end. The list with the lines is under `hazards` in `PROJECT.json`.

## 2. Modules

| Module | Models | Role |
|---|---|---|
| `PsyNetRPC` | `psynetrpc.go`, `requestid.go`, the end of `auth.go` | detailed specification |
| `PsyNetRPC_props` | - | properties, refinement mapping, inductive invariant |
| `RpcPromise` | what a connection promises its callers | abstract specification |
| `PsyNetRPC_proofs` | - | theorems: the invariant `IInv` and what follows from it |
| `PsyNetRPC_endings` | - | theorems: how calls end, events, the refinement of `RpcPromise`, the keepalive |
| `MCPsyNetRPC` | - | model checking of the above |
| `DeviceAuth` | device authorization in `egs.go` | specification and properties |
| `DeviceAuth_proofs` | - | theorems |
| `SignIn` | `examples/setup` and the sign-in of the other examples, the token requests of `egs.go`, `auth.go`, `psynet.go` | specification and properties |
| `SignIn_proofs` | - | theorems |
| `Services` | the wrappers, 17 files | who is asked, and what becomes of each kind of answer |
| `AllRequests` | `examples/allrequests`, on `Services` | specification and properties |
| `ItemShop` | `examples/itemshop` | specification and properties |
| `MCPrograms` | - | composition of the programs above, one at a time, and model checking |
| `Programs_proofs` | - | theorems about `ItemShop`, `AllRequests` and the composition |
| `Crc32` | `buildid.go` | bit-level algorithm, properties |
| `Crc32_proofs` | - | theorems |
| `Codec` | `parseMessage`, `buildMessage`, `playerid.go` | functions on text, `RoundTrip` |
| `VersionTool` | `tools/version/main.go` | specification and properties |
| `MCFormats` | - | composition and model checking of the three above, `KnownBuildIDs` |
| `Formats_proofs` | - | theorems about `Codec` and `VersionTool` |
| `MitmRelay` | the `/ws` handler of `tools/mitm/main.go` | specification and properties |
| `MitmProxy` | the reverse proxy of `tools/mitm/main.go` | specification and properties |
| `MCMitm` | the program of both | composition and model checking |
| `Mitm_proofs` | - | theorems about the relay, the proxy and their composition |

### PsyNetRPC

Each goroutine has a program counter: one per call (`pc[c]`) and one for the cleanup
goroutine the call starts (`reaper[c]`), one each for the reader, the ping timer
("pinger") and the user who may call `Close`. Most critical sections of `p.mu`
contain no operation that can block: each is one action that
needs `mu = "free"`. The three that write to the socket with the lock held
(`SendLock .. SendOK/SendFail`, `PingLock .. PingWriteOK/PingWriteFail`,
`CloseLock .. CloseFinish`) are split, and `mu` names the holder in between, because a
write blocks while the socket's buffers are full and has no deadline.

`pendingReqs` is a set of entries `[id, call]`, where the call stands for its response
channel; the channel itself is `buf[c]` (its one buffered message) and membership in
`chClosed`. Sends on a closed channel, closes of a closed channel and the
dereference of the nil a closed channel yields set `panic`: a Go panic that nobody
recovers ends the process, so every action needs `panic = "none"`. (The deferred
`Close` that runs while a panic of the reader unwinds is left out: the process
dies either way.) A message is a record of its kind, its request id and the call it was
written for, which stands for the payload. A message that does not parse, or that has no
`PsyResponseID`, is a `push`. `wsConn` is never nil after `newPsyNetRPC`.

The surroundings are part of the model and free to misbehave: the server answers in any
order, late, not at all, unreadably, or (`Duplicates`) more than once, and stops reading
after `SrvCap` requests; the wire may fall silent or be reset (`Faults`), with messages
in flight lost; pongs may come late and, up to `MaxSurplus`, twice or unasked, since `readMessages`
takes any (`SrvPong`; `surplus` counts them against the pings read); contexts end at any time from the write on (before it nothing looks at
them); other users of the id counter take ids; the consumer of `Events()` reads when it
likes. What is in flight to the server is forgotten once the connection is reset or
closed: nobody can observe it.

### RpcPromise

The abstract specification knows no goroutines, locks, ids or messages: requests are accepted on a
live link, stay on a table until their context is done or the link goes down for good, and get
their own answer at most once. `PsyNetRPC_props` maps the detailed state to it; the
entry of a request counts from the moment its write has returned, since the lock hides it before.

### DeviceAuth

The client (`pc`, `left`, the start of the current request or sleep), the token endpoint (`grant`) and
a clock. Time passes while the code is shown, a poll is under way or the loop sleeps, each
at most for a named bound; the loop's own steps take no time. A poll may break (no
answer within the timeout, an unreadable answer) and the endpoint may still serve it later. An answer of status 200
that holds no token (`{}`, `null`) is returned like one, without an error (`result = "blank"`): the code looks at the
status and whether the answer decodes, not at what it holds, here as in `requestToken`.
The lifetime ends where the server says so; the server issues the token once.

An interval of 0, which is what a response without one decodes to, ends the wait in a panic (`result = "panic"`):
the quotient is evaluated before the first poll.

### SignIn

A caller runs one of the five ways to sign in. Processes started in one directory share
the file `.rlshops`; goroutines of one process ("library") share a `PsyNet` and its
version fields. `Casts` says which combinations are looked at. Refresh tokens are numbered as
Epic issues them; Epic may take an old one back when it issues its successor, and its answers may be lost, blank
(`requestToken` checks the status, not the contents) or an error. `os.WriteFile` is two steps,
since it truncates before it writes, and each may fail, which is only logged. A process may be killed and started
again anywhere (`Restart`). `SetVersion` writes field by field, and a sign-in reads the fields in
three places: a string read while it is written may be torn.

`excused` records the accidents after which the file need not hold a live token, so that
`SavedTokenLives` says there are no others: nothing was saved yet; the answer to a refresh
was lost; a save failed, was cut short by the end of the process or mixed with the save of another process;
a blank answer was saved over a good token.

### Services, AllRequests, ItemShop

The 79 wrappers have no state: a row of `Services` says which service a wrapper asks and
what it does with the result (decoded into a struct, passed on, or dropped); an underscore stands for the space before
the version of a service. `Returned` follows an answer
through `awaitResponse`: `null` decodes without an error and leaves zero values, a wrong type is an error only
where a struct waits for it, and a `Success` of false is not looked at.

`AllRequests` runs the groups of the program over these rows. A step of a group ends it when it fails
(`Must`), is only logged (`Try`), or indexes a list an earlier answer gave, which panics when the list is
empty. `holds` is what PsyNet keeps for the player. The one context of 30 s may be done at any call, after
which each further request is still written, and may be served, before `ctx.Done()` is noticed or the closed
channel is read first (the nil panic of `PsyNetRPC`). The connection may be lost once; nothing reconnects.
`LeftoverExplained` leaves two things out that the program never undoes: its search for a private match, and a
club it joins by invitation. `ExecutesAll` shows that two wrappers are not called,
`RecordMetrics` and `RelayToServer`, though allrequests/main.go:14 says "Executes all available RPC requests".

`ItemShop` is a poll in two requests against a shop that may change in between, with a ticker whose channel holds one tick.
A poll may fail, which is logged, or end the program in the nil panic of `PsyNetRPC` when its 15 s are over. A hash is what it
was computed from, so equal contents have equal hashes and different ones differ.

### Crc32

A 32-bit word is the set of the positions of its ones, so xor is symmetric difference and a left shift
cuts off what leaves the word. The two loops of `crc32` are the actions `NextByte` and `NextBit`. A
variable the code does not have, `quot`, records when the polynomial was subtracted: with it `RemainderInv` can say what
the register is (the remainder of a division over GF(2)) without computing the
remainder a second time. `BuildBytes` is the UTF-16 loop of `decodeBuildID`.

### Codec

Text is a sequence of tokens (line end, separator, space, name, word), which `Token` lists. `buildMessages` gives every message that
may be built, one for each order of the map walk; `parseMessage` is total and returns `Unparsed` for an error.
`TextAssumption` says what the code puts into a message: names of headers are single words, values keep to one line and neither begin
nor end with a space. Bodies, and ids of players, are any text at all. The variable `text` is what was built and from what, for
`RoundTrip` to compare; it never changes.

### VersionTool

The two scans over cells instead of bytes: `Half` stands for 2^32, `Wide` for 2^64 and `Needle` for the UTF-16 bytes of
"PrimeUpdate". Bytes beyond 32 bits in a 32-bit image, overlapping and odd matches, leading zeros, suffixes
and numbers that overflow are all met at this size; names outside ASCII are not. The number in a name is summed up modulo
`Wide`, as in a `uint64`: with a number too large for it another name may win, and `NewestFound` promises nothing.
A 32-bit image that has its pointer in the last four bytes of the file is rejected, since eight bytes are
read: `BuildIDFound` excludes it by its precondition. Suffixes are compared as strings, so "_9" is newer than "_10":
`NewestFound` says so.

### MitmRelay

A side stands for a peer, the relay's connection to it, and the copier that reads from it; both copiers
are the same actions, and differ in what they do when they fail: the goroutine closes `done`, the handler waits for
it and runs the deferred closes. Peers send, receive and leave as they like; what they sent
before leaving may be read or lost. The model also shows what the code does not promise: while one peer has left and the
other is silent, the session stays.

### MitmProxy and MCMitm

One exchange: the request passed on, the answer with its body rewritten and signed again. What is in the request is
left out: `Director` ignores the error of `ReadAll`, so part of a body may go on, but PsyNet may give any answer to any request. A signature
is the pair of what it was computed from. The loop over the headers leaves the last of several values of a header,
while the signature uses the first value of `PsyTime`: `SignedAsDelivered` excuses an answer with several values of it.
A body that could be read only in part is signed as if it were whole (the error of `ReadAll` is ignored); a compressed
body is not rewritten. In `MCMitm` the session of the relay begins when the game
opens the address that the rewritten answer gave it.

### Mutants

A definition marked *Mutated* stands before the one it could replace: a plausible bug. `mutants` in
`PROJECT.json` pairs each property of each passing run with one that breaks it, so that no
property holds by the shape of the model alone.

## 3. Runs

`tlc -config <cfg> <module>`; each finishes within three minutes on two cores.

| Run | Instance | Shows |
|---|---|---|
| `safety` | 2 calls, wire may be reset, no ping due, one push | `TypeOK`, `ClosedMeansDrained`, `NoDoubleClose`, `ResponseMatch`, `NoLostWaiter`, `EventsUnclaimed`, `PanicCause`, `EntryKept`; the client implements `RpcPromise` (`KeepsPromise`); `IInv`, the invariant of the proofs |
| `liveness` | 1 synchronous call, a foreign id, ping loop, both faults | `CallCompletes`, `EntryReclaimed` |
| `teardown` | 1 unawaited call, ping loop, both faults, duplicate answers, a surplus pong | `TimerStopped`, `PongFresh`, `OneDisconnect`, `DeadPeerDetected`, `GoroutinesStop`, `KeepsPromise` |
| `nilresponse` | 1 call, sound wire | **violated**: `NoNilResponse` |
| `sendonclosed` | 1 unawaited call, sound wire | **violated**: `NoSendOnClosed` |
| `lostdisconnect` | 1 push, event channel of 1 | **violated**: `DisconnectDelivered` |
| `backpressure` | 1 call, room for one message, sound wire | **violated**: `CallCompletes` |
| `devicewait` | intervals 0-3, lifetimes around their multiples | `TypeOK`, `OutcomeHonest`, `GivesUpLate`, `PollSpacing`, `WaitEnds` |
| `lastround` | interval 2, lifetime 5 | **violated**: `CompletionReturned` |
| `formats` | inputs of up to two of six bytes, the version strings of the tests; messages of up to four headers and three tokens; binaries of four cells or five pieces | `RemainderInv`, `KnownBuildIDs`, `RoundTrip`, `BuildIDFound`, `NewestFound` |
| `relay` | one exchange, up to two values of a header; then up to three messages each way, buffers of two | `TypeOK`, `Faithful`, `NoCloseInUse`, `SignedAsDelivered`, `SessionEnds` |
| `programs` | 2 callers in four casts, one restart, 3 tokens, 2 calls of `SetVersion`; all of `allrequests`; an item shop with 2 changes and 2 nulls | `ProgramsTypeOK`, `SavedTokenLives`, `OneVersion`, `OnlyPeersDelay`, `LeftoverExplained`, `ExecutesAll`, `AlarmsExplained` |

Why the bounds are enough. Two calls with one response channel each are what one
entry, one late answer and one other request need to be confused; a third call adds no new
pair. `safety` leaves the ping out (`Pings = FALSE`: the calls are made before the first ping is due), which
meets the calls only in `mu`, the wire and `Close`, as `teardown` and `liveness` have it with one call; it also leaves
other users of the id counter out, which `liveness` has. `IInv` is proved for any of these. Capacities of 1 make every "full" case happen at once: a full event
channel, a full response channel, a write that blocks behind another. `SrvCap` = 3
lets the server hold everything the client can have sent, so answers are reordered at will.
`MaxForeign` and `MaxPush` bound events that no property counts. `MaxSurplus` = 1 is one pong
too many or unasked, which a later ping takes for its answer; it is 0 in the other runs, which have no property of it.
`OutCap` = 3 in `liveness` holds everything one call, one ping and the close frame can have in
transit, and 4 in `teardown` a second ping next to a first that was answered before it was
read, so that writes do not block for ever: what happens when they do is what
`backpressure` shows. In `DeviceAuth`, times are relative: lifetimes below, at, between
and above multiples of the interval, and polls that take as long as an interval, cover the cases of
the quotient. The bytes of `MCFormats` have no, all, only the lowest, only the highest and alternating ones. In
`MCMitm` three messages through buffers of two are what reordering, doubling and a full
buffer need. In `MCPrograms` two callers are what a file or a `PsyNet` needs to be shared, one restart what a
crash between two steps needs, and three tokens let each save replace a token that was itself a replacement;
`TokenKept` is proved for any numbers. One program runs at a time: they share nothing but what
`SignIn` has.

Deadlock is checked except in `backpressure`, where getting stuck is the finding.
`Terminated`, `Done` and `Rest` are the states the system may rest in.

### Fairness

`Spec` of `PsyNetRPC` gives each goroutine strong fairness: Go's scheduler runs every
goroutine, and `sync.Mutex` hands the lock to a waiter that has starved for a millisecond,
so a goroutine that finds the lock free again and again gets it. The timers (`PingFire`,
`PongTimeout`) fire. `WF` on `CtxDone` says that every context ends, as the contexts with
deadlines that the tests and examples use do; with `context.Background()` a lost answer is awaited for
ever by design, and the entry never reclaimed. Nothing is assumed of the server, the wire, the consumer
of events, or the user's wish to call and to close. In `DeviceAuth` the clock and the loop go on;
the user and the endpoint need not. In `MitmRelay` and `MCMitm` the two goroutines run, the peers do as they like.
In `SignIn` each caller goes on with its own steps, and `EpicFails` is fair because the HTTP client of `EGS` has a
timeout of 30 s (egs.go:75). The client of `PsyNet` and the WebSocket dialer have none: nothing is assumed of them, and
`OnlyPeersDelay` says that they and the user are all a sign-in can wait for.

### Findings

Five runs end in a counterexample to something the repository says; `findings` in
`PROJECT.json` quotes it. In short: a cancelled or closed call can panic on a nil response
(psynetrpc.go:290), the reader can panic on a closed channel (229), the Disconnected event can be
dropped (85, 325), a blocked write holds the lock so that neither contexts nor the pong timeout nor
`Close` work (264), and an authorization completed after the last poll is reported as a timeout
(egs.go:323).
`PanicCause` shows that the two panics of the client have no other cause than the end of a
request by its context or by `Close`.

## 4. Proofs

`PsyNetRPC_proofs` proves, for any set of calls, any capacities, faults and bounds
(assumptions `CallsAssumption`, `BoundsAssumption`: the names differ, capacities
are positive, bounds are numbers):

- `TypeCorrect`: `SafeSpec => []TypeOK`, inductive by itself;
- `Invariance`: `SafeSpec => []IInv`;
- from `IInv`: `Drained`, `ClosedOnce`, `OpenWhileRegistered`, `OwnResponse`,
  `NoTimerLeft`, `AnnouncedOnce`.

None of these properties is inductive alone. `IInv` adds what they rest on:
`LockInv` (the holder of `mu` is the one goroutine inside a critical section that writes, and the connection
is up while it is there: this is why nobody registers a request between the teardown's check and its
end), `IdInv` (ids are drawn once, an entry is filed under the id of its own call), `ChanInv`
(a channel is closed by whoever took it out of the map: this gives `NoDoubleClose`
and `RegisteredIsOpen`), `MsgInv` (every message in transit carries the id of the call it was
written for, so what the reader finds under that id is that call's channel: this gives
`ResponseMatch`), and `DiscInv` (only the goroutine that took the connection down is about to announce
it). Each part has a lemma that every step preserves it, with one step per action that can disturb it
and one leaf for the actions that leave its variables alone.

`PsyNetRPC_endings` goes on from there. `EndInv` says what a call's end looks like from each place: a call being written is
registered, a waiting one is registered or its context is done or its channel closed, and a channel that was
closed was closed for a context or by the teardown. `NoLostWaiter` (theorem `WaiterCanWake`) and `PanicCause`
(`PanicExplained`) are read off it, and `EntryKept` (`NobodyEvicted`) is what its step shows. `PromiseKept` is the refinement, `SafeSpec =>
KeepsPromise`: `MapInit` for the initial states; in `MapStep` each action of `PsyNetRPC` either leaves the mapped state
alone (`Stands`) or turns the status of one call, ends a context or takes the link down, and `Moves` lists which action of `RpcPromise`
each of these is. `OwnEntry` is where `IdInv` is needed: taking an id out of the map takes out its own call and
no other. `EventsUnclaimed` (`OnlyUnclaimed`) needs `SeenInv`: a message that carries an id belongs to a call that is past its write, so
an id that was looked up in vain is never registered again.

`PongsAreFresh` in the same module is `PongFresh`: when a ping is due, the tokens, pongs and unread pings about
(`InFlight`) are at most the pongs the server has sent beyond the pings it read (`surplus`). A server that answers each
ping once at most leaves nothing, so the pong a ping waits for is its own; each surplus pong lets
one ping go unanswered unnoticed, and no more than one. `PingInv` is the balance this rests on, with one more allowed
while an answer is waited for. A connection that was taken down is exempt: nobody waits for its pongs.

`DeviceAuth_proofs` proves, for any intervals, lifetimes and delays, `TypeOK`, `OutcomeHonest`, `PollSpacing` and `GivesUpLate`. The
strengthening `TokenInv` says where an issued token is: in the answer to the poll under way,
returned, or lost with a poll that broke. An answer without a token issues none and returns none: `OutcomeHonest` says
of it that it passes for no token and hides none that was issued. `SpaceInv` says that the loop is an interval behind its last poll whenever it
may start one, `LateInv` that the rounds already used up took at least an interval each.

`SignIn_proofs` proves `TypeOK`, `SavedTokenLives` and `OneVersion` for any callers, casts, versions and bounds. `SavedTokenLives` is
inductive only together with `HandInv`, which says what a caller holds where: the token that a caller is about to save is live, and
neither the file nor any other caller has it, so nobody can present it and make Epic take it back. The steps of the
programs are grouped by what they touch: most leave file and tokens alone (`MoveOK`), the six that do not have
a lemma each. `VersionInv` says which fields a `SetVersion` under way has
written, and that what an undisturbed sign-in has seen is the one version that all fields still have.

`Programs_proofs` proves, for any number of changes and nulls, `AlarmsExplained` of the item shop. It holds because what was
reported and what the program would still report if nothing more changed (`Due`) together never exceed what the changes and nulls allow.

The same module proves `LeftoverExplained` and `ExecutesAll` of `AllRequests` (`LeftoversHaveCauses`, `AllExecuted`) from `RequestInv`.
Neither property says anything before the end of a run, so neither is inductive; what carries them there is where the program is:

- `HoldInv`: while the player has a club, a queue entry, a party or a registration, the next step lies between the call that gives it and the
  one that takes it away, or else a failure is blamed for it; and in that part of `allParty` the party id is known, without which
  `LeaveParty` would take nothing away. At the end the program is past all of these places.
- `CalledInv`: as long as no call has failed, every step before the next one has been called.

The rest is reading the two tables against each other. `PlacesOf` says that each call that gives the player something to undo is at one
place in the program, `Gives` and `Takes` which calls make PsyNet give and take, by the names of the services in `Services`, and `AllCalled`
that the calls of the 14 groups are the methods of the 17 files but two: 13 groups call each the methods of one file, `allMisc` those of four. `StepShape` sums up
the actions (a step panics, skips the catalogue, or is a call that returns, served or not), so that the steps of the invariant are
proved once for all of them.

`ProgramsTyped` (`ProgramsTypeOK`) and `ProgramsSafe` carry all of this, and the invariants of `SignIn_proofs`, over to `ProgramSpec`, the specification that the
run checks: a step of one program is a stuttering step of the others (`ProgramStepOK`). The one assumption is that `setup` is among the casts (`SetupAssumption`).

`Mitm_proofs` proves `TypeOK`, `NoCloseInUse` and `Faithful` for any number of messages and any buffers. `NoCloseInUse` rests on
`PhaseInv`: the goroutine is unborn until the dial has succeeded and ended once `done` is closed. `Faithful` rests on
`HeldInv` (a copier holds a message only between reading and writing it) and on four lemmas on sequences, one for each
way in which a message moves along the line. `AnswersAreSigned` is `SignedAsDelivered` for the program of `MCMitm`. It is not
inductive alone: `SignedInv` adds that an answer without several values of `PsyTime` still has at most one when it is rewritten, and
`ResetKeepsOne` that setting such a header anew does not change what `Get` reads. `SessionIsRelay` shows that the composition
adds no behaviour to the relay: the session after the exchange is one of `MitmRelay`, so the three theorems above hold of it.

`Crc32_proofs` proves `RemainderInv` (`RegisterIsRemainder`) for inputs of any bytes and any length. It is inductive together with
`RegisterOK` (its shape, and that `quot` is finite). The proof needs the little algebra of polynomials over GF(2) that the step of a
division uses: xor and shift commute (`RaiseXor`, `RaiseRaise`); shifting the quotient and adding its lowest term adds the divisor once
(`TimesShift`, a parity argument on finite sets); another byte of the message is a shift by eight and a xor (`MessageGrows`).
`ChecksumIsDetermined` adds that no other word would do: two remainders differ by a multiple of a polynomial of degree 32
(`OneRemainder`), and the terms of a multiple that is not zero reach over more than 32 places (`MultipleIsLong`), more than a word has. So `RemainderInv` pins the
result of `crc32` down. `NeighboursDiffer` goes back to the version strings: those of the same length that differ in two neighbouring characters at most have different
checksums. Their bytes differ in a burst of 32 bits (`BytesOf`, `TextBurst`), and a burst is no multiple of the divisor (`BurstTold`). It is
stated for characters of up to 16 bits, since `decodeBuildID` drops what is above. (The conversion of a word to `int32` is a sum over its bits, a fold; it is left to `KnownBuildIDs`.)

`Formats_proofs` proves what the two other formats promise, for any constants that the assumptions admit:

- `BuildIDRead`: `BuildIDFound` for every binary. Cutting the difference of pointer and base to 32 bits removes just what lies behind a
  32-bit pointer (`PointerRead`, `ModPlus`), and what is read from there ends at the first zero (`TextRead`, `BeforeIs`).
- `NewestChosen`: `NewestFound`. `ScanInv` says that `updates` has the names at the even matches before `offset` and nothing else
  (`NamesInv`), and that the answer is one that no other is newer than (`ResultInv`). `MajorIs` shows that the loop over the digits
  computes `Decimal` modulo `Wide`, so that without an overflow the order of `less` is the order of numbers.
- `TextsSurvive`: `RoundTrip`. `Split` undoes the joining of lines (`SplitAppend`, `SplitAt`, `SplitWhole`), trimming gives a value back
  as it was (`TrimIs`, `TrimSpaced`), the first empty line is the one that ends the headers whatever the body holds (`MessageRead`), an
  order of the map walk has every key once (`OrderCovers`), and so the id is found wherever its line stands (`ParseRead`).

The functions in it are folds, and what a fold computes needs induction over the length of a text. The induction theorems of
the library take an operator as a parameter and cannot be used; `Least` (a set of numbers has a least element) and `Induct` (a set that has 0 and
every successor is `Nat`) can, since they speak of a set, and the folds are unrolled from their definition with them (`FoldExists`,
`FoldRuns`, `FlattenIs`).

Only model-checked:

- all liveness: `CallCompletes`, `EntryReclaimed`, `DeadPeerDetected`, `GoroutinesStop`, `WaitEnds`, `SessionEnds`, `OnlyPeersDelay`. The
  prover has no fairness.
- `KnownBuildIDs`, which is about three given inputs: a run is the proof.

## 5. Not modelled

- JSON, HMAC and base64: text of a payload is there or not, a signature is what it was computed from.
- The fields of requests and results of the wrappers. Two of them do not fit the request types named after them:
  `GetCreatorCode` sends an empty request, and `SendPartyChatMessage` a `SendPartyMessageRequest`; `REQUESTS.md` does not
  say what the server expects.
- `RevokeEOSToken`, `RefreshEOSToken` and a caller's own `PollDeviceAuthorization`: nothing in the repository calls
  them, and they change no state of the client.
- The answers of gorilla/websocket to control frames; compression, fragmentation, TLS.
- The logger and `SetLogger`; `steam-ticket.js`, which asks the Steam client for a ticket; `RandString`.
- The layout of executables (saferwall/pe): an address leads to a place in the file or outside it.
- JSON numbers above 2^53, which `ModifyResponse` decodes as floating point.
- Frida scripts, CI, generated and package files.

## 6. Plan

Done: the client, its abstract specification and the proof that the one implements the other; device authorization;
sign-in with its token file; the wrappers and the programs that use them; the formats; the version
tool; proxy and relay; proofs of the safety properties of all of them.
What is left:

1. `itemshop` and `allrequests` over `RpcPromise` in place of the summary of it that `AllRequests` has in `Answered`, `Expires` and `Breaks`.
2. A proof that the conversion to `int32` keeps words apart, so that what `NeighboursDiffer` says of checksums it says of build ids.
