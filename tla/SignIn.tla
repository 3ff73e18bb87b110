-------------------------------- MODULE SignIn --------------------------------
(***************************************************************************)
(* Signing in: the programs of examples/ that obtain an Epic token in      *)
(* different ways, the token requests of egs.go they make, the refresh     *)
(* token that examples/setup keeps in the file .rlshops from one run to    *)
(* the next, and AuthPlayer of auth.go with postJSON and establishSocket   *)
(* of psynet.go, which reads the version that SetVersion writes.           *)
(*                                                                         *)
(* A caller is a process that runs one of the programs in the directory of *)
(* the file, or ("library") a goroutine that calls AuthPlayer on a PsyNet  *)
(* it shares with the other such callers. Tokens are numbered as Epic      *)
(* issues them; access tokens and codes, which nobody keeps, are left out. *)
(***************************************************************************)
EXTENDS Integers, FiniteSets

CONSTANTS
    Callers,
    Casts,      \* who may run which program
    Versions,   \* what SetVersion may be called with; one is the default
    Default,
    MaxTokens,  \* bound on the tokens Epic issues
    MaxRuns,    \* bound on the runs after the first
    MaxSets     \* bound on the calls of SetVersion

\* Tokens are numbered from 1. What else a file, an answer or a field may hold:
Blank == 0    \* no characters, or only blanks
Torn  == -1   \* pieces of two values
Url   == -2   \* the address of a socket

Programs == {"setup", "auth", "device", "steam", "library"}

ASSUME NamesAssumption ==
    /\ Casts \subseteq [Callers -> Programs]
    /\ Default \in Versions /\ Torn \notin Versions
ASSUME LimitsAssumption == MaxTokens \in Nat /\ MaxRuns \in Nat /\ MaxSets \in Nat

VARIABLES
    program, pc,
    file,    \* .rlshops: a token, or Blank also when there is none
    issued,  \* how many refresh tokens Epic has issued
    live,    \* those it has not taken back
    hand,    \* what the last answer gave a caller: a token, a URL, or Blank
    old,     \* the token a caller has read from the file
    runs,
    excused, \* not in the code: may the file have lost its token (see Excuses)
    ver,     \* the fields of the PsyNet
    setter,  \* the field SetVersion is about to write, and what it writes
    sets, seen, overlap   \* not in the code: the versions a sign-in has read
                          \* and whether a SetVersion was under way meanwhile

epic     == <<issued, live>>
psyNet   == <<ver, setter, sets>>
watch    == <<seen, overlap>>
vars     == <<program, pc, file, epic, hand, old, runs, excused, psyNet, watch>>

Fields == {"game", "feature", "build"}

\* Where a program begins. The Steam example has to be edited first: its id is "".
Begin == [setup |-> {"start"}, auth |-> {"ask"}, device |-> {"device"},
          steam |-> {"ask", "failed"}, library |-> {"auth"}]

NothingYet ==
    /\ file = Blank /\ issued = 0 /\ live = {} /\ runs = 0 /\ excused = TRUE
    /\ hand = [c \in Callers |-> Blank] /\ old = [c \in Callers |-> Blank]
    /\ ver = [f \in Fields |-> Default] /\ setter = [at |-> "idle", to |-> Default]
    /\ sets = 0 /\ seen = [c \in Callers |-> {}] /\ overlap = [c \in Callers |-> FALSE]

Init ==
    /\ program \in Casts
    /\ pc \in [Callers -> UNION {Begin[p] : p \in Programs}]
    /\ \A c \in Callers : pc[c] \in Begin[program[c]]
    /\ NothingYet

At(c, label)   == pc[c] = label
Goto(c, label) == pc' = [pc EXCEPT ![c] = label]

(***************************************************************************)
(* The saved token and the requests to Epic.                               *)
(***************************************************************************)
ReadFile(c) ==
    /\ At(c, "start")
    /\ old' = [old EXCEPT ![c] = file]
    /\ Goto(c, IF file = Blank THEN "ask" ELSE "refresh")
    /\ UNCHANGED <<program, file, epic, hand, runs, excused, psyNet, watch>>

UserAnswers(c) ==       \* a code, or a Steam ticket, which is refused when blank
    /\ At(c, "ask")
    /\ IF program[c] = "steam" THEN \/ Goto(c, "eos")
                                    \/ Goto(c, "failed")
                               ELSE Goto(c, "code")
    /\ UNCHANGED <<program, file, epic, hand, old, runs, excused, psyNet, watch>>

\* Any error of the refresh, of the network too, makes setup ask for a code; any other
\* error is fatal, or is returned by the library.
OnError(c) == Goto(c, IF At(c, "refresh") THEN "ask" ELSE "failed")

\* (Mutated: a refreshed token is taken to be the saved one; every program saves.)
KeepsIfAsked(c) == program[c] = "setup" /\ At(c, "code")
KeepsAlways(c)  == TRUE
Keeps(c)        == program[c] = "setup"

\* Epic honours a code, or a refresh token it has not taken back, with a new token,
\* and may take the old one back.
Honours(c) == At(c, "code") \/ (At(c, "refresh") /\ old[c] \in live)
Issue(c) ==
    /\ Honours(c) /\ issued < MaxTokens
    /\ issued' = issued + 1
    /\ \E lost \in SUBSET {old[c]} :
          live' = (IF At(c, "refresh") THEN live \ lost ELSE live) \cup {issued'}

\* requestToken looks at the status and not at what the body says.
TokenReturned(c) ==
    /\ Issue(c)
    /\ hand' = [hand EXCEPT ![c] = issued']
    /\ Goto(c, IF Keeps(c) THEN "save" ELSE "exchange")
    /\ UNCHANGED <<program, file, old, runs, excused, psyNet, watch>>

TokenBlank(c) ==
    /\ At(c, "refresh") \/ At(c, "code")
    /\ hand' = [hand EXCEPT ![c] = Blank]
    /\ Goto(c, IF Keeps(c) THEN "save" ELSE "exchange")
    /\ UNCHANGED <<program, file, epic, old, runs, excused, psyNet, watch>>

TokenLost(c) ==                       \* a token was issued, its answer is lost
    /\ Issue(c)
    /\ excused' = (excused \/ At(c, "refresh"))
    /\ OnError(c)
    /\ UNCHANGED <<program, file, hand, old, runs, psyNet, watch>>

EpicAnswers(c) ==        \* GetExchangeCode, ExchangeEOSToken, ..FromSteam succeed
    /\ \/ At(c, "exchange") /\ Goto(c, "eos")
       \/ At(c, "eos") /\ Goto(c, "auth")
       \/ At(c, "device") /\ Goto(c, "auth")
    /\ UNCHANGED <<program, file, epic, hand, old, runs, excused, psyNet, watch>>

\* A refusal, an unreadable answer, a broken connection, or no answer for 30 s.
\* (Mutated: no Timeout, so that an answer is awaited.)
EpicFailsNever(c) == FALSE
EpicFails(c) ==
    /\ pc[c] \in {"refresh", "code", "exchange", "eos", "device"}
    /\ OnError(c)
    /\ UNCHANGED <<program, file, epic, hand, old, runs, excused, psyNet, watch>>

\* os.WriteFile truncates the file when it opens it, and writes it in a second step.
\* An error of either is logged.
Open(c) ==
    /\ At(c, "save")
    /\ \/ file' = Blank /\ Goto(c, "write") /\ UNCHANGED excused
       \/ excused' = TRUE /\ Goto(c, "exchange") /\ UNCHANGED file
    /\ UNCHANGED <<program, epic, hand, old, runs, psyNet, watch>>

\* What another process has written since is overwritten from its beginning.
Written(c) == {hand[c]} \cup (IF file = Blank THEN {} ELSE {Torn})
WriteFile(c) ==
    /\ At(c, "write")
    /\ \/ /\ file' \in Written(c)
          /\ excused' = (file' <= Blank)
       \/ excused' = TRUE /\ UNCHANGED file
    /\ Goto(c, "exchange")
    /\ UNCHANGED <<program, epic, hand, old, runs, psyNet, watch>>

(***************************************************************************)
(* AuthPlayer. The version is read at three moments: the feature set for   *)
(* the body, then version and build id for the headers of the request, and *)
(* again for the headers of the dial. Nothing orders this with SetVersion. *)
(***************************************************************************)
Shared(c)  == program[c] = "library"
Reads(c, f) == IF ~Shared(c) THEN {Default}
               ELSE {ver[f]} \cup (IF setter.at = f THEN {setter.to, Torn} ELSE {})
See(c, fs) == \E value \in [fs -> Versions \cup {Torn}] :
                  /\ \A f \in fs : value[f] \in Reads(c, f)
                  /\ seen' = [seen EXCEPT ![c] = @ \cup {value[f] : f \in fs}]

Look(c, from, fs, to) ==
    /\ At(c, from) /\ See(c, fs)
    /\ overlap' = [overlap EXCEPT ![c] = @ \/ (Shared(c) /\ setter.at # "idle")]
    /\ Goto(c, to)
    /\ UNCHANGED <<program, file, epic, hand, old, runs, excused, psyNet>>

AuthPlayer(c)      == Look(c, "auth", {"feature"}, "post")
postJSON(c)        == Look(c, "post", {"game", "build"}, "posted")
establishSocket(c) == Look(c, "establish", {"game", "build"}, "dialing")

\* A Result of null leaves the response as it was: without a URL.
PsyNetAnswers(c) ==
    /\ At(c, "posted")
    /\ \/ Goto(c, "establish") /\ hand' = [hand EXCEPT ![c] = Url]
       \/ Goto(c, "establish") /\ hand' = [hand EXCEPT ![c] = Blank]
       \/ Goto(c, "failed") /\ UNCHANGED hand       \* status, Error, no Result, ..
    /\ UNCHANGED <<program, file, epic, old, runs, excused, psyNet, watch>>

DialBlank(c) ==                                     \* malformed ws or wss URL
    /\ At(c, "dialing") /\ hand[c] = Blank
    /\ Goto(c, "failed")
    /\ UNCHANGED <<program, file, epic, hand, old, runs, excused, psyNet, watch>>

DialReturns(c) ==
    /\ At(c, "dialing") /\ hand[c] = Url
    /\ Goto(c, "in") \/ Goto(c, "failed")
    /\ UNCHANGED <<program, file, epic, hand, old, runs, excused, psyNet, watch>>

\* Three assignments, one after the other.
\* (Mutated: the build id is left as it was.)
AfterFieldTwo == [game |-> "feature", feature |-> "idle", build |-> "idle"]
AfterField    == [game |-> "feature", feature |-> "build", build |-> "idle"]

SetVersion ==
    /\ setter.at = "idle" /\ sets < MaxSets /\ \E c \in Callers : Shared(c)
    /\ \E v \in Versions : setter' = [at |-> "game", to |-> v]
    /\ sets' = sets + 1
    /\ overlap' = [c \in Callers |-> overlap[c] \/ seen[c] # {}]
    /\ UNCHANGED <<program, pc, file, epic, hand, old, runs, excused, ver, seen>>

SetField ==
    /\ setter.at # "idle"
    /\ ver' = [ver EXCEPT ![setter.at] = setter.to]
    /\ setter' = [setter EXCEPT !.at = AfterField[setter.at]]
    /\ UNCHANGED <<program, pc, file, epic, hand, old, runs, excused, sets, watch>>

(***************************************************************************)
(* Processes end, are killed, and are started again; goroutines call again.*)
(***************************************************************************)
Restart(c) ==
    /\ runs < MaxRuns /\ (Shared(c) => pc[c] \in {"in", "failed"})
    /\ \E label \in Begin[program[c]] : Goto(c, label)
    /\ runs' = runs + 1
    /\ excused' = (excused \/ pc[c] \in {"save", "write"})
    /\ hand' = [hand EXCEPT ![c] = Blank] /\ old' = [old EXCEPT ![c] = Blank]
    /\ seen' = [seen EXCEPT ![c] = {}] /\ overlap' = [overlap EXCEPT ![c] = FALSE]
    /\ UNCHANGED <<program, file, epic, psyNet>>

Ended == (\A c \in Callers : pc[c] \in {"in", "failed"}) /\ UNCHANGED vars

Local(c) == ReadFile(c) \/ Open(c) \/ WriteFile(c) \/ AuthPlayer(c) \/ postJSON(c)
            \/ establishSocket(c) \/ DialBlank(c)
Peers(c) == UserAnswers(c) \/ TokenReturned(c) \/ TokenBlank(c) \/ TokenLost(c)
            \/ EpicAnswers(c) \/ PsyNetAnswers(c) \/ DialReturns(c)

Next == \/ \E c \in Callers : Local(c) \/ Peers(c) \/ EpicFails(c) \/ Restart(c)
        \/ SetVersion \/ SetField \/ Ended

\* A caller goes on, and the HTTP client of EGS gives a request up after its timeout;
\* DeviceAuth shows that the wait for a device ends. Nothing is assumed of the user,
\* and PsyNet has all the time it wants: neither its client nor its dialer has a timeout.
Spec == /\ Init /\ [][Next]_vars
        /\ \A c \in Callers : WF_vars(Local(c)) /\ WF_vars(EpicFails(c))
        /\ WF_vars(SetField)

(***************************************************************************)
(* Properties.                                                             *)
(***************************************************************************)
\* Every variable keeps to its domain, what is live has been issued, and only setup
\* touches the file (setup.go:20-34).
TypeOK ==
    /\ program \in Casts
    /\ pc \in [Callers -> {"start", "ask", "refresh", "code", "device", "save", "write",
                           "exchange", "eos", "auth", "post", "posted", "establish",
                           "dialing", "in", "failed"}]
    /\ \A c \in Callers :
          pc[c] \in {"start", "refresh", "save", "write"} => program[c] = "setup"
    /\ issued \in 0 .. MaxTokens /\ live \subseteq 1 .. issued
    /\ file \in (1 .. issued) \cup {Blank, Torn}
    /\ hand \in [Callers -> (1 .. issued) \cup {Blank, Url}]
    /\ old \in [Callers -> (1 .. issued) \cup {Blank, Torn}]
    /\ runs \in 0 .. MaxRuns /\ excused \in BOOLEAN /\ sets \in 0 .. MaxSets
    /\ ver \in [Fields -> Versions] /\ setter \in [at : Fields \cup {"idle"}, to : Versions]
    /\ seen \in [Callers -> SUBSET (Versions \cup {Torn})] /\ overlap \in [Callers -> BOOLEAN]

\* The file holds a token that Epic has not taken back, or its successor is about to
\* be saved, so that the next run can sign in without the user (setup.go:20-34). Excused:
\* before the first save; when the answer to a refresh was lost; when a save failed,
\* was cut short or was mixed with that of another process; when a blank answer was saved.
SavedTokenLives ==
    \/ excused \/ file \in live
    \/ \E c \in Callers : \/ At(c, "save") /\ old[c] = file
                          \/ At(c, "write") /\ file = Blank

\* All that a sign-in tells PsyNet about the version of the game comes from one call of
\* SetVersion, the build id in agreement with the version, unless another call of it
\* was under way meanwhile (psynet.go:96-100, 107-108, 130-131, auth.go:42).
OneVersion ==
    \A c \in Callers : ~overlap[c] => Torn \notin seen[c] /\ Cardinality(seen[c]) <= 1

\* Only the user and PsyNet can hold a sign-in up: it never stays with Epic, with the
\* file or with itself (egs.go:75, setup.go:15-53).
OnlyPeersDelay ==
    \A c \in Callers : []<>(pc[c] \in {"ask", "posted", "dialing", "in", "failed"})
===============================================================================
