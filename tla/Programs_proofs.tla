---------------------------- MODULE Programs_proofs ----------------------------
(***************************************************************************)
(* Theorems about ItemShop, about AllRequests, and about the programs of   *)
(* MCPrograms, for any callers, programs, versions and bounds.             *)
(***************************************************************************)
EXTENDS MCPrograms, SignIn_proofs

(***************************************************************************)
(* ItemShop: what the reports have come from.                              *)
(***************************************************************************)
Differs(h, g) == IF h = g THEN 0 ELSE 1
Reported(hash) == IF lastHash = << >> THEN 0 ELSE Differs(lastHash, hash)
Steady == <<shops, shops>>

\* How many more changes the program would report if the shops stayed as they are and no
\* result were null: one when its hash is not that of the shops, or, in the middle of a poll,
\* one when the hash it will see is another, and one when that hash is not that of the shops.
Due == IF step = "catalogue"
         THEN Reported(Content(shops)) + Differs(Content(shops), Steady)
         ELSE Reported(Steady)

DueInv == alarms + Due <= 2 * (shops - 1) + 2 * nulls

ShopInv == ShopTypeOK /\ DueInv

LEMMA ShopInitOK == ShopInit => ShopInv
<1> SUFFICES ASSUME ShopInit PROVE ShopInv
  OBVIOUS
<1>1. lastHash \in {<< >>} \cup ((0 .. MaxChanges + 1) \X (0 .. MaxChanges + 1))
  BY Zenon DEF ShopInit
<1>2. ids \in 0 .. MaxChanges + 1 /\ shops \in 1 .. MaxChanges + 1
      /\ nulls \in 0 .. MaxNulls /\ alarms \in 0 .. MaxAlarms
  BY ShopBounds DEF ShopInit
<1>3. ShopTypeOK
  BY <1>1, <1>2 DEF ShopInit, ShopTypeOK
<1>4. Due = 0
  BY DEF ShopInit, Due, Reported
<1> QED
  BY <1>3, <1>4 DEF ShopInit, ShopInv, DueInv

LEMMA ShopTypeStep == ASSUME ShopTypeOK, [ShopNext]_shopVars PROVE ShopTypeOK'
<1> USE ShopBounds DEF ShopTypeOK, shopVars
<1>1. CASE GetIDs
  BY <1>1 DEF GetIDs, Got
<1>2. CASE GetCatalogue
  <2>1. PICK s \in 0 .. MaxChanges + 1 : Got(s) /\ Compare(Content(s))
    BY <1>2 DEF GetCatalogue
  <2>2. Content(s) \in (0 .. MaxChanges + 1) \X (0 .. MaxChanges + 1)
    BY DEF Content
  <2>3. alarms < MaxAlarms
    BY <1>2 DEF GetCatalogue
  <2>4. alarms' \in 0 .. MaxAlarms /\ lastHash' = Content(s)
    BY <2>1, <2>3 DEF Compare
  <2> QED
    BY <1>2, <2>1, <2>2, <2>4 DEF GetCatalogue, Got
<1>3. CASE PollFails \/ PollPanics \/ Poll \/ Interrupt \/ Ticks \/ Disconnects \/ UNCHANGED shopVars
  BY <1>3 DEF PollFails, PollPanics, Poll, Interrupt, Ticks, Disconnects
<1>4. CASE Changes
  BY <1>4 DEF Changes
<1> QED
  BY <1>1, <1>2, <1>3, <1>4 DEF ShopNext

LEMMA DueStep == ASSUME ShopInv, [ShopNext]_shopVars PROVE DueInv'
<1> USE ShopBounds DEF ShopInv, ShopTypeOK, DueInv
<1> DEFINE Bound == 2 * (shops - 1) + 2 * nulls
<1>1. CASE GetIDs
  <2>1. PICK s \in 0 .. MaxChanges + 1 : Got(s) /\ ids' = s
    BY <1>1 DEF GetIDs
  <2>2. CASE s = shops /\ UNCHANGED nulls
    <3>1. Content(shops)' = Steady'
      BY <1>1, <2>1, <2>2 DEF GetIDs, Content, Steady
    <3>2. Due' = Due
      BY <1>1, <3>1 DEF GetIDs, Due, Reported, Differs, Steady
    <3> QED
      BY <1>1, <2>2, <3>2 DEF GetIDs
  <2>3. CASE nulls' = nulls + 1
    BY <1>1, <2>3 DEF GetIDs, Due, Reported, Differs
  <2> QED
    BY <2>1, <2>2, <2>3 DEF Got
<1>2. CASE GetCatalogue
  <2>1. PICK s \in 0 .. MaxChanges + 1 : Got(s) /\ Compare(Content(s))
    BY <1>2 DEF GetCatalogue
  <2>2. alarms' = alarms + Reported(Content(s)) /\ lastHash' = Content(s)
    BY <2>1 DEF Compare, Reported, Differs
  <2>3. Content(s) # << >>
    BY DEF Content
  <2>4. Due' = Differs(Content(s), Steady)
    BY <1>2, <2>2, <2>3 DEF GetCatalogue, Due, Reported, Differs, Steady
  <2>5. CASE s = shops /\ UNCHANGED nulls
    BY <1>2, <2>2, <2>4, <2>5 DEF GetCatalogue, Due, Reported, Differs
  <2>6. CASE nulls' = nulls + 1
    BY <1>2, <2>2, <2>4, <2>6 DEF GetCatalogue, Due, Reported, Differs
  <2> QED
    BY <2>1, <2>5, <2>6 DEF Got
<1>3. CASE PollFails \/ PollPanics
  <2>1. Due' <= Due
    BY <1>3 DEF PollFails, PollPanics, Due, Reported, Differs, Steady
  <2> QED
    BY <1>3, <2>1 DEF PollFails, PollPanics, Due, Reported, Differs
<1>4. CASE Poll \/ Interrupt
  <2>1. Due' = Due
    BY <1>4 DEF Poll, Interrupt, Due, Reported, Steady
  <2> QED
    BY <1>4, <2>1 DEF Poll, Interrupt
<1>5. CASE Ticks \/ Disconnects \/ UNCHANGED shopVars
  <2>1. Due' = Due
    BY <1>5 DEF Ticks, Disconnects, shopVars, Due, Reported, Steady, Content
  <2> QED
    BY <1>5, <2>1 DEF Ticks, Disconnects, shopVars
<1>6. CASE Changes
  BY <1>6 DEF Changes, Due, Reported, Differs
<1> QED
  BY <1>1, <1>2, <1>3, <1>4, <1>5, <1>6 DEF ShopNext

LEMMA ShopStepOK == ShopInv /\ [ShopNext]_shopVars => ShopInv'
BY ShopTypeStep, DueStep DEF ShopInv

LEMMA ReportsCaused == ShopInv => AlarmsExplained
BY ShopBounds DEF ShopInv, ShopTypeOK, DueInv, AlarmsExplained, Due, Reported, Differs

\* However often the shops change and answers are null, each change accounts for two reports
\* at most, and so does each null result (itemshop/main.go:50-96).
THEOREM ReportsHaveCauses == ShopSpec => []AlarmsExplained
BY ShopInitOK, ShopStepOK, ReportsCaused, PTL DEF ShopSpec

(***************************************************************************)
(* AllRequests: the tables of the groups and of the wrappers, read once.   *)
(* Five calls may give the player something the program means to undo, and *)
(* each of them is at one place.                                           *)
(***************************************************************************)
LEMMA GroupsAre ==
    /\ Len(Groups) = 14
    /\ Groups[1] = allChallenges /\ Groups[2] = allClubs /\ Groups[3] = allMatchmaking
    /\ Groups[4] = allParty /\ Groups[5] = allPlayers /\ Groups[6] = allSkills
    /\ Groups[7] = allStats /\ Groups[8] = allShops /\ Groups[9] = allProducts
    /\ Groups[10] = allMTX /\ Groups[11] = allRocketPass /\ Groups[12] = allTournaments
    /\ Groups[13] = allTraining /\ Groups[14] = allMisc
BY DEF Groups

\* A group that gives the player nothing to undo, and skips no call.
Ordinary(group) ==
    /\ Len(group) \in 1 .. 11
    /\ \A i \in 1 .. Len(group) :
          /\ group[i].call \notin {"CreateClub", "StartMatchmaking", "CreateParty", "JoinParty",
                                   "RegisterTournament"}
          /\ group[i].empty # "skip"

LEMMA OrdinaryGroups ==
    /\ Ordinary(allChallenges) /\ Ordinary(allPlayers) /\ Ordinary(allSkills)
    /\ Ordinary(allStats) /\ Ordinary(allProducts) /\ Ordinary(allMTX)
    /\ Ordinary(allRocketPass) /\ Ordinary(allTraining) /\ Ordinary(allMisc)
<1> USE DEF Ordinary, Must, Try, MustIndex, Step
<1>1. Ordinary(allChallenges)
  BY DEF allChallenges
<1>2. Ordinary(allPlayers)
  BY DEF allPlayers
<1>3. Ordinary(allSkills)
  BY DEF allSkills
<1>4. Ordinary(allStats)
  BY DEF allStats
<1>5. Ordinary(allProducts)
  BY DEF allProducts
<1>6. Ordinary(allMTX)
  BY DEF allMTX
<1>7. Ordinary(allRocketPass)
  BY DEF allRocketPass
<1>8. Ordinary(allTraining)
  BY DEF allTraining
<1>9. Ordinary(allMisc)
  BY DEF allMisc
<1> HIDE DEF Ordinary
<1> QED
  BY <1>1, <1>2, <1>3, <1>4, <1>5, <1>6, <1>7, <1>8, <1>9

\* The other groups: where the calls are that create something, and those that undo it.
LEMMA ClubSteps ==
    /\ Len(allClubs) = 11
    /\ \A i \in 1 .. 11 : /\ allClubs[i].call = "CreateClub" => i = 1
                          /\ allClubs[i].call \notin {"StartMatchmaking", "CreateParty",
                                                      "JoinParty", "RegisterTournament"}
                          /\ allClubs[i].empty # "skip"
    /\ allClubs[9].call = "LeaveClub"
BY DEF allClubs, Must, Try, Step

LEMMA MatchmakingSteps ==
    /\ Len(allMatchmaking) = 3
    /\ \A i \in 1 .. 3 :
          /\ allMatchmaking[i].call = "StartMatchmaking" => i = 1
          /\ allMatchmaking[i].call \notin {"CreateClub", "CreateParty", "JoinParty",
                                            "RegisterTournament"}
          /\ allMatchmaking[i].empty # "skip"
    /\ allMatchmaking[2].call = "PlayerCancelMatchmaking"
BY DEF allMatchmaking, Must, Step

LEMMA PartySteps ==
    /\ Len(allParty) = 10
    /\ \A i \in 1 .. 10 : /\ allParty[i].call = "CreateParty" <=> i = 1
                          /\ allParty[i].call = "JoinParty" => i = 9
                          /\ allParty[i].call \notin {"CreateClub", "StartMatchmaking",
                                                      "RegisterTournament"}
                          /\ allParty[i].empty # "skip"
    /\ allParty[2].call = "GetPlayerPartyInfo" /\ allParty[10].call = "LeaveParty"
BY DEF allParty, Must, Try, Step

LEMMA PartyTries == \A i \in 3 .. 10 : allParty[i].must = FALSE
BY DEF allParty, Must, Try, Step

LEMMA TournamentSteps ==
    /\ Len(allTournaments) = 7
    /\ \A i \in 1 .. 7 : /\ allTournaments[i].call = "RegisterTournament" => i = 5
                         /\ allTournaments[i].call \notin {"CreateClub", "StartMatchmaking",
                                                           "CreateParty", "JoinParty"}
                         /\ allTournaments[i].empty # "skip"
    /\ allTournaments[5].must = FALSE
    /\ allTournaments[6].call = "UnsubscribeTournament"
BY DEF allTournaments, Must, Try, TryIndex, Step

LEMMA ShopSteps ==
    /\ Len(allShops) = 4
    /\ \A i \in 1 .. 4 :
          /\ allShops[i].call \notin {"CreateClub", "StartMatchmaking", "CreateParty",
                                      "JoinParty", "RegisterTournament"}
          /\ allShops[i].empty = "skip" => i = 2
    /\ allShops[2].call = "GetShopCatalogue"
BY DEF allShops, Must, MustIfAny, Step

(***************************************************************************)
(* PsyNet: what gives and what takes.                                      *)
(***************************************************************************)
LEMMA WrapperIs ==
    ASSUME NEW m \in Methods
    PROVE  WrapperOf(m) \in Wrappers /\ WrapperOf(m).method = m
BY DEF Methods, WrapperOf

\* The services that matter to Added and Removed, and whose they are.
LEMMA ServiceNames ==
    \A w \in Wrappers :
        /\ w.service = "Clubs/CreateClub_v1" => w.method = "CreateClub"
        /\ w.service = "Matchmaking/StartMatchmaking_v2" => w.method = "StartMatchmaking"
        /\ w.service = "Party/CreateParty_v1" => w.method = "CreateParty"
        /\ w.service = "Party/JoinParty_v1" => w.method = "JoinParty"
        /\ w.service = "Tournaments/Registration/RegisterTournament_v1"
              => w.method = "RegisterTournament"
        /\ w.method = "LeaveClub" => w.service = "Clubs/LeaveClub_v1"
        /\ w.method = "PlayerCancelMatchmaking"
              => w.service = "Matchmaking/PlayerCancelMatchmaking_v1"
        /\ w.method = "LeaveParty" => w.service = "Party/LeaveParty_v1"
        /\ w.method = "UnsubscribeTournament"
              => w.service = "Tournaments/Registration/UnsubscribeTournament_v1"
        /\ w.method = "CreateParty" => w.result = "typed"
BY DEF Wrappers, Challenges, Clubs, Party, Matchmaking, Misc, Playlists, Population,
       Tournaments, Products, RocketPass, MTX, Shops, Players, Skills, Stats, Matches,
       Training, Typed, Acked, Passed, Wrapper

\* Only the calls that ask for something make PsyNet give it.
LEMMA Gives ==
    ASSUME NEW m \in Methods
    PROVE  /\ "club" \in Added(Service(m)) => m = "CreateClub"
           /\ "queue" \in Added(Service(m)) => m = "StartMatchmaking"
           /\ "party" \in Added(Service(m))
              => m = "CreateParty" \/ (m = "JoinParty" /\ "partyID" \in known)
           /\ "registration" \in Added(Service(m)) => m = "RegisterTournament"
BY WrapperIs, ServiceNames DEF Service, Added

\* The calls that undo make PsyNet take it away, a party if the program knows its id.
LEMMA Takes ==
    ASSUME NEW m \in Methods
    PROVE  /\ m = "LeaveClub" => "club" \in Removed(Service(m))
           /\ m = "PlayerCancelMatchmaking" => "queue" \in Removed(Service(m))
           /\ m = "LeaveParty" /\ "partyID" \in known => "party" \in Removed(Service(m))
           /\ m = "UnsubscribeTournament" => "registration" \in Removed(Service(m))
BY WrapperIs, ServiceNames DEF Service, Removed

\* CreateParty returns a party id unless its result is null or an error.
LEMMA PartyTold ==
    ASSUME "CreateParty" \in Methods, NEW reply \in Replies("CreateParty"),
           Returned("CreateParty", reply) = "ok"
    PROVE  reply = "result"
BY WrapperIs, ServiceNames DEF Replies, Returned, SuccessUnread

(***************************************************************************)
(* The order of the steps.                                                 *)
(***************************************************************************)
Places == {p \in (1 .. 14) \X (1 .. 11) : p[2] <= Len(Groups[p[1]])}
CallAt(p) == Groups[p[1]][p[2]].call
Before(p, q) == p[1] < q[1] \/ (p[1] = q[1] /\ p[2] < q[2])

LEMMA GroupLengths == \A g \in 1 .. 14 : Len(Groups[g]) \in 1 .. 11
BY GroupsAre, OrdinaryGroups, ClubSteps, MatchmakingSteps, PartySteps, TournamentSteps, ShopSteps
   DEF Ordinary

\* Where the calls are that create something, and the one that may be skipped.
LEMMA PlacesOf ==
    ASSUME NEW p \in Places
    PROVE  /\ CallAt(p) = "CreateClub" => p = <<2, 1>>
           /\ CallAt(p) = "StartMatchmaking" => p = <<3, 1>>
           /\ CallAt(p) = "CreateParty" => p = <<4, 1>>
           /\ CallAt(p) = "JoinParty" => p = <<4, 9>>
           /\ CallAt(p) = "RegisterTournament" => p = <<12, 5>>
           /\ Groups[p[1]][p[2]].empty = "skip" => p = <<8, 2>>
<1>1. p = <<p[1], p[2]>> /\ p[1] \in 1 .. 14 /\ p[2] \in 1 .. Len(Groups[p[1]])
  BY GroupLengths DEF Places
<1>2. CASE p[1] \in {2, 3}
  BY <1>1, <1>2, GroupsAre, ClubSteps, MatchmakingSteps DEF CallAt
<1>3. CASE p[1] = 4
  BY <1>1, <1>3, GroupsAre, PartySteps DEF CallAt
<1>4. CASE p[1] \in {8, 12}
  BY <1>1, <1>4, GroupsAre, ShopSteps, TournamentSteps DEF CallAt
<1>5. CASE p[1] \notin {2, 3, 4, 8, 12}
  <2>1. Ordinary(Groups[p[1]])
    BY <1>1, <1>5, GroupsAre, OrdinaryGroups
  <2> QED
    BY <1>1, <2>1 DEF Ordinary, CallAt
<1> QED
  BY <1>1, <1>2, <1>3, <1>4, <1>5

(***************************************************************************)
(* The calls of the program are the wrappers but two: each group calls the *)
(* methods of one file, and allMisc those of four files.                   *)
(***************************************************************************)
CallsOf(group) == {group[i].call : i \in 1 .. Len(group)}
MethodsOf(table) == {w.method : w \in table}

LEMMA SameCalls ==
    /\ CallsOf(allChallenges) = MethodsOf(Challenges)
    /\ CallsOf(allClubs) = MethodsOf(Clubs)
    /\ CallsOf(allMatchmaking) = MethodsOf(Matchmaking)
    /\ CallsOf(allParty) = MethodsOf(Party)
    /\ CallsOf(allPlayers) = MethodsOf(Players)
    /\ CallsOf(allSkills) = MethodsOf(Skills)
    /\ CallsOf(allStats) = MethodsOf(Stats)
    /\ CallsOf(allShops) = MethodsOf(Shops)
    /\ CallsOf(allProducts) = MethodsOf(Products)
    /\ CallsOf(allMTX) = MethodsOf(MTX)
    /\ CallsOf(allRocketPass) = MethodsOf(RocketPass)
    /\ CallsOf(allTournaments) = MethodsOf(Tournaments)
    /\ CallsOf(allTraining) = MethodsOf(Training)
    /\ CallsOf(allMisc) = MethodsOf(Misc \cup Playlists \cup Population \cup Matches)
                             \ {"RecordMetrics", "RelayToServer"}
<1> USE DEF CallsOf, MethodsOf, Must, Try, MustIndex, TryIndex, MustIfAny, Step, Typed, Acked,
        Passed, Wrapper
<1>1. CallsOf(allChallenges) = MethodsOf(Challenges)
  BY DEF allChallenges, Challenges
<1>2. CallsOf(allClubs) = MethodsOf(Clubs)
  BY DEF allClubs, Clubs
<1>3. CallsOf(allMatchmaking) = MethodsOf(Matchmaking)
  BY DEF allMatchmaking, Matchmaking
<1>4. CallsOf(allParty) = MethodsOf(Party)
  BY DEF allParty, Party
<1>5. CallsOf(allPlayers) = MethodsOf(Players)
  BY DEF allPlayers, Players
<1>6. CallsOf(allSkills) = MethodsOf(Skills)
  BY DEF allSkills, Skills
<1>7. CallsOf(allStats) = MethodsOf(Stats)
  BY DEF allStats, Stats
<1>8. CallsOf(allShops) = MethodsOf(Shops)
  BY DEF allShops, Shops
<1>9. CallsOf(allProducts) = MethodsOf(Products)
  BY DEF allProducts, Products
<1>10. CallsOf(allMTX) = MethodsOf(MTX)
  BY DEF allMTX, MTX
<1>11. CallsOf(allRocketPass) = MethodsOf(RocketPass)
  BY DEF allRocketPass, RocketPass
<1>12. CallsOf(allTournaments) = MethodsOf(Tournaments)
  BY DEF allTournaments, Tournaments
<1>13. CallsOf(allTraining) = MethodsOf(Training)
  BY DEF allTraining, Training
<1>14. CallsOf(allMisc) = MethodsOf(Misc \cup Playlists \cup Population \cup Matches)
                           \ {"RecordMetrics", "RelayToServer"}
  BY DEF allMisc, Misc, Playlists, Population, Matches
<1> HIDE DEF CallsOf, MethodsOf
<1> QED
  BY <1>1, <1>2, <1>3, <1>4, <1>5, <1>6, <1>7, <1>8, <1>9, <1>10, <1>11, <1>12, <1>13, <1>14

NotCalled == {"RecordMetrics", "RelayToServer"}
Tables ==
    {Challenges, Clubs, Matchmaking, Party, Players, Skills, Stats, Shops, Products, MTX,
     RocketPass, Tournaments, Training}

LEMMA ElsewhereCalled == \A table \in Tables : MethodsOf(table) \cap NotCalled = {}
BY DEF Tables, NotCalled, MethodsOf, Challenges, Clubs, Matchmaking, Party, Players, Skills,
       Stats, Shops, Products, MTX, RocketPass, Tournaments, Training, Typed, Acked, Passed,
       Wrapper

LEMMA AllCalled == {CallAt(p) : p \in Places} = Methods \ NotCalled
<1>1. {CallAt(p) : p \in Places} = UNION {CallsOf(Groups[g]) : g \in 1 .. 14}
  <2>1. ASSUME NEW p \in Places PROVE \E g \in 1 .. 14 : CallAt(p) \in CallsOf(Groups[g])
    <3>1. p[1] \in 1 .. 14 /\ p[2] \in 1 .. Len(Groups[p[1]])
      BY GroupLengths DEF Places
    <3>2. CallAt(p) \in CallsOf(Groups[p[1]])
      BY <3>1 DEF CallAt, CallsOf
    <3> QED
      BY <3>1, <3>2
  <2>2. ASSUME NEW g \in 1 .. 14, NEW i \in 1 .. Len(Groups[g])
        PROVE  <<g, i>> \in Places /\ CallAt(<<g, i>>) = Groups[g][i].call
    <3>1. Len(Groups[g]) \in 1 .. 11
      BY GroupLengths
    <3> DEFINE n == Len(Groups[g])
    <3> HIDE DEF n
    <3>2. i \in 1 .. n /\ n \in 1 .. 11 => i \in 1 .. 11 /\ i <= n
      OBVIOUS
    <3> QED
      BY <3>1, <3>2 DEF n, Places, CallAt
  <2>3. ASSUME NEW g \in 1 .. 14, NEW c \in CallsOf(Groups[g])
        PROVE  c \in {CallAt(p) : p \in Places}
    BY <2>2 DEF CallsOf
  <2> QED
    BY <2>1, <2>3
<1> DEFINE Rest == Misc \cup Playlists \cup Population \cup Matches
           Named(c) == \E table \in Tables : c \in MethodsOf(table)
<1>2. \A c : c \in Methods <=> Named(c) \/ c \in MethodsOf(Rest)
  <2>1. \A w : w \in Wrappers <=> (\E table \in Tables : w \in table) \/ w \in Rest
    BY DEF Wrappers, Tables
  <2> HIDE DEF Rest
  <2> QED
    BY <2>1, Zenon DEF Methods, MethodsOf
<1>3. \A g \in 1 .. 13 : \E table \in Tables : CallsOf(Groups[g]) = MethodsOf(table)
  BY GroupsAre, SameCalls DEF Tables
<1>4. \A table \in Tables : \E g \in 1 .. 13 : CallsOf(Groups[g]) = MethodsOf(table)
  BY GroupsAre, SameCalls DEF Tables
<1>5. CallsOf(Groups[14]) = MethodsOf(Rest) \ NotCalled
  BY GroupsAre, SameCalls DEF NotCalled
<1>6. \A c : (\E g \in 1 .. 13 : c \in CallsOf(Groups[g])) <=> Named(c)
  BY <1>3, <1>4
<1>7. \A c : Named(c) => c \notin NotCalled
  BY ElsewhereCalled
<1>8. \A g : g \in 1 .. 14 <=> g \in 1 .. 13 \/ g = 14
  OBVIOUS
<1> HIDE DEF Rest, Named
<1>9. \A c : c \in Methods \ NotCalled <=> Named(c) \/ c \in CallsOf(Groups[14])
  BY <1>2, <1>5, <1>7
<1>10. \A c : c \in UNION {CallsOf(Groups[g]) : g \in 1 .. 14}
                <=> Named(c) \/ c \in CallsOf(Groups[14])
  BY <1>6, <1>8, Zenon
<1> QED
  BY <1>1, <1>9, <1>10, Zenon

(***************************************************************************)
(* The invariant.                                                          *)
(***************************************************************************)
\* The player has what the program is still to undo, or a failure was blamed for it. LeaveParty
\* undoes nothing without the id, so the id is known all the while.
HoldInv ==
    /\ "club" \in holds => "club" \in blamed \/ (at[1] = 2 /\ at[2] \in 2 .. 9)
    /\ "queue" \in holds => "queue" \in blamed \/ at = <<3, 2>>
    /\ "party" \in holds => "party" \in blamed \/ (at[1] = 4 /\ at[2] \in 2 .. 10)
    /\ "registration" \in holds => "registration" \in blamed \/ at = <<12, 6>>
    /\ at[1] = 4 /\ at[2] \in 2 .. 10 => "party" \in blamed \/ "partyID" \in known

\* As long as no call has failed, every step before the next one has been executed.
CalledInv ==
    smooth => \A p \in Places :
                 Before(p, at) \/ over = "end" => CallAt(p) \in called \cup {"GetShopCatalogue"}

RequestInv ==
    /\ RequestTypeOK /\ at \in Places /\ called \subseteq Methods \ NotCalled
    /\ over = "end" => at[1] = 14
    /\ over # "panic" => HoldInv
    /\ CalledInv

LEMMA RequestInitOK == RequestInit => RequestInv
<1> SUFFICES ASSUME RequestInit PROVE RequestInv
  OBVIOUS
<1>1. at = <<1, 1>> /\ at[1] = 1 /\ at[2] = 1 /\ at \in Places
      /\ at[2] \in 1 .. Len(Groups[at[1]]) /\ at[1] \in 1 .. Len(Groups)
  <2>1. Len(Groups[1]) \in 1 .. 11
    BY GroupLengths
  <2>2. 1 <= Len(Groups[1]) /\ 1 \in 1 .. Len(Groups[1]) /\ 1 \in 1 .. Len(Groups)
    BY <2>1, GroupsAre
  <2>3. at = <<1, 1>>
    BY DEF RequestInit
  <2>4. at[1] = 1 /\ at[2] = 1
    BY <2>3
  <2>5. at \in Places
    BY <2>2, <2>3 DEF Places
  <2> QED
    BY <2>2, <2>3, <2>4, <2>5
<1>2. \A p \in Places : ~Before(p, at)
  BY <1>1 DEF Places, Before
<1>3. RequestTypeOK
  BY <1>1 DEF RequestInit, RequestTypeOK
<1>4. HoldInv
  BY <1>1 DEF RequestInit, HoldInv
<1>5. CalledInv
  BY <1>2 DEF RequestInit, CalledInv
<1> QED
  BY <1>1, <1>3, <1>4, <1>5 DEF RequestInit, RequestInv

(***************************************************************************)
(* The steps.                                                              *)
(***************************************************************************)
\* A call returns r. PsyNet has served it, or not; if not, it failed, or its Success was unread.
Returns(r) ==
    /\ Return(r)
    /\ Serve(Now.call) \/ (UNCHANGED holds /\ (r = "err" \/ Now.call \in SuccessUnread))
    /\ Now.call = "CreateParty" /\ r = "ok" => "partyID" \in known'

\* A step panics, skips GetShopCatalogue, or is a call that returns.
LEMMA StepShape ==
    ASSUME RequestInv, RequestNext
    PROVE  /\ over = "no"
           /\ known \subseteq known'
           /\ \/ Panic
              \/ /\ at = <<8, 2>> /\ Following(FALSE)
                 /\ UNCHANGED <<holds, blamed, called, smooth>>
              \/ \E r \in {"ok", "zero", "err"} : Returns(r)
<1> DEFINE m == Now.call
<1>0. at \in Places /\ m \in Methods
  BY AllCalled DEF RequestInv, Now, CallAt
<1>1. CASE Skip
  BY <1>0, <1>1, PlacesOf DEF Skip, Running, Now
<1>2. CASE IndexPanics
  BY <1>2 DEF IndexPanics, Running
<1>3. CASE Answered
  <2>1. PICK reply \in Replies(m) :
           /\ IF reply \in {"error", "unsuccessful"} THEN UNCHANGED holds ELSE Serve(m)
           /\ IF reply = "result" THEN \E new \in Told(m) : known' = known \cup new
                                  ELSE UNCHANGED known
           /\ Return(Returned(m, reply))
    BY <1>3 DEF Answered
  <2>2. Returned(m, reply) \in {"ok", "zero", "err"}
    BY <2>1 DEF Replies, Returned
  <2>3. reply = "error" => Returned(m, reply) = "err"
    BY DEF Returned
  <2>4. reply = "unsuccessful" => m \in SuccessUnread
    BY <2>1 DEF Replies
  <2>5. m = "CreateParty" /\ Returned(m, reply) = "ok" => "partyID" \in known'
    BY <1>0, <2>1, PartyTold DEF Told
  <2>6. known \subseteq known'
    BY <2>1
  <2>7. Serve(m) \/ (UNCHANGED holds /\ (Returned(m, reply) = "err" \/ m \in SuccessUnread))
    BY <2>1, <2>3, <2>4
  <2> QED
    BY <1>3, <2>1, <2>2, <2>5, <2>6, <2>7 DEF Answered, Calling, Running, Returns
<1>4. CASE Expires
  BY <1>4 DEF Expires, Calling, Running, Returns
<1>5. CASE Breaks
  BY <1>5 DEF Breaks, Calling, Running, Returns
<1>6. CASE NotConnected
  BY <1>6 DEF NotConnected, Calling, Running, Returns
<1> QED
  BY <1>1, <1>2, <1>3, <1>4, <1>5, <1>6 DEF RequestNext

\* The next step of a program that goes on is the next in the group, or of the next group.
LEMMA NextPlace ==
    ASSUME at \in Places, over = "no", NEW newGroup, Following(newGroup)
    PROVE  \/ /\ over' = "end" /\ at' = at /\ at[1] = 14
              /\ newGroup \/ at[2] = Len(Groups[at[1]])
           \/ /\ over' = "no" /\ at[1] \in 1 .. 13 /\ at' = <<at[1] + 1, 1>>
              /\ newGroup \/ at[2] = Len(Groups[at[1]])
           \/ /\ over' = "no" /\ ~newGroup /\ at[2] < Len(Groups[at[1]])
              /\ at' = <<at[1], at[2] + 1>>
<1>1. at[1] \in 1 .. 14 /\ at[2] \in 1 .. 11 /\ at[2] <= Len(Groups[at[1]])
  BY DEF Places
<1>2. Len(Groups[at[1]]) \in 1 .. 11 /\ Len(Groups) = 14
  BY <1>1, GroupLengths, GroupsAre
<1> QED
  BY <1>1, <1>2 DEF Following

LEMMA NextPlaces ==
    ASSUME at \in Places, over = "no", NEW newGroup, Following(newGroup)
    PROVE  at' \in Places
<1>1. at[1] \in 1 .. 14 /\ at[2] \in 1 .. 11 /\ at[2] <= Len(Groups[at[1]])
  BY DEF Places
<1>2. Len(Groups[at[1]]) \in 1 .. 11
  BY <1>1, GroupLengths
<1>3. \A g \in 1 .. 14, i \in 1 .. 11 : i <= Len(Groups[g]) => <<g, i>> \in Places
  BY DEF Places
<1> DEFINE g == at[1]
           i == at[2]
           n == Len(Groups[g])
<1>4. ASSUME g \in 1 .. 13, at' = <<g + 1, 1>> PROVE at' \in Places
  <2> DEFINE h == g + 1
  <2>1. h \in 1 .. 14 /\ at' = <<h, 1>>
    BY <1>4
  <2> HIDE DEF h
  <2> DEFINE len == Len(Groups[h])
  <2>2. len \in 1 .. 11
    BY <2>1, GroupLengths
  <2>3. <<h, 1>> \in (1 .. 14) \X (1 .. 11) /\ <<h, 1>>[1] = h /\ <<h, 1>>[2] = 1
    BY <2>1
  <2> HIDE DEF len
  <2>4. 1 <= len
    BY <2>2
  <2> QED
    BY <2>1, <2>3, <2>4 DEF len, Places
<1>5. ASSUME i < n, at' = <<g, i + 1>> PROVE at' \in Places
  <2>1. i + 1 \in 1 .. 11 /\ i + 1 <= n
    <3> HIDE DEF g, i, n
    <3>1. i \in 1 .. 11 /\ n \in 1 .. 11
      BY <1>1, <1>2 DEF g, i, n
    <3> QED
      BY <1>5, <3>1
  <2> HIDE DEF g, i
  <2> QED
    BY <1>1, <1>3, <1>5, <2>1 DEF g, n
<1> QED
  BY <1>4, <1>5, NextPlace

LEMMA TypeStepOK == ASSUME RequestInv, RequestNext PROVE RequestTypeOK' /\ at' \in Places
<1>1. at \in Places /\ over = "no"
  BY StepShape DEF RequestInv
<1>2. at' \in Places /\ over' \in {"no", "end", "panic"}
  <2>1. CASE Panic
    BY <1>1, <2>1 DEF Panic
  <2>2. CASE ~Panic
    <3>1. PICK newGroup : Following(newGroup)
      BY <2>2, StepShape DEF Returns, Return
    <3> QED
      BY <1>1, <3>1, NextPlace, NextPlaces
  <2> QED
    BY <2>1, <2>2
<1>3. at'[1] \in 1 .. Len(Groups) /\ at'[2] \in 1 .. Len(Groups[at'[1]])
  BY <1>2, GroupsAre, GroupLengths DEF Places
<1>4. Now.call \in Methods
  BY <1>1, AllCalled DEF Now, CallAt
<1>5. late' \in BOOLEAN /\ link' \in {"up", "down"}
  BY DEF RequestInv, RequestTypeOK, RequestNext, Skip, IndexPanics, Answered, Expires,
         Breaks, NotConnected
<1>6. smooth' \in BOOLEAN
  BY StepShape DEF RequestInv, RequestTypeOK, Panic, Returns, Return
<1>7. known' \subseteq {"challenges", "shops", "schedule", "partyID"}
  BY DEF RequestInv, RequestTypeOK, RequestNext, Skip, IndexPanics, Answered, Expires,
         Breaks, NotConnected, Told
<1>8. holds' \subseteq {"club", "otherClub", "queue", "search", "party", "registration"}
  <2>1. CASE Serve(Now.call)
    BY <2>1 DEF RequestInv, RequestTypeOK, Serve, Added
  <2>2. CASE UNCHANGED holds
    BY <2>2 DEF RequestInv, RequestTypeOK
  <2> QED
    BY <2>1, <2>2 DEF RequestNext, Skip, IndexPanics, Answered, Expires, Breaks, NotConnected
<1>9. blamed' \subseteq {"club", "queue", "party", "registration"}
  BY StepShape DEF RequestInv, RequestTypeOK, Panic, Returns, Return, UndoneBy
<1>10. called' \subseteq Methods
  BY <1>4, StepShape DEF RequestInv, RequestTypeOK, Panic, Returns, Return
<1> QED
  BY <1>2, <1>3, <1>5, <1>6, <1>7, <1>8, <1>9, <1>10 DEF RequestTypeOK

\* The step goes from one place to the next, so what precedes the next is what precedes this
\* one, and this one.
LEMMA CalledStepOK ==
    ASSUME RequestInv, RequestNext
    PROVE  /\ called' \subseteq Methods \ NotCalled
           /\ over' = "end" => at'[1] = 14
           /\ CalledInv'
<1>1. at \in Places /\ over = "no" /\ Now.call = CallAt(at) /\ Now.call \in Methods \ NotCalled
  BY StepShape, AllCalled DEF RequestInv, Now, CallAt
<1>2. CASE Panic
  BY <1>1, <1>2 DEF Panic, RequestInv, CalledInv
<1>3. CASE ~Panic
  <2>1. called' \subseteq Methods \ NotCalled
    BY <1>1, <1>3, StepShape DEF RequestInv, Returns, Return
  <2>2. PICK newGroup : Following(newGroup) /\ (smooth' => ~newGroup)
    BY <1>3, StepShape DEF Returns, Return
  <2>3. over' = "end" => at'[1] = 14
    BY <1>1, <2>2, NextPlace
  <2>4. ASSUME smooth', NEW p \in Places, Before(p, at') \/ over' = "end"
        PROVE  Before(p, at) \/ p = at
    <3> DEFINE a == p[1]
               b == p[2]
               g == at[1]
               i == at[2]
               n == Len(Groups[g])
    <3>1. /\ a \in 1 .. 14 /\ b \in 1 .. 11 /\ b <= Len(Groups[a]) /\ p = <<a, b>>
          /\ g \in 1 .. 14 /\ i \in 1 .. 11 /\ at = <<g, i>>
      BY <1>1 DEF Places
    <3>2. n \in 1 .. 11 /\ (a = g => b <= n)
      BY <3>1, GroupLengths
    <3>3. \/ over' = "end" /\ g = 14 /\ i = n
          \/ over' = "no" /\ at' = <<g + 1, 1>> /\ i = n
          \/ over' = "no" /\ at' = <<g, i + 1>>
      BY <1>1, <2>2, <2>4, NextPlace
    <3>4. over' = "no" => a < at'[1] \/ (a = at'[1] /\ b < at'[2])
      BY <2>4 DEF Before
    <3>5. SUFFICES a < g \/ (a = g /\ b < i) \/ (a = g /\ b = i)
      BY <3>1 DEF Before
    <3> HIDE DEF a, b, g, i, n
    <3>6. CASE over' = "end" /\ g = 14 /\ i = n
      BY <3>1, <3>2, <3>6
    <3>7. CASE over' = "no" /\ at' = <<g + 1, 1>> /\ i = n
      BY <3>1, <3>2, <3>4, <3>7
    <3>8. CASE over' = "no" /\ at' = <<g, i + 1>>
      BY <3>1, <3>4, <3>8
    <3> QED
      BY <3>3, <3>6, <3>7, <3>8
  <2>5. smooth' => /\ smooth /\ called \subseteq called'
                   /\ Now.call \in called' \cup {"GetShopCatalogue"}
    <3>1. at = <<8, 2>> => CallAt(at) = "GetShopCatalogue"
      BY GroupsAre, ShopSteps DEF CallAt
    <3> QED
      BY <1>1, <1>3, <3>1, StepShape DEF Returns, Return, RequestInv, RequestTypeOK
  <2>6. CalledInv'
    BY <1>1, <2>4, <2>5 DEF RequestInv, CalledInv
  <2> QED
    BY <2>1, <2>3, <2>6
<1> QED
  BY <1>2, <1>3

\* Which failures are blamed for what they leave behind.
LEMMA Blames ==
    /\ \A i \in 1 .. 9 : "club" \in UndoneBy(Groups[2][i].call, "err")
    /\ "queue" \in UndoneBy(Groups[3][1].call, "err")
    /\ "queue" \in UndoneBy(Groups[3][2].call, "err")
    /\ "party" \in UndoneBy(Groups[4][1].call, "err")
    /\ "party" \in UndoneBy(Groups[4][1].call, "zero")
    /\ "party" \in UndoneBy(Groups[4][2].call, "err")
    /\ "party" \in UndoneBy(Groups[4][10].call, "err")
    /\ "registration" \in UndoneBy(Groups[12][6].call, "err")
<1> DEFINE Calls9 == {s.call : s \in {allClubs[i] : i \in 1 .. 9}}
           Rest   == {"StartMatchmaking", "PlayerCancelMatchmaking", "GetPlayerPartyInfo",
                      "LeaveParty", "CreateParty", "UnsubscribeTournament"}
<1>1. \A i \in 1 .. 9 : allClubs[i].call \in Calls9
  BY Zenon
<1>2. /\ allMatchmaking[1].call = "StartMatchmaking"
      /\ allMatchmaking[2].call = "PlayerCancelMatchmaking"
      /\ allParty[1].call = "CreateParty" /\ allParty[2].call = "GetPlayerPartyInfo"
      /\ allParty[10].call = "LeaveParty" /\ allTournaments[6].call = "UnsubscribeTournament"
  BY DEF allMatchmaking, allParty, allTournaments, Must, Try, TryIndex, Step
<1>3. \A i \in 1 .. 9 : allClubs[i].call \notin Rest
  BY DEF allClubs, Must, Try, Step
<1>4. Calls9 \cap Rest = {}
  BY <1>3
<1> HIDE DEF Calls9
<1>5. ASSUME NEW m \in Calls9 PROVE UndoneBy(m, "err") = {"club"}
  <2>1. m \in {s.call : s \in {allClubs[i] : i \in 1 .. 9}}
    BY DEF Calls9
  <2>2. m \notin Rest
    BY <1>4
  <2> QED
    BY <2>1, <2>2 DEF UndoneBy
<1>6. ASSUME NEW m, m \notin Calls9
      PROVE  /\ m \in {"StartMatchmaking", "PlayerCancelMatchmaking"}
                   => UndoneBy(m, "err") = {"queue"}
             /\ m \in {"GetPlayerPartyInfo", "LeaveParty", "CreateParty"}
                   => UndoneBy(m, "err") = {"party"}
             /\ m = "CreateParty" => UndoneBy(m, "zero") = {"party"}
             /\ m = "UnsubscribeTournament" => UndoneBy(m, "err") = {"registration"}
  <2>1. ~(m \in {s.call : s \in {allClubs[i] : i \in 1 .. 9}})
    BY <1>6 DEF Calls9
  <2> QED
    BY <2>1 DEF UndoneBy
<1> QED
  BY <1>1, <1>2, <1>4, <1>5, <1>6, GroupsAre

\* While something is held, the program is between the call that gave it and the one that takes
\* it away; a failure in between, or a failure to take it away, is blamed.
LEMMA HoldStepOK == ASSUME RequestInv, RequestNext, over' # "panic" PROVE HoldInv'
<1>1. at \in Places /\ over = "no" /\ Now.call = CallAt(at) /\ Now.call \in Methods /\ HoldInv
  BY StepShape, AllCalled DEF RequestInv, Now, CallAt
<1>at. at = <<at[1], at[2]>> /\ at[1] \in 1 .. 14 /\ at[2] \in 1 .. 11
  BY <1>1 DEF Places
<1>2. blamed \subseteq blamed' /\ known \subseteq known'
  BY StepShape DEF Panic, Returns, Return
<1>3. CASE at = <<8, 2>> /\ Following(FALSE) /\ UNCHANGED <<holds, blamed, called, smooth>>
  <2>1. at' = <<8, 3>>
    <3>1. at[1] = 8 /\ at[2] = 2 /\ Len(Groups[at[1]]) = 4
      BY <1>3, GroupsAre, ShopSteps
    <3> QED
      BY <1>1, <1>3, <3>1 DEF Following
  <2> QED
    BY <1>1, <1>2, <1>3, <2>1 DEF HoldInv
<1>4. ASSUME NEW r \in {"ok", "zero", "err"}, Returns(r) PROVE HoldInv'
  <2> DEFINE m == Now.call
  <2>1. blamed' = blamed \cup UndoneBy(m, r) /\ Following(r = "err" /\ Now.must)
    BY <1>4 DEF Returns, Return
  <2>2. \A x : x \in holds' => x \in holds \/ x \in Added(Service(m))
    BY <1>4 DEF Returns, Serve
  <2>3. \A x : /\ x \in Removed(Service(m)) /\ x \notin Added(Service(m)) /\ r # "err"
               /\ m \notin SuccessUnread
               => x \notin holds'
    BY <1>4 DEF Returns, Serve
  <2> DEFINE g == at[1]
             i == at[2]
  <2>4. \/ at' = at
        \/ at' = <<g + 1, 1>>
        \/ at' = <<g, i + 1>>
    BY <1>1, <2>1, NextPlace
  <2>5. \A n \in 1 .. 10 :
           /\ i = n /\ g \in {2, 3, 4, 12} /\ n < Len(Groups[g])
           /\ r # "err" \/ ~Now.must
           => at' = <<g, n + 1>>
    BY <1>1, <2>1 DEF Following
  <2>club. "club" \in holds' => "club" \in blamed' \/ (at'[1] = 2 /\ at'[2] \in 2 .. 9)
    <3>1. CASE "club" \in blamed
      BY <1>2, <3>1
    <3>2. CASE g = 2 /\ i \in 1 .. 9 /\ r = "err"
      <4>1. m = Groups[2][i].call
        BY <3>2 DEF Now
      <4> QED
        BY <2>1, <3>2, <4>1, Blames
    <3>3. CASE g = 2 /\ i \in 1 .. 8 /\ r # "err"
      <4>1. at' = <<g, i + 1>>
        BY <2>5, <3>3, GroupsAre, ClubSteps
      <4> QED
        BY <3>3, <4>1
    <3>4. CASE g = 2 /\ i = 9 /\ r # "err"
      <4>1. m = "LeaveClub"
        BY <3>4, GroupsAre, ClubSteps DEF Now
      <4>2. /\ "club" \in Removed(Service(m)) /\ "club" \notin Added(Service(m))
            /\ m \notin SuccessUnread
        BY <1>1, <4>1, Takes, Gives DEF SuccessUnread
      <4> QED
        BY <2>3, <3>4, <4>2
    <3>5. CASE "club" \notin blamed /\ ~(g = 2 /\ i \in 1 .. 9)
      <4>1. "club" \notin holds
        BY <1>1, <3>5 DEF HoldInv
      <4>2. "club" \notin Added(Service(m))
        BY <1>1, <3>5, Gives, PlacesOf
      <4> QED
        BY <2>2, <4>1, <4>2
    <3> QED
      BY <3>1, <3>2, <3>3, <3>4, <3>5
  <2>queue. "queue" \in holds' => "queue" \in blamed' \/ at' = <<3, 2>>
    <3>1. CASE "queue" \in blamed
      BY <1>2, <3>1
    <3>2. CASE g = 3 /\ i \in 1 .. 2 /\ r = "err"
      <4>1. m = Groups[3][i].call
        BY <3>2 DEF Now
      <4> QED
        BY <2>1, <3>2, <4>1, Blames
    <3>3. CASE g = 3 /\ i = 1 /\ r # "err"
      BY <2>5, <3>3, GroupsAre, MatchmakingSteps
    <3>4. CASE g = 3 /\ i = 2 /\ r # "err"
      <4>1. m = "PlayerCancelMatchmaking"
        BY <3>4, GroupsAre, MatchmakingSteps DEF Now
      <4>2. /\ "queue" \in Removed(Service(m)) /\ "queue" \notin Added(Service(m))
            /\ m \notin SuccessUnread
        BY <1>1, <4>1, Takes, Gives DEF SuccessUnread
      <4> QED
        BY <2>3, <3>4, <4>2
    <3>5. CASE "queue" \notin blamed /\ ~(g = 3 /\ i \in 1 .. 2)
      <4>1. "queue" \notin holds
        BY <1>1, <3>5 DEF HoldInv
      <4>2. "queue" \notin Added(Service(m))
        BY <1>1, <3>5, Gives, PlacesOf
      <4> QED
        BY <2>2, <4>1, <4>2
    <3> QED
      BY <3>1, <3>2, <3>3, <3>4, <3>5
  <2>registration. "registration" \in holds' => "registration" \in blamed' \/ at' = <<12, 6>>
    <3>1. CASE "registration" \in blamed
      BY <1>2, <3>1
    <3>2. CASE g = 12 /\ i = 6 /\ r = "err"
      <4>1. m = Groups[12][6].call
        BY <3>2 DEF Now
      <4> QED
        BY <2>1, <3>2, <4>1, Blames
    <3>3. CASE g = 12 /\ i = 5
      <4>1. ~Now.must
        BY <3>3, GroupsAre, TournamentSteps DEF Now
      <4> QED
        BY <2>5, <3>3, <4>1, GroupsAre, TournamentSteps
    <3>4. CASE g = 12 /\ i = 6 /\ r # "err"
      <4>1. m = "UnsubscribeTournament"
        BY <3>4, GroupsAre, TournamentSteps DEF Now
      <4>2. /\ "registration" \in Removed(Service(m)) /\ "registration" \notin Added(Service(m))
            /\ m \notin SuccessUnread
        BY <1>1, <4>1, Takes, Gives DEF SuccessUnread
      <4> QED
        BY <2>3, <3>4, <4>2
    <3>5. CASE "registration" \notin blamed /\ ~(g = 12 /\ i \in 5 .. 6)
      <4>1. "registration" \notin holds
        BY <1>1, <3>5 DEF HoldInv
      <4>2. "registration" \notin Added(Service(m))
        BY <1>1, <3>5, Gives, PlacesOf
      <4> QED
        BY <2>2, <4>1, <4>2
    <3> QED
      BY <3>1, <3>2, <3>3, <3>4, <3>5
  <2>id. at'[1] = 4 /\ at'[2] \in 2 .. 10 => "party" \in blamed' \/ "partyID" \in known'
    <3>1. CASE g = 4 /\ i \in 2 .. 10
      BY <1>1, <1>2, <3>1 DEF HoldInv
    <3>2. CASE g = 4 /\ i = 1
      <4>1. m = Groups[4][1].call /\ m = "CreateParty"
        BY <3>2, GroupsAre, PartySteps DEF Now
      <4>2. r # "ok" => "party" \in blamed'
        BY <2>1, <4>1, Blames
      <4>3. r = "ok" => "partyID" \in known'
        BY <1>4, <4>1 DEF Returns
      <4> QED
        BY <4>2, <4>3
    <3>3. CASE g # 4
      BY <1>at, <2>4, <3>3
    <3>4. g = 4 => i \in 1 .. 10
      <4> DEFINE n == Len(Groups[g])
      <4>1. i \in 1 .. 11 /\ i <= n
        BY <1>at, <1>1 DEF Places
      <4>2. g = 4 => n = 10
        BY GroupsAre, PartySteps
      <4> HIDE DEF i, g, n
      <4> QED
        BY <4>1, <4>2
    <3> QED
      BY <1>at, <3>1, <3>2, <3>3, <3>4
  <2>party. "party" \in holds' => "party" \in blamed' \/ (at'[1] = 4 /\ at'[2] \in 2 .. 10)
    <3>1. CASE "party" \in blamed
      BY <1>2, <3>1
    <3>2. CASE g = 4 /\ i \in {1, 2, 10} /\ r = "err"
      <4>1. m = Groups[4][i].call
        BY <3>2 DEF Now
      <4> QED
        BY <2>1, <3>2, <4>1, Blames
    <3>3. CASE g = 4 /\ i \in 1 .. 9 /\ ~(i \in {1, 2} /\ r = "err")
      <4>1. r # "err" \/ ~Now.must
        BY <3>3, GroupsAre, PartyTries DEF Now
      <4>2. at' = <<g, i + 1>>
        BY <2>5, <3>3, <4>1, GroupsAre, PartySteps
      <4> QED
        BY <3>3, <4>2
    <3>4. CASE g = 4 /\ i = 10 /\ r # "err" /\ "party" \notin blamed
      <4>1. m = "LeaveParty"
        BY <3>4, GroupsAre, PartySteps DEF Now
      <4>2. "partyID" \in known
        BY <1>1, <3>4 DEF HoldInv
      <4>3. /\ "party" \in Removed(Service(m)) /\ "party" \notin Added(Service(m))
            /\ m \notin SuccessUnread
        BY <1>1, <4>1, <4>2, Takes, Gives DEF SuccessUnread
      <4> QED
        BY <2>3, <3>4, <4>3
    <3>5. CASE "party" \notin blamed /\ ~(g = 4 /\ i \in 1 .. 10)
      <4>1. "party" \notin holds
        BY <1>1, <3>5 DEF HoldInv
      <4>2. "party" \notin Added(Service(m))
        BY <1>1, <3>5, Gives, PlacesOf
      <4> QED
        BY <2>2, <4>1, <4>2
    <3> QED
      BY <1>at, <3>1, <3>2, <3>3, <3>4, <3>5
  <2> QED
    BY <2>club, <2>queue, <2>registration, <2>id, <2>party DEF HoldInv
<1> QED
  BY <1>3, <1>4, StepShape DEF Panic

LEMMA RequestStepOK == RequestInv /\ [RequestNext]_requestVars => RequestInv'
<1>1. ASSUME RequestInv, RequestNext PROVE RequestInv'
  BY <1>1, TypeStepOK, CalledStepOK, HoldStepOK DEF RequestInv
<1>2. ASSUME RequestInv, UNCHANGED requestVars PROVE RequestInv'
  BY <1>2 DEF requestVars, RequestInv, RequestTypeOK, HoldInv, CalledInv, Before
<1> QED
  BY <1>1, <1>2

\* At the end the program is in its last group, past everything it had to undo.
LEMMA NothingLeft == RequestInv => LeftoverExplained
<1> SUFFICES ASSUME RequestInv, over = "end"
             PROVE  \A x \in holds : x \in {"search", "otherClub"} \/ x \in blamed
  BY DEF LeftoverExplained
<1>1. at[1] = 14
  BY DEF RequestInv
<1>2. \A x \in {"club", "queue", "party", "registration"} : x \in holds => x \in blamed
  BY <1>1 DEF RequestInv, HoldInv
<1> QED
  BY <1>2 DEF RequestInv, RequestTypeOK

LEMMA NothingLeftOut == RequestInv => ExecutesAll
<1> SUFFICES ASSUME RequestInv, over = "end", smooth
             PROVE  called \cup {"GetShopCatalogue"} = Methods \ NotCalled
  BY DEF ExecutesAll, NotCalled
<1>1. \A c \in Methods \ NotCalled : c \in called \cup {"GetShopCatalogue"}
  BY AllCalled DEF RequestInv, CalledInv
<1>2. "GetShopCatalogue" \in Methods \ NotCalled
  <2>1. <<8, 2>> \in Places /\ CallAt(<<8, 2>>) = "GetShopCatalogue"
    BY GroupsAre, ShopSteps DEF Places, CallAt
  <2> QED
    BY <2>1, AllCalled
<1> QED
  BY <1>1, <1>2 DEF RequestInv

(***************************************************************************)
(* The programs, one at a time.                                            *)
(***************************************************************************)
ProgramInv == IInv /\ VersionInv /\ RequestInv /\ ShopInv

LEMMA ProgramInitOK == ProgramInit => ProgramInv
<1> SUFFICES ASSUME ProgramInit PROVE ProgramInv
  OBVIOUS
<1>1. NothingYet
  BY DEF ProgramInit, Init
<1>2. IInv
  <2>1. CASE Init
    BY <2>1, InitOK
  <2>2. CASE program = Cast("setup", "setup") /\ pc = [c \in Callers |-> "in"]
    <3> USE NamesAssumption, LimitsAssumption, SetupAssumption, <1>1, <2>2 DEF NothingYet
    <3>1. TypeOK
      BY DEF TypeOK, Fields, Blank, Torn, Url
    <3>2. HandInv /\ SavedTokenLives
      BY DEF HandInv, Saving, SavedTokenLives, Blank
    <3> QED
      BY <3>1, <3>2 DEF IInv
  <2> QED
    BY <2>1, <2>2 DEF ProgramInit
<1> QED
  BY <1>1, <1>2, VersionInitOK, RequestInitOK, ShopInitOK DEF ProgramInit, ProgramInv

\* A step of one part is a stuttering step of the others.
LEMMA ProgramStepOK == ProgramInv /\ [ProgramNext]_programVars => ProgramInv'
<1>1. ASSUME [ProgramNext]_programVars
      PROVE  [Next]_vars /\ [RequestNext]_requestVars /\ [ShopNext]_shopVars
  BY <1>1 DEF ProgramNext, SigningIn, Finished, programVars
<1>2. IInv /\ VersionInv /\ [Next]_vars => VersionInv'
  BY VersionStep DEF IInv
<1> QED
  BY <1>1, <1>2, StepOK, RequestStepOK, ShopStepOK DEF ProgramInv

LEMMA ProgramsKeep == ProgramSpec => []ProgramInv
BY ProgramInitOK, ProgramStepOK, PTL DEF ProgramSpec

\* Whichever program runs, the variables keep to their domains, and allrequests has a next
\* step, in a group and in the list of groups, until it ends (allrequests/main.go:15-91).
THEOREM ProgramsTyped == ProgramSpec => []ProgramsTypeOK
<1>1. ProgramInv => ProgramsTypeOK
  BY DEF ProgramInv, IInv, RequestInv, ShopInv, ProgramsTypeOK
<1> QED
  BY <1>1, ProgramsKeep, PTL

\* Whatever the answers, wherever the context ends or the connection fails: what the program
\* has created and not undone at its end is what a failed call has kept it from undoing
\* (allrequests/main.go:125-255, 437-470).
THEOREM LeftoversHaveCauses == ProgramSpec => []LeftoverExplained
<1>1. ProgramInv => LeftoverExplained
  BY NothingLeft DEF ProgramInv
<1> QED
  BY <1>1, ProgramsKeep, PTL

\* A run in which no call fails has called every wrapper but two, and possibly not the
\* catalogue of no shops (allrequests/main.go:14-91).
THEOREM AllExecuted == ProgramSpec => []ExecutesAll
<1>1. ProgramInv => ExecutesAll
  BY NothingLeftOut DEF ProgramInv
<1> QED
  BY <1>1, ProgramsKeep, PTL

\* What is proved of the parts by themselves holds of each program: the saved token lives, a
\* sign-in reads one version, reports of the item shop have causes.
THEOREM ProgramsSafe == ProgramSpec => [](SavedTokenLives /\ OneVersion /\ AlarmsExplained)
<1>1. ProgramInv => SavedTokenLives /\ OneVersion /\ AlarmsExplained
  BY OneVersionSeen, ReportsCaused DEF ProgramInv, IInv
<1> QED
  BY <1>1, ProgramsKeep, PTL
================================================================================
