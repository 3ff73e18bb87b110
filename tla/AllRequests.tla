------------------------------ MODULE AllRequests ------------------------------
(***************************************************************************)
(* examples/allrequests: a program that calls nearly every wrapper, group  *)
(* by group, over one connection and under one context of 30 s. Some       *)
(* groups create a club, a queue entry, a party or a registration, and     *)
(* undo it later. PsyNet, which keeps these, is part of the model.         *)
(***************************************************************************)
EXTENDS Services, Integers, Sequences, FiniteSets

VARIABLES
    at,      \* the group, and the step in it, that comes next
    late,    \* is the context done
    link,    \* "up", "down"
    known,   \* what the answers have given: lists that are not empty, the party id
    holds,   \* PsyNet: what the player has or is in
    blamed,  \* not in the code: what a failure has kept from being undone
    called,  \* not in the code: the calls so far, if none has failed
    smooth,
    over     \* "no", "end", "panic"

requestVars == <<at, late, link, known, holds, blamed, called, smooth, over>>

(***************************************************************************)
(* The groups. An error ends the group at a Must, and is logged at a Try.  *)
(* An index expression panics if the list it needs is empty.               *)
(***************************************************************************)
Step(m, must, list, empty) == [call |-> m, must |-> must, list |-> list, empty |-> empty]
Must(m)            == Step(m, TRUE, "none", "none")
Try(m)             == Step(m, FALSE, "none", "none")
MustIndex(m, list) == Step(m, TRUE, list, "panic")
TryIndex(m, list)  == Step(m, FALSE, list, "panic")
MustIfAny(m, list) == Step(m, TRUE, list, "skip")

allChallenges == <<
    Must("GetActiveChallenges"), Must("GetChallengeProgress"),
    MustIndex("CollectChallengeReward", "challenges"),
    Try("FTECheckpointComplete"), Try("FTEGroupComplete")>>

allClubs == <<
    Must("CreateClub"), Must("GetClubDetails"), Must("GetClubInvites"),
    Must("GetClubTitleInstances"), Must("GetClubStats"), Must("UpdateClub"),
    Must("InviteToClub"), Must("GetPlayerClubDetails"), Must("LeaveClub"),
    Try("AcceptClubInvite"), Try("RejectClubInvite")>>

allMatchmaking == <<
    Must("StartMatchmaking"), Must("PlayerCancelMatchmaking"),
    Must("PlayerSearchPrivateMatch")>>

\* (Mutated: the party is joined after it was left.)
allPartyRejoins == <<
    Must("CreateParty"), Must("GetPlayerPartyInfo"), Try("SendPartyInvite"),
    Try("SendPartyJoinRequest"), Try("ChangePartyOwner"), Try("KickPartyMembers"),
    Try("SendPartyChatMessage"), Try("SendPartyMessage"), Try("LeaveParty"), Try("JoinParty")>>
allParty == <<
    Must("CreateParty"), Must("GetPlayerPartyInfo"), Try("SendPartyInvite"),
    Try("SendPartyJoinRequest"), Try("ChangePartyOwner"), Try("KickPartyMembers"),
    Try("SendPartyChatMessage"), Try("SendPartyMessage"), Try("JoinParty"), Try("LeaveParty")>>

allPlayers == <<
    Must("GetBanStatus"), Must("GetProfiles"), Must("GetXP"), Try("GetCreatorCode"),
    Try("ReportPlayer")>>

allSkills == <<
    Must("GetPlayerSkill"), Must("GetPlayersSkills"), Must("GetSkillLeaderboard"),
    Must("GetSkillLeaderboardValueForUser"), Must("GetSkillLeaderboardRankForUsers")>>

allStats == <<
    Must("GetStatLeaderboard"), Must("GetStatLeaderboardValueForUser"),
    Must("GetStatLeaderboardRankForUsers")>>

allShops == <<
    Must("GetStandardShops"), MustIfAny("GetShopCatalogue", "shops"),
    Must("GetPlayerWallet"), Must("GetShopNotifications")>>

allProducts == <<
    Must("GetPlayerProducts"), Must("GetContainerDropTable"), Try("UnlockContainer"),
    Try("TradeIn"), Must("GetCrossEntitlementProductStatus")>>

allMTX == <<Must("GetMTXCatalog"), Try("StartMTXPurchase"), Try("ClaimMTXEntitlements")>>

allRocketPass == <<
    Must("GetRocketPassPlayerInfo"), Must("GetRocketPassRewardContent"),
    Must("GetRocketPassPrestigeRewards")>>

allTournaments == <<
    Must("GetTournamentScheduleRegion"), Must("GetTournamentCycleData"),
    Must("GetTournamentSchedule"), Try("GetPublicTournaments"),
    TryIndex("RegisterTournament", "schedule"), Try("UnsubscribeTournament"),
    Try("GetTournamentSubscriptions")>>

\* (Mutated: the second call is left out.)
allTrainingHalf == <<Must("BrowseTrainingData")>>
allTraining     == <<Must("BrowseTrainingData"), Try("GetTrainingMetadata")>>

allMisc == <<
    Try("GetTradeInFilters"), Try("GetClubPrivateMatches"), Try("GetGameServerPingList"),
    Try("GetMatchHistory"), Must("GetSubRegions"), Must("GetActivePlaylists"),
    Must("GetPopulation"), Must("UpdatePlayerPlaylist"), Try("JoinMatch"),
    Try("FilterContent"), Try("CanShowAvatar")>>

Groups == <<
    allChallenges, allClubs, allMatchmaking, allParty, allPlayers, allSkills, allStats,
    allShops, allProducts, allMTX, allRocketPass, allTournaments, allTraining, allMisc>>

RequestInit ==
    /\ at = <<1, 1>> /\ late = FALSE /\ link = "up" /\ over = "no"
    /\ known = {} /\ holds = {} /\ blamed = {} /\ called = {} /\ smooth = TRUE

Now     == Groups[at[1]][at[2]]
Lacking == Now.list # "none" /\ Now.list \notin known
Running == over = "no"

(***************************************************************************)
(* PsyNet: which services give the player something or take it away. A     *)
(* party is named by its id.                                               *)
(***************************************************************************)
Service(m) == WrapperOf(m).service

Added(s) ==
    CASE s = "Clubs/CreateClub_v1"                              -> {"club"}
      [] s = "Clubs/AcceptClubInvite_v2"                        -> {"otherClub"}
      [] s = "Matchmaking/StartMatchmaking_v2"                  -> {"queue"}
      [] s = "Matchmaking/PlayerSearchPrivateMatch_v1"          -> {"search"}
      [] s = "Party/CreateParty_v1"                             -> {"party"}
      [] s = "Party/JoinParty_v1" /\ "partyID" \in known        -> {"party"}
      [] s = "Tournaments/Registration/RegisterTournament_v1"   -> {"registration"}
      [] OTHER                                                  -> {}
Removed(s) ==
    CASE s = "Clubs/LeaveClub_v1"                                -> {"club", "otherClub"}
      [] s = "Matchmaking/PlayerCancelMatchmaking_v1"            -> {"queue"}
      [] s = "Party/LeaveParty_v1" /\ "partyID" \in known        -> {"party"}
      [] s = "Tournaments/Registration/UnsubscribeTournament_v1" -> {"registration"}
      [] OTHER                                                   -> {}
Serve(m) == holds' = (holds \ Removed(Service(m))) \cup Added(Service(m))

\* What an answer tells; a list may turn out empty.
Told(m) == CASE m = "GetActiveChallenges"   -> {{}, {"challenges"}}
             [] m = "GetStandardShops"      -> {{}, {"shops"}}
             [] m = "GetTournamentSchedule" -> {{}, {"schedule"}}
             [] m = "CreateParty"           -> {{"partyID"}}
             [] OTHER                       -> {{}}

(***************************************************************************)
(* A call and what comes of it.                                            *)
(***************************************************************************)
\* The next step: the next in the group, or the first of the next group.
Following(newGroup) ==
    IF newGroup \/ at[2] = Len(Groups[at[1]])
    THEN IF at[1] = Len(Groups) THEN over' = "end" /\ at' = at
                                ELSE at' = <<at[1] + 1, 1>> /\ over' = over
    ELSE at' = <<at[1], at[2] + 1>> /\ over' = over

\* What is kept from being undone when m fails, or CreateParty returns no id.
UndoneBy(m, r) ==
    CASE m \in {s.call : s \in {allClubs[i] : i \in 1 .. 9}} /\ r = "err" -> {"club"}
      [] m \in {"StartMatchmaking", "PlayerCancelMatchmaking"} /\ r = "err" -> {"queue"}
      [] m \in {"GetPlayerPartyInfo", "LeaveParty"} /\ r = "err" -> {"party"}
      [] m = "CreateParty" /\ r # "ok" -> {"party"}
      [] m = "UnsubscribeTournament" /\ r = "err" -> {"registration"}
      [] OTHER -> {}

Return(r) ==
    /\ smooth' = (smooth /\ r # "err")
    /\ called' = (IF smooth' THEN called \cup {Now.call} ELSE {})
    /\ blamed' = blamed \cup UndoneBy(Now.call, r)
    /\ Following(r = "err" /\ Now.must)

Panic == over' = "panic" /\ UNCHANGED <<at, blamed, called, smooth>>

Skip ==
    /\ Running /\ Lacking /\ Now.empty = "skip"
    /\ Following(FALSE)
    /\ UNCHANGED <<late, link, known, holds, blamed, called, smooth>>

IndexPanics ==
    /\ Running /\ Lacking /\ Now.empty = "panic"
    /\ Panic
    /\ UNCHANGED <<late, link, known, holds>>

Calling == Running /\ ~Lacking

\* An answer is received, be it that the context is done as well.
Answered ==
    /\ Calling /\ link = "up"
    /\ \E reply \in Replies(Now.call) :
          /\ IF reply \in {"error", "unsuccessful"} THEN UNCHANGED holds ELSE Serve(Now.call)
          /\ IF reply = "result" THEN \E new \in Told(Now.call) : known' = known \cup new
                                 ELSE UNCHANGED known
          /\ Return(Returned(Now.call, reply))
    /\ UNCHANGED <<late, link>>

\* No readable answer before the context is done. It is looked at only after the request
\* was written, which PsyNet may serve; the closed channel may be read first.
Expires ==
    /\ Calling /\ link = "up"
    /\ late' = TRUE
    /\ Serve(Now.call) \/ UNCHANGED holds
    /\ Return("err") \/ Panic
    /\ UNCHANGED <<link, known>>

\* The connection fails during the call: before the request is written, or after that, when
\* Close closes the channel that is waited on.
Breaks ==
    /\ Calling /\ link = "up"
    /\ link' = "down"
    /\ \/ Return("err") /\ UNCHANGED holds
       \/ Panic /\ (Serve(Now.call) \/ UNCHANGED holds)
    /\ UNCHANGED <<late, known>>

NotConnected ==
    /\ Calling /\ link = "down"
    /\ Return("err")
    /\ UNCHANGED <<late, link, known, holds>>

RequestNext == Skip \/ IndexPanics \/ Answered \/ Expires \/ Breaks \/ NotConnected

(***************************************************************************)
(* Properties.                                                             *)
(***************************************************************************)
\* There is a next step, and everything else keeps to its domain.
RequestTypeOK ==
    /\ at[1] \in 1 .. Len(Groups) /\ at[2] \in 1 .. Len(Groups[at[1]])
    /\ link \in {"up", "down"} /\ over \in {"no", "end", "panic"}
    /\ {late, smooth} \subseteq BOOLEAN
    /\ known \subseteq {"challenges", "shops", "schedule", "partyID"}
    /\ holds \subseteq {"club", "otherClub", "queue", "search", "party", "registration"}
    /\ blamed \subseteq {"club", "queue", "party", "registration"}
    /\ called \subseteq Methods

\* The program undoes what it does: a club, a queue entry, a party or a registration that is
\* left at its end is one that a failed call kept it from undoing. (A search for a
\* private match and a club joined by invitation are never left.)
\* allrequests/main.go:125-255, 437-470, and the wrappers it calls.
LeftoverExplained ==
    over = "end" => (holds \ {"search", "otherClub"}) \subseteq blamed

\* When no call fails every wrapper has been executed, but for two that the program
\* leaves out (allrequests/main.go:14-91).
ExecutesAll ==
    over = "end" /\ smooth =>
        called \cup {"GetShopCatalogue"} = Methods \ {"RecordMetrics", "RelayToServer"}
===============================================================================
