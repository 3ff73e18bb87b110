------------------------------- MODULE Services -------------------------------
(***************************************************************************)
(* The API wrappers: the methods of PsyNetRPC in challenges.go, clubs.go,  *)
(* .., one table per file. A wrapper fills a request, calls               *)
(* sendRequestSync with the name of a service, and returns what it has     *)
(* decoded. The contents of requests and results are left out; what counts *)
(* is who is asked, and what becomes of an answer that is not as expected. *)
(***************************************************************************)

\* A method, the service it asks for (the code has a space before its version), and what
\* it does with the answer:
Wrapper(m, s, r) == [method |-> m, service |-> s, result |-> r]
Typed(m, s)  == Wrapper(m, s, "typed")     \* decodes a struct, returns all or a part of it
Passed(m, s) == Wrapper(m, s, "passed")    \* decodes an interface{}, returns it as it is
Acked(m, s)  == Wrapper(m, s, "acked")     \* decodes an interface{}, drops it

Challenges == {
    Typed("GetActiveChallenges", "Challenges/GetActiveChallenges_v1"),
    Typed("GetChallengeProgress", "Challenges/PlayerProgress_v1"),
    Acked("CollectChallengeReward", "Challenges/CollectReward_v1"),
    Acked("FTECheckpointComplete", "Challenges/FTECheckpointComplete_v1"),
    Acked("FTEGroupComplete", "Challenges/FTEGroupComplete_v1")}

Clubs == {
    Typed("GetClubDetails", "Clubs/GetClubDetails_v1"),
    Typed("GetPlayerClubDetails", "Clubs/GetPlayerClubDetails_v2"),
    Typed("CreateClub", "Clubs/CreateClub_v1"),
    Typed("UpdateClub", "Clubs/UpdateClub_v2"),
    Typed("GetClubStats", "Clubs/GetStats_v1"),
    Typed("GetClubTitleInstances", "Clubs/GetClubTitleInstances_v1"),
    Acked("LeaveClub", "Clubs/LeaveClub_v1"),
    Typed("GetClubInvites", "Clubs/GetClubInvites_v1"),
    Acked("InviteToClub", "Clubs/InviteToClub_v4"),
    Typed("AcceptClubInvite", "Clubs/AcceptClubInvite_v2"),
    Acked("RejectClubInvite", "Clubs/RejectClubInvite_v1")}

Party == {
    Typed("GetPlayerPartyInfo", "Party/GetPlayerPartyInfo_v1"),
    Typed("CreateParty", "Party/CreateParty_v1"),
    Typed("JoinParty", "Party/JoinParty_v1"),
    Acked("LeaveParty", "Party/LeaveParty_v1"),
    Acked("SendPartyInvite", "Party/SendPartyInvite_v2"),
    Acked("SendPartyJoinRequest", "Party/SendPartyJoinRequest_v1"),
    Typed("ChangePartyOwner", "Party/ChangePartyOwner_v1"),
    Acked("KickPartyMembers", "Party/KickPartyMembers_v1"),
    Typed("SendPartyChatMessage", "Party/SendPartyChatMessage_v1"),
    Typed("SendPartyMessage", "Party/SendPartyMessage_v1")}

Matchmaking == {
    Typed("StartMatchmaking", "Matchmaking/StartMatchmaking_v2"),
    Acked("PlayerCancelMatchmaking", "Matchmaking/PlayerCancelMatchmaking_v1"),
    Acked("PlayerSearchPrivateMatch", "Matchmaking/PlayerSearchPrivateMatch_v1")}

Misc == {
    Typed("GetSubRegions", "Regions/GetSubRegions_v1"),
    Typed("GetGameServerPingList", "GameServer/GetGameServerPingList_v2"),
    Typed("GetClubPrivateMatches", "GameServer/GetClubPrivateMatches_v1"),
    Passed("JoinMatch", "Reservations/JoinMatch_v1"),
    Typed("FilterContent", "Filters/FilterContent_v1"),
    Acked("RecordMetrics", "Metrics/RecordMetrics_v1"),
    Typed("GetTradeInFilters", "Drop/GetTradeInFilters_v1"),
    Acked("RelayToServer", "DSR/RelayToServer_v1"),
    Typed("CanShowAvatar", "Users/CanShowAvatar_v1")}

Playlists == {
    Typed("GetActivePlaylists", "Playlists/GetActivePlaylists_v2")}

Population == {
    Typed("GetPopulation", "Population/GetPopulation_v1"),
    Acked("UpdatePlayerPlaylist", "Population/UpdatePlayerPlaylist_v1")}

Tournaments == {
    Typed("GetTournamentScheduleRegion", "Tournaments/Status/GetScheduleRegion_v1"),
    Typed("GetTournamentCycleData", "Tournaments/Status/GetCycleData_v1"),
    Typed("GetTournamentSchedule", "Tournaments/Search/GetSchedule_v1"),
    Typed("GetPublicTournaments", "Tournaments/Search/GetPublicTournaments_v1"),
    Typed("RegisterTournament", "Tournaments/Registration/RegisterTournament_v1"),
    Acked("UnsubscribeTournament", "Tournaments/Registration/UnsubscribeTournament_v1"),
    Passed("GetTournamentSubscriptions", "Tournaments/Status/GetTournamentSubscriptions_v1")}

Products == {
    Typed("GetPlayerProducts", "Products/GetPlayerProducts_v2"),
    Typed("GetContainerDropTable", "Products/GetContainerDropTable_v2"),
    Typed("UnlockContainer", "Products/UnlockContainer_v2"),
    Typed("TradeIn", "Products/TradeIn_v2"),
    Typed("GetCrossEntitlementProductStatus", "Products/CrossEntitlement/GetProductStatus_v1")}

RocketPass == {
    Typed("GetRocketPassPlayerInfo", "RocketPass/GetPlayerInfo_v2"),
    Typed("GetRocketPassRewardContent", "RocketPass/GetRewardContent_v1"),
    Typed("GetRocketPassPrestigeRewards", "RocketPass/GetPlayerPrestigeRewards_v1")}

MTX == {
    Typed("GetMTXCatalog", "Microtransaction/GetCatalog_v1"),
    Acked("StartMTXPurchase", "Microtransaction/StartPurchase_v1"),
    Typed("ClaimMTXEntitlements", "Microtransaction/ClaimEntitlements_v2")}

Shops == {
    Typed("GetStandardShops", "Shops/GetStandardShops_v1"),
    Typed("GetShopCatalogue", "Shops/GetShopCatalogue_v2"),
    Typed("GetPlayerWallet", "Shops/GetPlayerWallet_v1"),
    Typed("GetShopNotifications", "Shops/GetShopNotifications_v1")}

Players == {
    Typed("GetBanStatus", "Players/GetBanStatus_v3"),
    Typed("GetProfiles", "Players/GetProfile_v1"),
    Typed("GetXP", "Players/GetXP_v1"),
    Typed("GetCreatorCode", "Players/GetCreatorCode_v1"),
    Acked("ReportPlayer", "Players/Report_v4")}

Skills == {
    Typed("GetPlayerSkill", "Skills/GetPlayerSkill_v1"),
    Typed("GetPlayersSkills", "Skills/GetPlayersSkills_v1"),
    Typed("GetSkillLeaderboard", "Skills/GetSkillLeaderboard_v1"),
    Typed("GetSkillLeaderboardValueForUser", "Skills/GetSkillLeaderboardValueForUser_v1"),
    Typed("GetSkillLeaderboardRankForUsers", "Skills/GetSkillLeaderboardRankForUsers_v1")}

Stats == {
    Typed("GetStatLeaderboard", "Stats/GetStatLeaderboard_v1"),
    Typed("GetStatLeaderboardValueForUser", "Stats/GetStatLeaderboardValueForUser_v1"),
    Typed("GetStatLeaderboardRankForUsers", "Stats/GetStatLeaderboardRankForUsers_v1")}

Matches == {
    Typed("GetMatchHistory", "Matches/GetMatchHistory_v1")}

Training == {
    Typed("BrowseTrainingData", "Training/BrowseTrainingData_v1"),
    Typed("GetTrainingMetadata", "Training/GetTrainingMetadata_v1")}

Wrappers ==
    Challenges \cup Clubs \cup Party \cup Matchmaking \cup Misc \cup Playlists \cup Population
    \cup Tournaments \cup Products \cup RocketPass \cup MTX \cup Shops \cup Players \cup Skills
    \cup Stats \cup Matches \cup Training

Methods      == {w.method : w \in Wrappers}
WrapperOf(m) == CHOOSE w \in Wrappers : w.method = m

\* The wrappers that decode a Success, and do not look at it.
SuccessUnread == {"AcceptClubInvite", "SendPartyChatMessage", "SendPartyMessage"}

\* What PsyNet may answer to m: a result as expected, one that says it was no success, null,
\* something of another type, no Result at all, or an Error.
Replies(m) == {"result", "null", "mistyped", "missing", "error"}
              \cup (IF m \in SuccessUnread THEN {"unsuccessful"} ELSE {})

\* What the caller of m gets: the result, zero values without an error, or an error.
\* Decoding null succeeds and changes nothing; decoding nothing fails.
Returned(m, reply) ==
    CASE reply \in {"result", "unsuccessful"}   -> "ok"
      [] reply = "null"                         -> "zero"
      [] reply = "mistyped"                     ->
             IF WrapperOf(m).result = "typed" THEN "err" ELSE "ok"
      [] reply \in {"missing", "error"}         -> "err"
===============================================================================
