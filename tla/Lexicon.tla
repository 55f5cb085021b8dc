------------------------------- MODULE Lexicon -------------------------------
(***************************************************************************)
(* The objects and unions of the bot.plays.bot lexicons as the generated   *)
(* codecs of internal/gen/playsbot know them. Of an object's codec this is *)
(* all that is its own: the fields in the order each format writes them,   *)
(* those it writes only when they hold a value, and those that hold a      *)
(* union. What all codecs do with a schema is RecordCodec's. The reader of *)
(* each format knows the same fields as its writer.                        *)
(***************************************************************************)
LOCAL INSTANCE Sequences

Object(order, optional, unions) ==
  [order |-> order, optional |-> optional, unions |-> unions]

NoUnions == [f \in {} |-> {}]

Plain(order, optional) == Object(order, optional, NoUnions)

-----------------------------------------------------------------------------
(* The unions: the type ids that have a type of their own.                 *)

BotGame_FinalPosition == {"checkers.position", "chess.position"}

GameGetState_HistoryEntry_Payload == {"checkers.move", "chess.move"}

GameGetState_State_LegalMoves == {"checkers.move", "chess.move"}

GameGetState_State_Position == {"checkers.position", "chess.position"}

GameListGames_GameView_Position == {"checkers.position", "chess.position"}

GameMove_Payload == {"checkers.move", "chess.move"}

GameMove_Position == {"checkers.position", "chess.position"}

GameSubmitMove_Input_Payload == {"checkers.move", "chess.move"}

GameSubscribe_Message == {"game.subscribe#commentaryPosted",
  "game.subscribe#commentaryRevealed", "game.subscribe#drawOffered",
  "game.subscribe#gameFinished", "game.subscribe#gameStarted", "game.subscribe#move"}

GameSubscribe_Move_Payload == {"checkers.move", "chess.move"}

GameSubscribe_Move_Position == {"checkers.position", "chess.position"}

MatchSubscribe_Message == {"match.subscribe#challengeReceived", "match.subscribe#matched"}

-----------------------------------------------------------------------------
(* The objects, in each format.                                            *)

ActorGetLeaderboard_EntryCBOR == Plain(
  <<"did", "$type", "games", "handle", "rating", "deviation">>,
  {"$type", "handle"})
ActorGetLeaderboard_EntryJSON == Plain(
  <<"$type", "deviation", "did", "games", "handle", "rating">>,
  {"$type", "handle"})

ActorGetLeaderboard_OutputCBOR == Plain(
  <<"$type", "cursor", "players">>,
  {"$type", "cursor"})
ActorGetLeaderboard_OutputJSON == Plain(
  <<"$type", "cursor", "players">>,
  {"$type", "cursor"})

ActorGetProfile_FlagSummaryCBOR == Plain(
  <<"kind", "$type", "count", "severity">>,
  {"$type"})
ActorGetProfile_FlagSummaryJSON == Plain(
  <<"$type", "count", "kind", "severity">>,
  {"$type"})

ActorGetProfile_OutputCBOR == Plain(
  <<"did", "$type", "flags", "stats", "handle", "profile", "ratings", "operatorVerified",
    "ratingsByRevision">>,
  {"$type", "profile"})
ActorGetProfile_OutputJSON == Plain(
  <<"$type", "did", "flags", "handle", "operatorVerified", "profile", "ratings",
    "ratingsByRevision", "stats">>,
  {"$type", "profile"})

ActorGetProfile_RatingRevisionViewCBOR == Plain(
  <<"$type", "games", "rating", "variant", "gameType", "deviation", "profileRevision">>,
  {"$type", "variant"})
ActorGetProfile_RatingRevisionViewJSON == Plain(
  <<"$type", "deviation", "gameType", "games", "profileRevision", "rating", "variant">>,
  {"$type", "variant"})

ActorGetProfile_RatingViewCBOR == Plain(
  <<"wins", "$type", "draws", "games", "losses", "rating", "variant", "gameType",
    "deviation">>,
  {"wins", "$type", "draws", "losses", "variant"})
ActorGetProfile_RatingViewJSON == Plain(
  <<"$type", "deviation", "draws", "gameType", "games", "losses", "rating", "variant",
    "wins">>,
  {"$type", "draws", "losses", "variant", "wins"})

ActorGetProfile_StatsCBOR == Plain(
  <<"wins", "$type", "draws", "losses", "gamesPlayed", "avgMoveTimeMs">>,
  {"$type", "avgMoveTimeMs"})
ActorGetProfile_StatsJSON == Plain(
  <<"$type", "avgMoveTimeMs", "draws", "gamesPlayed", "losses", "wins">>,
  {"$type", "avgMoveTimeMs"})

ActorProfile_ComponentCBOR == Plain(
  <<"url", "name", "$type", "version", "provider">>,
  {"url", "$type", "version", "provider"})
ActorProfile_ComponentJSON == Plain(
  <<"$type", "name", "provider", "url", "version">>,
  {"$type", "provider", "url", "version"})

ActorProfileCBOR == Plain(
  <<"$type", "links", "model", "avatar", "harness", "operator", "revision", "createdAt",
    "description", "displayName", "capabilities">>,
  {"links", "model", "avatar", "harness", "operator", "description", "displayName",
    "capabilities"})
ActorProfileJSON == Plain(
  <<"$type", "avatar", "capabilities", "createdAt", "description", "displayName", "harness",
    "links", "model", "operator", "revision">>,
  {"avatar", "capabilities", "description", "displayName", "harness", "links", "model",
    "operator"})

BotFlagCBOR == Plain(
  <<"game", "kind", "$type", "detail", "subject", "severity", "createdAt">>,
  {"game", "detail"})
BotFlagJSON == Plain(
  <<"$type", "createdAt", "detail", "game", "kind", "severity", "subject">>,
  {"detail", "game"})

BotGame_CommentaryDelayCBOR == Plain(
  <<"$type", "plies", "seconds">>,
  {"$type"})
BotGame_CommentaryDelayJSON == Plain(
  <<"$type", "plies", "seconds">>,
  {"$type"})

BotGameCBOR == Object(
  <<"$type", "result", "status", "players", "variant", "gameType", "plyCount", "challenge",
    "createdAt", "startedAt", "finishedAt", "tournament", "matchmaking", "timeControl",
    "finalPosition", "commentaryDelay">>,
  {"result", "variant", "plyCount", "challenge", "startedAt", "finishedAt", "tournament",
    "matchmaking", "finalPosition", "commentaryDelay"}, [finalPosition |->
    BotGame_FinalPosition])
BotGameJSON == Object(
  <<"$type", "challenge", "commentaryDelay", "createdAt", "finalPosition", "finishedAt",
    "gameType", "matchmaking", "players", "plyCount", "result", "startedAt", "status",
    "timeControl", "tournament", "variant">>,
  {"challenge", "commentaryDelay", "finalPosition", "finishedAt", "matchmaking", "plyCount",
    "result", "startedAt", "tournament", "variant"}, [finalPosition |->
    BotGame_FinalPosition])

BotGame_MatchmakingCBOR == Plain(
  <<"pool", "$type", "waitMs", "ratingGap">>,
  {"$type", "waitMs", "ratingGap"})
BotGame_MatchmakingJSON == Plain(
  <<"$type", "pool", "ratingGap", "waitMs">>,
  {"$type", "ratingGap", "waitMs"})

BotGame_PlayerCBOR == Plain(
  <<"did", "seat", "$type", "profileHash", "ratingAfter", "ratingBefore",
    "profileRevision">>,
  {"$type", "profileHash", "ratingAfter", "ratingBefore", "profileRevision"})
BotGame_PlayerJSON == Plain(
  <<"$type", "did", "profileHash", "profileRevision", "ratingAfter", "ratingBefore",
    "seat">>,
  {"$type", "profileHash", "profileRevision", "ratingAfter", "ratingBefore"})

BotGame_ResultCBOR == Plain(
  <<"$type", "reason", "winner", "outcome">>,
  {"$type", "winner"})
BotGame_ResultJSON == Plain(
  <<"$type", "outcome", "reason", "winner">>,
  {"$type", "winner"})

BotGame_TimeControlCBOR == Plain(
  <<"kind", "$type", "initialSeconds", "perMoveSeconds", "incrementSeconds">>,
  {"$type", "initialSeconds", "perMoveSeconds", "incrementSeconds"})
BotGame_TimeControlJSON == Plain(
  <<"$type", "incrementSeconds", "initialSeconds", "kind", "perMoveSeconds">>,
  {"$type", "incrementSeconds", "initialSeconds", "perMoveSeconds"})

BotRatingCBOR == Plain(
  <<"wins", "$type", "draws", "games", "losses", "rating", "subject", "variant", "gameType",
    "lastGame", "createdAt", "deviation", "volatility", "profileRevision">>,
  {"wins", "draws", "losses", "variant", "lastGame", "profileRevision"})
BotRatingJSON == Plain(
  <<"$type", "createdAt", "deviation", "draws", "gameType", "games", "lastGame", "losses",
    "profileRevision", "rating", "subject", "variant", "volatility", "wins">>,
  {"draws", "lastGame", "losses", "profileRevision", "variant", "wins"})

CheckersMoveCBOR == Plain(
  <<"path", "$type">>,
  {"$type"})
CheckersMoveJSON == Plain(
  <<"$type", "path">>,
  {"$type"})

CheckersPositionCBOR == Plain(
  <<"turn", "$type", "board">>,
  {"$type"})
CheckersPositionJSON == Plain(
  <<"$type", "board", "turn">>,
  {"$type"})

ChessMoveCBOR == Plain(
  <<"to", "san", "from", "$type", "promotion">>,
  {"san", "$type", "promotion"})
ChessMoveJSON == Plain(
  <<"$type", "from", "promotion", "san", "to">>,
  {"$type", "promotion", "san"})

ChessPositionCBOR == Plain(
  <<"fen", "$type", "check">>,
  {"$type", "check"})
ChessPositionJSON == Plain(
  <<"$type", "check", "fen">>,
  {"$type", "check"})

RepoStrongRefCBOR == Plain(
  <<"cid", "uri", "$type">>,
  {"$type"})
RepoStrongRefJSON == Plain(
  <<"$type", "cid", "uri">>,
  {"$type"})

GameAcceptChallenge_OutputCBOR == Plain(
  <<"game", "seat", "$type", "state">>,
  {"$type"})
GameAcceptChallenge_OutputJSON == Plain(
  <<"$type", "game", "seat", "state">>,
  {"$type"})

GameAcceptChallenge_InputCBOR == Plain(
  <<"$type", "challengeId">>,
  {"$type"})
GameAcceptChallenge_InputJSON == Plain(
  <<"$type", "challengeId">>,
  {"$type"})

GameAcceptDraw_InputCBOR == Plain(
  <<"game", "$type">>,
  {"$type"})
GameAcceptDraw_InputJSON == Plain(
  <<"$type", "game">>,
  {"$type"})

GameCancelChallenge_InputCBOR == Plain(
  <<"$type", "challengeId">>,
  {"$type"})
GameCancelChallenge_InputJSON == Plain(
  <<"$type", "challengeId">>,
  {"$type"})

GameChallengeCBOR == Plain(
  <<"$type", "rated", "variant", "gameType", "opponent", "createdAt", "expiresAt",
    "timeControl", "seatPreference", "commentaryDelay">>,
  {"rated", "variant", "opponent", "expiresAt", "seatPreference", "commentaryDelay"})
GameChallengeJSON == Plain(
  <<"$type", "commentaryDelay", "createdAt", "expiresAt", "gameType", "opponent", "rated",
    "seatPreference", "timeControl", "variant">>,
  {"commentaryDelay", "expiresAt", "opponent", "rated", "seatPreference", "variant"})

GameCommentary_EscrowKeyCBOR == Plain(
  <<"$type", "rotationId", "wrappedKey", "ephemeralPublicKey">>,
  {"$type"})
GameCommentary_EscrowKeyJSON == Plain(
  <<"$type", "ephemeralPublicKey", "rotationId", "wrappedKey">>,
  {"$type"})

GameCommentaryCBOR == Plain(
  <<"ply", "game", "text", "$type", "keyId", "nonce", "createdAt", "escrowKey",
    "ciphertext", "visibility", "receiptToken">>,
  {"ply", "text", "keyId", "nonce", "escrowKey", "ciphertext", "receiptToken"})
GameCommentaryJSON == Plain(
  <<"$type", "ciphertext", "createdAt", "escrowKey", "game", "keyId", "nonce", "ply",
    "receiptToken", "text", "visibility">>,
  {"ciphertext", "escrowKey", "keyId", "nonce", "ply", "receiptToken", "text"})

GameCreateChallenge_OutputCBOR == Plain(
  <<"$type", "expiresAt", "challengeId">>,
  {"$type"})
GameCreateChallenge_OutputJSON == Plain(
  <<"$type", "challengeId", "expiresAt">>,
  {"$type"})

GameCreateChallenge_InputCBOR == Plain(
  <<"$type", "rated", "variant", "gameType", "opponent", "expiresAt", "timeControl",
    "seatPreference", "commentaryDelay">>,
  {"$type", "rated", "variant", "opponent", "expiresAt", "seatPreference",
    "commentaryDelay"})
GameCreateChallenge_InputJSON == Plain(
  <<"$type", "commentaryDelay", "expiresAt", "gameType", "opponent", "rated",
    "seatPreference", "timeControl", "variant">>,
  {"$type", "commentaryDelay", "expiresAt", "opponent", "rated", "seatPreference",
    "variant"})

GameDeclineChallenge_InputCBOR == Plain(
  <<"$type", "challengeId">>,
  {"$type"})
GameDeclineChallenge_InputJSON == Plain(
  <<"$type", "challengeId">>,
  {"$type"})

GameDeclineDraw_InputCBOR == Plain(
  <<"game", "$type">>,
  {"$type"})
GameDeclineDraw_InputJSON == Plain(
  <<"$type", "game">>,
  {"$type"})

GameGetState_ClockCBOR == Plain(
  <<"did", "$type", "deadline", "remainingMs">>,
  {"$type"})
GameGetState_ClockJSON == Plain(
  <<"$type", "deadline", "did", "remainingMs">>,
  {"$type"})

GameGetState_CommentaryEntryCBOR == Plain(
  <<"ply", "text", "$type", "player", "revealed", "revealsAt", "visibility",
    "revealsAtPly">>,
  {"text", "$type", "revealsAt", "revealsAtPly"})
GameGetState_CommentaryEntryJSON == Plain(
  <<"$type", "player", "ply", "revealed", "revealsAt", "revealsAtPly", "text",
    "visibility">>,
  {"$type", "revealsAt", "revealsAtPly", "text"})

GameGetState_HistoryEntryCBOR == Object(
  <<"ply", "san", "$type", "player", "payload", "receivedAt", "clockRemainingMs">>,
  {"san", "$type", "clockRemainingMs"}, [payload |-> GameGetState_HistoryEntry_Payload])
GameGetState_HistoryEntryJSON == Object(
  <<"$type", "clockRemainingMs", "payload", "player", "ply", "receivedAt", "san">>,
  {"$type", "clockRemainingMs", "san"}, [payload |-> GameGetState_HistoryEntry_Payload])

GameGetState_StateCBOR == Object(
  <<"ply", "game", "turn", "$type", "clocks", "history", "position", "commentary",
    "legalMoves", "serverTime">>,
  {"$type", "position"}, [legalMoves |-> GameGetState_State_LegalMoves, position |->
    GameGetState_State_Position])
GameGetState_StateJSON == Object(
  <<"$type", "clocks", "commentary", "game", "history", "legalMoves", "ply", "position",
    "serverTime", "turn">>,
  {"$type", "position"}, [legalMoves |-> GameGetState_State_LegalMoves, position |->
    GameGetState_State_Position])

GameListChallenges_ChallengeViewCBOR == Plain(
  <<"$type", "rated", "status", "variant", "gameType", "opponent", "createdAt", "expiresAt",
    "challenger", "challengeId", "timeControl", "seatPreference", "commentaryDelay">>,
  {"$type", "variant", "opponent", "expiresAt", "seatPreference", "commentaryDelay"})
GameListChallenges_ChallengeViewJSON == Plain(
  <<"$type", "challengeId", "challenger", "commentaryDelay", "createdAt", "expiresAt",
    "gameType", "opponent", "rated", "seatPreference", "status", "timeControl", "variant">>,
  {"$type", "commentaryDelay", "expiresAt", "opponent", "seatPreference", "variant"})

GameListChallenges_OutputCBOR == Plain(
  <<"$type", "cursor", "challenges">>,
  {"$type", "cursor"})
GameListChallenges_OutputJSON == Plain(
  <<"$type", "challenges", "cursor">>,
  {"$type", "cursor"})

GameListGames_GameViewCBOR == Object(
  <<"ply", "game", "$type", "position">>,
  {"$type", "position"}, [position |-> GameListGames_GameView_Position])
GameListGames_GameViewJSON == Object(
  <<"$type", "game", "ply", "position">>,
  {"$type", "position"}, [position |-> GameListGames_GameView_Position])

GameListGames_OutputCBOR == Plain(
  <<"$type", "games", "cursor">>,
  {"$type", "cursor"})
GameListGames_OutputJSON == Plain(
  <<"$type", "cursor", "games">>,
  {"$type", "cursor"})

GameMoveCBOR == Object(
  <<"ply", "game", "$type", "payload", "position", "moveToken", "receivedAt",
    "clockRemainingMs">>,
  {"position", "clockRemainingMs"}, [payload |-> GameMove_Payload, position |->
    GameMove_Position])
GameMoveJSON == Object(
  <<"$type", "clockRemainingMs", "game", "moveToken", "payload", "ply", "position",
    "receivedAt">>,
  {"clockRemainingMs", "position"}, [payload |-> GameMove_Payload, position |->
    GameMove_Position])

GameOfferDraw_InputCBOR == Plain(
  <<"game", "$type">>,
  {"$type"})
GameOfferDraw_InputJSON == Plain(
  <<"$type", "game">>,
  {"$type"})

GamePostCommentary_EscrowKeyCBOR == Plain(
  <<"$type", "rotationId", "wrappedKey", "ephemeralPublicKey">>,
  {"$type"})
GamePostCommentary_EscrowKeyJSON == Plain(
  <<"$type", "ephemeralPublicKey", "rotationId", "wrappedKey">>,
  {"$type"})

GamePostCommentary_OutputCBOR == Plain(
  <<"ok", "$type", "keyId", "receiptToken">>,
  {"$type", "keyId", "receiptToken"})
GamePostCommentary_OutputJSON == Plain(
  <<"$type", "keyId", "ok", "receiptToken">>,
  {"$type", "keyId", "receiptToken"})

GamePostCommentary_InputCBOR == Plain(
  <<"ply", "game", "text", "$type", "keyId", "nonce", "createdAt", "escrowKey",
    "ciphertext", "visibility">>,
  {"ply", "text", "$type", "keyId", "nonce", "createdAt", "escrowKey", "ciphertext"})
GamePostCommentary_InputJSON == Plain(
  <<"$type", "ciphertext", "createdAt", "escrowKey", "game", "keyId", "nonce", "ply",
    "text", "visibility">>,
  {"$type", "ciphertext", "createdAt", "escrowKey", "keyId", "nonce", "ply", "text"})

GameResign_InputCBOR == Plain(
  <<"game", "$type">>,
  {"$type"})
GameResign_InputJSON == Plain(
  <<"$type", "game">>,
  {"$type"})

GameRevealCBOR == Plain(
  <<"game", "keys", "$type", "reason", "createdAt">>,
  {})
GameRevealJSON == Plain(
  <<"$type", "createdAt", "game", "keys", "reason">>,
  {})

GameReveal_RevealedKeyCBOR == Plain(
  <<"key", "$type", "keyId", "player", "mismatch", "agentPublished">>,
  {"$type", "mismatch", "agentPublished"})
GameReveal_RevealedKeyJSON == Plain(
  <<"$type", "agentPublished", "key", "keyId", "mismatch", "player">>,
  {"$type", "agentPublished", "mismatch"})

GameSubmitMove_OutputCBOR == Plain(
  <<"ply", "$type", "state", "accepted", "gameOver", "moveToken", "receivedAt",
    "clockRemainingMs">>,
  {"$type", "gameOver"})
GameSubmitMove_OutputJSON == Plain(
  <<"$type", "accepted", "clockRemainingMs", "gameOver", "moveToken", "ply", "receivedAt",
    "state">>,
  {"$type", "gameOver"})

GameSubmitMove_InputCBOR == Object(
  <<"ply", "game", "$type", "payload">>,
  {"$type"}, [payload |-> GameSubmitMove_Input_Payload])
GameSubmitMove_InputJSON == Object(
  <<"$type", "game", "payload", "ply">>,
  {"$type"}, [payload |-> GameSubmitMove_Input_Payload])

GameSubscribe_CommentaryPostedCBOR == Plain(
  <<"ply", "game", "$type", "player", "revealsAt", "visibility", "revealsAtPly">>,
  {"$type", "revealsAt", "revealsAtPly"})
GameSubscribe_CommentaryPostedJSON == Plain(
  <<"$type", "game", "player", "ply", "revealsAt", "revealsAtPly", "visibility">>,
  {"$type", "revealsAt", "revealsAtPly"})

GameSubscribe_CommentaryRevealedCBOR == Plain(
  <<"ply", "game", "text", "$type", "player">>,
  {"$type"})
GameSubscribe_CommentaryRevealedJSON == Plain(
  <<"$type", "game", "player", "ply", "text">>,
  {"$type"})

GameSubscribe_DrawOfferedCBOR == Plain(
  <<"game", "$type", "player">>,
  {"$type"})
GameSubscribe_DrawOfferedJSON == Plain(
  <<"$type", "game", "player">>,
  {"$type"})

GameSubscribe_GameFinishedCBOR == Plain(
  <<"game", "$type", "result">>,
  {"$type"})
GameSubscribe_GameFinishedJSON == Plain(
  <<"$type", "game", "result">>,
  {"$type"})

GameSubscribe_GameStartedCBOR == Plain(
  <<"game", "$type", "startedAt">>,
  {"$type", "startedAt"})
GameSubscribe_GameStartedJSON == Plain(
  <<"$type", "game", "startedAt">>,
  {"$type", "startedAt"})

GameSubscribe_MoveCBOR == Object(
  <<"ply", "san", "game", "$type", "clocks", "player", "payload", "position",
    "receivedAt">>,
  {"san", "$type", "clocks", "position", "receivedAt"}, [payload |->
    GameSubscribe_Move_Payload, position |-> GameSubscribe_Move_Position])
GameSubscribe_MoveJSON == Object(
  <<"$type", "clocks", "game", "payload", "player", "ply", "position", "receivedAt",
    "san">>,
  {"$type", "clocks", "position", "receivedAt", "san"}, [payload |->
    GameSubscribe_Move_Payload, position |-> GameSubscribe_Move_Position])

LexBlobCBOR == Plain(
  <<"ref", "size", "$type", "mimeType">>,
  {})
LexBlobJSON == Plain(
  <<"$type", "mimeType", "ref", "size">>,
  {})

MatchCancelSeek_InputCBOR == Plain(
  <<"$type", "seekId">>,
  {"$type"})
MatchCancelSeek_InputJSON == Plain(
  <<"$type", "seekId">>,
  {"$type"})

MatchGetSeeks_OutputCBOR == Plain(
  <<"$type", "seeks", "cursor">>,
  {"$type", "cursor"})
MatchGetSeeks_OutputJSON == Plain(
  <<"$type", "cursor", "seeks">>,
  {"$type", "cursor"})

MatchGetSeeks_SeekViewCBOR == Plain(
  <<"mode", "$type", "rated", "seekId", "status", "variant", "gameType", "createdAt",
    "timeControl", "ratingWindow", "maxConcurrent", "queuePosition">>,
  {"$type", "rated", "variant", "timeControl", "ratingWindow", "maxConcurrent"})
MatchGetSeeks_SeekViewJSON == Plain(
  <<"$type", "createdAt", "gameType", "maxConcurrent", "mode", "queuePosition", "rated",
    "ratingWindow", "seekId", "status", "timeControl", "variant">>,
  {"$type", "maxConcurrent", "rated", "ratingWindow", "timeControl", "variant"})

MatchSeek_OutputCBOR == Plain(
  <<"game", "$type", "seekId", "status">>,
  {"game", "$type"})
MatchSeek_OutputJSON == Plain(
  <<"$type", "game", "seekId", "status">>,
  {"$type", "game"})

MatchSeek_InputCBOR == Plain(
  <<"mode", "$type", "rated", "variant", "gameType", "timeControl", "ratingWindow",
    "maxConcurrent">>,
  {"$type", "rated", "variant", "timeControl", "ratingWindow", "maxConcurrent"})
MatchSeek_InputJSON == Plain(
  <<"$type", "gameType", "maxConcurrent", "mode", "rated", "ratingWindow", "timeControl",
    "variant">>,
  {"$type", "maxConcurrent", "rated", "ratingWindow", "timeControl", "variant"})

MatchSubscribe_ChallengeReceivedCBOR == Plain(
  <<"$type", "rated", "variant", "gameType", "expiresAt", "challenger", "challengeId",
    "timeControl">>,
  {"$type", "rated", "variant", "expiresAt", "timeControl"})
MatchSubscribe_ChallengeReceivedJSON == Plain(
  <<"$type", "challengeId", "challenger", "expiresAt", "gameType", "rated", "timeControl",
    "variant">>,
  {"$type", "expiresAt", "rated", "timeControl", "variant"})

MatchSubscribe_MatchedCBOR == Plain(
  <<"game", "seat", "$type", "seekId", "opponent">>,
  {"$type"})
MatchSubscribe_MatchedJSON == Plain(
  <<"$type", "game", "opponent", "seat", "seekId">>,
  {"$type"})

-----------------------------------------------------------------------------
CBORSchema == [
  ActorGetLeaderboard_Entry |-> ActorGetLeaderboard_EntryCBOR,
  ActorGetLeaderboard_Output |-> ActorGetLeaderboard_OutputCBOR,
  ActorGetProfile_FlagSummary |-> ActorGetProfile_FlagSummaryCBOR,
  ActorGetProfile_Output |-> ActorGetProfile_OutputCBOR,
  ActorGetProfile_RatingRevisionView |-> ActorGetProfile_RatingRevisionViewCBOR,
  ActorGetProfile_RatingView |-> ActorGetProfile_RatingViewCBOR,
  ActorGetProfile_Stats |-> ActorGetProfile_StatsCBOR,
  ActorProfile_Component |-> ActorProfile_ComponentCBOR, ActorProfile |-> ActorProfileCBOR,
  BotFlag |-> BotFlagCBOR, BotGame_CommentaryDelay |-> BotGame_CommentaryDelayCBOR,
  BotGame |-> BotGameCBOR, BotGame_Matchmaking |-> BotGame_MatchmakingCBOR,
  BotGame_Player |-> BotGame_PlayerCBOR, BotGame_Result |-> BotGame_ResultCBOR,
  BotGame_TimeControl |-> BotGame_TimeControlCBOR, BotRating |-> BotRatingCBOR,
  CheckersMove |-> CheckersMoveCBOR, CheckersPosition |-> CheckersPositionCBOR,
  ChessMove |-> ChessMoveCBOR, ChessPosition |-> ChessPositionCBOR,
  RepoStrongRef |-> RepoStrongRefCBOR,
  GameAcceptChallenge_Output |-> GameAcceptChallenge_OutputCBOR,
  GameAcceptChallenge_Input |-> GameAcceptChallenge_InputCBOR,
  GameAcceptDraw_Input |-> GameAcceptDraw_InputCBOR,
  GameCancelChallenge_Input |-> GameCancelChallenge_InputCBOR,
  GameChallenge |-> GameChallengeCBOR,
  GameCommentary_EscrowKey |-> GameCommentary_EscrowKeyCBOR,
  GameCommentary |-> GameCommentaryCBOR,
  GameCreateChallenge_Output |-> GameCreateChallenge_OutputCBOR,
  GameCreateChallenge_Input |-> GameCreateChallenge_InputCBOR,
  GameDeclineChallenge_Input |-> GameDeclineChallenge_InputCBOR,
  GameDeclineDraw_Input |-> GameDeclineDraw_InputCBOR,
  GameGetState_Clock |-> GameGetState_ClockCBOR,
  GameGetState_CommentaryEntry |-> GameGetState_CommentaryEntryCBOR,
  GameGetState_HistoryEntry |-> GameGetState_HistoryEntryCBOR,
  GameGetState_State |-> GameGetState_StateCBOR,
  GameListChallenges_ChallengeView |-> GameListChallenges_ChallengeViewCBOR,
  GameListChallenges_Output |-> GameListChallenges_OutputCBOR,
  GameListGames_GameView |-> GameListGames_GameViewCBOR,
  GameListGames_Output |-> GameListGames_OutputCBOR, GameMove |-> GameMoveCBOR,
  GameOfferDraw_Input |-> GameOfferDraw_InputCBOR,
  GamePostCommentary_EscrowKey |-> GamePostCommentary_EscrowKeyCBOR,
  GamePostCommentary_Output |-> GamePostCommentary_OutputCBOR,
  GamePostCommentary_Input |-> GamePostCommentary_InputCBOR,
  GameResign_Input |-> GameResign_InputCBOR, GameReveal |-> GameRevealCBOR,
  GameReveal_RevealedKey |-> GameReveal_RevealedKeyCBOR,
  GameSubmitMove_Output |-> GameSubmitMove_OutputCBOR,
  GameSubmitMove_Input |-> GameSubmitMove_InputCBOR,
  GameSubscribe_CommentaryPosted |-> GameSubscribe_CommentaryPostedCBOR,
  GameSubscribe_CommentaryRevealed |-> GameSubscribe_CommentaryRevealedCBOR,
  GameSubscribe_DrawOffered |-> GameSubscribe_DrawOfferedCBOR,
  GameSubscribe_GameFinished |-> GameSubscribe_GameFinishedCBOR,
  GameSubscribe_GameStarted |-> GameSubscribe_GameStartedCBOR,
  GameSubscribe_Move |-> GameSubscribe_MoveCBOR, LexBlob |-> LexBlobCBOR,
  MatchCancelSeek_Input |-> MatchCancelSeek_InputCBOR,
  MatchGetSeeks_Output |-> MatchGetSeeks_OutputCBOR,
  MatchGetSeeks_SeekView |-> MatchGetSeeks_SeekViewCBOR,
  MatchSeek_Output |-> MatchSeek_OutputCBOR, MatchSeek_Input |-> MatchSeek_InputCBOR,
  MatchSubscribe_ChallengeReceived |-> MatchSubscribe_ChallengeReceivedCBOR,
  MatchSubscribe_Matched |-> MatchSubscribe_MatchedCBOR]

JSONSchema == [
  ActorGetLeaderboard_Entry |-> ActorGetLeaderboard_EntryJSON,
  ActorGetLeaderboard_Output |-> ActorGetLeaderboard_OutputJSON,
  ActorGetProfile_FlagSummary |-> ActorGetProfile_FlagSummaryJSON,
  ActorGetProfile_Output |-> ActorGetProfile_OutputJSON,
  ActorGetProfile_RatingRevisionView |-> ActorGetProfile_RatingRevisionViewJSON,
  ActorGetProfile_RatingView |-> ActorGetProfile_RatingViewJSON,
  ActorGetProfile_Stats |-> ActorGetProfile_StatsJSON,
  ActorProfile_Component |-> ActorProfile_ComponentJSON, ActorProfile |-> ActorProfileJSON,
  BotFlag |-> BotFlagJSON, BotGame_CommentaryDelay |-> BotGame_CommentaryDelayJSON,
  BotGame |-> BotGameJSON, BotGame_Matchmaking |-> BotGame_MatchmakingJSON,
  BotGame_Player |-> BotGame_PlayerJSON, BotGame_Result |-> BotGame_ResultJSON,
  BotGame_TimeControl |-> BotGame_TimeControlJSON, BotRating |-> BotRatingJSON,
  CheckersMove |-> CheckersMoveJSON, CheckersPosition |-> CheckersPositionJSON,
  ChessMove |-> ChessMoveJSON, ChessPosition |-> ChessPositionJSON,
  RepoStrongRef |-> RepoStrongRefJSON,
  GameAcceptChallenge_Output |-> GameAcceptChallenge_OutputJSON,
  GameAcceptChallenge_Input |-> GameAcceptChallenge_InputJSON,
  GameAcceptDraw_Input |-> GameAcceptDraw_InputJSON,
  GameCancelChallenge_Input |-> GameCancelChallenge_InputJSON,
  GameChallenge |-> GameChallengeJSON,
  GameCommentary_EscrowKey |-> GameCommentary_EscrowKeyJSON,
  GameCommentary |-> GameCommentaryJSON,
  GameCreateChallenge_Output |-> GameCreateChallenge_OutputJSON,
  GameCreateChallenge_Input |-> GameCreateChallenge_InputJSON,
  GameDeclineChallenge_Input |-> GameDeclineChallenge_InputJSON,
  GameDeclineDraw_Input |-> GameDeclineDraw_InputJSON,
  GameGetState_Clock |-> GameGetState_ClockJSON,
  GameGetState_CommentaryEntry |-> GameGetState_CommentaryEntryJSON,
  GameGetState_HistoryEntry |-> GameGetState_HistoryEntryJSON,
  GameGetState_State |-> GameGetState_StateJSON,
  GameListChallenges_ChallengeView |-> GameListChallenges_ChallengeViewJSON,
  GameListChallenges_Output |-> GameListChallenges_OutputJSON,
  GameListGames_GameView |-> GameListGames_GameViewJSON,
  GameListGames_Output |-> GameListGames_OutputJSON, GameMove |-> GameMoveJSON,
  GameOfferDraw_Input |-> GameOfferDraw_InputJSON,
  GamePostCommentary_EscrowKey |-> GamePostCommentary_EscrowKeyJSON,
  GamePostCommentary_Output |-> GamePostCommentary_OutputJSON,
  GamePostCommentary_Input |-> GamePostCommentary_InputJSON,
  GameResign_Input |-> GameResign_InputJSON, GameReveal |-> GameRevealJSON,
  GameReveal_RevealedKey |-> GameReveal_RevealedKeyJSON,
  GameSubmitMove_Output |-> GameSubmitMove_OutputJSON,
  GameSubmitMove_Input |-> GameSubmitMove_InputJSON,
  GameSubscribe_CommentaryPosted |-> GameSubscribe_CommentaryPostedJSON,
  GameSubscribe_CommentaryRevealed |-> GameSubscribe_CommentaryRevealedJSON,
  GameSubscribe_DrawOffered |-> GameSubscribe_DrawOfferedJSON,
  GameSubscribe_GameFinished |-> GameSubscribe_GameFinishedJSON,
  GameSubscribe_GameStarted |-> GameSubscribe_GameStartedJSON,
  GameSubscribe_Move |-> GameSubscribe_MoveJSON, LexBlob |-> LexBlobJSON,
  MatchCancelSeek_Input |-> MatchCancelSeek_InputJSON,
  MatchGetSeeks_Output |-> MatchGetSeeks_OutputJSON,
  MatchGetSeeks_SeekView |-> MatchGetSeeks_SeekViewJSON,
  MatchSeek_Output |-> MatchSeek_OutputJSON, MatchSeek_Input |-> MatchSeek_InputJSON,
  MatchSubscribe_ChallengeReceived |-> MatchSubscribe_ChallengeReceivedJSON,
  MatchSubscribe_Matched |-> MatchSubscribe_MatchedJSON]

\* Keys no schema knows: they sort before, between and after the known ones.
Unknown == {"a", "elsewhere", "aVeryLateFieldOfALexicon"}

\* The order of cbor.CompareCBORKeys on all these keys: shorter first, then by bytes.
KeyOrder == <<"a", "ok", "to", "cid", "did", "fen", "key", "ply", "ref", "san", "uri",
  "url", "from", "game", "keys", "kind", "mode", "name", "path", "pool", "seat", "size",
  "text", "turn", "wins", "$type", "board", "check", "count", "draws", "flags", "games",
  "keyId", "links", "model", "nonce", "plies", "rated", "seeks", "state", "stats", "avatar",
  "clocks", "cursor", "detail", "handle", "losses", "player", "rating", "reason", "result",
  "seekId", "status", "waitMs", "winner", "harness", "history", "outcome", "payload",
  "players", "profile", "ratings", "seconds", "subject", "variant", "version", "accepted",
  "deadline", "gameOver", "gameType", "lastGame", "mimeType", "mismatch", "operator",
  "opponent", "plyCount", "position", "provider", "revealed", "revision", "severity",
  "challenge", "createdAt", "deviation", "elsewhere", "escrowKey", "expiresAt", "moveToken",
  "promotion", "ratingGap", "revealsAt", "startedAt", "challenger", "challenges",
  "ciphertext", "commentary", "finishedAt", "legalMoves", "receivedAt", "rotationId",
  "serverTime", "tournament", "visibility", "volatility", "wrappedKey", "challengeId",
  "description", "displayName", "gamesPlayed", "matchmaking", "profileHash", "ratingAfter",
  "remainingMs", "timeControl", "capabilities", "ratingBefore", "ratingWindow",
  "receiptToken", "revealsAtPly", "avgMoveTimeMs", "finalPosition", "maxConcurrent",
  "queuePosition", "agentPublished", "initialSeconds", "perMoveSeconds", "seatPreference",
  "commentaryDelay", "profileRevision", "clockRemainingMs", "incrementSeconds",
  "operatorVerified", "ratingsByRevision", "ephemeralPublicKey",
  "aVeryLateFieldOfALexicon">>

Rank == [k \in {KeyOrder[i] : i \in DOMAIN KeyOrder} |->
           CHOOSE i \in DOMAIN KeyOrder : KeyOrder[i] = k]

\* The alphabetical order of the unknown ones.
AlphaRank == [a |-> 1, aVeryLateFieldOfALexicon |-> 2, elsewhere |-> 3]
=============================================================================
