------------------------ MODULE MCConversationTurns ------------------------
(* ConversationTurns for TLC: two batches, a /claude turn and the turn of  *)
(* the message that created the topic.                                     *)
EXTENDS ConversationTurns, TLC

CONSTANTS b1, b2, c1, g1    \* model values: the turns

MCTurns == {b1, b2, c1, g1}
MCKind == b1 :> "batch" @@ b2 :> "batch" @@ c1 :> "claude" @@ g1 :> "general"

=============================================================================
