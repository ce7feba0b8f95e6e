--------------------------- MODULE MCToolApproval ---------------------------
(* ToolApproval for TLC: a streaming and a regular turn share the table of *)
(* pending approvals.                                                      *)
EXTENDS ToolApproval

CONSTANTS s1, r1    \* model values: a streaming turn, a regular turn

MCTurns == {s1, r1}
MCStreaming == {s1}

=============================================================================
