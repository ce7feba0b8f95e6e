---------------------------- MODULE MCToolCalls ----------------------------
(* ToolCalls for TLC: a turn of a static admin with one call at a time and *)
(* one of another user with two in parallel, a mutating command and a      *)
(* harmless one.                                                           *)
EXTENDS ToolCalls, TLC

CONSTANTS
    s, u,           \* model values: the turns
    s1, u1, u2,     \* ... the threads of their calls
    get, apply      \* ... the parameters

MCTurns == {s, u}
MCWorkers == {s1, u1, u2}
MCOwner == s1 :> s @@ u1 :> u @@ u2 :> u
MCStaticAdmins == {s}
MCToolsetTools == {"bash"}
MCAddedTools == {"search_memory"}
MCSkipTools == {"todo_write"}
MCParams == {get, apply}
MCMutations == {apply}

=============================================================================
