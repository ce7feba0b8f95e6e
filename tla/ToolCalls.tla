----------------------------- MODULE ToolCalls -----------------------------
(***************************************************************************)
(* What stands between the Holmes engine and a tool: the wrappers that     *)
(* HolmesService puts around the tools of an executor, the admin gate of   *)
(* mutating commands (tools/admin_gate.py) and the loop guard              *)
(* (tools/loop_guard.py).                                                  *)
(*                                                                         *)
(* A turn starts on the event loop.  The engine runs the tool calls of one *)
(* of its rounds in parallel, on up to 16 threads, and all turns share the *)
(* wrapped tools.  The admin lookup is a coroutine: the thread that asks   *)
(* waits at most 1.5 s for the loop to run it.  Critical sections, loop    *)
(* steps and waits are steps of their own.                                 *)
(*                                                                         *)
(* External: the engine, which calls any tool with any parameters whenever *)
(* a thread of the turn is free (that it waits for a whole round before    *)
(* the next one only takes interleavings away); the tools, which succeed   *)
(* or fail; grants and revocations of ADMIN_ACCESS.                        *)
(***************************************************************************)
EXTENDS Integers, Sequences, FiniteSets

CONSTANTS
    Turns,          \* concurrent turns, each of a user of its own
    Workers,        \* threads that run tool calls
    Owner,          \* Owner[w]: the turn whose calls run on thread w
    StaticAdmins,   \* turns whose user is in config.admin_user_ids
    ToolsetTools,   \* tools in the executor's toolsets
    AddedTools,     \* tools put into tools_by_name afterwards
    SkipTools,      \* LOOP_GUARD_SKIP_TOOLS
    Params,         \* parameters, after normalisation
    Mutations,      \* those that are a mutating command
    LoopWindow,     \* LOOP_GUARD_WINDOW
    LoopThreshold,  \* LOOP_GUARD_THRESHOLD
    MaxTurns        \* bound of the model: turns started in all

Tools == ToolsetTools \cup AddedTools

ASSUME ConstantsAssumption ==
    /\ StaticAdmins \subseteq Turns /\ IsFiniteSet(Turns)
    /\ IsFiniteSet(Workers) /\ Owner \in [Workers -> Turns]
    /\ Mutations \subseteq Params
    /\ LoopWindow \in Nat /\ LoopThreshold \in Nat \ {0, 1}
    /\ MaxTurns \in Nat

VARIABLES
    dbAdmins,       \* turns whose user now holds ADMIN_ACCESS in MongoDB
    loopWaits,      \* turns whose start blocks the event loop
    at,             \* at[t]: where turn t is
    told,           \* told[t]: the engine was told that the user is an admin
    pos,            \* pos[w]: where the call on thread w is, "free" for none
    call,           \* call[w]: its tool and parameters
    answer,         \* answer[w]: state of the lookup w waits for
    recent,         \* recent[x]: the window of the guard of tool x
    cleared,        \* history: the user was an admin during w's call
    started         \* turns started so far

vars == <<dbAdmins, loopWaits, at, told, pos, call, answer, recent, cleared, started>>

turnVars == <<loopWaits, at, told, started>>

NoCall == <<>>

TypeOK ==
    /\ dbAdmins \subseteq Turns
    /\ loopWaits \subseteq Turns /\ Cardinality(loopWaits) <= 1
    /\ at \in [Turns -> {"off", "starting", "thinking"}]
    /\ \A t \in Turns : at[t] = "starting" <=> t \in loopWaits
    /\ told \in [Turns -> BOOLEAN]
    /\ pos \in [Workers -> {"free", "lookup", "guard", "executing"}]
    /\ call \in [Workers -> (Tools \X Params) \cup {NoCall}]
    /\ \A w \in Workers : call[w] = NoCall <=> pos[w] = "free"
    /\ answer \in [Workers -> {"none", "asked", "yes", "no"}]
    /\ recent \in [Tools -> Seq(Params)]
    /\ \A x \in Tools : Len(recent[x]) <= LoopWindow
    /\ cleared \in [Workers -> BOOLEAN]
    /\ started \in 0 .. MaxTurns

Init ==
    /\ dbAdmins \in SUBSET (Turns \ StaticAdmins)
    /\ loopWaits = {}
    /\ at = [t \in Turns |-> "off"]
    /\ told = [t \in Turns |-> FALSE]
    /\ pos = [w \in Workers |-> "free"]
    /\ call = [w \in Workers |-> NoCall]
    /\ answer = [w \in Workers |-> "none"]
    /\ recent = [x \in Tools |-> <<>>]
    /\ cleared = [w \in Workers |-> FALSE]
    /\ started = 0

----------------------------------------------------------------------------
(* Operators named Wrong... are deliberately wrong variants of the one     *)
(* that follows, used to show that the properties notice them.             *)

(* The wrappers of a tool, set up by initialize() with the gate outermost: *)
(* only the tools of the toolsets are visited, and the names to skip are   *)
(* compared with the tool's name.                                          *)
Guarded(x) == x \in ToolsetTools \ SkipTools
Gated(x) == x = "bash"

(* Number of recent successes of x with parameters p.                      *)
Count(x, p) == Cardinality({i \in DOMAIN recent[x] : recent[x][i] = p})

IsAdmin(t) == t \in StaticAdmins \cup dbAdmins

----------------------------------------------------------------------------
(* The start of a turn, on the event loop. *)

LoopFree == loopWaits = {}

(* chat(): the user's status is looked up at once, from the loop itself.   *)
(* A static admin is known; for anybody else the loop blocks, waiting for  *)
(* a coroutine only it could run.                                          *)
StartTurn(t) ==
    /\ at[t] = "off" /\ LoopFree
    /\ started < MaxTurns
    /\ started' = started + 1
    /\ IF t \in StaticAdmins
       THEN /\ at' = [at EXCEPT ![t] = "thinking"]
            /\ told' = [told EXCEPT ![t] = TRUE]
            /\ UNCHANGED loopWaits
       ELSE /\ at' = [at EXCEPT ![t] = "starting"]
            /\ loopWaits' = {t}
            /\ UNCHANGED told
    /\ UNCHANGED <<dbAdmins, pos, call, answer, recent, cleared>>

(* The lookup has no time limit: it waits until the loop has run it.       *)
WrongStartTimesOut(t) ==
    /\ at[t] = "starting" /\ LoopFree
    /\ at' = [at EXCEPT ![t] = "thinking"]
    /\ told' = [told EXCEPT ![t] = IsAdmin(t)]
    /\ UNCHANGED <<dbAdmins, loopWaits, pos, call, answer, recent, cleared, started>>

(* ... until the 1.5 s are over: the user is taken for no admin.           *)
StartTimesOut(t) ==
    /\ at[t] = "starting"
    /\ at' = [at EXCEPT ![t] = "thinking"]
    /\ told' = [told EXCEPT ![t] = FALSE]
    /\ loopWaits' = {}
    /\ UNCHANGED <<dbAdmins, pos, call, answer, recent, cleared, started>>

(* The turn has its answer, or was stopped; calls under way go on.         *)
EndTurn(t) ==
    /\ at[t] = "thinking"
    /\ at' = [at EXCEPT ![t] = "off"]
    /\ told' = [told EXCEPT ![t] = FALSE]
    /\ UNCHANGED <<dbAdmins, loopWaits, pos, call, answer, recent, cleared, started>>

----------------------------------------------------------------------------
(* A tool call, on a thread of its own. *)

(* Past the gate comes the guard, when the tool has one.                   *)
PastGate(x) == IF Guarded(x) THEN "guard" ELSE "executing"

(* The call on w ends; otherwise it is now at p.                           *)
EndCall(w) ==
    /\ pos' = [pos EXCEPT ![w] = "free"]
    /\ call' = [call EXCEPT ![w] = NoCall]
    /\ cleared' = [cleared EXCEPT ![w] = FALSE]

GoOn(w, p) ==
    /\ pos' = [pos EXCEPT ![w] = p]
    /\ UNCHANGED <<call, cleared>>

(* The engine calls tool x; the admin gate sees it first.  Only mutating   *)
(* commands of users not in the static list need a lookup, which hops to   *)
(* the loop.                                                               *)
Invoke(w, x, p) ==
    /\ at[Owner[w]] = "thinking" /\ pos[w] = "free"
    /\ call' = [call EXCEPT ![w] = <<x, p>>]
    /\ cleared' = [cleared EXCEPT ![w] = IsAdmin(Owner[w])]
    /\ IF Gated(x) /\ p \in Mutations /\ Owner[w] \notin StaticAdmins
       THEN /\ pos' = [pos EXCEPT ![w] = "lookup"]
            /\ answer' = [answer EXCEPT ![w] = "asked"]
       ELSE /\ pos' = [pos EXCEPT ![w] = PastGate(x)]
            /\ UNCHANGED answer
    /\ UNCHANGED <<turnVars, dbAdmins, recent>>

(* The loop runs the lookup of some thread: PermissionService.get_user.    *)
LoopLooksUp(w) ==
    /\ LoopFree /\ answer[w] = "asked"
    /\ answer' = [answer EXCEPT ![w] = IF IsAdmin(Owner[w]) THEN "yes" ELSE "no"]
    /\ UNCHANGED <<turnVars, dbAdmins, pos, call, recent, cleared>>

(* A lookup that is not answered in time does not count against the user.  *)
WrongGateDecides(w) ==
    /\ pos[w] = "lookup"
    /\ IF answer[w] = "no" THEN EndCall(w) ELSE GoOn(w, PastGate(call[w][1]))
    /\ answer' = [answer EXCEPT ![w] = "none"]
    /\ UNCHANGED <<turnVars, dbAdmins, recent>>

(* The gate has its answer, or gives up after 1.5 s and cancels the        *)
(* lookup: only a "yes" lets the call through, with user_approved set.     *)
GateDecides(w) ==
    /\ pos[w] = "lookup"
    /\ IF answer[w] = "yes" THEN GoOn(w, PastGate(call[w][1])) ELSE EndCall(w)
    /\ answer' = [answer EXCEPT ![w] = "none"]
    /\ UNCHANGED <<turnVars, dbAdmins, recent>>

(* The guard compares with the last success only.                          *)
WrongBlocked(x, p) ==
    /\ Count(x, p) + 1 >= LoopThreshold
    /\ recent[x][Len(recent[x])] = p

(* count + 1 >= LOOP_GUARD_THRESHOLD                                       *)
Blocked(x, p) == Count(x, p) + 1 >= LoopThreshold

(* The guard counts under its lock and lets the call go or refuses it.     *)
GuardDecides(w) ==
    /\ pos[w] = "guard"
    /\ IF Blocked(call[w][1], call[w][2]) THEN EndCall(w)
                                          ELSE GoOn(w, "executing")
    /\ UNCHANGED <<turnVars, dbAdmins, answer, recent>>

(* deque(maxlen=LOOP_GUARD_WINDOW)                                         *)
LastOf(s) == IF Len(s) > LoopWindow THEN Tail(s) ELSE s

(* The tool returns; a success goes into the window of a guarded tool.     *)
ToolReturns(w, success) ==
    /\ pos[w] = "executing"
    /\ EndCall(w)
    /\ recent' = IF success /\ Guarded(call[w][1])
                 THEN [recent EXCEPT ![call[w][1]] = LastOf(Append(@, call[w][2]))]
                 ELSE recent
    /\ UNCHANGED <<turnVars, dbAdmins, answer>>

(* ADMIN_ACCESS is granted to, or taken from, the user of t.               *)
GrantOrRevoke(t) ==
    /\ LoopFree /\ t \notin StaticAdmins
    /\ dbAdmins' = IF t \in dbAdmins THEN dbAdmins \ {t} ELSE dbAdmins \cup {t}
    /\ cleared' = [w \in Workers |->
          cleared[w] \/ (Owner[w] = t /\ call[w] # NoCall /\ t \notin dbAdmins)]
    /\ UNCHANGED <<turnVars, pos, call, answer, recent>>

(* What a call does by itself, without the engine's choice.                *)
Proceed(w) ==
    \/ GateDecides(w)
    \/ GuardDecides(w)
    \/ \E success \in BOOLEAN : ToolReturns(w, success)

Next ==
    \/ \E t \in Turns :
          StartTurn(t) \/ StartTimesOut(t) \/ EndTurn(t) \/ GrantOrRevoke(t)
    \/ \E w \in Workers :
          \/ \E x \in Tools, p \in Params : Invoke(w, x, p)
          \/ LoopLooksUp(w)
          \/ Proceed(w)

Spec == Init /\ [][Next]_vars

(* Waits end by their time limits, tools return (bash is killed with its   *)
(* process group after at most 30 s, or 240 s under nohup).                *)
LiveSpec ==
    /\ Spec
    /\ \A t \in Turns : WF_vars(StartTimesOut(t))
    /\ \A w \in Workers : WF_vars(Proceed(w))

----------------------------------------------------------------------------
(* Properties *)

(* A mutating command runs only for a user who was an admin at some moment *)
(* of the call: neither a late nor a missing answer of the lookup lets it  *)
(* through (admin_gate._wrap_one, is_admin_sync).                          *)
MutationsByAdmins ==
    \A w \in Workers :
        pos[w] = "executing" /\ call[w][1] = "bash" /\ call[w][2] \in Mutations
            => IsAdmin(Owner[w]) \/ cleared[w]

(* The guard checks and records in two critical sections, so that calls of *)
(* one round, and of turns in parallel, pass it together; what they take   *)
(* the count beyond the last one the guard lets through is at most one for *)
(* each other call in parallel (loop_guard._wrap_one).                     *)
OvershootIsBounded ==
    \A x \in Tools, p \in Params :
        Count(x, p) +
        Cardinality({w \in Workers : /\ pos[w] = "executing" /\ Guarded(x)
                                     /\ call[w] = <<x, p>>})
            <= LoopThreshold - 2 + Cardinality(Workers)

(* Neither a turn nor a tool call waits for ever, though the loop may wait *)
(* for itself and a thread for the loop.                                   *)
CallsEnd ==
    /\ \A t \in Turns : at[t] = "starting" ~> at[t] # "starting"
    /\ \A w \in Workers : pos[w] # "free" ~> pos[w] = "free"

(* Writing the same plan again is never refused (LOOP_GUARD_SKIP_TOOLS).   *)
PlansAreExempt == \A w \in Workers, p \in Params :
    pos[w] = "guard" /\ call[w] = <<"TodoWrite", p>> => ~Blocked("TodoWrite", p)

=============================================================================
