---------------------------- MODULE ToolApproval ----------------------------
(***************************************************************************)
(* Interactive tool approval: _run_holmes_stream and the table             *)
(* _pending_approvals of services/holmes_service.py, the buttons handled   *)
(* by handlers/privilege_handler.py, and the two ways a message turn       *)
(* consumes the stream (handlers/message_handler.py): the streaming one is *)
(* cut by wait_for after 240 s, the regular one has no limit.              *)
(*                                                                         *)
(* The table is shared by all turns of all topics.  An action is what one  *)
(* task does between two awaits; the answer of a button is handled without *)
(* any.  Approval ids (uuid4) are numbered in the order of creation.       *)
(*                                                                         *)
(* External, modelled from its use: the Holmes engine, which may ask,      *)
(* answer, fail or honour cancel_event whenever it is running; Telegram,   *)
(* which may show a message and report an error all the same.              *)
(***************************************************************************)
EXTENDS Integers, Sequences, FiniteSetsExt, Functions

CONSTANTS
    Turns,          \* turns in progress, each in a topic of its own
    Streaming,      \* those whose user has STREAMING_RESPONSES
    MaxCalls,       \* bound of the model: tool calls in one round
    MaxAsks         \* bound of the model: approvals asked in all

ASSUME ConstantsAssumption ==
    /\ Streaming \subseteq Turns
    /\ MaxCalls \in Nat \ {0}
    /\ MaxAsks \in Nat

VARIABLES
    phase,          \* phase[t]: "running" (Holmes works), "asking", "ended"
    current,        \* current[t]: the approval t waits for, 0 when none
    left,           \* left[t]: calls of t's round that are still to be asked
    decisions,      \* decisions[t]: the approvals of t's round, in order
    asks,           \* every approval so far
    table,          \* keys of _pending_approvals
    handed          \* approved calls handed back to Holmes for execution

vars == <<phase, current, left, decisions, asks, table, handed>>

Verdict == {"approved", "denied"}

(* An approval: its turn, its future, the send_message call that asks it   *)
(* (sending), its message in the chat, the verdicts its tappers were told, *)
(* and, as history, the first verdict tapped while it was in the table.    *)
Ask == [turn : Turns,
        future : {"pending", "approved", "denied", "cancelled"},
        sending : BOOLEAN,
        message : {"absent", "buttons", "edited"},
        told : SUBSET Verdict,
        first : Verdict \cup {"none"}]

Init ==
    /\ phase = [t \in Turns |-> "running"]
    /\ current = [t \in Turns |-> 0]
    /\ left = [t \in Turns |-> 0]
    /\ decisions = [t \in Turns |-> <<>>]
    /\ asks = <<>>
    /\ table = {}
    /\ handed = {}

Unresolved(a) == asks[a].future = "pending"

NewAsk(t) == [turn |-> t, future |-> "pending", sending |-> TRUE,
              message |-> "absent", told |-> {}, first |-> "none"]

----------------------------------------------------------------------------
(* Operators named Wrong... are deliberately wrong variants of the one     *)
(* that follows, used to show that the properties notice them.             *)

(* The approval is put on the table for the button only, without its entry *)
(* in time for a send that fails at once.                                  *)
WrongAskUnregistered(t, closing) ==
    /\ asks' = Append(asks, NewAsk(t))
    /\ current' = [current EXCEPT ![t] = Len(asks) + 1]
    /\ table' = table \ closing

(* One pass of the approval loop up to its await: a fresh future goes into *)
(* the table, its Telegram request is scheduled, and the turn waits for    *)
(* it.  closing: the entry the previous pass removes on its way out.       *)
AskNext(t, closing) ==
    /\ asks' = Append(asks, NewAsk(t))
    /\ current' = [current EXCEPT ![t] = Len(asks) + 1]
    /\ table' = (table \ closing) \cup {Len(asks) + 1}

(* Calls that turns in mid-round have yet to ask about: part of the bound. *)
Reserved == MapThenSumSet(LAMBDA t : left[t], Turns)

(* Holmes emits APPROVAL_REQUIRED with n pending calls.                    *)
ApprovalRequired(t, n) ==
    /\ phase[t] = "running"
    /\ Len(asks) + Reserved + n <= MaxAsks
    /\ phase' = [phase EXCEPT ![t] = "asking"]
    /\ left' = [left EXCEPT ![t] = n - 1]
    /\ AskNext(t, {})
    /\ UNCHANGED <<decisions, handed>>

(* The future is resolved and the loop has another call to ask about.      *)
AskAnotherCall(t) ==
    /\ phase[t] = "asking"
    /\ ~Unresolved(current[t])
    /\ left[t] > 0
    /\ left' = [left EXCEPT ![t] = @ - 1]
    /\ decisions' = [decisions EXCEPT ![t] = Append(@, current[t])]
    /\ AskNext(t, {current[t]})
    /\ UNCHANGED <<phase, handed>>

(* Resuming with every call of the round, without looking at the verdicts. *)
WrongResumeAll(t) ==
    LET round == Append(decisions[t], current[t])
    IN  /\ phase[t] = "asking"
        /\ ~Unresolved(current[t])
        /\ left[t] = 0
        /\ phase' = [phase EXCEPT ![t] = "running"]
        /\ decisions' = [decisions EXCEPT ![t] = <<>>]
        /\ handed' = handed \cup {round[i] : i \in DOMAIN round}
        /\ table' = table \ {current[t]}
        /\ current' = [current EXCEPT ![t] = 0]
        /\ UNCHANGED <<left, asks>>

(* The list of decisions is not a new one for every round.                 *)
WrongResumeKeepsRound(t) ==
    LET round == Append(decisions[t], current[t])
    IN  /\ phase[t] = "asking"
        /\ ~Unresolved(current[t])
        /\ left[t] = 0
        /\ phase' = [phase EXCEPT ![t] = "running"]
        /\ decisions' = [decisions EXCEPT ![t] = round]
        /\ handed' = handed \cup {round[i] : i \in
                         {j \in DOMAIN round : asks[round[j]].future = "approved"}}
        /\ table' = table \ {current[t]}
        /\ current' = [current EXCEPT ![t] = 0]
        /\ UNCHANGED <<left, asks>>

(* The last future of the round is resolved: the stream is resumed with    *)
(* one decision per call, and Holmes executes the approved ones.           *)
Resume(t) ==
    LET round == Append(decisions[t], current[t])
    IN  /\ phase[t] = "asking"
        /\ ~Unresolved(current[t])
        /\ left[t] = 0
        /\ phase' = [phase EXCEPT ![t] = "running"]
        /\ decisions' = [decisions EXCEPT ![t] = <<>>]
        /\ handed' = handed \cup {round[i] : i \in
                         {j \in DOMAIN round : asks[round[j]].future = "approved"}}
        /\ table' = table \ {current[t]}
        /\ current' = [current EXCEPT ![t] = 0]
        /\ UNCHANGED <<left, asks>>

(* Holmes has answered or raised, or saw the cancel_event that /stop sets  *)
(* (LLMInterruptedError): the turn ends.  Only a running Holmes looks at   *)
(* cancel_event: a turn that waits for an approval does not, so /stop has  *)
(* no action here.                                                         *)
EndTurn(t) ==
    /\ phase[t] = "running"
    /\ phase' = [phase EXCEPT ![t] = "ended"]
    /\ UNCHANGED <<current, left, decisions, asks, table, handed>>

(* wait_for gives up without the clean-up of the approval loop.            *)
WrongTimeoutKeepsEntry(t) ==
    /\ t \in Streaming
    /\ phase[t] # "ended"
    /\ phase' = [phase EXCEPT ![t] = "ended"]
    /\ current' = [current EXCEPT ![t] = 0]
    /\ left' = [left EXCEPT ![t] = 0]
    /\ decisions' = [decisions EXCEPT ![t] = <<>>]
    /\ asks' = [a \in DOMAIN asks |->
                  IF a = current[t] /\ Unresolved(a)
                  THEN [asks[a] EXCEPT !.future = "cancelled"] ELSE asks[a]]
    /\ UNCHANGED <<table, handed>>

(* The streaming turn's 240 s are over: wait_for cancels the task that     *)
(* consumes the stream and with it the future it awaits; the finally       *)
(* clause removes the table's entry.  No decision is handed to Holmes.     *)
Timeout(t) ==
    /\ t \in Streaming
    /\ phase[t] # "ended"
    /\ phase' = [phase EXCEPT ![t] = "ended"]
    /\ current' = [current EXCEPT ![t] = 0]
    /\ left' = [left EXCEPT ![t] = 0]
    /\ decisions' = [decisions EXCEPT ![t] = <<>>]
    /\ asks' = [a \in DOMAIN asks |->
                  IF a = current[t] /\ Unresolved(a)
                  THEN [asks[a] EXCEPT !.future = "cancelled"] ELSE asks[a]]
    /\ table' = table \ {current[t]}
    /\ UNCHANGED handed

(* Telegram shows the request.                                             *)
MessageAppears(a) ==
    /\ asks[a].sending
    /\ asks[a].message = "absent"
    /\ asks' = [asks EXCEPT ![a].message = "buttons"]
    /\ UNCHANGED <<phase, current, left, decisions, table, handed>>

(* send_message returns.                                                   *)
SendReturns(a) ==
    /\ asks[a].sending
    /\ asks[a].message # "absent"
    /\ asks' = [asks EXCEPT ![a].sending = FALSE]
    /\ UNCHANGED <<phase, current, left, decisions, table, handed>>

(* A failed send is logged and nothing else.                               *)
WrongSendFailureIgnored(a) ==
    /\ asks[a].sending
    /\ asks' = [asks EXCEPT ![a].sending = FALSE]
    /\ UNCHANGED <<phase, current, left, decisions, table, handed>>

(* send_message raises, the message shown or not: if the approval is still *)
(* in the table it is denied (set_result on a future that is done raises   *)
(* in its turn, and nobody sees it).                                       *)
SendRaises(a) ==
    /\ asks[a].sending
    /\ asks' = [asks EXCEPT
           ![a].sending = FALSE,
           ![a].future = IF a \in table /\ Unresolved(a) THEN "denied" ELSE @]
    /\ UNCHANGED <<phase, current, left, decisions, table, handed>>

(* Somebody of the chat taps a button: handle_callback_query calls         *)
(* handle_tool_approval_response, which resolves the future if the id is   *)
(* in the table and the future not done, and tells the tapper his verdict  *)
(* was taken in any case.                                                  *)
Tap(a, v) ==
    /\ asks[a].message = "buttons"
    /\ asks' = [asks EXCEPT
           ![a].future = IF a \in table /\ Unresolved(a) THEN v ELSE @,
           ![a].first = IF a \in table /\ @ = "none" THEN v ELSE @,
           ![a].told = @ \cup {v}]
    /\ UNCHANGED <<phase, current, left, decisions, table, handed>>

(* edit_message_text replaces the buttons by the text of the verdict.      *)
ButtonsVanish(a) ==
    /\ asks[a].message = "buttons"
    /\ asks[a].told # {}
    /\ asks' = [asks EXCEPT ![a].message = "edited"]
    /\ UNCHANGED <<phase, current, left, decisions, table, handed>>

Next ==
    \/ \E t \in Turns :
          \/ \E n \in 1..MaxCalls : ApprovalRequired(t, n)
          \/ AskAnotherCall(t)
          \/ Resume(t)
          \/ EndTurn(t)
          \/ Timeout(t)
    \/ \E a \in DOMAIN asks :
          \/ MessageAppears(a)
          \/ SendReturns(a)
          \/ SendRaises(a)
          \/ \E v \in Verdict : Tap(a, v)
          \/ ButtonsVanish(a)

Spec == Init /\ [][Next]_vars

(* The loop runs ready tasks and timers, Holmes returns from every call,   *)
(* and a call to Telegram returns or raises.                               *)
Fairness ==
    /\ \A t \in Turns :
          /\ WF_vars(AskAnotherCall(t))
          /\ WF_vars(Resume(t))
          /\ WF_vars(EndTurn(t))
          /\ WF_vars(Timeout(t))
    /\ \A a \in 1..MaxAsks :
          WF_vars(a \in DOMAIN asks /\ (SendReturns(a) \/ SendRaises(a)))

FairSpec == Spec /\ Fairness

(* In addition, somebody taps a button of every request that shows some.   *)
UsersAnswer ==
    \A a \in 1..MaxAsks :
        WF_vars(a \in DOMAIN asks /\ Unresolved(a) /\ \E v \in Verdict : Tap(a, v))

AnsweredSpec == FairSpec /\ UsersAnswer

----------------------------------------------------------------------------
(* The types of the state. *)
TypeOK ==
    /\ phase \in [Turns -> {"running", "asking", "ended"}]
    /\ current \in [Turns -> 0..Len(asks)]
    /\ left \in [Turns -> Nat]
    /\ decisions \in [Turns -> Seq(1..Len(asks))]
    /\ asks \in Seq(Ask)
    /\ table \subseteq 1..Len(asks)
    /\ handed \subseteq 1..Len(asks)

(* Holmes executes a call that needs approval only if the first person who *)
(* tapped while it was pending tapped Approve: not after a timeout, a      *)
(* failed send, a second thought or a tap on another call's buttons.       *)
ExecutedWasApproved == \A a \in handed : asks[a].first = "approved"

(* The table holds exactly the approvals some turn waits for: nothing is   *)
(* left behind by a timeout, and no wait is without its entry.             *)
TableIsWhatIsAwaited ==
    table = {current[t] : t \in {u \in Turns : phase[u] = "asking"}}

(* While a turn waits, somebody can still end the wait: the id is in the   *)
(* table, and the request is being sent or shows its buttons.  The request *)
(* is sent by another task and fails on its own, so the order in which the *)
(* loop registers, sends and waits is what makes this true.                *)
WaitIsAnswerable ==
    \A t \in Turns : phase[t] = "asking" /\ Unresolved(current[t]) =>
        /\ current[t] \in table
        /\ asks[current[t]].sending \/ asks[current[t]].message = "buttons"

(* An answer is final: a second tap, a late failure of the send or the     *)
(* turn's timeout never change it.  Part of ImplementsApproval.            *)
AnswerIsFinal ==
    [][\A a \in DOMAIN asks :
          ~Unresolved(a) => asks'[a].future = asks[a].future]_vars

(* Every turn ends, if the requests are answered: no wait is lost on the   *)
(* way through table, future and send.                                     *)
TurnEnds == \A t \in Turns : <>(phase[t] = "ended")

(* The calls of the round t is in, the one it waits for included.          *)
RoundOf(t) ==
    IF phase[t] = "asking" THEN Range(decisions[t]) \cup {current[t]} ELSE {}

Futures == [a \in DOMAIN asks |-> asks[a].future]
Rounds == [t \in Turns |-> RoundOf(t)]
Over == {t \in Turns : phase[t] = "ended"}

Approval == INSTANCE ApprovalService WITH
    answers <- Futures, round <- Rounds, executed <- handed, over <- Over

(* Table, futures, buttons and time limits implement ApprovalService: a    *)
(* call is answered once, and the approved calls of a round are executed   *)
(* together, once, when all are answered, and never for a turn that timed  *)
(* out in the middle of the round.                                         *)
ImplementsApproval == Approval!Spec

(* What the button's reply says ("Tool execution approved! The AI will     *)
(* continue with the tool execution."): the turn is still waiting for the  *)
(* call or has taken it as approved.  The code violates it: see README.    *)
ToldApprovedIsTrue ==
    \A a \in DOMAIN asks :
        "approved" \in asks[a].told => asks[a].future = "approved"

(* What docs/SOLUTION_ARCHITECTURE.md says of the non-streaming case ("a   *)
(* 5-minute timeout, defaulting to deny if no response arrives in time"):  *)
(* every wait ends even if nobody answers.  The code violates it.          *)
WaitEndsUnanswered ==
    \A a \in 1..MaxAsks :
        (a \in DOMAIN asks /\ Unresolved(a)) ~> ~(a \in DOMAIN asks /\ Unresolved(a))

----------------------------------------------------------------------------
(* The inductive invariant behind the theorems of ToolApproval_proofs.     *)

(* A turn waits for an approval of its own iff it is asking; the decisions *)
(* of its round are its own and taken.                                     *)
RoundState ==
    \A t \in Turns :
        /\ phase[t] = "asking" => /\ current[t] # 0
                                  /\ asks[current[t]].turn = t
        /\ phase[t] # "asking" => current[t] = 0 /\ left[t] = 0 /\ decisions[t] = <<>>
        /\ \A i \in DOMAIN decisions[t] : ~Unresolved(decisions[t][i])

(* An approval that is not answered is awaited, by nobody answered so far, *)
(* and can be answered; one that is approved was first tapped so.          *)
AskState ==
    \A a \in DOMAIN asks :
        /\ Unresolved(a) =>
              /\ a \in table
              /\ asks[a].told = {}
              /\ asks[a].first = "none"
              /\ asks[a].message # "edited"
              /\ asks[a].sending \/ asks[a].message = "buttons"
        /\ asks[a].future = "approved" => asks[a].first = "approved"

HandedState == \A a \in handed : asks[a].future = "approved"

(* A call in a round is one of that turn, and none that was executed: what *)
(* makes the round of a turn its own, for the refinement.                  *)
RoundIsFresh ==
    \A t \in Turns : \A a \in RoundOf(t) :
        /\ a \in DOMAIN asks
        /\ asks[a].turn = t
        /\ a \notin handed

(* All of it together is preserved by every step.                          *)
IInv ==
    /\ TypeOK
    /\ RoundState
    /\ AskState
    /\ HandedState
    /\ TableIsWhatIsAwaited

=============================================================================
