--------------------------- MODULE ApprovalService ---------------------------
(***************************************************************************)
(* What the bot promises about tool calls that need a human's word,        *)
(* whatever table, futures, buttons and time limits stand behind it.  The  *)
(* calls of a turn come in rounds and are asked about one by one; a call   *)
(* is answered once and for good; the approved calls of a round, and no    *)
(* others, are executed together, once, when all of its calls have their   *)
(* answer; a turn that is over executes nothing.                           *)
(*                                                                         *)
(* Calls are numbered in the order they are asked about.                   *)
(***************************************************************************)
EXTENDS Integers, Sequences

CONSTANT Turns

VARIABLES
    answers,    \* answers[a]: what became of call a
    round,      \* round[t]: the calls of the round turn t is in
    executed,   \* the calls that were executed
    over        \* the turns that have ended

avars == <<answers, round, executed, over>>

Pending(a) == answers[a] = "pending"

Init ==
    /\ answers = <<>>
    /\ round = [t \in Turns |-> {}]
    /\ executed = {}
    /\ over = {}

(* The next call of the round, once the earlier ones have their answer.    *)
Request(t) ==
    /\ t \notin over
    /\ \A a \in round[t] : ~Pending(a)
    /\ answers' = Append(answers, "pending")
    /\ round' = [round EXCEPT ![t] = @ \cup {Len(answers) + 1}]
    /\ UNCHANGED <<executed, over>>

Answer(a, v) ==
    /\ Pending(a)
    /\ answers' = [answers EXCEPT ![a] = v]
    /\ UNCHANGED <<round, executed, over>>

Execute(t) ==
    /\ t \notin over
    /\ round[t] # {}
    /\ round[t] \cap executed = {}
    /\ \A a \in round[t] : ~Pending(a)
    /\ executed' = executed \cup {a \in round[t] : answers[a] = "approved"}
    /\ round' = [round EXCEPT ![t] = {}]
    /\ UNCHANGED <<answers, over>>

(* The turn ends, in the middle of a round or between two.                 *)
Close(t) ==
    /\ t \notin over
    /\ over' = over \cup {t}
    /\ answers' = [a \in DOMAIN answers |->
                     IF a \in round[t] /\ Pending(a) THEN "cancelled"
                                                     ELSE answers[a]]
    /\ round' = [round EXCEPT ![t] = {}]
    /\ UNCHANGED executed

Next ==
    \/ \E t \in Turns : Request(t) \/ Execute(t) \/ Close(t)
    \/ \E a \in DOMAIN answers, v \in {"approved", "denied"} : Answer(a, v)

Spec == Init /\ [][Next]_avars

=============================================================================
