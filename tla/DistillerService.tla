-------------------------- MODULE DistillerService --------------------------
(***************************************************************************)
(* What the background distiller promises, whatever timers, locks and      *)
(* semaphores stand behind it.  A topic is distilled by one run at a time, *)
(* which reads a window of its conversation that has grown since the mark  *)
(* of the last one; at most MaxConcurrent runs wait for a call of the LLM. *)
(* Only a call that is answered while its run waits moves the topic's mark *)
(* and replaces its facts; one that failed or was given up leaves both.    *)
(* That a call given up ends, or when, is not promised.  A restart cuts    *)
(* the runs, costs at most the facts of the topic whose run was writing,   *)
(* and puts the marks back to those kept in the database.                  *)
(***************************************************************************)
EXTENDS Integers, FiniteSets

CONSTANTS Topics, Texts, MinTurns, MaxTurns, MaxConcurrent

VARIABLES
    length,     \* length[k]: messages of topic k's conversation
    work,       \* the runs: topic, and size of the window that is read
    calls,      \* those that wait for a call of the LLM
    mark,       \* mark[k]: the window k was last distilled at
    kept,       \* kept[k]: the mark in the database
    facts       \* facts[k]: what the topic's latest run has stored

dvars == <<length, work, calls, mark, kept, facts>>

Window(n) == IF n < MaxTurns THEN n ELSE MaxTurns

Idle(k) == \A w \in work : w.topic # k

Init ==
    /\ length = [k \in Topics |-> 0]
    /\ work = {} /\ calls = {}
    /\ mark = [k \in Topics |-> 0] /\ kept = [k \in Topics |-> 0]
    /\ facts = [k \in Topics |-> {}]

(* A message is saved, or the conversation is cleared.                     *)
Talk(k) ==
    /\ length' = [length EXCEPT ![k] = @ + 1]
    /\ UNCHANGED <<work, calls, mark, kept, facts>>

Clear(k) ==
    /\ length' = [length EXCEPT ![k] = 0]
    /\ UNCHANGED <<work, calls, mark, kept, facts>>

(* The mark cannot be read from the database and is taken to be 0.         *)
Misread(k) ==
    /\ Idle(k) /\ mark[k] = kept[k]
    /\ mark' = [mark EXCEPT ![k] = 0]
    /\ UNCHANGED <<length, work, calls, kept, facts>>

Begin(k) ==
    LET n == Window(length[k])
    IN  /\ Idle(k)
        /\ n >= MinTurns
        /\ \/ mark' = mark
           \/ mark[k] = kept[k] /\ mark' = [mark EXCEPT ![k] = 0]
        /\ n > mark'[k]
        /\ work' = work \cup {[topic |-> k, size |-> n]}
        /\ UNCHANGED <<length, calls, kept, facts>>

Call(w) ==
    /\ w \notin calls
    /\ Cardinality(calls) < MaxConcurrent
    /\ calls' = calls \cup {w}
    /\ UNCHANGED <<length, work, mark, kept, facts>>

Ends(w) ==
    /\ w \in calls
    /\ work' = work \ {w} /\ calls' = calls \ {w}
    /\ UNCHANGED length

GiveUp(w) == Ends(w) /\ UNCHANGED <<mark, kept, facts>>

Finish(w, F) ==
    /\ Ends(w)
    /\ mark' = [mark EXCEPT ![w.topic] = w.size]
    /\ kept' = [kept EXCEPT ![w.topic] = w.size]
    /\ facts' = [facts EXCEPT ![w.topic] = F]

Keeps(k) == facts' = facts \/ facts' = [facts EXCEPT ![k] = {}]

FinishUnrecorded(w) ==
    /\ Ends(w) /\ Keeps(w.topic)
    /\ mark' = [mark EXCEPT ![w.topic] = w.size]
    /\ UNCHANGED kept

Restart ==
    /\ work' = {} /\ calls' = {} /\ mark' = kept
    /\ facts' = facts \/ \E w \in calls : Keeps(w.topic)
    /\ UNCHANGED <<length, kept>>

Next ==
    \/ \E k \in Topics : Talk(k) \/ Clear(k) \/ Misread(k) \/ Begin(k)
    \/ \E w \in work :
        \/ Call(w) \/ GiveUp(w) \/ FinishUnrecorded(w)
        \/ \E F \in SUBSET Texts : Finish(w, F)
    \/ Restart

Spec == Init /\ [][Next]_dvars

=============================================================================
