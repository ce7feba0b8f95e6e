---------------------------- MODULE TopicService ----------------------------
(***************************************************************************)
(* What the bot promises to one forum topic, whatever batching, timers and *)
(* locks stand behind it: the messages of the topic are answered in turns, *)
(* one turn at a time and in the order they arrived; a message leaves the  *)
(* topic's backlog only by being part of a finished turn or by being       *)
(* dropped by /stop, and a message that was dropped is never answered.     *)
(*                                                                         *)
(* Messages are numbered in the order they arrived.  The promise is        *)
(* deliberately weaker than "each message is answered once": a turn may be *)
(* repeated (see TopicDispatch!DispatchedOnce for the way the code does).  *)
(***************************************************************************)
EXTENDS Integers

VARIABLES
    accepted,   \* how many messages of the topic have been accepted
    serving,    \* the messages of the turn in progress, {} between turns
    served,     \* the messages of the turns that have ended
    dropped     \* the messages a user discarded with /stop

svars == <<accepted, serving, served, dropped>>

Backlog == (1..accepted) \ (serving \cup served \cup dropped)

Init ==
    /\ accepted = 0
    /\ serving = {}
    /\ served = {}
    /\ dropped = {}

Accept ==
    /\ accepted' = accepted + 1
    /\ UNCHANGED <<serving, served, dropped>>

(* A turn starts when none is in progress.  It takes messages of the       *)
(* backlog and leaves none behind that is older; or it repeats messages    *)
(* that were already served.                                               *)
Begin(S) ==
    /\ serving = {}
    /\ S # {}
    /\ \/ /\ S \subseteq Backlog
          /\ \A m \in Backlog \ S, n \in S : n < m
       \/ S \subseteq served
    /\ serving' = S
    /\ UNCHANGED <<accepted, served, dropped>>

End ==
    /\ serving # {}
    /\ served' = served \cup serving
    /\ serving' = {}
    /\ UNCHANGED <<accepted, dropped>>

Drop(S) ==
    /\ S # {}
    /\ S \subseteq Backlog
    /\ dropped' = dropped \cup S
    /\ UNCHANGED <<accepted, serving, served>>

Next ==
    \/ Accept
    \/ \E S \in SUBSET (1..accepted) : Begin(S) \/ Drop(S)
    \/ End

Spec == Init /\ [][Next]_svars

=============================================================================
