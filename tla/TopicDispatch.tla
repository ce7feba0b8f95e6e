--------------------------- MODULE TopicDispatch ---------------------------
(***************************************************************************)
(* Batching and dispatch of the messages of ONE forum topic, as            *)
(* handlers/message_handler.py does it: the per-topic batch registry       *)
(* _topic_batches, the debounce timer, the flush tasks, the per-topic      *)
(* asyncio.Lock and the /stop command.  Registry and lock are keyed by     *)
(* (chat_id, topic_id), so topics do not interact and one topic is enough. *)
(* The status entry of /ping (_active_investigations) is left out: nothing *)
(* but /ping reads it, a turn drops it before it saves and replies, and    *)
(* /claude writes and drops it without the lock.                           *)
(*                                                                         *)
(* All of it runs on one asyncio loop with concurrent updates: an action   *)
(* below is the code one task runs between two points where it can be      *)
(* suspended.  The MongoDB calls of a flush are synchronous (pymongo), so  *)
(* a flush that finds the lock free runs on until it awaits                *)
(* send_chat_action.                                                       *)
(*                                                                         *)
(* Messages are numbered by arrival; a batch's texts are joined in that    *)
(* order, so the set of their numbers says all there is to say.            *)
(***************************************************************************)
EXTENDS Integers, Sequences, FiniteSets

CONSTANTS
    MaxMessages,    \* bound of the model: messages sent to the topic
    BatchMax        \* config.message_batch_max_messages

ASSUME ConstantsAssumption ==
    /\ MaxMessages \in Nat
    /\ BatchMax \in Nat \ {0}

VARIABLES
    arrived,        \* number of the newest message
    registry,       \* _topic_batches[key], NoBatch when there is no entry
    flushTasks,     \* tasks created by fired timers that have not run yet
    dispatches,     \* the flushes that got past their early return, in order
    holder,         \* dispatch that holds the topic lock, 0 when it is free
    waiters,        \* dispatches queued on the lock
    discarded       \* messages dropped by /stop

vars == <<arrived, registry, flushTasks, dispatches, holder, waiters,
          discarded>>

----------------------------------------------------------------------------
(* A batch object.  Its identity is its first message; event is the        *)
(* dispatch whose cancel_event the batch carries (0: None, still pending). *)
Batch == [id : Nat, texts : SUBSET (Nat \ {0}), armed : BOOLEAN, event : Nat]

NoBatch == [id |-> 0, texts |-> {}, armed |-> FALSE, event |-> 0]

(* A dispatch: "waiting" for the lock, "typing" while it awaits            *)
(* send_chat_action, in its "turn", in the "apology" it awaits after an    *)
(* exception, or "done".  stopped is its cancel_event.                     *)
Dispatch == [batch : Nat, texts : SUBSET (Nat \ {0}),
             phase : {"waiting", "typing", "turn", "apology", "done"},
             stopped : BOOLEAN]

Pending == registry.id # 0 /\ registry.event = 0

Init ==
    /\ arrived = 0
    /\ registry = NoBatch
    /\ flushTasks = 0
    /\ dispatches = <<>>
    /\ holder = 0
    /\ waiters = <<>>
    /\ discarded = {}

----------------------------------------------------------------------------
(* Deliberately wrong variants, used to show that the properties notice    *)
(* them: the operators named Wrong... replace the one that follows.        *)

(* A flush that takes a free lock although others queue for it.            *)
WrongFlushBarges(b) ==
    LET d == Len(dispatches) + 1
        free == holder = 0
    IN  /\ registry' = [b EXCEPT !.armed = FALSE, !.event = d]
        /\ dispatches' = Append(dispatches,
               [batch |-> b.id, texts |-> b.texts, stopped |-> FALSE,
                phase |-> IF free THEN "typing" ELSE "waiting"])
        /\ holder' = IF free THEN d ELSE holder
        /\ waiters' = IF free THEN waiters ELSE Append(waiters, d)

(* _flush_batch on batch b, from its snapshot to its first suspension: the *)
(* timer is cancelled, a new cancel_event is put on the batch, and the     *)
(* dispatch takes the lock if it is free and nobody queues for it.  The    *)
(* texts stay in the batch and the batch stays in the registry.            *)
Flush(b) ==
    LET d == Len(dispatches) + 1
        free == holder = 0 /\ waiters = <<>>
    IN  /\ registry' = [b EXCEPT !.armed = FALSE, !.event = d]
        /\ dispatches' = Append(dispatches,
               [batch |-> b.id, texts |-> b.texts, stopped |-> FALSE,
                phase |-> IF free THEN "typing" ELSE "waiting"])
        /\ holder' = IF free THEN d ELSE holder
        /\ waiters' = IF free THEN waiters ELSE Append(waiters, d)

(* Joining the registered batch without asking whether it is dispatching.  *)
WrongJoinsDispatching(m) ==
    IF registry.id # 0
    THEN [registry EXCEPT !.texts = @ \cup {m}, !.armed = FALSE]
    ELSE [id |-> m, texts |-> {m}, armed |-> FALSE, event |-> 0]

(* The batch a new message joins: the pending one, or a fresh one when     *)
(* there is none or the registered one is already dispatching.  Either way *)
(* the timer is cancelled.                                                 *)
Joined(m) ==
    IF Pending
    THEN [registry EXCEPT !.texts = @ \cup {m}, !.armed = FALSE]
    ELSE [id |-> m, texts |-> {m}, armed |-> FALSE, event |-> 0]

(* The old timer is cancelled and no new one is armed for a batch that was *)
(* already pending.                                                        *)
WrongTimerNotRearmed ==
    LET m == arrived + 1
        b == Joined(m)
    IN  /\ m <= MaxMessages
        /\ arrived' = m
        /\ Cardinality(b.texts) < BatchMax
        /\ registry' = [b EXCEPT !.armed = ~Pending]
        /\ UNCHANGED <<flushTasks, dispatches, holder, waiters,
                       discarded>>

(* handle_message -> _enqueue_text -> _enqueue_for_batch below the caps:   *)
(* the message joins the batch and the quiet period starts over.           *)
EnqueueAndArm ==
    LET m == arrived + 1
        b == Joined(m)
    IN  /\ m <= MaxMessages
        /\ arrived' = m
        /\ Cardinality(b.texts) < BatchMax
        /\ registry' = [b EXCEPT !.armed = TRUE]
        /\ UNCHANGED <<flushTasks, dispatches, holder, waiters,
                       discarded>>

(* _enqueue_for_batch at a cap (BatchMax texts, or the batch older than    *)
(* message_batch_max_wait_seconds, which only a batch that was already     *)
(* pending can be): the message's own task flushes.                        *)
EnqueueAtCap ==
    LET m == arrived + 1
        b == Joined(m)
    IN  /\ m <= MaxMessages
        /\ arrived' = m
        /\ Cardinality(b.texts) >= BatchMax \/ Pending
        /\ Flush(b)
        /\ UNCHANGED <<flushTasks, discarded>>

(* handle_file: an uploaded file joins the batch and always flushes it.    *)
EnqueueFile ==
    LET m == arrived + 1
    IN  /\ m <= MaxMessages
        /\ arrived' = m
        /\ Flush(Joined(m))
        /\ UNCHANGED <<flushTasks, discarded>>

(* The loop runs the timer's callback.  It only creates the flush task;    *)
(* whatever is ready before that task runs first.                          *)
TimerFires ==
    /\ registry.armed
    /\ registry' = [registry EXCEPT !.armed = FALSE]
    /\ flushTasks' = flushTasks + 1
    /\ UNCHANGED <<arrived, dispatches, holder, waiters, discarded>>

(* A flush task starts.  It flushes whatever batch is registered NOW, a    *)
(* dispatching one included, and returns at once when there is none.       *)
FlushTaskRuns ==
    /\ flushTasks > 0
    /\ flushTasks' = flushTasks - 1
    /\ \/ /\ registry.id # 0
          /\ Flush(registry)
       \/ /\ registry.id = 0
          /\ UNCHANGED <<registry, dispatches, holder, waiters>>
    /\ UNCHANGED <<arrived, discarded>>

(* The lock is free and its first waiter takes it: user and conversation   *)
(* are read and send_chat_action is awaited.                               *)
AcquireLock ==
    /\ holder = 0
    /\ waiters # <<>>
    /\ holder' = Head(waiters)
    /\ waiters' = Tail(waiters)
    /\ dispatches' = [dispatches EXCEPT ![holder'].phase = "typing"]
    /\ UNCHANGED <<arrived, registry, flushTasks, discarded>>

(* send_chat_action returned: _handle_regular_response or                  *)
(* _handle_streaming_response runs the turn.                               *)
StartTurn ==
    /\ holder # 0
    /\ dispatches[holder].phase = "typing"
    /\ dispatches' = [dispatches EXCEPT ![holder].phase = "turn"]
    /\ UNCHANGED <<arrived, registry, flushTasks, holder, waiters,
                   discarded>>

(* MongoDB, send_chat_action or the turn raised: the error reply is sent.  *)
Apologise ==
    /\ holder # 0
    /\ dispatches[holder].phase \in {"typing", "turn"}
    /\ dispatches' = [dispatches EXCEPT ![holder].phase = "apology"]
    /\ UNCHANGED <<arrived, registry, flushTasks, holder, waiters,
                   discarded>>

(* Removing the registry entry whatever batch it is.                       *)
WrongAlwaysPops(d) == NoBatch

(* The registry entry is removed only if it is still this dispatch's batch *)
RegistryAfter(d) ==
    IF registry.id = dispatches[d].batch THEN NoBatch ELSE registry

(* The turn returned (answered, stopped or timed out) or its apology was   *)
(* sent: the finally clause, then the release of the lock.                 *)
EndTurn ==
    /\ holder # 0
    /\ dispatches[holder].phase \in {"turn", "apology"}
    /\ registry' = RegistryAfter(holder)
    /\ dispatches' = [dispatches EXCEPT ![holder].phase = "done"]
    /\ holder' = 0
    /\ UNCHANGED <<arrived, flushTasks, waiters, discarded>>

(* /stop with a dispatching batch in the registry: its cancel_event is set *)
(* ("Stopping current request").                                           *)
StopDispatch ==
    /\ registry.id # 0
    /\ registry.event # 0
    /\ dispatches' = [dispatches EXCEPT ![registry.event].stopped = TRUE]
    /\ UNCHANGED <<arrived, registry, flushTasks, holder, waiters,
                   discarded>>

(* /stop that throws the registered batch away without asking whether it   *)
(* is dispatching.                                                         *)
WrongStopDropsDispatching ==
    /\ registry.id # 0
    /\ discarded' = discarded \cup registry.texts
    /\ registry' = NoBatch
    /\ UNCHANGED <<arrived, flushTasks, dispatches, holder, waiters>>

(* /stop with a pending batch: the timer is cancelled and the batch is     *)
(* thrown away ("n pending message(s) discarded").  With no batch, /stop   *)
(* says "Nothing to stop." and changes nothing.                            *)
StopPending ==
    /\ Pending
    /\ discarded' = discarded \cup registry.texts
    /\ registry' = NoBatch
    /\ UNCHANGED <<arrived, flushTasks, dispatches, holder, waiters>>

Next ==
    \/ EnqueueAndArm \/ EnqueueAtCap \/ EnqueueFile
    \/ TimerFires \/ FlushTaskRuns
    \/ AcquireLock \/ StartTurn \/ Apologise \/ EndTurn
    \/ StopDispatch \/ StopPending

Spec == Init /\ [][Next]_vars

(* The loop runs every ready callback and task and every armed timer; a    *)
(* call to the Telegram API returns or raises.  That a TURN ends is an     *)
(* assumption here: the streaming turn is cut after 240 s, the regular one *)
(* has no limit of its own (see ToolApproval).                             *)
Fairness ==
    /\ WF_vars(TimerFires)
    /\ WF_vars(FlushTaskRuns)
    /\ WF_vars(AcquireLock)
    /\ WF_vars(StartTurn \/ Apologise)
    /\ WF_vars(EndTurn)

FairSpec == Spec /\ Fairness

----------------------------------------------------------------------------
(* Where message m is. *)
Dispatched(m) == \E d \in DOMAIN dispatches : m \in dispatches[d].texts
Batched(m) == Pending /\ m \in registry.texts
Served == UNION {dispatches[d].texts :
                   d \in {e \in DOMAIN dispatches : dispatches[e].phase = "done"}}

(* The types of the state of a topic. *)
TypeOK ==
    /\ arrived \in Nat
    /\ registry \in Batch
    /\ flushTasks \in Nat
    /\ dispatches \in Seq(Dispatch)
    /\ holder \in 0..Len(dispatches)
    /\ waiters \in Seq(1..Len(dispatches))
    /\ discarded \subseteq 1..arrived

(* Turns of one topic never overlap and start in the order of the flushes: *)
(* whoever is past the lock, every earlier dispatch is done.  ("Acquire    *)
(* the per-topic lock to serialize dispatch across overlapping batches.")  *)
TurnsInOrder ==
    \A c, d \in DOMAIN dispatches :
        c < d /\ dispatches[d].phase # "waiting" => dispatches[c].phase = "done"

(* No message is lost and none is in two places: it is in the pending      *)
(* batch, or was dropped by /stop, or is in a dispatch.  The registry is   *)
(* overwritten by fresh batches and cleared by whichever dispatch ends, so *)
(* this is about the identity test in _flush_batch's finally clause.       *)
NothingLost ==
    \A m \in 1..arrived :
        /\ m \in discarded \/ Batched(m) \/ Dispatched(m)
        /\ Batched(m) => m \notin discarded
        /\ Dispatched(m) => m \notin discarded /\ ~Batched(m)

(* A pending batch is never forgotten: its timer is armed, or a flush task *)
(* that will pick it up has been created.                                  *)
PendingIsScheduled == Pending => registry.armed \/ flushTasks > 0

(* Dispatches keep the order of arrival: of two dispatches the earlier one *)
(* has the older messages, unless they carry the very same batch.          *)
ArrivalOrder ==
    \A c, d \in DOMAIN dispatches : c < d =>
        \/ /\ dispatches[c].batch = dispatches[d].batch
           /\ dispatches[c].texts = dispatches[d].texts
        \/ \A m \in dispatches[c].texts, n \in dispatches[d].texts : m < n

(* /stop says "Stopping current request" only about a dispatch that is     *)
(* still waiting or running, never about one that has ended.               *)
StopHitsLiveDispatch ==
    registry.event # 0 =>
        /\ registry.event \in DOMAIN dispatches
        /\ dispatches[registry.event].batch = registry.id
        /\ dispatches[registry.event].phase # "done"

(* What the comment in _flush_batch says ("Snapshot and clear the pending  *)
(* state so new messages start a new batch"): a message is part of one     *)
(* dispatch only.  The code violates it: see the README.                   *)
DispatchedOnce ==
    \A c, d \in DOMAIN dispatches :
        c # d => dispatches[c].texts \cap dispatches[d].texts = {}

(* What the README says of /stop ("Stop a pending batch or in-flight       *)
(* request in this topic"): when it answers "Nothing to stop.", nothing is *)
(* in flight.  The code violates it: see the README.                       *)
NothingToStopIsTrue ==
    registry.id = 0 => \A d \in DOMAIN dispatches : dispatches[d].phase = "done"

(* Every message of the topic is eventually part of a finished turn or     *)
(* dropped by /stop: no message waits for ever behind a timer that was     *)
(* cancelled, a flush that returned early or a lock nobody releases.       *)
EveryMessageSettles ==
    \A m \in 1..MaxMessages : m <= arrived ~> m \in Served \cup discarded

(* The promise to the users of the topic.  A turn counts from the moment   *)
(* send_chat_action has returned or raised.                                *)
Service == INSTANCE TopicService WITH
    accepted <- arrived,
    serving  <- IF holder # 0 /\ dispatches[holder].phase \in {"turn", "apology"}
                THEN dispatches[holder].texts ELSE {},
    served   <- Served,
    dropped  <- discarded

(* The dispatcher implements that promise. *)
ImplementsService == Service!Spec

----------------------------------------------------------------------------
(* The inductive invariant behind the theorems of TopicDispatch_proofs.    *)

(* Dispatches get past the lock in index order: those beyond Passed wait,  *)
(* in the lock's queue, and those up to it are done, except the holder.    *)
Passed == Len(dispatches) - Len(waiters)

LockState ==
    /\ Passed >= 0
    /\ \A i \in 1..Len(waiters) : waiters[i] = Passed + i
    /\ \A d \in DOMAIN dispatches :
          /\ dispatches[d].phase = "waiting" <=> d > Passed
          /\ dispatches[d].phase = "done" <=> d <= Passed /\ d # holder
    /\ holder \in {0, Passed}

(* A batch holds its first message and only messages that arrived; a timer *)
(* is armed only for a pending batch; a dispatching batch is the batch of  *)
(* the dispatch it points to, unchanged since.                             *)
BatchState ==
    /\ registry.id = 0 => registry = NoBatch
    /\ registry.id # 0 => registry.id \in registry.texts
    /\ registry.texts \subseteq 1..arrived
    /\ registry.armed => Pending
    /\ \A d \in DOMAIN dispatches :
          /\ dispatches[d].batch \in dispatches[d].texts
          /\ dispatches[d].texts \subseteq 1..arrived
    /\ registry.event # 0 =>
          dispatches[registry.event].texts = registry.texts

(* The registered batch is the newest: every dispatch is of that very      *)
(* batch, or carries older messages only.                                  *)
RegistryIsNewest ==
    \A d \in DOMAIN dispatches :
        \/ /\ registry.event # 0
           /\ dispatches[d].batch = registry.id
           /\ dispatches[d].texts = registry.texts
        \/ \A m \in dispatches[d].texts, n \in registry.texts : m < n

(* All of it together is preserved by every step.                          *)
IInv ==
    /\ TypeOK
    /\ LockState
    /\ BatchState
    /\ StopHitsLiveDispatch
    /\ RegistryIsNewest
    /\ ArrivalOrder
    /\ NothingLost
    /\ PendingIsScheduled

=============================================================================
