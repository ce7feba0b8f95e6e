---------------------------- MODULE Consolidator ----------------------------
(***************************************************************************)
(* The background distiller of idle topics: services/                      *)
(* consolidator_service.py with the store it writes, services/             *)
(* distilled_fact_store.py.  Idle timers, the fire tasks they create, the  *)
(* per-topic lock, the semaphore around the LLM call, the idle guard with  *)
(* its checkpoint in memory and in MongoDB, the three writes that end a    *)
(* run, and a restart of the process at any point, between two of those    *)
(* writes included.                                                        *)
(*                                                                         *)
(* One asyncio loop: an action is what a task does between two awaits.     *)
(* The store is synchronous, so what follows the LLM call is one step as   *)
(* far as other tasks can tell; only a restart can cut it.                 *)
(*                                                                         *)
(* The LLM call runs in a worker thread (asyncio.to_thread).  A run that   *)
(* stops waiting for it gives its slot and its lock back, but the thread   *)
(* goes on: its call is abandoned, and nobody reads its answer.            *)
(*                                                                         *)
(* Of a conversation only its length matters, of a fact its text and       *)
(* whether its source_run_id is the topic's latest_run_id.                 *)
(***************************************************************************)
EXTENDS Integers, FiniteSets

CONSTANTS
    Topics,
    Texts,          \* fact texts the LLM may extract
    MinTurns,       \* config.consolidator_min_turns
    MaxTurns,       \* config.consolidator_max_turns
    MaxConcurrent,  \* config.consolidator_max_concurrent
    MaxPosts,       \* bound of the model: messages saved in all
    MaxRestarts     \* bound of the model

ASSUME ConstantsAssumption ==
    /\ MinTurns \in Nat
    /\ MaxTurns \in Nat
    /\ MaxConcurrent \in Nat \ {0}
    /\ MaxPosts \in Nat
    /\ MaxRestarts \in Nat

VARIABLES
    posted,         \* messages ever saved, in all topics
    conv,           \* conv[k]: messages of its conversation (0: no document)
    timer,          \* timer[k]: is the timer in _timers armed?
    strays,         \* strays[k]: armed timers that are not in _timers
    due,            \* due[k]: fire tasks created and not started
    runs,           \* runs past the idle guard, holding their topic's lock
    slots,          \* value of the semaphore
    abandoned,      \* LLM calls that go on although their run has timed out
    count,          \* count[k]: _last_distilled_count, Unknown when absent
    saved,          \* saved[k]: distilled_runs.last_distilled_count
    live,           \* live[k]: texts stored by the topic's latest run
    stale,          \* stale[k]: texts stored by any other run of the topic
    seen,           \* seen[k]: conv when the last finished run was loaded
    lapse,          \* lapse[k]: the checkpoint of k's last finished run is lost
    torn,           \* torn[k]: a restart cut the writes of k's last run, Redoable
    restarts

memory == <<timer, strays, due, runs, slots, abandoned, count>>
store  == <<saved, live, stale>>
vars   == <<posted, conv, memory, store, seen, lapse, torn, restarts>>

Unknown == -1

(* A run waits for the semaphore ("queued") or for the LLM ("calling").    *)
(* size is the number of messages it inspects, upto the conversation's     *)
(* length at that moment.                                                  *)
Run == [topic : Topics, phase : {"queued", "calling"}, size : Nat, upto : Nat]

Init ==
    /\ posted = 0
    /\ conv = [k \in Topics |-> 0]
    /\ timer = [k \in Topics |-> FALSE]
    /\ strays = [k \in Topics |-> 0]
    /\ due = [k \in Topics |-> 0]
    /\ runs = {}
    /\ slots = MaxConcurrent
    /\ abandoned = 0
    /\ count = [k \in Topics |-> Unknown]
    /\ saved = [k \in Topics |-> 0]
    /\ live = [k \in Topics |-> {}]
    /\ stale = [k \in Topics |-> {}]
    /\ seen = [k \in Topics |-> 0]
    /\ lapse = [k \in Topics |-> FALSE]
    /\ torn = [k \in Topics |-> FALSE]
    /\ restarts = 0

(* len(get_recent_messages(max_turns)).                                    *)
Window(n) == IF n < MaxTurns THEN n ELSE MaxTurns

Locked(k) == \E r \in runs : r.topic = k

(* The checkpoint of a topic: the one in memory, else the one in MongoDB.  *)
Checkpoint(k) == IF count[k] = Unknown THEN saved[k] ELSE count[k]

(* What the idle guard may take for it: 0 when the read from MongoDB fails.*)
Checkpoints(k) == IF count[k] = Unknown THEN {saved[k], 0} ELSE {count[k]}

(* It is kept in memory either way.                                        *)
Reads(k, c) ==
    /\ c \in Checkpoints(k)
    /\ count' = [count EXCEPT ![k] = c]
    /\ lapse' = [lapse EXCEPT ![k] = @ \/ c # Checkpoint(k)]

----------------------------------------------------------------------------
(* A turn is saved and schedule_if_idle re-arms the topic's timer.         *)
Post(k) ==
    /\ posted < MaxPosts
    /\ posted' = posted + 1
    /\ conv' = [conv EXCEPT ![k] = @ + 1]
    /\ timer' = [timer EXCEPT ![k] = TRUE]
    /\ UNCHANGED <<strays, due, runs, slots, abandoned, count, store, seen,
                   lapse, torn, restarts>>

(* /claude saves its turn without a call of schedule_if_idle.              *)
PostByClaude(k) ==
    /\ posted < MaxPosts
    /\ posted' = posted + 1
    /\ conv' = [conv EXCEPT ![k] = @ + 1]
    /\ UNCHANGED <<memory, store, seen, lapse, torn, restarts>>

(* /clear deletes the conversation.  Timer, checkpoint and facts stay.     *)
Clear(k) ==
    /\ conv[k] > 0
    /\ conv' = [conv EXCEPT ![k] = 0]
    /\ torn' = [torn EXCEPT ![k] = FALSE]
    /\ UNCHANGED <<posted, memory, store, seen, lapse, restarts>>

(* The loop runs a timer's callback, which only creates the fire task.     *)
TimerFires(k) ==
    /\ \/ timer[k] /\ timer' = [timer EXCEPT ![k] = FALSE] /\ UNCHANGED strays
       \/ strays[k] > 0 /\ strays' = [strays EXCEPT ![k] = @ - 1] /\ UNCHANGED timer
    /\ due' = [due EXCEPT ![k] = @ + 1]
    /\ UNCHANGED <<posted, conv, runs, slots, abandoned, count, store, seen,
                   lapse, torn, restarts>>

(* _fire starts: it removes _timers[key] from the dictionary, a timer that *)
(* has been armed since included, without cancelling it.                   *)
FireStarts(k) ==
    /\ due[k] > 0
    /\ due' = [due EXCEPT ![k] = @ - 1]
    /\ timer' = [timer EXCEPT ![k] = FALSE]
    /\ strays' = [strays EXCEPT ![k] = IF timer[k] THEN @ + 1 ELSE @]

(* Returning early: a run of this topic is in flight ...                   *)
FireFindsRun(k) ==
    /\ FireStarts(k)
    /\ Locked(k)
    /\ UNCHANGED <<posted, conv, runs, slots, abandoned, count, store, seen,
                   lapse, torn, restarts>>

(* ... or there is no conversation ...                                     *)
FireFindsNothing(k) ==
    /\ FireStarts(k)
    /\ ~Locked(k)
    /\ conv[k] = 0
    /\ UNCHANGED <<posted, conv, runs, slots, abandoned, count, store, seen,
                   lapse, torn, restarts>>

(* ... or the idle guard sees no new messages ...                          *)
FireFindsNoNews(k) ==
    /\ FireStarts(k)
    /\ ~Locked(k)
    /\ conv[k] > 0
    /\ \E c \in Checkpoints(k) : Window(conv[k]) <= c /\ Reads(k, c)
    /\ UNCHANGED <<posted, conv, runs, slots, abandoned, store, seen, torn, restarts>>

(* ... or there are too few of them, or none with any text in it.          *)
FireFindsTooFew(k) ==
    /\ FireStarts(k)
    /\ ~Locked(k)
    /\ conv[k] > 0
    /\ \E c \in Checkpoints(k) : Window(conv[k]) > c /\ Reads(k, c)
    /\ UNCHANGED <<posted, conv, runs, slots, abandoned, store, seen, torn, restarts>>

(* A fire that does not ask whether the topic's lock is held.              *)
WrongFireIgnoresLock(k) ==
    /\ FireStarts(k)
    /\ conv[k] > 0
    /\ Window(conv[k]) >= MinTurns
    /\ \E c \in Checkpoints(k) : Window(conv[k]) > c /\ Reads(k, c)
    /\ runs' = runs \cup {[topic |-> k, phase |-> "queued",
                           size |-> Window(conv[k]), upto |-> conv[k]]}
    /\ UNCHANGED <<posted, conv, slots, abandoned, store, seen, torn, restarts>>

(* A fire whose idle guard is off by one.                                  *)
WrongFireGuard(k) ==
    /\ FireStarts(k)
    /\ ~Locked(k)
    /\ conv[k] > 0
    /\ Window(conv[k]) >= MinTurns
    /\ \E c \in Checkpoints(k) : Window(conv[k]) >= c /\ Reads(k, c)
    /\ runs' = runs \cup {[topic |-> k, phase |-> "queued",
                           size |-> Window(conv[k]), upto |-> conv[k]]}
    /\ UNCHANGED <<posted, conv, slots, abandoned, store, seen, torn, restarts>>

(* Otherwise the lock is taken, the transcript made and a slot asked for.  *)
FireBeginsRun(k) ==
    /\ FireStarts(k)
    /\ ~Locked(k)
    /\ conv[k] > 0
    /\ Window(conv[k]) >= MinTurns
    /\ \E c \in Checkpoints(k) : Window(conv[k]) > c /\ Reads(k, c)
    /\ runs' = runs \cup {[topic |-> k, phase |-> "queued",
                           size |-> Window(conv[k]), upto |-> conv[k]]}
    /\ UNCHANGED <<posted, conv, slots, abandoned, store, seen, torn, restarts>>

(* The semaphore lets the run through: the LLM is called in a thread.      *)
TakeSlot(r) ==
    /\ r.phase = "queued"
    /\ slots > 0
    /\ slots' = slots - 1
    /\ runs' = (runs \ {r}) \cup {[r EXCEPT !.phase = "calling"]}
    /\ UNCHANGED <<posted, conv, timer, strays, due, abandoned, count, store,
                   seen, lapse, torn, restarts>>

(* A failure that forgets the semaphore.                                   *)
WrongCallFailsKeepsSlot(r) ==
    /\ r.phase = "calling"
    /\ runs' = runs \ {r}
    /\ UNCHANGED <<posted, conv, timer, strays, due, slots, abandoned, count,
                   store, seen, lapse, torn, restarts>>

(* The LLM raised twice, or the call timed out in the queue of the thread  *)
(* pool and is dropped: the run ends and leaves the checkpoint alone.      *)
CallFails(r) ==
    /\ r.phase = "calling"
    /\ slots' = slots + 1
    /\ runs' = runs \ {r}
    /\ UNCHANGED <<posted, conv, timer, strays, due, abandoned, count, store,
                   seen, lapse, torn, restarts>>

(* wait_for gave up after consolidator_llm_timeout_seconds: slot and lock  *)
(* are given back, the checkpoint is left alone, and the thread goes on.   *)
CallTimesOut(r) ==
    /\ r.phase = "calling"
    /\ slots' = slots + 1
    /\ abandoned' = abandoned + 1
    /\ runs' = runs \ {r}
    /\ UNCHANGED <<posted, conv, timer, strays, due, count, store, seen, lapse,
                   torn, restarts>>

(* An abandoned call returns or raises; the result is thrown away.         *)
AbandonedEnds ==
    /\ abandoned > 0
    /\ abandoned' = abandoned - 1
    /\ UNCHANGED <<posted, conv, timer, strays, due, runs, slots, count, store,
                   seen, lapse, torn, restarts>>

(* The writes that end a run, in their order.  retire_topic_facts deletes  *)
(* the topic's facts or fails, which is logged; add inserts a text unless  *)
(* it is stored already, for whatever topic, or the insert fails;          *)
(* record_run moves latest_run_id and the checkpoint.                      *)
Kept(k, retired) == IF retired THEN {} ELSE live[k] \cup stale[k]

Fresh(k, F, retired) ==
    F \ (Kept(k, retired) \cup UNION {live[j] \cup stale[j] : j \in Topics \ {k}})

(* The facts of every topic of the chat are retired.                       *)
WrongRunRetiresAll(r, F, retired) ==
    LET k == r.topic
    IN  /\ r.phase = "calling"
        /\ slots' = slots + 1
        /\ runs' = runs \ {r}
        /\ live' = [j \in Topics |-> IF j = k THEN Fresh(k, F, retired)
                                     ELSE IF retired THEN {} ELSE live[j]]
        /\ stale' = [stale EXCEPT ![k] = Kept(k, retired)]
        /\ saved' = [saved EXCEPT ![k] = r.size]
        /\ count' = [count EXCEPT ![k] = r.size]
        /\ seen' = [seen EXCEPT ![k] = r.upto]
        /\ lapse' = [lapse EXCEPT ![k] = FALSE]
        /\ torn' = [torn EXCEPT ![k] = FALSE]
        /\ UNCHANGED <<posted, conv, timer, strays, due, abandoned, restarts>>

(* The LLM answered with the texts F and record_run succeeded.             *)
RunRecorded(r, F, retired) ==
    LET k == r.topic
    IN  /\ r.phase = "calling"
        /\ slots' = slots + 1
        /\ runs' = runs \ {r}
        /\ live' = [live EXCEPT ![k] = Fresh(k, F, retired)]
        /\ stale' = [stale EXCEPT ![k] = Kept(k, retired)]
        /\ saved' = [saved EXCEPT ![k] = r.size]
        /\ count' = [count EXCEPT ![k] = r.size]
        /\ seen' = [seen EXCEPT ![k] = r.upto]
        /\ lapse' = [lapse EXCEPT ![k] = FALSE]
        /\ torn' = [torn EXCEPT ![k] = FALSE]
        /\ UNCHANGED <<posted, conv, timer, strays, due, abandoned, restarts>>

(* The facts of k before record_run: the new ones are of no latest run.    *)
WrittenUnrecorded(k, F, retired) ==
    /\ live' = [live EXCEPT ![k] = IF retired THEN {} ELSE @]
    /\ stale' = [stale EXCEPT
                    ![k] = Fresh(k, F, retired) \cup (IF retired THEN {} ELSE @)]

(* The LLM answered, but record_run failed, which is logged.               *)
RunNotRecorded(r, F, retired) ==
    LET k == r.topic
    IN  /\ r.phase = "calling"
        /\ slots' = slots + 1
        /\ runs' = runs \ {r}
        /\ WrittenUnrecorded(k, F, retired)
        /\ count' = [count EXCEPT ![k] = r.size]
        /\ seen' = [seen EXCEPT ![k] = r.upto]
        /\ lapse' = [lapse EXCEPT ![k] = FALSE]
        /\ torn' = [torn EXCEPT ![k] = FALSE]
        /\ UNCHANGED <<posted, conv, timer, strays, due, abandoned, saved, restarts>>

(* The process comes up: memory is empty, and backfill_all_topics arms a   *)
(* timer for every topic with a conversation.                              *)
Reboot ==
    /\ restarts < MaxRestarts
    /\ restarts' = restarts + 1
    /\ timer' = [k \in Topics |-> conv[k] > 0]
    /\ strays' = [k \in Topics |-> 0]
    /\ due' = [k \in Topics |-> 0]
    /\ runs' = {}
    /\ slots' = MaxConcurrent
    /\ abandoned' = 0
    /\ lapse' = [k \in Topics |-> lapse[k] \/ saved[k] # Window(seen[k])]
    /\ count' = [k \in Topics |-> Unknown]

Restart ==
    /\ Reboot
    /\ UNCHANGED <<posted, conv, store, seen, torn>>

(* Can the next process be expected to do run r again?  Not if its         *)
(* conversation was cleared meanwhile, and not if r ran only because its   *)
(* checkpoint could not be read.                                           *)
Redoable(r) == conv[r.topic] >= r.upto /\ count[r.topic] >= saved[r.topic]

(* A process that dies after a record_run moved before the inserts.        *)
WrongRestartMidWrites(r, F, retired) ==
    /\ r.phase = "calling"
    /\ Reboot
    /\ live' = [live EXCEPT ![r.topic] = {}]
    /\ stale' = [stale EXCEPT ![r.topic] = {}]
    /\ saved' = [saved EXCEPT ![r.topic] = r.size]
    /\ torn' = [torn EXCEPT ![r.topic] = Redoable(r)]
    /\ UNCHANGED <<posted, conv, seen>>

(* The process dies between the writes of run r: the topic's facts are     *)
(* retired, all, some or none of the new ones are added (F), and           *)
(* record_run has not happened.                                            *)
RestartMidWrites(r, F, retired) ==
    /\ r.phase = "calling"
    /\ Reboot
    /\ WrittenUnrecorded(r.topic, F, retired)
    /\ torn' = [torn EXCEPT ![r.topic] = Redoable(r)]
    /\ UNCHANGED <<posted, conv, saved, seen>>

Next ==
    \/ \E k \in Topics :
          \/ Post(k)
          \/ PostByClaude(k)
          \/ Clear(k)
          \/ TimerFires(k)
          \/ FireFindsRun(k)
          \/ FireFindsNothing(k)
          \/ FireFindsNoNews(k)
          \/ FireFindsTooFew(k)
          \/ FireBeginsRun(k)
    \/ \E r \in runs :
          \/ TakeSlot(r)
          \/ CallFails(r)
          \/ CallTimesOut(r)
          \/ \E F \in SUBSET Texts, retired \in BOOLEAN :
                \/ RunRecorded(r, F, retired)
                \/ RunNotRecorded(r, F, retired)
                \/ RestartMidWrites(r, F, retired)
    \/ AbandonedEnds
    \/ Restart

Spec == Init /\ [][Next]_vars

(* The loop runs armed timers and ready tasks.  The LLM call returns or is *)
(* given up after its timeout; the semaphore's waiters are a FIFO queue,   *)
(* so a waiting run is passed over only a bounded number of times.         *)
CallEnds(r) ==
    \/ CallFails(r)
    \/ CallTimesOut(r)
    \/ \E F \in SUBSET Texts, retired \in BOOLEAN :
          RunRecorded(r, F, retired) \/ RunNotRecorded(r, F, retired)

Fairness ==
    \A k \in Topics :
        /\ SF_vars(\E r \in runs : r.topic = k /\ TakeSlot(r))
        /\ WF_vars(\E r \in runs : r.topic = k /\ CallEnds(r))

FairSpec == Spec /\ Fairness

----------------------------------------------------------------------------
(* The types of the state. *)
TypeOK ==
    /\ posted \in 0..MaxPosts
    /\ conv \in [Topics -> Nat]
    /\ timer \in [Topics -> BOOLEAN]
    /\ strays \in [Topics -> Nat]
    /\ due \in [Topics -> Nat]
    /\ runs \subseteq Run
    /\ slots \in Nat
    /\ abandoned \in Nat
    /\ count \in [Topics -> Nat \cup {Unknown}]
    /\ saved \in [Topics -> Nat]
    /\ live \in [Topics -> SUBSET Texts]
    /\ stale \in [Topics -> SUBSET Texts]
    /\ seen \in [Topics -> Nat]
    /\ lapse \in [Topics -> BOOLEAN]
    /\ torn \in [Topics -> BOOLEAN]
    /\ restarts \in 0..MaxRestarts

(* A topic has one run at a time, however many timers fire: overlapping    *)
(* runs would retire each other's facts.                                   *)
OneRunPerTopic == \A q, r \in runs : q.topic = r.topic => q = r

(* The semaphore is never leaked or over-released: not by a timeout, an    *)
(* exception, or a run that waits for it.                                  *)
SlotsAccountedFor ==
    slots + Cardinality({r \in runs : r.phase = "calling"}) = MaxConcurrent

(* The LLM is asked only about a window larger than the one the topic's    *)
(* last finished run inspected, in this process or an earlier one, unless  *)
(* that run's checkpoint is lost: a restart found it unrecorded, or it     *)
(* could not be read from MongoDB and was taken for 0.  ("Idle topics are  *)
(* free after the first distillation.")  It takes the topic's lock for the *)
(* guard to see the checkpoint of the run before.                          *)
RunsHaveNews ==
    \A r \in runs : r.size > Window(seen[r.topic]) \/ lapse[r.topic]

(* A restart between the writes of a run leaves the topic without the      *)
(* facts it had, but also with a checkpoint the idle guard lets pass: the  *)
(* next fire does the run again.                                           *)
TornRunIsRedone ==
    \A k \in Topics : torn[k] => /\ Window(conv[k]) > Checkpoint(k)
                                 /\ Window(conv[k]) >= MinTurns

(* The topic's lock is always released again, even with all slots taken.   *)
RunsEnd == \A k \in Topics : Locked(k) ~> ~Locked(k)

(* A run as the abstract distiller sees it.                                *)
Tag(r) == [topic |-> r.topic, size |-> r.size]
Work == {Tag(r) : r \in runs}
Calls == {Tag(r) : r \in {q \in runs : q.phase = "calling"}}
Marks == [k \in Topics |-> Checkpoint(k)]

Distiller == INSTANCE DistillerService WITH
    length <- conv, work <- Work, calls <- Calls,
    mark <- Marks, kept <- saved, facts <- live

(* Timers, fires, locks, the semaphore, both checkpoints and the writes    *)
(* implement DistillerService: whatever fires, fails or is cut, a topic is *)
(* distilled by one run at a time and for news only, its mark moves only   *)
(* with an answered call, and nobody else's facts are touched.  The calls  *)
(* are those a run waits for; abandoned ones are no part of the promise.   *)
ImplementsDistiller == Distiller!Spec

(* What the module's docstring says of the semaphore ("the semaphore       *)
(* bounds how many topics hit the model endpoint at once"): no more calls  *)
(* of the LLM go on than it has slots.  A timed-out call goes on without   *)
(* one: the code violates this, see the README.                            *)
EndpointBounded ==
    Cardinality({r \in runs : r.phase = "calling"}) + abandoned <= MaxConcurrent

(* What the module's docstring says of the idle guard ("If the reloaded    *)
(* conversation has no more messages than the previous run, skip"): a fire *)
(* skips only then.  The code compares windows of at most MaxTurns: it     *)
(* violates this, see the README.                                          *)
SkipsOnlyWithoutNews ==
    [][\A k \in Topics : FireFindsNoNews(k) => conv[k] <= seen[k]]_vars

(* What record_run's docstring says of its own failure ("the topic's       *)
(* injection set keeps the previous run's facts for now").  The run has    *)
(* already deleted them: the code violates this, see the README.           *)
FailedRecordKeepsFacts ==
    [][\A r \in runs, F \in SUBSET Texts, retired \in BOOLEAN :
          RunNotRecorded(r, F, retired) => live'[r.topic] = live[r.topic]]_vars

=============================================================================
