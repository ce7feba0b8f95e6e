------------------------ MODULE Consolidator_proofs ------------------------
(***************************************************************************)
(* Proofs of the invariants of Consolidator for any topics, any window,    *)
(* any number of slots, messages and restarts.                             *)
(*                                                                         *)
(* RunsHaveNews follows from GuardState and CheckpointState: a run's       *)
(* window is larger than its topic's checkpoint, which rests on            *)
(* OneRunPerTopic, because the checkpoint does not move while the run is   *)
(* in flight; and the checkpoint, wherever it is kept, is the window of    *)
(* the last finished run, unless it was lost. TornRunIsRedone does not     *)
(* survive a restart by itself, which forgets the checkpoint in memory:    *)
(* TornState says that the one in MongoDB lets the run pass as well.       *)
(***************************************************************************)
EXTENDS Consolidator, FiniteSetTheorems, TLAPS

RunState ==
    \A r \in runs : /\ r.size = Window(r.upto)
                    /\ r.size >= MinTurns

GuardState == \A r \in runs : r.size > Checkpoint(r.topic)

CheckpointState ==
    \A k \in Topics : lapse[k] \/ Checkpoint(k) = Window(seen[k])

TornState ==
    \A k \in Topics : torn[k] =>
        /\ Window(conv[k]) >= MinTurns
        /\ Window(conv[k]) > saved[k]
        /\ count[k] # Unknown => Window(conv[k]) > count[k]

Calling == {r \in runs : r.phase = "calling"}

SlotState == IsFiniteSet(runs) /\ slots + Cardinality(Calling) = MaxConcurrent

RunInv ==
    /\ TypeOK
    /\ OneRunPerTopic
    /\ RunState
    /\ GuardState
    /\ TornState
    /\ SlotState

IInv == RunInv /\ CheckpointState

----------------------------------------------------------------------------
(* The window of a longer conversation is not smaller.                     *)
LEMMA WindowGrows ==
    ASSUME NEW m \in Nat, NEW n \in Nat, m <= n
    PROVE  Window(m) \in Nat /\ Window(m) <= Window(n)
BY ConstantsAssumption DEF Window

LEMMA CheckpointType ==
    ASSUME TypeOK, NEW k \in Topics
    PROVE  /\ Checkpoint(k) \in Nat
           /\ \A c \in Checkpoints(k) : c \in Nat
BY DEF TypeOK, Checkpoint, Checkpoints, Unknown

----------------------------------------------------------------------------
(* Types *)

LEMMA ReadTypes ==
    ASSUME TypeOK, NEW k \in Topics, NEW c, Reads(k, c)
    PROVE  /\ count' \in [Topics -> Nat \cup {Unknown}]
           /\ lapse' \in [Topics -> BOOLEAN]
<1>1. count' \in [Topics -> Nat \cup {Unknown}]
  BY CheckpointType DEF TypeOK, Reads
<1>2. lapse' \in [Topics -> BOOLEAN]
  <2>1. (lapse[k] \/ c # Checkpoint(k)) \in BOOLEAN
    BY DEF TypeOK
  <2> QED  BY <2>1 DEF TypeOK, Reads
<1> QED  BY <1>1, <1>2

LEMMA FireTypes ==
    ASSUME TypeOK, NEW k \in Topics, FireStarts(k)
    PROVE  /\ timer' \in [Topics -> BOOLEAN]
           /\ strays' \in [Topics -> Nat]
           /\ due' \in [Topics -> Nat]
<1>1. due[k] - 1 \in Nat
  BY DEF TypeOK, FireStarts
<1> QED  BY <1>1 DEF TypeOK, FireStarts

LEMMA FactTypes ==
    ASSUME TypeOK, NEW k \in Topics, NEW F \in SUBSET Texts,
           NEW retired \in BOOLEAN
    PROVE  Kept(k, retired) \in SUBSET Texts /\ Fresh(k, F, retired) \in SUBSET Texts
BY DEF TypeOK, Kept, Fresh

LEMMA UnrecordedTypes ==
    ASSUME TypeOK, NEW k \in Topics, NEW F \in SUBSET Texts,
           NEW retired \in BOOLEAN, WrittenUnrecorded(k, F, retired)
    PROVE  live' \in [Topics -> SUBSET Texts] /\ stale' \in [Topics -> SUBSET Texts]
<1>1. Fresh(k, F, retired) \in SUBSET Texts
  BY FactTypes
<1>2. (IF retired THEN {} ELSE live[k]) \in SUBSET Texts
  BY DEF TypeOK
<1>3. Fresh(k, F, retired) \cup (IF retired THEN {} ELSE stale[k]) \in SUBSET Texts
  BY <1>1 DEF TypeOK
<1> QED  BY <1>2, <1>3 DEF TypeOK, WrittenUnrecorded

LEMMA RebootTypes ==
    ASSUME TypeOK, Reboot
    PROVE  /\ restarts' \in 0 .. MaxRestarts
           /\ timer' \in [Topics -> BOOLEAN]
           /\ strays' \in [Topics -> Nat]
           /\ due' \in [Topics -> Nat]
           /\ runs' = {}
           /\ slots' \in Nat
           /\ abandoned' \in Nat
           /\ count' \in [Topics -> Nat \cup {Unknown}]
           /\ lapse' \in [Topics -> BOOLEAN]
<1>1. \A k \in Topics : /\ (conv[k] > 0) \in BOOLEAN
                         /\ (lapse[k] \/ saved[k] # Window(seen[k])) \in BOOLEAN
  BY DEF TypeOK
<1> QED  BY <1>1, ConstantsAssumption DEF TypeOK, Reboot

LEMMA TypeStep ==
    ASSUME TypeOK, Next
    PROVE  TypeOK'
<1> USE DEF memory, store
<1>1. ASSUME NEW k \in Topics, Post(k)
      PROVE  TypeOK'
  BY <1>1, ConstantsAssumption DEF TypeOK, Post
<1>2. ASSUME NEW k \in Topics, PostByClaude(k)
      PROVE  TypeOK'
  BY <1>2, ConstantsAssumption DEF TypeOK, PostByClaude
<1>3. ASSUME NEW k \in Topics, Clear(k)
      PROVE  TypeOK'
  BY <1>3 DEF TypeOK, Clear
<1>4. ASSUME NEW k \in Topics, TimerFires(k)
      PROVE  TypeOK'
  <2>1. /\ timer' \in [Topics -> BOOLEAN]
        /\ strays' \in [Topics -> Nat]
        /\ due' \in [Topics -> Nat]
    <3>1. due' \in [Topics -> Nat]
      BY <1>4 DEF TypeOK, TimerFires
    <3>2. CASE timer' = [timer EXCEPT ![k] = FALSE] /\ UNCHANGED strays
      BY <3>1, <3>2 DEF TypeOK
    <3>3. CASE strays[k] > 0 /\ strays' = [strays EXCEPT ![k] = @ - 1] /\ UNCHANGED timer
      <4>1. strays[k] - 1 \in Nat
        BY <3>3 DEF TypeOK
      <4> QED  BY <3>1, <3>3, <4>1 DEF TypeOK
    <3> QED  BY <1>4, <3>2, <3>3 DEF TimerFires
  <2> QED  BY <1>4, <2>1 DEF TypeOK, TimerFires
<1>5. ASSUME NEW k \in Topics, FireFindsRun(k)
      PROVE  TypeOK'
  BY <1>5, FireTypes DEF TypeOK, FireFindsRun
<1>6. ASSUME NEW k \in Topics, FireFindsNothing(k)
      PROVE  TypeOK'
  BY <1>6, FireTypes DEF TypeOK, FireFindsNothing
<1>7. ASSUME NEW k \in Topics, FireFindsNoNews(k)
      PROVE  TypeOK'
  <2>1. PICK c \in Checkpoints(k) : Reads(k, c)
    BY <1>7 DEF FireFindsNoNews
  <2>2. /\ count' \in [Topics -> Nat \cup {Unknown}]
        /\ lapse' \in [Topics -> BOOLEAN]
    BY <2>1, ReadTypes
  <2> QED  BY <1>7, <2>2, FireTypes DEF TypeOK, FireFindsNoNews
<1>8. ASSUME NEW k \in Topics, FireFindsTooFew(k)
      PROVE  TypeOK'
  <2>1. PICK c \in Checkpoints(k) : Reads(k, c)
    BY <1>8 DEF FireFindsTooFew
  <2>2. /\ count' \in [Topics -> Nat \cup {Unknown}]
        /\ lapse' \in [Topics -> BOOLEAN]
    BY <2>1, ReadTypes
  <2> QED  BY <1>8, <2>2, FireTypes DEF TypeOK, FireFindsTooFew
<1>9. ASSUME NEW k \in Topics, FireBeginsRun(k)
      PROVE  TypeOK'
  <2>1. PICK c \in Checkpoints(k) : Reads(k, c)
    BY <1>9 DEF FireBeginsRun
  <2>2. /\ count' \in [Topics -> Nat \cup {Unknown}]
        /\ lapse' \in [Topics -> BOOLEAN]
    BY <2>1, ReadTypes
  <2>3. Window(conv[k]) \in Nat /\ conv[k] \in Nat
    BY WindowGrows DEF TypeOK
  <2>4. runs' \subseteq Run
    BY <1>9, <2>3 DEF TypeOK, FireBeginsRun, Run
  <2> QED  BY <1>9, <2>2, <2>4, FireTypes DEF TypeOK, FireBeginsRun
<1>10. ASSUME NEW r \in runs, TakeSlot(r)
       PROVE  TypeOK'
  <2>1. r \in Run /\ [r EXCEPT !.phase = "calling"] \in Run
    BY DEF TypeOK, Run
  <2>2. slots - 1 \in Nat
    BY <1>10 DEF TypeOK, TakeSlot
  <2> QED  BY <1>10, <2>1, <2>2 DEF TypeOK, TakeSlot
<1>11. ASSUME NEW r \in runs, CallFails(r) \/ CallTimesOut(r)
       PROVE  TypeOK'
  <2>1. slots + 1 \in Nat /\ abandoned + 1 \in Nat
    BY DEF TypeOK
  <2> QED  BY <1>11, <2>1 DEF TypeOK, CallFails, CallTimesOut
<1>12. ASSUME NEW r \in runs, NEW F \in SUBSET Texts, NEW retired \in BOOLEAN,
              RunRecorded(r, F, retired)
       PROVE  TypeOK'
  <2>1. r.topic \in Topics /\ r.size \in Nat /\ r.upto \in Nat
    BY DEF TypeOK, Run
  <2>2. /\ Kept(r.topic, retired) \in SUBSET Texts
        /\ Fresh(r.topic, F, retired) \in SUBSET Texts
    BY <2>1, FactTypes
  <2> QED  BY <1>12, <2>1, <2>2 DEF TypeOK, RunRecorded
<1>13. ASSUME NEW r \in runs, NEW F \in SUBSET Texts, NEW retired \in BOOLEAN,
              RunNotRecorded(r, F, retired)
       PROVE  TypeOK'
  <2>1. r.topic \in Topics /\ r.size \in Nat /\ r.upto \in Nat
    BY DEF TypeOK, Run
  <2>2. live' \in [Topics -> SUBSET Texts] /\ stale' \in [Topics -> SUBSET Texts]
    BY <1>13, <2>1, UnrecordedTypes DEF RunNotRecorded
  <2>3. /\ slots' = slots + 1 /\ runs' = runs \ {r}
        /\ count' = [count EXCEPT ![r.topic] = r.size]
        /\ seen' = [seen EXCEPT ![r.topic] = r.upto]
        /\ lapse' = [lapse EXCEPT ![r.topic] = FALSE]
        /\ torn' = [torn EXCEPT ![r.topic] = FALSE]
        /\ UNCHANGED <<posted, conv, timer, strays, due, abandoned, saved, restarts>>
    BY <1>13 DEF RunNotRecorded
  <2> QED  BY <2>1, <2>2, <2>3 DEF TypeOK
<1>14. ASSUME NEW r \in runs, NEW F \in SUBSET Texts, NEW retired \in BOOLEAN,
              RestartMidWrites(r, F, retired)
       PROVE  TypeOK'
  <2>1. r.topic \in Topics
    BY DEF TypeOK, Run
  <2>2. live' \in [Topics -> SUBSET Texts] /\ stale' \in [Topics -> SUBSET Texts]
    BY <1>14, <2>1, UnrecordedTypes DEF RestartMidWrites
  <2>3. torn' \in [Topics -> BOOLEAN]
    BY <1>14, <2>1 DEF TypeOK, RestartMidWrites, Redoable
  <2> QED  BY <1>14, <2>2, <2>3, RebootTypes DEF TypeOK, RestartMidWrites
<1>15. CASE Restart
  BY <1>15, RebootTypes DEF TypeOK, Restart
<1>16. CASE AbandonedEnds
  <2>1. abandoned - 1 \in Nat
    BY <1>16 DEF TypeOK, AbandonedEnds
  <2> QED  BY <1>16, <2>1 DEF TypeOK, AbandonedEnds
<1> QED  BY <1>1, <1>2, <1>3, <1>4, <1>5, <1>6, <1>7, <1>8, <1>9, <1>10, <1>11,
            <1>12, <1>13, <1>14, <1>15, <1>16 DEF Next

----------------------------------------------------------------------------
(* What a step does to the runs and the checkpoints. *)

(* Runs are left alone or removed, and the checkpoint of a run that stays  *)
(* does not move.                                                          *)
RunsLeft == \A r \in runs' : r \in runs /\ Checkpoint(r.topic)' = Checkpoint(r.topic)

LEMMA RunsLeftPreserves ==
    ASSUME RunInv, RunsLeft
    PROVE  OneRunPerTopic' /\ RunState' /\ GuardState'
BY DEF RunInv, RunsLeft, OneRunPerTopic, RunState, GuardState, Window

(* A conversation that may be run again is not shortened, and a checkpoint *)
(* that moves stays below its window.                                      *)
TornLeft ==
    \A k \in Topics : torn'[k] =>
        /\ torn[k]
        /\ conv'[k] >= conv[k]
        /\ saved'[k] = saved[k]
        /\ count'[k] # count[k] =>
              \/ count'[k] = Unknown
              \/ Window(conv[k]) > count'[k]

LEMMA TornLeftPreserves ==
    ASSUME RunInv, TypeOK', TornLeft
    PROVE  TornState'
<1> SUFFICES ASSUME NEW k \in Topics, torn'[k]
             PROVE  /\ Window(conv'[k]) >= MinTurns
                    /\ Window(conv'[k]) > saved'[k]
                    /\ count'[k] # Unknown => Window(conv'[k]) > count'[k]
  BY DEF TornState, Window
<1>1. /\ torn[k] /\ conv'[k] >= conv[k] /\ saved'[k] = saved[k]
      /\ count'[k] # count[k] => \/ count'[k] = Unknown
                                 \/ Window(conv[k]) > count'[k]
  BY DEF TornLeft
<1>2. conv[k] \in Nat /\ conv'[k] \in Nat /\ saved[k] \in Nat
  BY DEF TypeOK, RunInv
<1>3. /\ Window(conv[k]) \in Nat /\ Window(conv'[k]) \in Nat
      /\ Window(conv[k]) <= Window(conv'[k])
  BY <1>1, <1>2, WindowGrows
<1>4. /\ Window(conv[k]) >= MinTurns /\ Window(conv[k]) > saved[k]
      /\ count[k] # Unknown => Window(conv[k]) > count[k]
  BY <1>1 DEF RunInv, TornState
<1>5. count'[k] \in Nat \cup {Unknown} /\ MinTurns \in Nat
  BY ConstantsAssumption DEF TypeOK
<1> QED  BY <1>1, <1>2, <1>3, <1>4, <1>5

(* A fire that returns early may read the checkpoint from MongoDB.         *)
LEMMA FireKeepsTorn ==
    ASSUME RunInv, NEW k \in Topics, NEW c \in Checkpoints(k), torn[k]
    PROVE  Window(conv[k]) > c
<1>1. Window(conv[k]) \in Nat /\ conv[k] \in Nat
  BY WindowGrows DEF RunInv, TypeOK
<1>2. saved[k] \in Nat /\ Window(conv[k]) > saved[k]
  BY DEF RunInv, TornState, TypeOK
<1>3. count[k] # Unknown => Window(conv[k]) > count[k]
  BY DEF RunInv, TornState
<1> QED  BY <1>1, <1>2, <1>3 DEF Checkpoints

(* No slot changes hands.                                                  *)
SlotsLeft == slots' = slots /\ Calling' = Calling /\ IsFiniteSet(runs')

LEMMA SlotsLeftPreserves ==
    ASSUME RunInv, SlotsLeft
    PROVE  SlotState'
BY DEF RunInv, SlotsLeft, SlotState

(* A run gives its slot back.                                              *)
LEMMA SlotReturned ==
    ASSUME RunInv, NEW r \in runs, r.phase = "calling",
           slots' = slots + 1, runs' = runs \ {r}
    PROVE  SlotState'
<1>1. IsFiniteSet(runs) /\ slots + Cardinality(Calling) = MaxConcurrent /\ slots \in Nat
  BY DEF RunInv, SlotState, TypeOK
<1>2. Calling \in SUBSET runs /\ r \in Calling
  BY DEF Calling
<1>3. IsFiniteSet(Calling)
  BY <1>1, <1>2, FS_Subset
<1>4. Calling' = Calling \ {r}
  BY DEF Calling
<1>5. Cardinality(Calling') = Cardinality(Calling) - 1
  BY <1>2, <1>3, <1>4, FS_RemoveElement
<1>6. Cardinality(Calling) \in Nat
  BY <1>3, FS_CardinalityType
<1>7. IsFiniteSet(runs')
  BY <1>1, FS_RemoveElement
<1> QED  BY <1>1, <1>5, <1>6, <1>7 DEF SlotState

LEMMA RebootPreserves ==
    ASSUME RunInv, Reboot
    PROVE  OneRunPerTopic' /\ RunState' /\ GuardState' /\ SlotState'
<1>1. runs' = {} /\ slots' = MaxConcurrent
  BY DEF Reboot
<1>2. Calling' = {}
  BY <1>1 DEF Calling
<1>3. IsFiniteSet({}) /\ Cardinality({}) = 0
  BY FS_EmptySet
<1>4. SlotState'
  BY <1>1, <1>2, <1>3, ConstantsAssumption DEF SlotState
<1> QED  BY <1>1, <1>4 DEF OneRunPerTopic, RunState, GuardState

----------------------------------------------------------------------------
(* Every step preserves the invariant. *)

(* Memory of the topics other than k is left alone.                        *)
LEMMA OtherCheckpoints ==
    ASSUME TypeOK, NEW k \in Topics, NEW n,
           count' = [count EXCEPT ![k] = n], saved' = saved
    PROVE  \A j \in Topics \ {k} : Checkpoint(j)' = Checkpoint(j)
BY DEF TypeOK, Checkpoint

(* A run in flight keeps the fire out of its topic.                        *)
LEMMA FireKeepsRuns ==
    ASSUME RunInv, NEW k \in Topics, ~Locked(k), NEW n,
           count' = [count EXCEPT ![k] = n], saved' = saved, runs' = runs
    PROVE  RunsLeft
<1>1. \A r \in runs : r.topic \in Topics \ {k}
  BY DEF RunInv, TypeOK, Run, Locked
<1> QED  BY <1>1, OtherCheckpoints DEF RunInv, RunsLeft

(* Fires that return early; c is the checkpoint they may have loaded.      *)
LEMMA EarlyReturnPreserves ==
    ASSUME RunInv, TypeOK', NEW k \in Topics, NEW c \in Checkpoints(k), ~Locked(k),
           count' = [count EXCEPT ![k] = c],
           UNCHANGED <<conv, runs, slots, saved, torn>>
    PROVE  RunInv'
<1>1. RunsLeft
  BY FireKeepsRuns
<1>2. TornLeft
  <2> SUFFICES ASSUME NEW j \in Topics, torn'[j], count'[j] # count[j]
               PROVE  Window(conv[j]) > count'[j]
    BY DEF TornLeft, RunInv, TypeOK
  <2>1. j = k /\ count'[j] = c
    BY DEF RunInv, TypeOK
  <2> QED  BY <2>1, FireKeepsTorn
<1>3. SlotsLeft
  BY DEF SlotsLeft, Calling, RunInv, SlotState
<1> QED  BY <1>1, <1>2, <1>3, RunsLeftPreserves, TornLeftPreserves,
            SlotsLeftPreserves DEF RunInv

LEMMA FireBeginsRunPreserves ==
    ASSUME RunInv, TypeOK', NEW k \in Topics, FireBeginsRun(k)
    PROVE  RunInv'
<1> DEFINE new == [topic |-> k, phase |-> "queued",
                   size |-> Window(conv[k]), upto |-> conv[k]]
<1>1. PICK c \in Checkpoints(k) : /\ Window(conv[k]) > c
                                  /\ count' = [count EXCEPT ![k] = c]
  BY DEF FireBeginsRun, Reads
<1>2. /\ ~Locked(k) /\ Window(conv[k]) >= MinTurns
      /\ runs' = runs \cup {new}
      /\ UNCHANGED <<conv, slots, saved, torn>>
  BY DEF FireBeginsRun, store
<1>3. \A r \in runs : r.topic \in Topics \ {k}
  BY <1>2 DEF RunInv, TypeOK, Run, Locked
<1>4. OneRunPerTopic'
  BY <1>2, <1>3 DEF RunInv, OneRunPerTopic
<1>5. RunState'
  BY <1>2 DEF RunInv, RunState, Window
<1>6. Checkpoint(k)' = c
  BY <1>1, CheckpointType DEF RunInv, TypeOK, Checkpoint, Unknown
<1>7. \A r \in runs : Checkpoint(r.topic)' = Checkpoint(r.topic)
  BY <1>1, <1>2, <1>3, OtherCheckpoints DEF RunInv
<1>8. GuardState'
  BY <1>1, <1>2, <1>6, <1>7 DEF RunInv, GuardState
<1>9. TornLeft
  <2> SUFFICES ASSUME NEW j \in Topics, torn'[j], count'[j] # count[j]
               PROVE  Window(conv[j]) > count'[j]
    BY <1>2 DEF TornLeft, RunInv, TypeOK
  <2>1. j = k /\ count'[j] = c
    BY <1>1 DEF RunInv, TypeOK
  <2> QED  BY <1>1, <2>1
<1>10. SlotsLeft
  <2>1. Calling' = Calling
    BY <1>2 DEF Calling
  <2>2. IsFiniteSet(runs')
    BY <1>2, FS_AddElement DEF RunInv, SlotState
  <2> QED  BY <1>2, <2>1, <2>2 DEF SlotsLeft
<1> QED  BY <1>4, <1>5, <1>8, <1>9, <1>10, TornLeftPreserves,
            SlotsLeftPreserves DEF RunInv

LEMMA TakeSlotPreserves ==
    ASSUME RunInv, TypeOK', NEW r \in runs, TakeSlot(r)
    PROVE  RunInv'
<1> DEFINE new == [r EXCEPT !.phase = "calling"]
<1>1. /\ r.phase = "queued" /\ slots' = slots - 1
      /\ runs' = (runs \ {r}) \cup {new}
      /\ UNCHANGED <<conv, count, saved, torn>>
  BY DEF TakeSlot, store
<1>2. r \in Run
  BY DEF RunInv, TypeOK
<1>3. /\ new.topic = r.topic /\ new.size = r.size /\ new.upto = r.upto
      /\ new.phase = "calling"
  BY <1>2 DEF Run
<1>4. new \notin runs
  <2> SUFFICES ASSUME new \in runs PROVE FALSE
    OBVIOUS
  <2>1. new = r
    BY <1>3 DEF RunInv, OneRunPerTopic
  <2> QED  BY <1>1, <1>3, <2>1
<1>5. OneRunPerTopic'
  <2>1. \A q \in runs \ {r} : q.topic # new.topic
    BY <1>3 DEF RunInv, OneRunPerTopic
  <2> HIDE DEF new
  <2> QED  BY <1>1, <2>1 DEF RunInv, OneRunPerTopic
<1>6. RunState'
  BY <1>1, <1>3 DEF RunInv, RunState, Window
<1>7. GuardState'
  BY <1>1, <1>3 DEF RunInv, GuardState, Checkpoint
<1>8. TornLeft
  BY <1>1 DEF TornLeft, RunInv, TypeOK
<1>9. SlotState'
  <2>1. IsFiniteSet(runs) /\ slots + Cardinality(Calling) = MaxConcurrent /\ slots \in Nat
    BY DEF RunInv, SlotState, TypeOK
  <2>2. Calling \in SUBSET runs /\ new \notin Calling
    BY <1>4 DEF Calling
  <2>3. IsFiniteSet(Calling)
    BY <2>1, <2>2, FS_Subset
  <2>4. Calling' = Calling \cup {new}
    BY <1>1, <1>3 DEF Calling
  <2>5. Cardinality(Calling') = Cardinality(Calling) + 1
    BY <2>2, <2>3, <2>4, FS_AddElement
  <2>6. Cardinality(Calling) \in Nat
    BY <2>3, FS_CardinalityType
  <2>7. IsFiniteSet(runs')
    BY <1>1, <2>1, FS_AddElement, FS_RemoveElement
  <2> QED  BY <1>1, <2>1, <2>5, <2>6, <2>7 DEF SlotState
<1> QED  BY <1>5, <1>6, <1>7, <1>8, <1>9, TornLeftPreserves DEF RunInv

(* A run ends, and its topic's checkpoint with it, if it got an answer.    *)
LEMMA RunEnds ==
    ASSUME RunInv, TypeOK', NEW r \in runs, r.phase = "calling",
           slots' = slots + 1, runs' = runs \ {r}, conv' = conv,
           \A j \in Topics : torn'[j] => torn[j],
           \A j \in Topics \ {r.topic} : count'[j] = count[j] /\ saved'[j] = saved[j],
           \/ torn'[r.topic] = FALSE
           \/ count'[r.topic] = count[r.topic] /\ saved'[r.topic] = saved[r.topic]
    PROVE  RunInv'
<1>1. \A q \in runs' : q \in runs /\ q.topic \in Topics \ {r.topic}
  BY DEF RunInv, OneRunPerTopic, TypeOK, Run
<1>2. RunsLeft
  BY <1>1 DEF RunsLeft, Checkpoint
<1>3. TornLeft
  BY DEF TornLeft, RunInv, TypeOK
<1> QED  BY <1>2, <1>3, RunsLeftPreserves, TornLeftPreserves, SlotReturned DEF RunInv

LEMMA RestartPreserves ==
    ASSUME RunInv, TypeOK', Restart
    PROVE  RunInv'
<1>1. TornLeft
  BY DEF TornLeft, Restart, Reboot, store, RunInv, TypeOK
<1> QED  BY <1>1, RebootPreserves, TornLeftPreserves DEF Restart, RunInv

(* The run that is torn had more messages than the checkpoint MongoDB      *)
(* still holds.                                                            *)
LEMMA RestartMidWritesPreserves ==
    ASSUME RunInv, TypeOK', NEW r \in runs, NEW F \in SUBSET Texts,
           NEW retired \in BOOLEAN, RestartMidWrites(r, F, retired)
    PROVE  RunInv'
<1>1. /\ conv' = conv /\ saved' = saved
      /\ count' = [k \in Topics |-> Unknown]
      /\ torn' = [torn EXCEPT ![r.topic] = Redoable(r)]
  BY DEF RestartMidWrites, Reboot
<1>2. r.topic \in Topics /\ r.upto \in Nat /\ r.size \in Nat
  BY DEF RunInv, TypeOK, Run
<1>3. ASSUME Redoable(r)
      PROVE  Window(conv[r.topic]) >= MinTurns /\ Window(conv[r.topic]) > saved[r.topic]
  <2>1. conv[r.topic] \in Nat /\ saved[r.topic] \in Nat
        /\ count[r.topic] \in Nat \cup {Unknown}
    BY <1>2 DEF RunInv, TypeOK
  <2>2. conv[r.topic] >= r.upto /\ count[r.topic] >= saved[r.topic]
    BY <1>3 DEF Redoable
  <2>3. Window(r.upto) <= Window(conv[r.topic]) /\ Window(conv[r.topic]) \in Nat
    BY <1>2, <2>1, <2>2, WindowGrows
  <2>4. r.size = Window(r.upto) /\ r.size >= MinTurns /\ r.size > Checkpoint(r.topic)
    BY DEF RunInv, RunState, GuardState
  <2>5. Checkpoint(r.topic) >= saved[r.topic]
    BY <2>1, <2>2 DEF Checkpoint, Unknown
  <2>6. Checkpoint(r.topic) \in Nat /\ MinTurns \in Nat
    BY <1>2, CheckpointType, ConstantsAssumption DEF RunInv
  <2> QED  BY <1>2, <2>1, <2>3, <2>4, <2>5, <2>6
<1>4. TornState'
  <2> SUFFICES ASSUME NEW k \in Topics, torn'[k]
               PROVE  Window(conv[k]) >= MinTurns /\ Window(conv[k]) > saved[k]
    BY <1>1 DEF TornState, Window
  <2>1. CASE k = r.topic
    BY <1>1, <1>2, <1>3, <2>1 DEF RunInv, TypeOK
  <2>2. CASE k # r.topic
    BY <1>1, <2>2 DEF RunInv, TypeOK, TornState
  <2> QED  BY <2>1, <2>2
<1> QED  BY <1>4, RebootPreserves DEF RestartMidWrites, RunInv

LEMMA RunsPreserved ==
    ASSUME RunInv, Next
    PROVE  RunInv'
<1>0. TypeOK'
  BY TypeStep DEF RunInv
<1> USE DEF memory, store
<1> DEFINE Quiet == RunsLeft /\ TornLeft /\ SlotsLeft
<1>Q. ASSUME Quiet
      PROVE  RunInv'
  BY <1>0, <1>Q, RunsLeftPreserves, TornLeftPreserves, SlotsLeftPreserves DEF RunInv
<1>1. ASSUME NEW k \in Topics, Post(k) \/ PostByClaude(k)
      PROVE  RunInv'
  <2>1. conv' = [conv EXCEPT ![k] = @ + 1] /\ UNCHANGED <<runs, slots, count, saved, torn>>
    BY <1>1 DEF Post, PostByClaude
  <2>2. \A j \in Topics : conv[j] \in Nat /\ conv'[j] >= conv[j]
    BY <2>1 DEF RunInv, TypeOK
  <2>3. TornLeft
    BY <2>1, <2>2 DEF TornLeft
  <2> QED  BY <1>Q, <2>1, <2>3 DEF RunsLeft, SlotsLeft, Calling, Checkpoint, RunInv, SlotState
<1>2. ASSUME NEW k \in Topics, Clear(k)
      PROVE  RunInv'
  <2>1. TornLeft
    BY <1>2 DEF Clear, TornLeft, RunInv, TypeOK
  <2> QED  BY <1>Q, <1>2, <2>1 DEF Clear, RunsLeft, SlotsLeft, Calling, Checkpoint, RunInv, SlotState
<1>3. ASSUME NEW k \in Topics, TimerFires(k) \/ FireFindsRun(k) \/ FireFindsNothing(k)
      PROVE  RunInv'
  <2>1. UNCHANGED <<conv, runs, slots, count, saved, torn>>
    BY <1>3 DEF TimerFires, FireFindsRun, FireFindsNothing
  <2>2. TornLeft
    BY <2>1 DEF TornLeft, RunInv, TypeOK
  <2> QED  BY <1>Q, <2>1, <2>2 DEF RunsLeft, SlotsLeft, Calling, Checkpoint, RunInv, SlotState
<1>4. ASSUME NEW k \in Topics, FireFindsNoNews(k) \/ FireFindsTooFew(k)
      PROVE  RunInv'
  <2>1. /\ ~Locked(k)
        /\ \E c \in Checkpoints(k) : count' = [count EXCEPT ![k] = c]
        /\ UNCHANGED <<conv, runs, slots, saved, torn>>
    BY <1>4 DEF FireFindsNoNews, FireFindsTooFew, Reads
  <2> QED  BY <1>0, <2>1, EarlyReturnPreserves
<1>5. ASSUME NEW k \in Topics, FireBeginsRun(k)
      PROVE  RunInv'
  BY <1>0, <1>5, FireBeginsRunPreserves
<1>6. ASSUME NEW r \in runs, TakeSlot(r)
      PROVE  RunInv'
  BY <1>0, <1>6, TakeSlotPreserves
<1>7. ASSUME NEW r \in runs, CallFails(r) \/ CallTimesOut(r)
      PROVE  RunInv'
  BY <1>0, <1>7, RunEnds DEF CallFails, CallTimesOut
<1>8. ASSUME NEW r \in runs, NEW F \in SUBSET Texts, NEW retired \in BOOLEAN,
             RunRecorded(r, F, retired) \/ RunNotRecorded(r, F, retired)
      PROVE  RunInv'
  <2>1. r.topic \in Topics
    BY DEF RunInv, TypeOK, Run
  <2>2. /\ r.phase = "calling" /\ slots' = slots + 1 /\ runs' = runs \ {r}
        /\ conv' = conv
        /\ torn' = [torn EXCEPT ![r.topic] = FALSE]
        /\ count' = [count EXCEPT ![r.topic] = r.size]
        /\ saved' = saved \/ saved' = [saved EXCEPT ![r.topic] = r.size]
    BY <1>8 DEF RunRecorded, RunNotRecorded
  <2>3. /\ torn'[r.topic] = FALSE
        /\ \A j \in Topics : torn'[j] => torn[j]
        /\ \A j \in Topics \ {r.topic} : count'[j] = count[j] /\ saved'[j] = saved[j]
    BY <2>1, <2>2 DEF RunInv, TypeOK
  <2> QED  BY <1>0, <2>2, <2>3, RunEnds
<1>9. ASSUME NEW r \in runs, NEW F \in SUBSET Texts, NEW retired \in BOOLEAN,
             RestartMidWrites(r, F, retired)
      PROVE  RunInv'
  BY <1>0, <1>9, RestartMidWritesPreserves
<1>10. CASE Restart
  BY <1>0, <1>10, RestartPreserves
<1>11. CASE AbandonedEnds
  <2>1. UNCHANGED <<conv, runs, slots, count, saved, torn>>
    BY <1>11 DEF AbandonedEnds
  <2>2. TornLeft
    BY <2>1 DEF TornLeft, RunInv, TypeOK
  <2> QED  BY <1>Q, <2>1, <2>2 DEF RunsLeft, SlotsLeft, Calling, Checkpoint, RunInv, SlotState
<1> QED  BY <1>1, <1>2, <1>3, <1>4, <1>5, <1>6, <1>7, <1>8, <1>9, <1>10, <1>11 DEF Next

(* The topics that keep checkpoint, last finished run and lapse.           *)
LEMMA CheckpointsKept ==
    ASSUME CheckpointState, NEW T \in SUBSET Topics,
           \A k \in T : /\ count'[k] = count[k] /\ saved'[k] = saved[k]
                        /\ seen'[k] = seen[k] /\ lapse'[k] = lapse[k],
           \A k \in Topics \ T : lapse'[k] \/ Checkpoint(k)' = Window(seen'[k])
    PROVE  CheckpointState'
BY DEF CheckpointState, Checkpoint, Window

(* A fire takes the checkpoint into memory, or loses it.                   *)
LEMMA ReadKeepsCheckpoints ==
    ASSUME IInv, NEW k \in Topics, NEW c, Reads(k, c), UNCHANGED <<saved, seen>>
    PROVE  CheckpointState'
<1>1. c \in Checkpoints(k) /\ c \in Nat
  BY CheckpointType DEF IInv, RunInv, Reads
<1>2. count' = [count EXCEPT ![k] = c] /\ lapse' = [lapse EXCEPT ![k] = @ \/ c # Checkpoint(k)]
  BY DEF Reads
<1>3. count \in [Topics -> Nat \cup {Unknown}] /\ lapse \in [Topics -> BOOLEAN]
  BY DEF IInv, RunInv, TypeOK
<1>4. lapse'[k] \/ Checkpoint(k)' = Window(seen'[k])
  <2>1. Checkpoint(k)' = c
    BY <1>1, <1>2, <1>3 DEF Checkpoint, Unknown
  <2>2. CASE c = Checkpoint(k) /\ ~lapse[k]
    BY <2>1, <2>2 DEF IInv, CheckpointState
  <2>3. CASE c # Checkpoint(k) \/ lapse[k]
    BY <1>2, <1>3, <2>3
  <2> QED  BY <2>2, <2>3
<1>5. \A j \in Topics \ {k} : count'[j] = count[j] /\ lapse'[j] = lapse[j]
  BY <1>2, <1>3
<1>6. \A j \in Topics \ (Topics \ {k}) : j = k
  OBVIOUS
<1> QED  BY <1>4, <1>5, <1>6, CheckpointsKept DEF IInv

(* A finished run's window is the new checkpoint.                          *)
LEMMA FinishKeepsCheckpoints ==
    ASSUME IInv, NEW r \in runs,
           count' = [count EXCEPT ![r.topic] = r.size],
           saved' = saved \/ saved' = [saved EXCEPT ![r.topic] = r.size],
           seen' = [seen EXCEPT ![r.topic] = r.upto],
           lapse' = [lapse EXCEPT ![r.topic] = FALSE]
    PROVE  CheckpointState'
<1> DEFINE k == r.topic
<1>1. k \in Topics /\ r.size \in Nat /\ r.size = Window(r.upto)
  BY DEF IInv, RunInv, RunState, TypeOK, Run
<1>2. /\ count \in [Topics -> Nat \cup {Unknown}] /\ lapse \in [Topics -> BOOLEAN]
      /\ seen \in [Topics -> Nat] /\ saved \in [Topics -> Nat]
  BY DEF IInv, RunInv, TypeOK
<1>3. Checkpoint(k)' = Window(seen'[k])
  BY <1>1, <1>2 DEF Checkpoint, Unknown, Window
<1>4. \A j \in Topics \ {k} : /\ count'[j] = count[j] /\ lapse'[j] = lapse[j]
                               /\ seen'[j] = seen[j] /\ saved'[j] = saved[j]
  BY <1>2
<1>5. \A j \in Topics \ (Topics \ {k}) : j = k
  OBVIOUS
<1> QED  BY <1>3, <1>4, <1>5, CheckpointsKept DEF IInv

(* After a restart only the checkpoint in MongoDB is left.                 *)
LEMMA RebootKeepsCheckpoints ==
    ASSUME Reboot, UNCHANGED <<saved, seen>>
    PROVE  CheckpointState'
<1>1. \A k \in Topics : /\ Checkpoint(k)' = saved[k]
                         /\ lapse'[k] = (lapse[k] \/ saved[k] # Window(seen[k]))
  BY DEF Reboot, Checkpoint
<1>2. \A k \in Topics : Window(seen'[k]) = Window(seen[k])
  OBVIOUS
<1> QED  BY <1>1, <1>2 DEF CheckpointState, Window

LEMMA NextPreserves ==
    ASSUME IInv, Next
    PROVE  IInv'
<1>1. RunInv'
  BY RunsPreserved DEF IInv
<1>2. CheckpointState'
  <2> USE DEF memory, store
  <2>1. CASE UNCHANGED <<count, saved, seen, lapse>>
    BY <2>1 DEF IInv, CheckpointState, Checkpoint, Window
  <2>2. ASSUME NEW k \in Topics,
               FireFindsNoNews(k) \/ FireFindsTooFew(k) \/ FireBeginsRun(k)
        PROVE  CheckpointState'
    BY <2>2, ReadKeepsCheckpoints DEF FireFindsNoNews, FireFindsTooFew, FireBeginsRun
  <2>3. ASSUME NEW r \in runs, NEW F \in SUBSET Texts, NEW retired \in BOOLEAN,
               RunRecorded(r, F, retired) \/ RunNotRecorded(r, F, retired)
        PROVE  CheckpointState'
    BY <2>3, FinishKeepsCheckpoints DEF RunRecorded, RunNotRecorded
  <2>4. ASSUME NEW r \in runs, NEW F \in SUBSET Texts, NEW retired \in BOOLEAN,
               RestartMidWrites(r, F, retired)
        PROVE  CheckpointState'
    BY <2>4, RebootKeepsCheckpoints DEF RestartMidWrites
  <2>5. CASE Restart
    BY <2>5, RebootKeepsCheckpoints DEF Restart
  <2>6. ASSUME NEW k \in Topics,
               \/ Post(k) \/ PostByClaude(k) \/ Clear(k)
               \/ TimerFires(k) \/ FireFindsRun(k) \/ FireFindsNothing(k)
        PROVE  UNCHANGED <<count, saved, seen, lapse>>
    BY <2>6 DEF Post, PostByClaude, Clear, TimerFires, FireFindsRun, FireFindsNothing
  <2>7. ASSUME NEW r \in runs, TakeSlot(r) \/ CallFails(r) \/ CallTimesOut(r)
        PROVE  UNCHANGED <<count, saved, seen, lapse>>
    BY <2>7 DEF TakeSlot, CallFails, CallTimesOut
  <2>8. CASE AbandonedEnds
    BY <2>1, <2>8 DEF AbandonedEnds
  <2> QED  BY <2>1, <2>2, <2>3, <2>4, <2>5, <2>6, <2>7, <2>8 DEF Next
<1> QED  BY <1>1, <1>2 DEF IInv

LEMMA InitIInv == Init => IInv
<1> SUFFICES ASSUME Init PROVE IInv
  OBVIOUS
<1>1. TypeOK
  BY ConstantsAssumption DEF Init, TypeOK
<1>2. runs = {} /\ Calling = {}
  BY DEF Init, Calling
<1>3. IsFiniteSet({}) /\ Cardinality({}) = 0
  BY FS_EmptySet
<1>4. SlotState
  BY <1>2, <1>3, ConstantsAssumption DEF Init, SlotState
<1>5. CheckpointState
  <2>1. Window(0) = 0
    BY ConstantsAssumption DEF Window
  <2> QED  BY <2>1 DEF CheckpointState, Checkpoint, Init
<1> QED  BY <1>1, <1>2, <1>4, <1>5 DEF IInv, RunInv, OneRunPerTopic, RunState,
            GuardState, TornState, Init

----------------------------------------------------------------------------
(* The inductive invariant holds in every behaviour.                       *)
THEOREM Invariance == Spec => []IInv
<1>1. Init => IInv
  BY InitIInv
<1>2. IInv /\ [Next]_vars => IInv'
  <2>1. ASSUME IInv, UNCHANGED vars
        PROVE  IInv'
    BY <2>1 DEF IInv, RunInv, TypeOK, OneRunPerTopic, RunState, GuardState, TornState,
                CheckpointState, SlotState, Calling, Checkpoint, Window, vars, memory, store
  <2> QED  BY <2>1, NextPreserves
<1> QED  BY <1>1, <1>2, PTL DEF Spec

(* The state of the consolidator and its store has its types               *)
(* (consolidator_service.py, distilled_fact_store.py).                     *)
THEOREM TypeCorrect == Spec => []TypeOK
<1>1. IInv => TypeOK
  BY DEF IInv, RunInv
<1> QED  BY <1>1, Invariance, PTL

(* However many timers fire, a topic has one run at a time (the locked()   *)
(* test of _fire).                                                         *)
THEOREM RunsExclude == Spec => []OneRunPerTopic
<1>1. IInv => OneRunPerTopic
  BY DEF IInv, RunInv
<1> QED  BY <1>1, Invariance, PTL

(* The semaphore is neither leaked nor over-released (the async with of    *)
(* _consolidate).                                                          *)
THEOREM NoSlotLeaks == Spec => []SlotsAccountedFor
<1>1. IInv => SlotsAccountedFor
  BY DEF IInv, RunInv, SlotState, Calling, SlotsAccountedFor
<1> QED  BY <1>1, Invariance, PTL

(* The LLM is asked only about windows that have grown since the topic's   *)
(* last finished run, in this process or before, unless the checkpoint of  *)
(* that run was not recorded or could not be read (the idle guard of       *)
(* _consolidate).                                                          *)
THEOREM IdleTopicsRest == Spec => []RunsHaveNews
<1>1. IInv => RunsHaveNews
  <2> SUFFICES ASSUME IInv, NEW r \in runs
               PROVE  r.size > Window(seen[r.topic]) \/ lapse[r.topic]
    BY DEF RunsHaveNews
  <2>1. r.size > Checkpoint(r.topic) /\ r.topic \in Topics
    BY DEF IInv, RunInv, GuardState, TypeOK, Run
  <2>2. lapse[r.topic] \/ Checkpoint(r.topic) = Window(seen[r.topic])
    BY <2>1 DEF IInv, CheckpointState
  <2> QED  BY <2>1, <2>2
<1> QED  BY <1>1, Invariance, PTL

(* A run cut off between its writes is let through by the idle guard of    *)
(* the next process (record_run is the last of the writes).                *)
THEOREM TornRunsReturn == Spec => []TornRunIsRedone
<1>1. IInv => TornRunIsRedone
  BY DEF IInv, RunInv, TornState, TornRunIsRedone, Checkpoint
<1> QED  BY <1>1, Invariance, PTL

----------------------------------------------------------------------------
(* The refinement *)

ServiceVars == <<conv, Work, Calls, Marks, saved, live>>

(* A run is known by its topic and size.                                   *)
LEMMA TagsDiffer ==
    ASSUME IInv, NEW q \in runs, NEW r \in runs, Tag(q) = Tag(r)
    PROVE  q = r
<1>1. q.topic = r.topic
  BY DEF Tag
<1> QED  BY <1>1 DEF IInv, RunInv, OneRunPerTopic

LEMMA CallsAreWork ==
    ASSUME IInv
    PROVE  /\ Calls \subseteq Work
           /\ \A r \in runs : Tag(r) \in Work /\ (Tag(r) \in Calls <=> r.phase = "calling")
BY TagsDiffer DEF Calls, Work

(* Nothing of what the abstract distiller sees has changed.                *)
LEMMA Stutters ==
    ASSUME IInv, UNCHANGED <<conv, runs, saved, live>>,
           \A k \in Topics : Checkpoint(k)' = Checkpoint(k)
    PROVE  UNCHANGED ServiceVars
<1>1. Work' = Work /\ Calls' = Calls
  BY DEF Work, Calls, Tag
<1>2. Marks' = Marks
  BY DEF Marks
<1> QED  BY <1>1, <1>2 DEF ServiceVars

(* Topic k is idle exactly when no run holds its lock.                     *)
LEMMA IdleIsUnlocked ==
    ASSUME NEW k \in Topics
    PROVE  Distiller!Idle(k) <=> ~Locked(k)
<1>1. \A r \in runs : Tag(r).topic = r.topic
  BY DEF Tag
<1>2. Distiller!Idle(k) <=> \A r \in runs : Tag(r).topic # k
  BY DEF Distiller!Idle, Work
<1> QED  BY <1>1, <1>2 DEF Locked

(* The checkpoint a fire takes is the mark, or 0 for one in the database   *)
(* that cannot be read.                                                    *)
LEMMA CheckpointRead ==
    ASSUME IInv, NEW k \in Topics, NEW c \in Checkpoints(k),
           count' = [count EXCEPT ![k] = c], saved' = saved
    PROVE  /\ Marks'[k] = c
           /\ \/ Marks' = Marks
              \/ Marks[k] = saved[k] /\ Marks' = [Marks EXCEPT ![k] = 0]
<1>1. c \in Nat
  BY CheckpointType DEF IInv, RunInv
<1>2. Checkpoint(k)' = c
  BY <1>1 DEF IInv, RunInv, TypeOK, Checkpoint, Unknown
<1>3. \A j \in Topics \ {k} : Checkpoint(j)' = Checkpoint(j)
  BY OtherCheckpoints DEF IInv, RunInv
<1>4. \/ c = Checkpoint(k)
      \/ c = 0 /\ Checkpoint(k) = saved[k]
  BY DEF Checkpoints, Checkpoint
<1>5. Marks' = [Marks EXCEPT ![k] = c]
  BY <1>2, <1>3 DEF Marks
<1>6. Marks[k] = Checkpoint(k) /\ Marks'[k] = c
  BY <1>2 DEF Marks
<1>7. CASE c = Checkpoint(k)
  BY <1>5, <1>6, <1>7 DEF Marks
<1>8. CASE c = 0 /\ Checkpoint(k) = saved[k]
  BY <1>5, <1>6, <1>8
<1> QED  BY <1>4, <1>6, <1>7, <1>8

(* A fire that returns early has at most read the checkpoint.              *)
LEMMA EarlyReturnMaps ==
    ASSUME IInv, NEW k \in Topics, ~Locked(k), NEW c \in Checkpoints(k),
           count' = [count EXCEPT ![k] = c], UNCHANGED <<conv, runs, saved, live>>
    PROVE  Distiller!Misread(k) \/ UNCHANGED ServiceVars
<1>1. Work' = Work /\ Calls' = Calls
  BY DEF Work, Calls, Tag
<1>2. CASE Marks' = Marks
  BY <1>1, <1>2 DEF ServiceVars
<1>3. CASE Marks[k] = saved[k] /\ Marks' = [Marks EXCEPT ![k] = 0]
  BY <1>1, <1>3, IdleIsUnlocked DEF Distiller!Misread
<1> QED  BY <1>2, <1>3, CheckpointRead

LEMMA FireBeginsRunMaps ==
    ASSUME IInv, NEW k \in Topics, FireBeginsRun(k)
    PROVE  Distiller!Begin(k)
<1> DEFINE new == [topic |-> k, phase |-> "queued",
                   size |-> Window(conv[k]), upto |-> conv[k]]
<1>1. PICK c \in Checkpoints(k) : /\ Window(conv[k]) > c
                                  /\ count' = [count EXCEPT ![k] = c]
  BY DEF FireBeginsRun, Reads
<1>2. /\ ~Locked(k) /\ Window(conv[k]) >= MinTurns
      /\ runs' = runs \cup {new}
      /\ UNCHANGED <<conv, saved, live>>
  BY DEF FireBeginsRun, store
<1>3. Tag(new) = [topic |-> k, size |-> Window(conv[k])] /\ new.phase # "calling"
  BY DEF Tag
<1> HIDE DEF new
<1>4. Work' = Work \cup {[topic |-> k, size |-> Window(conv[k])]}
  <2>1. Work' = {Tag(r) : r \in runs \cup {new}}
    BY <1>2 DEF Work, Tag
  <2> QED  BY <1>3, <2>1 DEF Work
<1>5. Calls' = Calls
  <2>1. {q \in runs' : q.phase = "calling"} = {q \in runs : q.phase = "calling"}
    BY <1>2, <1>3
  <2> QED  BY <2>1 DEF Calls, Tag
<1>6. /\ Marks'[k] = c
      /\ \/ Marks' = Marks
         \/ Marks[k] = saved[k] /\ Marks' = [Marks EXCEPT ![k] = 0]
  BY <1>1, <1>2, CheckpointRead
<1>7. Distiller!Idle(k) /\ Distiller!Window(conv[k]) = Window(conv[k])
  BY <1>2, IdleIsUnlocked DEF Distiller!Window, Window
<1> QED  BY <1>1, <1>2, <1>4, <1>5, <1>6, <1>7 DEF Distiller!Begin

(* The semaphore lets no more runs through than there are slots.           *)
LEMMA TakeSlotMaps ==
    ASSUME IInv, NEW r \in runs, TakeSlot(r)
    PROVE  Distiller!Call(Tag(r))
<1> DEFINE new == [r EXCEPT !.phase = "calling"]
<1>1. /\ r.phase = "queued" /\ slots > 0
      /\ runs' = (runs \ {r}) \cup {new}
      /\ UNCHANGED <<conv, count, saved, live>>
  BY DEF TakeSlot, store
<1>2. Tag(new) = Tag(r) /\ new.phase = "calling"
  <2>1. r \in Run
    BY DEF IInv, RunInv, TypeOK
  <2> QED  BY <2>1 DEF Tag, Run
<1> HIDE DEF new
<1>3. Work' = Work
  <2>1. Work' = {Tag(q) : q \in (runs \ {r}) \cup {new}}
    BY <1>1 DEF Work, Tag
  <2>2. {Tag(q) : q \in (runs \ {r}) \cup {new}} = {Tag(q) : q \in runs}
    BY <1>2
  <2> QED  BY <2>1, <2>2 DEF Work
<1>4. Calls' = Calls \cup {Tag(r)}
  <2>1. {q \in runs' : q.phase = "calling"} = {q \in runs : q.phase = "calling"} \cup {new}
    BY <1>1, <1>2
  <2>2. Calls' = {Tag(q) : q \in {p \in runs : p.phase = "calling"} \cup {new}}
    BY <2>1 DEF Calls, Tag
  <2> QED  BY <1>2, <2>2 DEF Calls
<1>5. Marks' = Marks
  BY <1>1 DEF Marks, Checkpoint
<1>6. Tag(r) \notin Calls
  BY <1>1, CallsAreWork
<1>7. Cardinality(Calls) < MaxConcurrent
  <2> DEFINE t == [q \in Calling |-> Tag(q)]
  <2>1. IsFiniteSet(Calling)
    <3>1. IsFiniteSet(runs) /\ Calling \in SUBSET runs
      BY DEF IInv, RunInv, SlotState, Calling
    <3> QED  BY <3>1, FS_Subset
  <2>2. t \in Surjection(Calling, Calls)
    <3>1. Calls = {Tag(q) : q \in Calling}
      BY DEF Calls, Calling
    <3> QED  BY <3>1 DEF Surjection
  <2>3. Cardinality(Calls) <= Cardinality(Calling) /\ IsFiniteSet(Calls)
    BY <2>1, <2>2, FS_Surjection
  <2>4. Cardinality(Calling) \in Nat /\ Cardinality(Calls) \in Nat
    BY <2>1, <2>3, FS_CardinalityType
  <2>5. slots + Cardinality(Calling) = MaxConcurrent /\ slots \in Nat
    BY DEF IInv, RunInv, SlotState, TypeOK
  <2> QED  BY <1>1, <2>3, <2>4, <2>5
<1>8. Distiller!Cardinality(Calls) < MaxConcurrent
  <2>1. Distiller!Cardinality(Calls) = Cardinality(Calls)
    BY DEF Distiller!Cardinality, Cardinality
  <2> QED  BY <1>7, <2>1
<1> QED  BY <1>1, <1>3, <1>4, <1>5, <1>6, <1>8 DEF Distiller!Call

(* The run that ends is no longer work, and no longer calls.               *)
LEMMA RunRemoved ==
    ASSUME IInv, NEW r \in runs, r.phase = "calling", runs' = runs \ {r}, conv' = conv
    PROVE  Distiller!Ends(Tag(r)) /\ Tag(r).topic = r.topic /\ Tag(r).size = r.size
<1>1. Work' = Work \ {Tag(r)}
  <2>1. Work' = {Tag(q) : q \in runs \ {r}}
    BY DEF Work, Tag
  <2>2. \A q \in runs : Tag(q) = Tag(r) => q = r
    BY TagsDiffer
  <2> QED  BY <2>1, <2>2 DEF Work
<1>2. Calls' = Calls \ {Tag(r)}
  <2>1. Calls' = {Tag(q) : q \in {p \in runs : p.phase = "calling"} \ {r}}
    BY DEF Calls, Tag
  <2>2. \A q \in runs : Tag(q) = Tag(r) => q = r
    BY TagsDiffer
  <2> QED  BY <2>1, <2>2 DEF Calls
<1>3. Tag(r) \in Calls
  BY CallsAreWork
<1>4. Tag(r).topic = r.topic /\ Tag(r).size = r.size
  BY DEF Tag
<1> QED  BY <1>1, <1>2, <1>3, <1>4 DEF Distiller!Ends

(* The mark of the topic whose run was answered.                           *)
LEMMA MarkMoves ==
    ASSUME IInv, NEW r \in runs, count' = [count EXCEPT ![r.topic] = r.size],
           \A j \in Topics \ {r.topic} : saved'[j] = saved[j]
    PROVE  Marks' = [Marks EXCEPT ![r.topic] = r.size]
<1>1. r.topic \in Topics /\ r.size \in Nat
  BY DEF IInv, RunInv, TypeOK, Run
<1>2. \A j \in Topics : Checkpoint(j)' = IF j = r.topic THEN r.size ELSE Checkpoint(j)
  BY <1>1 DEF IInv, RunInv, TypeOK, Checkpoint, Unknown
<1> QED  BY <1>1, <1>2 DEF Marks

(* What the writes before record_run leave: the topic's facts, or none.    *)
LEMMA UnrecordedKeeps ==
    ASSUME IInv, NEW r \in runs, NEW F \in SUBSET Texts, NEW retired \in BOOLEAN,
           WrittenUnrecorded(r.topic, F, retired)
    PROVE  Distiller!Keeps(r.topic)
<1>1. live \in [Topics -> SUBSET Texts]
  BY DEF IInv, RunInv, TypeOK
<1>2. live' = [live EXCEPT ![r.topic] = IF retired THEN {} ELSE live[r.topic]]
  BY DEF WrittenUnrecorded
<1>3. CASE retired
  BY <1>2, <1>3 DEF Distiller!Keeps
<1>4. CASE ~retired
  <2>1. live' = live
    BY <1>1, <1>2, <1>4
  <2> QED  BY <2>1 DEF Distiller!Keeps
<1> QED  BY <1>3, <1>4

LEMMA CallFailsMaps ==
    ASSUME IInv, NEW r \in runs, CallFails(r) \/ CallTimesOut(r)
    PROVE  Distiller!GiveUp(Tag(r))
<1>1. Distiller!Ends(Tag(r))
  BY RunRemoved DEF CallFails, CallTimesOut
<1>2. Marks' = Marks /\ saved' = saved /\ live' = live
  BY DEF CallFails, CallTimesOut, store, Marks, Checkpoint
<1> QED  BY <1>1, <1>2 DEF Distiller!GiveUp

LEMMA RunRecordedMaps ==
    ASSUME IInv, NEW r \in runs, NEW F \in SUBSET Texts, NEW retired \in BOOLEAN,
           RunRecorded(r, F, retired)
    PROVE  \E G \in SUBSET Texts : Distiller!Finish(Tag(r), G)
<1>1. /\ r.phase = "calling" /\ runs' = runs \ {r} /\ conv' = conv
      /\ live' = [live EXCEPT ![r.topic] = Fresh(r.topic, F, retired)]
      /\ saved' = [saved EXCEPT ![r.topic] = r.size]
      /\ count' = [count EXCEPT ![r.topic] = r.size]
  BY DEF RunRecorded
<1>2. Distiller!Ends(Tag(r)) /\ Tag(r).topic = r.topic /\ Tag(r).size = r.size
  BY <1>1, RunRemoved
<1>3. r.topic \in Topics
  BY DEF IInv, RunInv, TypeOK, Run
<1>4. \A j \in Topics \ {r.topic} : saved'[j] = saved[j]
  BY <1>1 DEF IInv, RunInv, TypeOK
<1>5. Marks' = [Marks EXCEPT ![r.topic] = r.size]
  BY <1>1, <1>4, MarkMoves
<1>6. Fresh(r.topic, F, retired) \in SUBSET Texts
  BY <1>3, FactTypes DEF IInv, RunInv
<1>7. Distiller!Finish(Tag(r), Fresh(r.topic, F, retired))
  BY <1>1, <1>2, <1>5 DEF Distiller!Finish
<1> QED  BY <1>6, <1>7

LEMMA RunNotRecordedMaps ==
    ASSUME IInv, NEW r \in runs, NEW F \in SUBSET Texts, NEW retired \in BOOLEAN,
           RunNotRecorded(r, F, retired)
    PROVE  Distiller!FinishUnrecorded(Tag(r))
<1>1. /\ r.phase = "calling" /\ runs' = runs \ {r} /\ conv' = conv
      /\ WrittenUnrecorded(r.topic, F, retired)
      /\ saved' = saved
      /\ count' = [count EXCEPT ![r.topic] = r.size]
  BY DEF RunNotRecorded
<1>2. Distiller!Ends(Tag(r)) /\ Tag(r).topic = r.topic /\ Tag(r).size = r.size
  BY <1>1, RunRemoved
<1>3. Marks' = [Marks EXCEPT ![r.topic] = r.size]
  BY <1>1, MarkMoves
<1>4. Distiller!Keeps(r.topic)
  BY <1>1, UnrecordedKeeps
<1> QED  BY <1>1, <1>2, <1>3, <1>4 DEF Distiller!FinishUnrecorded

(* A restart, in the middle of the writes of a run or not.                 *)
LEMMA RebootMaps ==
    ASSUME IInv, Reboot, UNCHANGED <<conv, saved>>,
           \/ live' = live
           \/ \E r \in runs : r.phase = "calling" /\ Distiller!Keeps(r.topic)
    PROVE  Distiller!Restart
<1>1. Work' = {} /\ Calls' = {}
  BY DEF Reboot, Work, Calls
<1>2. Marks' = saved
  <2>1. \A k \in Topics : Checkpoint(k)' = saved[k]
    BY DEF Reboot, Checkpoint
  <2>2. saved = [k \in Topics |-> saved[k]]
    BY DEF IInv, RunInv, TypeOK
  <2>3. Marks' = [k \in Topics |-> saved[k]]
    BY <2>1 DEF Marks
  <2> QED  BY <2>2, <2>3
<1>3. live' = live \/ \E w \in Calls : Distiller!Keeps(w.topic)
  <2> SUFFICES ASSUME NEW r \in runs, r.phase = "calling", Distiller!Keeps(r.topic)
               PROVE  \E w \in Calls : Distiller!Keeps(w.topic)
    OBVIOUS
  <2>1. Tag(r) \in Calls /\ Tag(r).topic = r.topic
    BY CallsAreWork DEF Tag
  <2> QED  BY <2>1
<1> QED  BY <1>1, <1>2, <1>3 DEF Distiller!Restart

(* Every step is a step of DistillerService or leaves it alone.            *)
LEMMA StepDistiller == IInv /\ [Next]_vars => [Distiller!Next]_ServiceVars
<1> SUFFICES ASSUME IInv, [Next]_vars
             PROVE  Distiller!Next \/ UNCHANGED ServiceVars
  OBVIOUS
<1>0. \A r \in runs : Tag(r) \in Work
  BY DEF Work
<1>1. ASSUME NEW k \in Topics, Post(k) \/ PostByClaude(k)
      PROVE  Distiller!Next
  <2>1. /\ conv' = [conv EXCEPT ![k] = @ + 1]
        /\ UNCHANGED <<runs, count, saved, live>>
    BY <1>1 DEF Post, PostByClaude, memory, store
  <2>2. Work' = Work /\ Calls' = Calls /\ Marks' = Marks
    BY <2>1 DEF Work, Calls, Tag, Marks, Checkpoint
  <2> QED  BY <2>1, <2>2 DEF Distiller!Next, Distiller!Talk
<1>2. ASSUME NEW k \in Topics, Clear(k)
      PROVE  Distiller!Next
  <2>1. /\ conv' = [conv EXCEPT ![k] = 0]
        /\ UNCHANGED <<runs, count, saved, live>>
    BY <1>2 DEF Clear, memory, store
  <2>2. Work' = Work /\ Calls' = Calls /\ Marks' = Marks
    BY <2>1 DEF Work, Calls, Tag, Marks, Checkpoint
  <2> QED  BY <2>1, <2>2 DEF Distiller!Next, Distiller!Clear
<1>3. ASSUME NEW k \in Topics, TimerFires(k) \/ FireFindsRun(k) \/ FireFindsNothing(k)
      PROVE  UNCHANGED ServiceVars
  <2>1. UNCHANGED <<conv, runs, count, saved, live>>
    BY <1>3 DEF TimerFires, FireFindsRun, FireFindsNothing, store
  <2> QED  BY <2>1, Stutters DEF Checkpoint
<1>4. ASSUME NEW k \in Topics, FireFindsNoNews(k) \/ FireFindsTooFew(k)
      PROVE  Distiller!Next \/ UNCHANGED ServiceVars
  <2>1. /\ ~Locked(k) /\ UNCHANGED <<conv, runs, saved, live>>
        /\ \E c \in Checkpoints(k) : count' = [count EXCEPT ![k] = c]
    BY <1>4 DEF FireFindsNoNews, FireFindsTooFew, Reads, store
  <2> QED  BY <2>1, EarlyReturnMaps DEF Distiller!Next
<1>5. ASSUME NEW k \in Topics, FireBeginsRun(k)
      PROVE  Distiller!Next
  BY <1>5, FireBeginsRunMaps DEF Distiller!Next
<1>6. ASSUME NEW r \in runs, TakeSlot(r) \/ CallFails(r) \/ CallTimesOut(r)
      PROVE  Distiller!Next
  BY <1>0, <1>6, TakeSlotMaps, CallFailsMaps DEF Distiller!Next
<1>7. ASSUME NEW r \in runs, NEW F \in SUBSET Texts, NEW retired \in BOOLEAN,
             RunRecorded(r, F, retired) \/ RunNotRecorded(r, F, retired)
      PROVE  Distiller!Next
  BY <1>0, <1>7, RunRecordedMaps, RunNotRecordedMaps DEF Distiller!Next
<1>8. ASSUME NEW r \in runs, NEW F \in SUBSET Texts, NEW retired \in BOOLEAN,
             RestartMidWrites(r, F, retired)
      PROVE  Distiller!Next
  <2>1. /\ Reboot /\ r.phase = "calling" /\ UNCHANGED <<conv, saved>>
        /\ WrittenUnrecorded(r.topic, F, retired)
    BY <1>8 DEF RestartMidWrites
  <2> QED  BY <2>1, UnrecordedKeeps, RebootMaps DEF Distiller!Next
<1>9. CASE Restart
  <2>1. Reboot /\ UNCHANGED <<conv, saved, live>>
    BY <1>9 DEF Restart, store
  <2> QED  BY <2>1, RebootMaps DEF Distiller!Next
<1>10. CASE UNCHANGED vars
  <2>1. UNCHANGED <<conv, runs, count, saved, live>>
    BY <1>10 DEF vars, memory, store
  <2> QED  BY <2>1, Stutters DEF Checkpoint
<1>11. CASE AbandonedEnds
  <2>1. UNCHANGED <<conv, runs, count, saved, live>>
    BY <1>11 DEF AbandonedEnds, store
  <2> QED  BY <2>1, Stutters DEF Checkpoint
<1> QED  BY <1>1, <1>2, <1>3, <1>4, <1>5, <1>6, <1>7, <1>8, <1>9, <1>10, <1>11 DEF Next

(* Timers, fire tasks, locks, the semaphore, both checkpoints and the      *)
(* writes to MongoDB implement DistillerService.                           *)
THEOREM DistillerImplemented == Spec => ImplementsDistiller
<1>1. Init => Distiller!Init
  <2> SUFFICES ASSUME Init PROVE Distiller!Init
    OBVIOUS
  <2>1. Work = {} /\ Calls = {}
    BY DEF Init, Work, Calls
  <2>2. Marks = [k \in Topics |-> 0]
    BY DEF Init, Marks, Checkpoint
  <2> QED  BY <2>1, <2>2 DEF Init, Distiller!Init
<1>2. IInv /\ [Next]_vars => [Distiller!Next]_(Distiller!dvars)
  BY StepDistiller DEF ServiceVars, Distiller!dvars
<1> QED  BY <1>1, <1>2, Invariance, PTL DEF Spec, ImplementsDistiller, Distiller!Spec

=============================================================================
