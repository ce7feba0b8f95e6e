---------------------------- MODULE ClusterProbe ----------------------------
(***************************************************************************)
(* The cluster probe (services/cluster_probe_service.py): one asyncio task *)
(* that probes every kubeconfig, posts a fresh status message, deletes the *)
(* previous one and stores the new message's id in MongoDB, so that the    *)
(* next process can delete it.                                             *)
(*                                                                         *)
(* An action is what the task does between two awaits.  A message is a     *)
(* number, in the order Telegram accepts them.  The module has no          *)
(* specification of its own: BotProcess composes it with the process that  *)
(* starts, stops and loses the task.                                       *)
(*                                                                         *)
(* External: kubectl, which answers or hangs; Telegram, which may show a   *)
(* message and report an error all the same; MongoDB, which may fail.      *)
(***************************************************************************)
EXTENDS Integers, FiniteSets

CONSTANTS
    Clusters,       \* kubeconfigs in cluster_probe_kubeconfig_dir
    Encrypted,      \* those stored encrypted
    MaxMessages     \* bound of the model: status messages ever posted

ASSUME ProbeAssumption ==
    /\ Encrypted \subseteq Clusters
    /\ MaxMessages \in Nat

VARIABLES
    task,           \* await the task is suspended in; "none" without a task
    kubectls,       \* clusters whose kubectl the current tick awaits
    prev,           \* _prev_message_id, 0 for None
    stored,         \* the id in collection cluster_probe_state, 0 for none
    flying,         \* message of the send in progress once in the chat, or 0
    chat,           \* status messages in the topic
    posted,         \* number of messages posted so far
    blamed          \* history: messages an individual failure happened to

probeVars == <<task, kubectls, prev, stored, flying, chat, posted, blamed>>

Message == 1 .. MaxMessages

ProbeTypeOK ==
    /\ task \in {"none", "sleep", "probing", "html", "plain", "delete"}
    /\ kubectls \subseteq Clusters
    /\ {prev, stored, flying, posted} \subseteq Message \cup {0}
    /\ chat \subseteq Message /\ blamed \subseteq Message

ProbeInit ==
    /\ task = "none"
    /\ kubectls = {}
    /\ prev = 0 /\ stored = 0 /\ flying = 0
    /\ chat = {} /\ posted = 0 /\ blamed = {}

Ids(S) == S \ {0}

----------------------------------------------------------------------------
(* Operators named Wrong... are deliberately wrong variants of the one     *)
(* that follows, used to show that the properties notice them.             *)

(* start() takes the topic to be empty, as the service did before it       *)
(* stored the id.                                                          *)
WrongProbeStart ==
    /\ task = "none"
    /\ prev' = 0
    /\ task' = "sleep"
    /\ UNCHANGED <<blamed, kubectls, stored, flying, chat, posted>>

(* start(): the previous process's message is recovered, None when MongoDB *)
(* fails; the first tick follows at once.                                  *)
ProbeStart ==
    /\ task = "none"
    /\ \/ prev' = stored /\ UNCHANGED blamed
       \/ prev' = 0 /\ blamed' = blamed \cup Ids({stored})
    /\ task' = "sleep"
    /\ UNCHANGED <<kubectls, stored, flying, chat, posted>>

(* _probe_all: the encrypted kubeconfigs that can be decrypted go to a     *)
(* tempfile, and every usable one gets a kubectl of its own.               *)
Tick ==
    /\ task = "sleep"
    /\ posted < MaxMessages
    /\ \E readable \in SUBSET Encrypted :
          kubectls' = (Clusters \ Encrypted) \cup readable
    /\ task' = "probing"
    /\ UNCHANGED <<prev, stored, flying, chat, posted, blamed>>

(* _probe_one: an answer, an error, or the 5 s limit that kills the        *)
(* process group; the tempfile goes in its finally.                        *)
ProbeOneEnds(c) ==
    /\ task = "probing" /\ c \in kubectls
    /\ kubectls' = kubectls \ {c}
    /\ UNCHANGED <<task, prev, stored, flying, chat, posted, blamed>>

(* gather has every result: the table is rendered and sent as HTML.        *)
SendHtml ==
    /\ task = "probing" /\ kubectls = {}
    /\ task' = "html"
    /\ UNCHANGED <<kubectls, prev, stored, flying, chat, posted, blamed>>

(* Telegram shows the message.                                             *)
Deliver ==
    /\ task \in {"html", "plain"} /\ flying = 0
    /\ posted < MaxMessages
    /\ posted' = posted + 1
    /\ flying' = posted + 1
    /\ chat' = chat \cup {posted + 1}
    /\ UNCHANGED <<task, kubectls, prev, stored, blamed>>

(* The send raises, on a time-out also after the message was shown: HTML   *)
(* is followed by plain text, plain text by the next tick.                 *)
SendRaises ==
    /\ task \in {"html", "plain"}
    /\ task' = IF task = "html" THEN "plain" ELSE "sleep"
    /\ blamed' = blamed \cup Ids({flying})
    /\ flying' = 0
    /\ UNCHANGED <<kubectls, prev, stored, chat, posted>>

(* The end of _send_and_delete_old: the new message becomes the previous   *)
(* one and is stored; a failure to store is logged only.                   *)
Remember ==
    /\ prev' = flying
    /\ \/ stored' = flying /\ UNCHANGED blamed
       \/ stored' = stored /\ blamed' = blamed \cup {flying}
    /\ flying' = 0
    /\ task' = "sleep"

(* The send returns.  Without a previous message nothing is awaited before *)
(* the new one is stored.                                                  *)
SendReturns ==
    /\ task \in {"html", "plain"} /\ flying # 0
    /\ IF prev # 0
       THEN task' = "delete" /\ UNCHANGED <<prev, stored, flying, blamed>>
       ELSE Remember
    /\ UNCHANGED <<kubectls, chat, posted>>

(* The deletion ends, a failure is ignored.                                *)
DeleteEnds ==
    /\ task = "delete"
    /\ \/ /\ chat' = chat \ {prev}
          /\ Remember
       \/ /\ prev' = flying /\ flying' = 0 /\ task' = "sleep"
          /\ \E s \in {stored, flying} :
                /\ stored' = s
                /\ blamed' = blamed \cup {prev} \cup ({flying} \ {s})
          /\ UNCHANGED chat
    /\ UNCHANGED <<kubectls, posted>>

(* stop(): CancelledError reaches the await the task is in.  The kubectls  *)
(* are not killed and run on unawaited; a message in flight or not yet     *)
(* stored is forgotten, its predecessor deleted or not.                    *)
Cancel ==
    /\ task # "none"
    /\ task' = "none"
    /\ kubectls' = {}
    /\ blamed' = blamed \cup Ids({flying})
    /\ flying' = 0
    /\ chat' \in {chat} \cup (IF task = "delete" THEN {chat \ {prev}} ELSE {})
    /\ UNCHANGED <<prev, stored, posted>>

(* The process dies with its container.                                    *)
Vanish ==
    /\ task' = "none"
    /\ kubectls' = {}
    /\ blamed' = blamed \cup Ids({flying})
    /\ flying' = 0 /\ prev' = 0
    /\ chat' \in {chat} \cup (IF task = "delete" THEN {chat \ {prev}} ELSE {})
    /\ UNCHANGED <<stored, posted>>

(* A step of the task, of Telegram or of a kubectl.                        *)
ProbeStep ==
    \/ Tick
    \/ \E c \in Clusters : ProbeOneEnds(c)
    \/ SendHtml
    \/ Deliver
    \/ SendRaises
    \/ SendReturns
    \/ DeleteEnds

----------------------------------------------------------------------------
(* The messages the running task, or without one the next process, will    *)
(* still delete.                                                           *)
Tracked == IF task = "none" THEN {stored} ELSE {prev, flying}

(* A status message stays in the topic for good only when something failed *)
(* for that very message: its send was reported as failed, its deletion or *)
(* the storing of its id failed, its id could not be read back, or the     *)
(* process was stopped in the middle of it (_send_and_delete_old, start).  *)
OrphansHaveACause == chat \ Tracked \subseteq blamed

=============================================================================
