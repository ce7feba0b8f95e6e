------------------------- MODULE ConversationTurns -------------------------
(***************************************************************************)
(* The history of ONE topic and the turns that extend it: load, chat,      *)
(* save (services/conversation_service.py), as done by the three callers:  *)
(*   "batch"    _flush_batch of handlers/message_handler.py, inside the    *)
(*              topic's lock,                                              *)
(*   "claude"   /claude of handlers/command_handler.py, without the lock,  *)
(*   "general"  the turn of a message in the general chat for which        *)
(*              _handle_general_chat_message created the topic, without    *)
(*              the lock as well,                                          *)
(* and /clear.  The calls of pymongo are synchronous: a load or a save is  *)
(* one step of the loop.  Each turn works on a copy of the history.        *)
(*                                                                         *)
(* With a "general" turn the topic does not exist at first: that turn is   *)
(* of the message that creates it, and everybody can write in the topic    *)
(* from the moment it is there, before that turn has begun.                *)
(***************************************************************************)
EXTENDS Integers, SequencesExt

CONSTANTS
    Turns,          \* turns users will start
    Kind            \* Kind[t]: which caller runs it

ASSUME KindAssumption ==
    /\ Kind \in [Turns -> {"batch", "claude", "general"}]
    /\ \A t, u \in Turns : Kind[t] = "general" /\ Kind[u] = "general" => t = u

VARIABLES
    topic,          \* the topic exists
    doc,            \* the topic's document, NoDoc when there is none
    docs,           \* number of documents created: the last _id
    phase,          \* phase[t]: "idle", "creating", "welcoming", "loaded",
                    \* "asked", "ended"
    copy,           \* copy[t]: t's Conversation object
    cleared,        \* history: messages /clear has deleted
    lost,           \* history: <<u, t>>: t's save dropped messages of u
    disturbed,      \* history: turns in progress when one without lock saved
    broken          \* history: turns saved although they have no answer: they
                    \* raised, or were stopped before there was any

vars == <<topic, doc, docs, phase, copy, cleared, lost, disturbed, broken>>

(* A document or a copy of one: _id (0: None) and the messages in order.   *)
NoDoc == [id |-> 0, messages |-> <<>>]

Message == [turn : Turns, role : {"user", "assistant"}]

(* The documents there can be so far, and copies of them.                  *)
Document == [id : 0 .. docs, messages : Seq(Message)]

User(t) == [turn |-> t, role |-> "user"]
Assistant(t) == [turn |-> t, role |-> "assistant"]

Init ==
    /\ topic = (\A t \in Turns : Kind[t] # "general")
    /\ doc = NoDoc
    /\ docs = 0
    /\ phase = [t \in Turns |-> "idle"]
    /\ copy = [t \in Turns |-> NoDoc]
    /\ cleared = {}
    /\ lost = {}
    /\ disturbed = {}
    /\ broken = {}

InTurn(t) == phase[t] \in {"loaded", "asked"}

----------------------------------------------------------------------------
(* A message that mentions the bot in the general chat: the bot asks for a *)
(* topic, or the user is told to wait after another mention (whose time is *)
(* in _recent_topic_creation).                                             *)
Mention(t) ==
    /\ Kind[t] = "general" /\ phase[t] = "idle"
    /\ phase' \in {[phase EXCEPT ![t] = "creating"], [phase EXCEPT ![t] = "ended"]}
    /\ UNCHANGED <<topic, doc, docs, copy, cleared, lost, disturbed, broken>>

(* create_forum_topic returned; a welcome message is sent to the topic.    *)
TopicCreated(t) ==
    /\ phase[t] = "creating"
    /\ topic' = TRUE
    /\ phase' = [phase EXCEPT ![t] = "welcoming"]
    /\ UNCHANGED <<doc, docs, copy, cleared, lost, disturbed, broken>>

(* The topic or the welcome failed: the apology says that there is no      *)
(* topic, and the message has no turn.                                     *)
NoTurnInTopic(t) ==
    /\ phase[t] \in {"creating", "welcoming"}
    /\ phase' = [phase EXCEPT ![t] = "ended"]
    /\ UNCHANGED <<topic, doc, docs, copy, cleared, lost, disturbed, broken>>

(* A turn can load the history.                                            *)
Ready(t) ==
    IF Kind[t] = "general" THEN phase[t] = "welcoming" ELSE topic /\ phase[t] = "idle"

(* A batch that does not take the topic's lock.                            *)
WrongStartUnlocked(t) ==
    /\ Ready(t)
    /\ phase' = [phase EXCEPT ![t] = "loaded"]
    /\ copy' = [copy EXCEPT ![t] = doc]
    /\ UNCHANGED <<topic, doc, docs, cleared, lost, disturbed, broken>>

(* get_conversation: the copy is the stored document, or a new object with *)
(* no _id.  A batch gets here with the topic's lock, the others at once.   *)
Start(t) ==
    /\ Ready(t)
    /\ Kind[t] = "batch" => \A u \in Turns : Kind[u] = "batch" => ~InTurn(u)
    /\ phase' = [phase EXCEPT ![t] = "loaded"]
    /\ copy' = [copy EXCEPT ![t] = doc]
    /\ UNCHANGED <<topic, doc, docs, cleared, lost, disturbed, broken>>

(* chat() and chat_enterprise() append the user's message to the copy and  *)
(* hand it to Holmes.                                                      *)
AskHolmes(t) ==
    /\ phase[t] = "loaded"
    /\ phase' = [phase EXCEPT ![t] = "asked"]
    /\ copy' = [copy EXCEPT ![t].messages = Append(@, User(t))]
    /\ UNCHANGED <<topic, doc, docs, cleared, lost, disturbed, broken>>

(* A save keyed by topic for old conversations as for new ones.            *)
WrongSaved(c) ==
    [id |-> IF doc.id = 0 THEN docs + 1 ELSE doc.id, messages |-> c.messages]

(* save_conversation(c), as the document it leaves: a copy with an _id     *)
(* replaces the document with that _id if it still exists; one without is  *)
(* an upsert by topic and chat.                                            *)
Saved(c) ==
    IF c.id # 0
    THEN IF doc.id = c.id THEN c ELSE doc
    ELSE [id |-> IF doc.id = 0 THEN docs + 1 ELSE doc.id, messages |-> c.messages]

(* Other turns in progress when turn t, without the topic's lock, saves.   *)
DisturbedBy(t) ==
    IF Kind[t] = "batch" THEN {} ELSE {u \in Turns \ {t} : InTurn(u)}

(* The turn is over and its copy c is saved.                               *)
SaveAndEnd(t, c) ==
    /\ doc' = Saved(c)
    /\ docs' = IF doc'.id > docs THEN doc'.id ELSE docs
    /\ copy' = [copy EXCEPT ![t] = c]
    /\ phase' = [phase EXCEPT ![t] = "ended"]
    /\ lost' = lost \cup {<<m.turn, t>> :
                    m \in ToSet(doc.messages) \ ToSet(doc'.messages)}
    /\ disturbed' = disturbed \cup DisturbedBy(t)
    /\ UNCHANGED <<topic, cleared>>

(* The copy is saved as it was handed to Holmes, the answer appended later.*)
WrongAnswered(t) ==
    /\ phase[t] = "asked"
    /\ \/ SaveAndEnd(t, copy[t]) /\ UNCHANGED broken
       \/ SaveAndEnd(t, copy[t]) /\ broken' = broken \cup {t}

(* Holmes answered, or was stopped or raised after some of the answer:     *)
(* _stream_chat appends the assistant's message.  Nothing is appended if   *)
(* nothing had been produced yet.                                          *)
Answered(t) ==
    /\ phase[t] = "asked"
    /\ \/ /\ SaveAndEnd(t, [copy[t] EXCEPT !.messages = Append(@, Assistant(t))])
          /\ UNCHANGED broken
       \/ SaveAndEnd(t, copy[t]) /\ broken' = broken \cup {t}

(* Something raised on the way.  The reply is an apology and nothing is    *)
(* saved, except that _handle_streaming_response saves the copy as it is.  *)
Failed(t) ==
    /\ InTurn(t)
    /\ \/ /\ phase' = [phase EXCEPT ![t] = "ended"]
          /\ UNCHANGED <<topic, doc, docs, copy, cleared, lost, disturbed, broken>>
       \/ /\ Kind[t] # "claude"
          /\ SaveAndEnd(t, copy[t])
          /\ broken' = broken \cup {t}

(* /clear deletes the document, whatever turns are in progress.            *)
Clear ==
    /\ doc.id # 0
    /\ doc' = NoDoc
    /\ cleared' = cleared \cup ToSet(doc.messages)
    /\ UNCHANGED <<topic, docs, phase, copy, lost, disturbed, broken>>

Next ==
    \/ \E t \in Turns : Mention(t) \/ TopicCreated(t) \/ NoTurnInTopic(t)
    \/ \E t \in Turns : Start(t) \/ AskHolmes(t) \/ Answered(t) \/ Failed(t)
    \/ Clear

Spec == Init /\ [][Next]_vars

----------------------------------------------------------------------------
(* The types of the state. *)
TypeOK ==
    /\ topic \in BOOLEAN
    /\ docs \in Nat
    /\ doc \in Document
    /\ phase \in [Turns -> {"idle", "creating", "welcoming", "loaded", "asked", "ended"}]
    /\ copy \in [Turns -> Document]
    /\ cleared \subseteq Message
    /\ lost \subseteq Turns \X Turns
    /\ disturbed \subseteq Turns
    /\ broken \subseteq Turns

(* What /clear has deleted never comes back, although turns in progress    *)
(* hold copies of it and save them afterwards ("Your conversation history  *)
(* has been cleared.").                                                    *)
ClearedStaysCleared == ToSet(doc.messages) \cap cleared = {}

(* Between batches the topic's lock does its work: a batch drops messages  *)
(* another batch has saved only if a turn without the lock saved while the *)
(* batch held its copy.                                                    *)
BatchesDoNotOverwrite ==
    \A p \in lost : (\A t \in {p[1], p[2]} : Kind[t] = "batch") => p[2] \in disturbed

(* The history given to Holmes is made of whole turns: an answer directly  *)
(* follows its own question, a question is directly followed by its own    *)
(* answer unless its turn raised or was stopped before there was one       *)
(* (_stream_chat, _handle_streaming_response), and no message is there     *)
(* twice, whatever overlapped.                                             *)
HistoryIsWholeTurns ==
    \A i \in DOMAIN doc.messages : LET m == doc.messages[i] IN
        /\ \A j \in DOMAIN doc.messages : m = doc.messages[j] => i = j
        /\ m.role = "assistant" => i > 1 /\ doc.messages[i - 1] = User(m.turn)
        /\ m.role = "user" /\ m.turn \notin broken =>
              i < Len(doc.messages) /\ doc.messages[i + 1] = Assistant(m.turn)

(* What chat_enterprise's docstring says ("appended to the same            *)
(* conversation as normal turns, so follow-ups on the default LLM still    *)
(* see this turn in history"): a /claude turn is not dropped from the      *)
(* history.  The code violates it: see the README.                         *)
ClaudeTurnsStay == \A p \in lost : Kind[p[1]] # "claude"

=============================================================================
