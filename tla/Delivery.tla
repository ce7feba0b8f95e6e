------------------------------ MODULE Delivery ------------------------------
(***************************************************************************)
(* How the answer of a turn reaches its topic (utils/rich_message.py): a   *)
(* regular turn and /claude call send_rich_reply, a streaming turn edits   *)
(* its "Thinking..." message by edit_or_send_rich.  The answer is split    *)
(* into chunks that Telegram accepts, and every call that fails has a      *)
(* fallback: the rich message HTML, HTML plain text, the edit a deletion   *)
(* and a new message.                                                      *)
(*                                                                         *)
(* One answer is modelled, as the HTML it is converted to.  A character is *)
(* of three kinds: "x", a newline "n", and "t", which stands for a tag.  A *)
(* chunk is the sequence of the positions of its characters; -i stands for *)
(* what a tag at position i has grown by when it was escaped.              *)
(*                                                                         *)
(* External: Telegram, which may refuse a call, and which may carry it out *)
(* and report an error all the same.                                       *)
(***************************************************************************)
EXTENDS Integers, Sequences, FiniteSets, SequencesExt, Functions

CONSTANTS
    Texts,          \* answers, without newlines at either end
    Limit           \* TELEGRAM_MESSAGE_LIMIT

ASSUME DeliveryAssumption ==
    /\ Texts \subseteq Seq({"x", "n", "t"})
    /\ Limit \in Nat \ {0, 1}

VARIABLES
    text,           \* markdown_to_html of the answer
    table,          \* the answer has a table: has_rich_table
    call,           \* the call that is made next, or awaited
    todo,           \* the chunks from the one of that call on
    effect,         \* Telegram has carried out the call
    placeholder,    \* the message a streaming turn edits
    chat,           \* the messages of the answer in the topic
    lies,           \* history: repetitions that Telegram brought about
    given           \* history: positions whose last fallback failed

deliveryVars == <<text, table, call, todo, effect, placeholder, chat, lies,
                  given>>

Positions == [i \in 1 .. Len(text) |-> i]

----------------------------------------------------------------------------
(* Operators named Wrong... are deliberately wrong variants of the one     *)
(* that follows, used to show that the properties notice them.             *)

Newline(p, i) == p[i] > 0 /\ text[p[i]] = "n"

(* The last place of S, unless it is in the first half.                    *)
LastOf(S) == {i \in S : i > Limit \div 2 /\ \A j \in S : j <= i}

(* Where _split_html cuts p: before the last blank line of the first Limit *)
(* characters, before the last newline, or after all of them.              *)
Cut(p) ==
    LET blank == LastOf({i \in 1 .. Limit - 1 : Newline(p, i) /\ Newline(p, i + 1)})
        line == LastOf({i \in 1 .. Limit : Newline(p, i)})
        places == IF blank # {} THEN blank ELSE line
    IN  IF places = {} THEN Limit ELSE (CHOOSE i \in places : TRUE) - 1

(* lstrip("\n") of what follows the first n characters of p.               *)
After(p, n) ==
    CHOOSE m \in n .. Len(p) :
        /\ \A i \in n + 1 .. m : Newline(p, i)
        /\ m < Len(p) => ~Newline(p, m + 1)

(* One newline after the cut is dropped whether it is one or not.          *)
WrongSplit(p) ==
    LET chunks[n \in 0 .. Len(p)] ==
            LET rest == SubSeq(p, n + 1, Len(p))
            IN  IF Len(rest) <= Limit
                THEN IF rest = <<>> THEN <<>> ELSE <<rest>>
                ELSE <<SubSeq(rest, 1, Cut(rest))>> \o chunks[n + Cut(rest) + 1]
    IN  chunks[0]

(* _split_html                                                             *)
Split(p) ==
    LET chunks[n \in 0 .. Len(p)] ==
            LET rest == SubSeq(p, n + 1, Len(p))
            IN  IF Len(rest) <= Limit
                THEN IF rest = <<>> THEN <<>> ELSE <<rest>>
                ELSE <<SubSeq(rest, 1, Cut(rest))>>
                        \o chunks[After(p, n + Cut(rest))]
    IN  chunks[0]

(* p without the newlines at its end. *)
Stripped(p) ==
    SubSeq(p, 1, CHOOSE n \in 0 .. Len(p) :
                     /\ \A i \in n + 1 .. Len(p) : Newline(p, i)
                     /\ n > 0 => ~Newline(p, n))

(* What a character turns into when it is escaped: a tag grows.            *)
Escaped(i) == IF text[i] = "t" THEN <<i, -i>> ELSE <<i>>

(* A chunk of HTML taken for markdown and converted again: newlines at its *)
(* end are stripped, and its tags are escaped.                             *)
Reconverted(p) ==
    FlattenSeq([i \in DOMAIN Stripped(p) |-> Escaped(Stripped(p)[i])])

----------------------------------------------------------------------------
(* send_rich_reply: the call it makes first, and what it sends.            *)
ReplyCall == IF table THEN "rich" ELSE "html"
ReplyParts == IF table THEN <<Positions>> ELSE Split(Positions)

(* edit_or_send_rich: a chunk for the edit, and those that follow it.      *)
EditParts == IF Len(text) > Limit THEN Split(Positions) ELSE <<Positions>>

DeliveryInit ==
    /\ text \in Texts /\ table \in BOOLEAN
    /\ \/ placeholder = "none" /\ call = ReplyCall /\ todo = ReplyParts
       \/ placeholder = "partial" /\ call = "edit" /\ todo = EditParts
    /\ effect = FALSE
    /\ chat = <<>>
    /\ lies = 0 /\ given = {}

(* Telegram carries the call out: a message appears, is edited or deleted. *)
(* Nothing can be edited to be empty.                                      *)
TakesEffect ==
    /\ ~effect /\ effect' = TRUE
    /\ \/ /\ call \in {"rich", "html", "plain"} /\ todo # <<>>
          /\ chat' = Append(chat, [by |-> call, part |-> Head(todo)])
          /\ UNCHANGED placeholder
       \/ /\ call = "edit" /\ Head(todo) # <<>>
          /\ placeholder' = "edited"
          /\ UNCHANGED chat
       \/ /\ call = "delete"
          /\ placeholder' = "deleted"
          /\ UNCHANGED chat
    /\ UNCHANGED <<text, table, call, todo, lies, given>>

(* A repetition follows when the call that failed had taken effect.        *)
Lied == lies' = IF effect THEN lies + 1 ELSE lies

(* A result of null is taken for a failure.                                *)
WrongRichReturns ==
    /\ call = "rich" /\ effect /\ effect' = FALSE
    /\ call' = "html" /\ todo' \in {<<>>, Split(Positions)}
    /\ UNCHANGED <<text, table, placeholder, chat, lies, given>>

(* sendRichMessage returned, whatever its result: that was all.            *)
RichReturns ==
    /\ call = "rich" /\ effect /\ effect' = FALSE
    /\ call' = "html" /\ todo' = <<>>
    /\ UNCHANGED <<text, table, placeholder, chat, lies, given>>

(* ... or it raised: the answer is sent as HTML, chunk by chunk.           *)
RichRaises ==
    /\ call = "rich" /\ Lied /\ effect' = FALSE
    /\ call' = "html" /\ todo' = Split(Positions)
    /\ UNCHANGED <<text, table, placeholder, chat, given>>

(* A chunk was sent, as HTML or as plain text: the next one follows.       *)
SendReturns ==
    /\ call \in {"html", "plain"} /\ effect /\ effect' = FALSE
    /\ call' = "html" /\ todo' = Tail(todo)
    /\ UNCHANGED <<text, table, placeholder, chat, lies, given>>

(* HTML failed: the chunk is sent as plain text.                           *)
HtmlRaises ==
    /\ call = "html" /\ todo # <<>> /\ Lied /\ effect' = FALSE
    /\ call' = "plain"
    /\ UNCHANGED <<text, table, todo, placeholder, chat, given>>

(* Plain text failed too: the error is logged and the next chunk follows.  *)
PlainRaises ==
    /\ call = "plain" /\ effect' = FALSE
    /\ call' = "html" /\ todo' = Tail(todo)
    /\ given' = IF effect THEN given ELSE given \cup Range(Head(todo))
    /\ UNCHANGED <<text, table, placeholder, chat, lies>>

(* The chunks after the first are sent as they are.                        *)
WrongEditReturns ==
    /\ call = "edit" /\ effect /\ effect' = FALSE
    /\ call' = "html" /\ todo' = [i \in DOMAIN Tail(todo) |-> Reconverted(todo[i + 1])]
    /\ UNCHANGED <<text, table, placeholder, chat, lies, given>>

(* The edit returned: send_rich_message, without a rich message, converts  *)
(* and splits each of the other chunks.                                    *)
EditReturns ==
    /\ call = "edit" /\ effect /\ effect' = FALSE
    /\ call' = "html"
    /\ todo' = FlattenSeq([i \in DOMAIN Tail(todo) |-> Split(Reconverted(todo[i + 1]))])
    /\ UNCHANGED <<text, table, placeholder, chat, lies, given>>

(* ... or it raised: the message is deleted, changed or not.               *)
EditRaises ==
    /\ call = "edit" /\ effect' = FALSE
    /\ call' = "delete" /\ todo' = <<>>
    /\ UNCHANGED <<text, table, placeholder, chat, lies, given>>

(* The deletion returned, or failed, which is ignored: the whole answer is *)
(* sent by send_rich_message.                                              *)
DeleteEnds ==
    /\ call = "delete" /\ effect' = FALSE
    /\ lies' = IF effect THEN lies ELSE lies + 1
    /\ call' = ReplyCall /\ todo' = ReplyParts
    /\ UNCHANGED <<text, table, placeholder, chat, given>>

DeliveryNext ==
    \/ TakesEffect
    \/ RichReturns \/ RichRaises
    \/ SendReturns \/ HtmlRaises \/ PlainRaises
    \/ EditReturns \/ EditRaises \/ DeleteEnds

DeliverySpec == DeliveryInit /\ [][DeliveryNext]_deliveryVars

----------------------------------------------------------------------------
(* Properties *)

Delivered == call = "html" /\ todo = <<>>

(* The messages of the topic that show position i; the one that streaming  *)
(* left behind may show all of the answer.                                 *)
ShowsInChat(i) == {m \in DOMAIN chat : i \in Range(chat[m].part)}
ShowsInPlaceholder(i) ==
    \/ placeholder = "partial"
    \/ placeholder = "edited" /\ i \in Range(EditParts[1])

(* No part of the answer stands in the topic twice, but for the calls that *)
(* Telegram carried out and reported as failed, and for a deletion that    *)
(* failed ("we now either edit-in-place OR replace-via-delete, never both" *)
(* and the duplicates that send_rich_message speaks of).                   *)
ShownOnce ==
    \A i \in DOMAIN text :
        Cardinality(ShowsInChat(i)) + (IF ShowsInPlaceholder(i) THEN 1 ELSE 0)
            <= 1 + lies

(* In the end nothing but newlines of the answer is missing, except chunks *)
(* that were refused as HTML and as plain text, and no chunk was too long  *)
(* for Telegram (_split_html and the fallbacks of send_rich_message).      *)
ShownWhole ==
    /\ Delivered => \A i \in DOMAIN text :
        text[i] = "n" \/ i \in given \/ ShowsInChat(i) # {} \/ ShowsInPlaceholder(i)
    /\ call \in {"html", "plain", "edit"} =>
        \A c \in Range(todo) : Len(c) <= Limit

=============================================================================
