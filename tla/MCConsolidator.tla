--------------------------- MODULE MCConsolidator ---------------------------
(* Consolidator for TLC: two topics share one semaphore slot; one topic    *)
(* can outgrow the window the idle guard compares.                         *)
EXTENDS Consolidator

CONSTANTS a, b, f   \* model values: two topics and a fact text

MCTopics == {a, b}
MCTexts == {f}

=============================================================================
