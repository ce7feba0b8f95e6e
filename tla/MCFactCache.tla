---------------------------- MODULE MCFactCache ----------------------------
(* FactCache for TLC: three texts of which the middle one is close to both *)
(* others, so that closeness is not transitive.                            *)
EXTENDS FactCache

CONSTANTS k1, k2, a, b, c, r    \* model values: topics, texts, a reader

MCTopics == {k1, k2}
MCTexts == {a, b, c}
MCSimilarTexts == {{a, b}, {b, c}}
MCHardTexts == {b}
MCReaders == {r}

=============================================================================
