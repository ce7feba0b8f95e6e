----------------------------- MODULE MCDelivery -----------------------------
(* Delivery for TLC: every answer of up to MaxLength characters.           *)
EXTENDS Delivery

CONSTANT MaxLength

MCTexts ==
    {t \in UNION {[1 .. n -> {"x", "n", "t"}] : n \in 0 .. MaxLength} :
        t = <<>> \/ (t[1] # "n" /\ t[Len(t)] # "n")}

=============================================================================
