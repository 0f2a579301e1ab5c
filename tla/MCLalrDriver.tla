---------------------------- MODULE MCLalrDriver ----------------------------
(***************************************************************************)
(* Instances of the generator for TLC: tables for all sample grammars, and *)
(* parsers for some of them, with a stack that no text of five tokens      *)
(* overflows, and for one with a stack that some overflow.                 *)
(***************************************************************************)
EXTENDS LalrDriver

G == INSTANCE SampleGrammars

FamilyFew == {gr \in G!Family : gr.rule[4].rhs = <<G!c>> /\ Len(gr.rule[2].rhs) = 2
                                                         /\ Len(gr.rule[3].rhs) < 2}

Parsed == FamilyFew \cup G!Ranked \cup {G!NotSlr, G!Empties, G!Chain, G!Units, G!Wild, G!Keyword}
Deep   == {G!Marked}

AllGrammars == G!Family \cup G!Chosen \cup G!Ranked \cup {G!Unknown} \cup Parsed \cup Deep
Depths      == [gr \in Parsed \cup Deep |-> IF gr \in Deep THEN 4 ELSE 20]
=============================================================================
