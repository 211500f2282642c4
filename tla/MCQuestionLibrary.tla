-------------------------- MODULE MCQuestionLibrary --------------------------
(* Two runs with candidates whose tags come in opposite orders.  Under k1 a  *)
(* batch of two, under k2 one of them edited and, with another body, the     *)
(* third with tags of its own into the other bank.  A request with a blank   *)
(* prompt is refused.                                                        *)
EXTENDS QuestionLibrary

CONSTANTS c1, c2, c3, p1, p2, p3, r1, r2, b1, b2

MCRunOf == [c \in {c1, c2, c3} |-> IF c = c3 THEN r2 ELSE r1]
MCPromptOf == [c \in {c1, c2, c3} |-> IF c = c2 THEN p3 ELSE p1]
MCSlugOf == [x |-> "x", X |-> "x", y |-> "y"]
MCTagsOf == [c \in {c1, c2, c3} |-> IF c = c1 THEN <<"x", "y">> ELSE <<>>]
MCManualTags == <<"x">>

Pick(c) == [candidate |-> c, revision |-> 1, prompt |-> None, tags |-> None,
            wellFormed |-> TRUE]
Edited(c, p) == [Pick(c) EXCEPT !.prompt = p]
Tagged(c, tags) == [Pick(c) EXCEPT !.tags = tags]
MCImports ==
    {[key |-> "k1", run |-> r1, bank |-> b1, items |-> <<Pick(c1), Pick(c2)>>],
     [key |-> "k2", run |-> r1, bank |-> b1, items |-> <<Edited(c1, p2)>>],
     [key |-> "k2", run |-> r2, bank |-> b2, items |-> <<Tagged(c3, <<"y", "X", "x">>)>>],
     [key |-> "k3", run |-> r1, bank |-> b2,
      items |-> <<[Pick(c2) EXCEPT !.wellFormed = FALSE]>>]}
=============================================================================
