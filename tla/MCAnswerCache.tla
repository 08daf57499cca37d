------------------------ MODULE MCAnswerCache ------------------------
(* AnswerCache with three messages and two ratings.  The question "b" is     *)
(* near to "a" and to "c", which are not near to each other; "a" can also be *)
(* asked inside a conversation.                                              *)
EXTENDS AnswerCache, TLC

CONSTANTS m1, m2, m3, f1, f2, answer

MCMessages == {m1, m2, m3}
MCRatings  == {f1, f2}
MCAnswers  == {answer}

MCAsks == {[q |-> q, history |-> "none"] : q \in {"a", "b", "c"}}
            \cup {[q |-> "a", history |-> "h"]}
MCSimilar(q, r) == q = r \/ "b" \in {q, r}

NoFaults == {}

MCSymmetry == Permutations(MCMessages) \cup Permutations(MCRatings)
=============================================================================
