---------------------------- MODULE MCKIRequest -----------------------------
(* Instances of KIRequest for TLC: one command of each kind.                *)
EXTENDS KIRequest

Check    == [ls |-> "free", mv |-> "confirm", dd |-> "blocked", skill |-> "confirm"]
Classify == [ls |-> "auto", mv |-> "confirm", dd |-> "blocked", skill |-> "confirm"]

\* No command; one of each kind, a repetition and a skill.
SomeReplies == {<<>>, <<"mv", "dd", "mv">>, <<"ls", "skill">>}
FewReplies  == {<<>>, <<"ls">>, <<"mv">>}
=============================================================================
