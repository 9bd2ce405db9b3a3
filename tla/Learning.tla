------------------------------ MODULE Learning ------------------------------
(* What the model is shown of earlier exchanges and what is learned of them: *)
(* the conversation (ki_prompting.go:155-183), the dialog mode with a list   *)
(* of its own (shell_continuous.go), ki:learn and its hint (ki_learn.go) and *)
(* the skills a request can match without a call (ki_skillmatch.go).         *)
(* A turn stands for the script its answer holds, or is NoScript.            *)
EXTENDS Naturals, Sequences, SequencesExt, FiniteSets

CONSTANTS
  MaxTurns,    \* newConversationHistory: 10
  MaxDialog,   \* the cap of the dialog's own list: 20
  Scripts,     \* the scripts a model can answer with
  Names,       \* the names ki:learn is given
  FileOf,      \* sanitizeFilename on them
  Directory,   \* the files of those names, in the order ReadDir gives them
  Words,       \* name -> significantWords of the skill's name and description
  Queries,     \* the sets of significant words of the requests
  MaxEvents    \* bound: exchanges and ki:learns in a session

NoScript == "none"

VARIABLES
  turns,         \* kiConversation.turns
  conversation,  \* the list of ContinuousMode
  mode,          \* "prompt", "run" (inside handleKI), "dialog", "asking" (a dialog's query)
  turnsBefore,   \* handleKI's, before the run
  hinted,        \* the last run ended with the hint
  files,         \* ~/.aish/skills: file -> [name, script], << >> for none
  loaded,        \* loadedSkills, in the order of the directory
  events,        \* (bound) exchanges and ki:learns so far
  newest,        \* (history) the last script a model answered with
  crossed        \* (history) a web request added to the conversation

vars == <<turns, conversation, mode, turnsBefore, hinted, files, loaded, events, newest, crossed>>

Tail20(s) == IF Len(s) > MaxDialog THEN SubSeq(s, Len(s) - MaxDialog + 1, Len(s)) ELSE s

Add_DropsNewest(ts, turn) ==
    IF Len(ts) >= MaxTurns THEN ts ELSE Append(ts, turn)

(* ConversationHistory.Add *)
Add(ts, turn) ==
    LET all == Append(ts, turn)
    IN  IF Len(all) > MaxTurns THEN Tail(all) ELSE all

(* The turns of a list, added to an empty conversation. *)
Refilled(list) ==
    LET added[i \in 0..Len(list)] == IF i = 0 THEN <<>> ELSE Add(added[i - 1], list[i])
    IN  added[Len(list)]

(* lastScriptInConversation *)
LastScript(ts) ==
    LET i == SelectLastInSeq(ts, LAMBDA t : t # NoScript)
    IN  IF i = 0 THEN NoScript ELSE ts[i]

AlreadyASkill(script) == \E i \in DOMAIN loaded : loaded[i].script = script

---------------------------------------------------------------------------
(* Skills a request matches. *)

(* 12 times hits / len(kw): exact for up to four keywords. *)
Score(skill, query) ==
    LET kw == Words[skill.name]
        hits == Cardinality(kw \cap query)
    IN  IF hits < 2 \/ 2 * hits < Cardinality(kw) THEN 0 ELSE (12 * hits) \div Cardinality(kw)

Rank_ForgetsRunnerUp(acc, s, query) ==
    LET score == Score(s, query)
    IN  IF score > acc.best THEN [acc EXCEPT !.best = score, !.name = s.name]
        ELSE IF score > acc.second THEN [acc EXCEPT !.second = score] ELSE acc

(* The best score so far, the skill it belongs to and the next best one. *)
Rank(acc, s, query) ==
    LET score == Score(s, query)
    IN  IF score > acc.best THEN [best |-> score, second |-> acc.best, name |-> s.name]
        ELSE IF score > acc.second THEN [acc EXCEPT !.second = score] ELSE acc

Unranked == [best |-> 0, second |-> 0, name |-> ""]

(* matchSkillForQuery: the best skill, if the next one is a quarter behind. *)
MatchSkill(skills, query) ==
    LET ranked[i \in 0..Len(skills)] ==
          IF i = 0 THEN Unranked ELSE Rank(ranked[i - 1], skills[i], query)
        end == ranked[Len(skills)]
    IN  IF end.name # "" /\ end.best - end.second >= 3 THEN end.name ELSE ""

(* initSkills: the skills of the files that there are, as ReadDir names them. *)
ReadSkills(saved) ==
    LET skills[i \in 0..Len(Directory)] ==
          IF i = 0 THEN <<>>
          ELSE IF Directory[i] \in DOMAIN saved
               THEN Append(skills[i - 1], saved[Directory[i]]) ELSE skills[i - 1]
    IN  skills[Len(Directory)]

---------------------------------------------------------------------------
Init ==
  /\ turns = <<>> /\ conversation = <<>> /\ mode = "prompt" /\ turnsBefore = 0
  /\ hinted = FALSE /\ files = [f \in {} |-> {}] /\ loaded = <<>>
  /\ events = 0 /\ newest = NoScript /\ crossed = FALSE

Exchange == events < MaxEvents /\ events' = events + 1

Answered(script) == newest' = IF script = NoScript THEN newest ELSE script

(* handleKI: no skill matches, or the user wants the model (k). *)
BeginRun ==
  /\ mode = "prompt" /\ events < MaxEvents
  /\ mode' = "run" /\ hinted' = FALSE
  /\ turnsBefore' = Len(turns)
  /\ UNCHANGED <<turns, conversation, files, loaded, events, newest, crossed>>

(* A skill matches and is run, or the user says no: no call, no turn. *)
RunSkill(query) ==
  /\ mode = "prompt" /\ MatchSkill(loaded, query) # ""
  /\ hinted' = FALSE
  /\ UNCHANGED <<turns, conversation, mode, turnsBefore, files, loaded, events, newest, crossed>>

(* A step of RunAgentLoop, or the one query without agent mode. *)
Step(script) ==
  /\ mode = "run" /\ Exchange
  /\ turns' = Add(turns, script)
  /\ Answered(script)
  /\ UNCHANGED <<conversation, mode, turnsBefore, hinted, files, loaded, crossed>>

(* suggestLearn: only the turns from turnsBefore on; the scan stops at the  *)
(* newest script, whether it is a skill already or not.                     *)
EndRun ==
  /\ mode = "run"
  /\ mode' = "prompt"
  /\ LET from == IF turnsBefore > Len(turns) THEN 0 ELSE turnsBefore
         new == LastScript(SubSeq(turns, from + 1, Len(turns)))
     IN  hinted' = (new # NoScript /\ ~AlreadyASkill(new))
  /\ turnsBefore' = 0
  /\ UNCHANGED <<turns, conversation, files, loaded, events, newest, crossed>>

(* handleAPIKI: a web request, whatever the prompt does. *)
WebAnswer(script) ==
  /\ Exchange
  /\ turns' = Add(turns, script)
  /\ crossed' = TRUE
  /\ UNCHANGED <<conversation, mode, turnsBefore, hinted, files, loaded, newest>>

Clear ==
  /\ mode = "prompt"
  /\ turns' = <<>> /\ newest' = NoScript /\ crossed' = FALSE
  /\ UNCHANGED <<conversation, mode, turnsBefore, hinted, files, loaded, events>>

(* handleLearnCmd: saveSkill writes the file of the name, reloadSkills reads *)
(* the directory.                                                           *)
Learn(name) ==
  /\ mode = "prompt" /\ Exchange /\ LastScript(turns) # NoScript
  /\ LET f == FileOf[name]
         saved == [g \in DOMAIN files \union {f} |->
                     IF g = f THEN [name |-> name, script |-> LastScript(turns)] ELSE files[g]]
     IN  files' = saved /\ loaded' = ReadSkills(saved)
  /\ UNCHANGED <<turns, conversation, mode, turnsBefore, hinted, newest, crossed>>

---------------------------------------------------------------------------
(* ContinuousMode. *)

StartDialog ==
  /\ mode = "prompt" /\ mode' = "dialog"
  /\ UNCHANGED <<turns, conversation, turnsBefore, hinted, files, loaded, events, newest, crossed>>

(* A shell command is a turn of the dialog's list, which it does not cap. *)
DialogCommand ==
  /\ mode = "dialog" /\ Exchange
  /\ conversation' = Append(conversation, NoScript)
  /\ UNCHANGED <<turns, mode, turnsBefore, hinted, files, loaded, newest, crossed>>

(* The question: Clear, then the dialog's turns, then the query. *)
Ask ==
  /\ mode = "dialog" /\ mode' = "asking"
  /\ turns' = Refilled(conversation)
  /\ UNCHANGED <<conversation, turnsBefore, hinted, files, loaded, events, newest, crossed>>

AskFails ==
  /\ mode = "asking" /\ mode' = "dialog"
  /\ UNCHANGED <<turns, conversation, turnsBefore, hinted, files, loaded, events, newest, crossed>>

(* ctx is cancelled: the mode ends. *)
AskCancelled ==
  /\ mode = "asking" /\ mode' = "prompt"
  /\ conversation' = <<>>
  /\ UNCHANGED <<turns, turnsBefore, hinted, files, loaded, events, newest, crossed>>

(* Query adds the turn; then the result of the action it suggested, if the  *)
(* user had it run (more results are more of the same turn), then the turn  *)
(* again, go to the dialog's list.                                          *)
AskAnswered(script, ran) ==
  /\ mode = "asking" /\ mode' = "dialog" /\ Exchange
  /\ turns' = Add(turns, script)
  /\ LET results == IF ran THEN <<NoScript>> ELSE <<>>
     IN  conversation' = Tail20(conversation \o results \o <<script>>)
  /\ Answered(script)
  /\ UNCHANGED <<turnsBefore, hinted, files, loaded, crossed>>

StopDialog ==
  /\ mode = "dialog" /\ mode' = "prompt"
  /\ conversation' = <<>>
  /\ UNCHANGED <<turns, turnsBefore, hinted, files, loaded, events, newest, crossed>>

Next ==
  \/ BeginRun
  \/ \E q \in Queries : RunSkill(q)
  \/ \E s \in Scripts \union {NoScript} :
       \/ Step(s) \/ WebAnswer(s)
       \/ \E ran \in BOOLEAN : AskAnswered(s, ran)
  \/ EndRun \/ Clear
  \/ \E n \in Names : Learn(n)
  \/ StartDialog \/ DialogCommand \/ Ask \/ AskFails \/ AskCancelled \/ StopDialog

Spec == Init /\ [][Next]_vars

---------------------------------------------------------------------------
(* ki:learn takes the newest script a model answered with, or finds none    *)
(* any more; it never goes back to an older one, whatever the window, the   *)
(* agent's further steps, ki:clear and a dialog with its refill have done   *)
(* (ki_learn.go:74-86). Web requests share the list: they are excepted.     *)
LearnsTheNewest ==
  ~crossed => LastScript(turns) \in {newest, NoScript}

(* A skill is proposed exactly when it is strong enough and a quarter ahead *)
(* of every other skill that is, in whatever order they are stored          *)
(* (ki_skillmatch.go:57-61).                                                *)
MatchIsClear ==
  \A q \in Queries :
    LET Ahead(i) == /\ Score(loaded[i], q) > 0
                    /\ \A j \in DOMAIN loaded \ {i} : Score(loaded[i], q) - Score(loaded[j], q) >= 3
    IN  MatchSkill(loaded, q) =
          IF \E i \in DOMAIN loaded : Ahead(i)
          THEN loaded[CHOOSE i \in DOMAIN loaded : Ahead(i)].name ELSE ""
=============================================================================
