----------------------------- MODULE KIRequest ------------------------------
(***************************************************************************)
(* One request to the model as the REPL runs it: handleKI (shell_repl.go), *)
(* preThink (ki_reasoning.go), RunAgentLoop (ki_actions.go) and Confirm    *)
(* (shell_confirm.go), with the rate limiter they share and the skills it  *)
(* has loaded: in the loop a command may be the name of one, and then it   *)
(* is the skill's script that runs.  SIGINT cancels the request's context  *)
(* at any moment.  Web requests and pipeline stages call the same engine   *)
(* without passing here (OtherQuery).                                      *)
(*                                                                         *)
(* Query (CostGuard) is a step that begins and a step that ends, with a    *)
(* reply or an error: it does not look at the context.  How a command is   *)
(* classified is a constant: the patterns of the permissions are data.     *)
(***************************************************************************)
EXTENDS RateLimiter, SequencesExt

CONSTANTS Commands,        \* what the model suggests
          CheckCommand,    \* its verdict: "blocked", "confirm" or "free"
          ClassifyAction,  \* the agent's level: "blocked", "confirm" or "auto"
          Skills,          \* those of them that name a skill, skill:<name>
          Scripts,         \* what a skill may consist of
          Replies,         \* the command sequences a reply may contain
          MaxAgentSteps,   \* rateLimiter.MaxAgentSteps(), 10
          MaxTime,         \* bound: ticks of the clock
          MaxSent,         \* bound: how far the queries of a tick are counted
          MaxOthers        \* bound: OtherQuery happens while fewer are counted

ASSUME RequestAssumption ==
  /\ CheckCommand \in [Commands -> {"blocked", "confirm", "free"}]
  /\ ClassifyAction \in [Commands -> {"blocked", "confirm", "auto"}]
  /\ \A c \in Commands : CheckCommand[c] = "blocked" => ClassifyAction[c] = "blocked"
  /\ Skills \subseteq Commands
  /\ Replies \subseteq Seq(Commands)
  /\ MaxAgentSteps \in Nat \ {0} /\ MaxTime \in Nat
  /\ MaxSent \in Nat /\ MaxOthers \in Nat

VARIABLES
  AgentMode, RequireConfirmation,   \* the permissions, loaded once
  pc,         \* where the REPL is
  step,       \* RunAgentLoop's step
  actions,    \* the commands of the reply still to be handled
  cancelled,  \* the context of the request is cancelled
  override,   \* the engine's system prompt: "" or that of "think" or "agent"
  confirmed,  \* confirmedCommands of shell_confirm.go: the user said yes to them
  audit,      \* this request's entries of audit.log: command and decision
  skills,     \* loadedSkills: the script of each skill there is
  decided,    \* (history) what was decided in this request, in the same form
  ran,        \* (history) what was started in it: a command and the text that ran
  queries,    \* (history) queries sent for this request
  late,       \* (history) those of them sent after it was cancelled
  sent        \* (history) queries sent since the clock's last tick, up to MaxSent

request == <<AgentMode, RequireConfirmation, pc, step, actions, cancelled, override,
             confirmed, audit, skills, decided, ran, queries, late, sent>>
vars == <<limiter, request>>

modes == <<AgentMode, RequireConfirmation>>
records == <<confirmed, audit, decided, ran>>

\* What initSkills may find in the directory, which the user and other shells write to.
SkillSets == UNION {[S -> Scripts] : S \in SUBSET Skills}

\* RunAgentLoop drops the repetitions of a reply.
Unique(s) ==
  LET seen[i \in 0..Len(s)] ==
        IF i = 0 THEN <<>>
        ELSE IF Contains(seen[i - 1], s[i]) THEN seen[i - 1] ELSE Append(seen[i - 1], s[i])
  IN  seen[Len(s)]

-----------------------------------------------------------------------------
Init ==
  /\ LimiterInit
  /\ AgentMode \in BOOLEAN /\ RequireConfirmation \in BOOLEAN
  /\ pc = "idle" /\ step = 0 /\ actions = <<>> /\ cancelled = FALSE /\ override = ""
  /\ skills \in SkillSets
  /\ confirmed = {} /\ audit = {} /\ decided = {} /\ ran = {}
  /\ queries = 0 /\ late = 0 /\ sent = 0

Return_KeepsPrompt ==
  /\ pc' = "idle" /\ step' = 0 /\ actions' = <<>> /\ UNCHANGED override

\* The caller returns to the prompt; deferred calls reset the override.
Return ==
  /\ pc' = "idle" /\ step' = 0 /\ actions' = <<>> /\ override' = ""

Goto(place) == pc' = place /\ UNCHANGED <<step, actions, override>>

Sent == sent' = IF sent < MaxSent THEN sent + 1 ELSE sent

SendQuery ==
  /\ queries' = queries + 1
  /\ late' = IF cancelled THEN late + 1 ELSE late
  /\ Sent

\* ki:learn at the prompt saves a skill, new or in the place of an old one, and
\* loads all of them again.
Learn ==
  /\ pc = "idle"
  /\ skills' \in SkillSets
  /\ UNCHANGED <<limiter, modes, pc, step, actions, cancelled, override, records, queries, late, sent>>

\* A line for the model that is not empty; a skill may match it.
Ask ==
  /\ pc = "idle"
  /\ cancelled' = FALSE /\ queries' = 0 /\ late' = 0
  /\ audit' = {} /\ decided' = {} /\ ran' = {}
  /\ \/ Goto("plan")
     \/ DOMAIN skills # {} /\ Goto("skill")
  /\ UNCHANGED <<limiter, modes, confirmed, skills, sent>>

\* askSkillMatch: the user runs the skill, cancels, or asks the model.  The
\* script runs in a context of its own and is no command of the model's.
AnswerSkill ==
  /\ pc = "skill"
  /\ Return \/ Goto("plan")
  /\ UNCHANGED <<limiter, modes, cancelled, records, skills, queries, late, sent>>

\* shouldPreThink says no, or the engine is not available.
SkipThinking ==
  /\ pc = "plan"
  /\ Goto("send")
  /\ UNCHANGED <<limiter, modes, cancelled, records, skills, queries, late, sent>>

Think ==
  /\ pc = "plan" /\ AgentMode
  /\ pc' = "think" /\ override' = "think"
  /\ SendQuery
  /\ UNCHANGED <<limiter, modes, step, actions, cancelled, records, skills>>

\* The plan, or an error: preThink goes on with either.
ThinkEnds ==
  /\ pc = "think"
  /\ pc' = "send" /\ override' = ""
  /\ UNCHANGED <<limiter, modes, step, actions, cancelled, records, skills, queries, late, sent>>

\* RequireConfirmation asks before the query, and the limiter may refuse it.
Refuse ==
  /\ pc = "send"
  /\ \/ RequireConfirmation /\ UNCHANGED limiter
     \/ Deny
  /\ Return
  /\ UNCHANGED <<modes, cancelled, records, skills, queries, late, sent>>

StartLoop ==
  /\ pc = "send" /\ AgentMode
  /\ Grant
  /\ pc' = "head" /\ override' = "agent"
  /\ UNCHANGED <<modes, step, actions, cancelled, records, skills, queries, late, sent>>

StartQuery ==
  /\ pc = "send" /\ ~AgentMode
  /\ Grant
  /\ SendQuery
  /\ Goto("query")
  /\ UNCHANGED <<modes, cancelled, records, skills>>

-----------------------------------------------------------------------------
(* RunAgentLoop.                                                           *)

StopLoop ==
  /\ pc = "head"
  /\ cancelled \/ step >= MaxAgentSteps
  /\ Return
  /\ UNCHANGED <<limiter, modes, cancelled, records, skills, queries, late, sent>>

NextStep_Uncancelled ==
  /\ pc = "head"
  /\ step < MaxAgentSteps
  /\ Goto("ready")
  /\ UNCHANGED <<limiter, modes, cancelled, records, skills, queries, late, sent>>

NextStep_OneMore ==
  /\ pc = "head"
  /\ ~cancelled /\ step <= MaxAgentSteps
  /\ Goto("ready")
  /\ UNCHANGED <<limiter, modes, cancelled, records, skills, queries, late, sent>>

NextStep ==
  /\ pc = "head"
  /\ ~cancelled /\ step < MaxAgentSteps
  /\ Goto("ready")
  /\ UNCHANGED <<limiter, modes, cancelled, records, skills, queries, late, sent>>

\* Query takes the context and passes it to nobody: it goes out although
\* SIGINT came since the loop looked.
SendStep ==
  /\ pc = "ready"
  /\ SendQuery
  /\ Goto("query")
  /\ UNCHANGED <<limiter, modes, cancelled, records, skills>>

\* The query fails, or its reply asks for no command.
QueryEnds ==
  /\ pc = "query"
  /\ Return
  /\ UNCHANGED <<limiter, modes, cancelled, records, skills, queries, late, sent>>

\* The commands of a reply: all of them in the loop, else the first one.
Suggest ==
  /\ pc = "query"
  /\ \E r \in Replies \ {<<>>} : actions' = IF AgentMode THEN Unique(r) ELSE <<Head(r)>>
  /\ pc' = "act"
  /\ UNCHANGED <<limiter, modes, step, cancelled, override, records, skills, queries, late, sent>>

Decide(c, decision) == decided' = decided \cup {<<c, decision>>}
Log(c, decision)    == audit' = audit \cup {<<c, decision>>}

Start(c, texts)     == ran' = ran \cup ({c} \X texts)

\* The name of a skill stands for its script; a skill that is not loaded runs nothing.
Expand(c) ==
  IF c \notin Skills THEN {c} ELSE {skills[k] : k \in {c} \cap DOMAIN skills}

\* A cancelled context keeps sh from starting.
ExecuteAction(c) == Start(c, IF cancelled THEN {} ELSE Expand(c))

Done ==
  /\ actions' = Tail(actions)
  /\ UNCHANGED <<limiter, modes, pc, step, cancelled, override, skills, queries, late, sent>>

Block ==
  /\ pc = "act" /\ actions # <<>>
  /\ LET c == Head(actions) IN
       /\ IF AgentMode THEN ClassifyAction[c] = "blocked" ELSE CheckCommand[c] = "blocked"
       /\ Log(c, "blocked") /\ Decide(c, "blocked")
  /\ Done /\ UNCHANGED <<confirmed, ran>>

NeedsNobody(c) ==
  IF AgentMode THEN ClassifyAction[c] = "auto" ELSE CheckCommand[c] = "free"

\* A command that needs nobody's consent: executeWithPermissions does not log it.
RunFreely ==
  /\ pc = "act" /\ actions # <<>>
  /\ LET c == Head(actions) IN
       /\ NeedsNobody(c) /\ Decide(c, "auto")
       /\ IF AgentMode THEN Log(c, "auto") /\ ExecuteAction(c)
                       ELSE UNCHANGED audit /\ Start(c, {c})
  /\ Done /\ UNCHANGED confirmed

NeedsConfirm(c) ==
  IF AgentMode THEN ClassifyAction[c] = "confirm" ELSE CheckCommand[c] = "confirm"

Agree_Uncancelled ==
  /\ pc = "act" /\ actions # <<>>
  /\ LET c == Head(actions) IN
       /\ NeedsConfirm(c)
       /\ confirmed' = confirmed \cup {c}
       /\ Log(c, IF AgentMode THEN "pending" ELSE "allowed")
       /\ Decide(c, "allowed") /\ Start(c, Expand(c))
  /\ Done

\* Confirm returns ConfirmYes: the user says so now, or did so before.
Agree ==
  /\ pc = "act" /\ actions # <<>>
  /\ LET c == Head(actions) IN
       /\ NeedsConfirm(c)
       /\ confirmed' = confirmed \cup {c}
       /\ Log(c, IF AgentMode THEN "pending" ELSE "allowed")
       /\ Decide(c, "allowed")
       /\ IF AgentMode THEN ExecuteAction(c) ELSE Start(c, {c})
  /\ Done

Decline_Runs ==
  /\ pc = "act" /\ actions # <<>>
  /\ LET c == Head(actions) IN
       /\ NeedsConfirm(c) /\ c \notin confirmed
       /\ Log(c, IF AgentMode THEN "pending" ELSE "denied")
       /\ Decide(c, "denied") /\ Start(c, {c})
  /\ Done /\ UNCHANGED confirmed

\* Any other answer; the loop takes "edit" for a no.
Decline ==
  /\ pc = "act" /\ actions # <<>>
  /\ LET c == Head(actions) IN
       /\ NeedsConfirm(c) /\ c \notin confirmed
       /\ Log(c, IF AgentMode THEN "pending" ELSE "denied")
       /\ Decide(c, "denied")
  /\ Done /\ UNCHANGED <<confirmed, ran>>

\* executeWithPermissions: the user types a command, which is checked anew, or none.
Edit ==
  /\ pc = "act" /\ actions # <<>> /\ ~AgentMode
  /\ NeedsConfirm(Head(actions)) /\ Head(actions) \notin confirmed
  /\ actions' \in {<<c>> : c \in Commands} \cup {<<>>}
  /\ UNCHANGED <<limiter, modes, pc, step, cancelled, override, records, skills, queries, late, sent>>

\* All commands handled: the next step of the loop, or the end.
EndOfActions ==
  /\ pc = "act" /\ actions = <<>>
  /\ \/ AgentMode /\ pc' = "head" /\ step' = step + 1 /\ UNCHANGED <<actions, override>>
     \/ ~AgentMode /\ Return
  /\ UNCHANGED <<limiter, modes, cancelled, records, skills, queries, late, sent>>

-----------------------------------------------------------------------------
\* The signal goroutine calls kiCancelFunc.
Cancel ==
  /\ pc # "idle" /\ ~cancelled
  /\ cancelled' = TRUE
  /\ UNCHANGED <<limiter, modes, pc, step, actions, override, records, skills, queries, late, sent>>

\* handleAPIKI or kiExecMiddleware: straight to the engine.
OtherQuery ==
  /\ sent < MaxOthers /\ Sent
  /\ UNCHANGED <<limiter, modes, pc, step, actions, cancelled, override, records, skills, queries, late>>

Clock ==
  /\ now < MaxTime
  /\ Tick
  /\ sent' = 0
  /\ UNCHANGED <<modes, pc, step, actions, cancelled, override, records, skills, queries, late>>

Next ==
  \/ Learn \/ Ask \/ AnswerSkill \/ SkipThinking \/ Think \/ ThinkEnds
  \/ Refuse \/ StartLoop \/ StartQuery
  \/ StopLoop \/ NextStep \/ SendStep \/ QueryEnds \/ Suggest
  \/ Block \/ RunFreely \/ Agree \/ Decline \/ Edit \/ EndOfActions
  \/ Cancel \/ OtherQuery \/ Clock

Spec == Init /\ [][Next]_vars

-----------------------------------------------------------------------------
InLoop == AgentMode /\ pc \in {"head", "ready", "query", "act"}

Decisions == {"blocked", "auto", "allowed", "denied"}

TypeOK ==
  /\ LimiterTypeOK
  /\ modes \in BOOLEAN \X BOOLEAN
  /\ pc \in {"idle", "skill", "plan", "think", "send", "head", "ready", "query", "act"}
  /\ step \in 0..MaxAgentSteps
  /\ actions \in Seq(Commands)
  /\ cancelled \in BOOLEAN
  /\ override \in {"", "think", "agent"}
  /\ confirmed \subseteq Commands
  /\ audit \subseteq Commands \X (Decisions \cup {"pending"})
  /\ decided \subseteq Commands \X Decisions
  /\ skills \in SkillSets /\ ran \subseteq Commands \X (Commands \cup Scripts)
  /\ queries \in Nat /\ late \in 0..queries /\ sent \in 0..MaxSent

(* A request ends: whatever the model replies, the loop sends at most      *)
(* MaxAgentSteps queries and preThink one before it; without agent mode it *)
(* is one.                                                                 *)
QueriesAreBounded == queries <= IF AgentMode THEN MaxAgentSteps + 1 ELSE 1

(* A command of the model runs unasked only if its level allows it, after  *)
(* a question only if the user said yes to this very command, now or       *)
(* before, and never if it is blocked: for both ways it can get to run.    *)
(* What runs is the text that was so judged, or, in the loop, the script   *)
(* the skill of that name has throughout the request.  More is not so: a   *)
(* script is judged and agreed to by its name alone, and the yes to the    *)
(* name holds for what is later learnt under it.                           *)
OnlyConsentedRuns ==
  \A r \in ran :
    /\ NeedsNobody(r[1]) \/ (NeedsConfirm(r[1]) /\ r[1] \in confirmed)
    /\ r[2] # r[1] => /\ AgentMode /\ r[1] \in Skills /\ r[2] \in Scripts
                      /\ pc # "idle" => r[1] \in DOMAIN skills /\ r[2] = skills[r[1]]

(* The engine's prompt is the one the REPL's query needs, and whichever    *)
(* way a request ends it is the default again for those who use the engine *)
(* next.                                                                   *)
PromptFollowsRequest ==
  override = IF pc = "think" THEN "think" ELSE IF InLoop THEN "agent" ELSE ""

(* Although Query does not look at the context, at most one query goes out *)
(* after SIGINT: the one about to be sent, or the one that preThink or a   *)
(* request without agent mode had still to send.                           *)
CancelLetsOneThrough == late <= 1

(* After SIGINT the loop starts no command any more, also if the user says *)
(* yes to one the loop is asking about.                                    *)
CancelStopsCommands == [][AgentMode /\ cancelled => ran' \subseteq ran]_vars

-----------------------------------------------------------------------------
(* What the docs promise and the code does not keep; a run refutes each.   *)

(* SECURITY.md, Layer 7: "20 queries per minute".  A tick of the clock is  *)
(* no longer than a minute.                                                *)
QueriesPerMinute == sent <= MaxPerMinute

(* SECURITY.md, Layer 6: every AI action is logged with the decision of    *)
(* the user.                                                               *)
EveryDecisionAudited == decided \subseteq audit
=============================================================================
