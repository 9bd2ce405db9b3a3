---------------------------- MODULE Surroundings ----------------------------
(* The parts around the model and the interpreter, side by side: the lines  *)
(* of the loop, the signals, the web interface, the logs and what is        *)
(* learned. They share no state and each is a module of its own; what they  *)
(* promise has its name here, for the runs (MCShell) and the proofs         *)
(* (Surroundings_proofs).                                                   *)
EXTENDS Integers, Sequences, FiniteSets

CONSTANTS
  TypedLines, MaxTyped, MaxContext,                       \* Repl
  MaxRuns, MaxSignals,                                    \* JobControl
  MaxServers, Patient, Users,                             \* WebServer
  MaxFiles, MinSize, MaxSize, HistoryCap, MaxEntries, MaxDays,  \* Logs
  MaxConversation, MaxDialog, SkillScripts, SkillNames,   \* Learning
  SkillFile, Directory, SkillWords, Queries, MaxEvents

(* MaxFiles is 3 or 4, MaxSize 5 or 10 MB, HistoryCap 50000. *)
ASSUME LogsAssumption ==
  /\ MaxFiles \in Nat \ {0} /\ MinSize \in Nat
  /\ MaxSize \in Nat \ {0} /\ HistoryCap \in Nat \ {0}

ASSUME WebAssumption == MaxServers \in Nat /\ Patient \in BOOLEAN

(* A name is a word of the line (strings.Fields), so it is not empty. *)
ASSUME LearningAssumption ==
  /\ MaxDialog \in Nat
  /\ "" \notin SkillNames
  /\ \A n \in SkillNames : IsFiniteSet(SkillWords[n])
  /\ Directory \in Seq({SkillFile[n] : n \in SkillNames})

VARIABLES
  pending, history, file, recent, logged, logging, lastExit,      \* Repl
  left, typed, went, done,
  loop, run, cancelFunc, cancelled, sigChan, handler, taken,      \* JobControl
  child, foreground, signals, quiet, asked,
  webServer, token, started, server, portTaken, stopping,         \* WebServer
  pty, ws, finished, webShell, kiInitialized, kiEngine, user,
  logFiles, gz, modified, today, logHistory, logPc, number,       \* Logs
  kept, written, dropped, torn,
  turns, conversation, mode, turnsBefore, hinted, skillFiles,     \* Learning
  loaded, events, newest, crossed

R == INSTANCE Repl WITH Typed <- TypedLines, MaxLines <- MaxTyped

J == INSTANCE JobControl

W == INSTANCE WebServer WITH taken <- portTaken, shell <- webShell

L == INSTANCE Logs WITH files <- logFiles, history <- logHistory, pc <- logPc

K == INSTANCE Learning WITH
       MaxTurns <- MaxConversation, Scripts <- SkillScripts, Names <- SkillNames,
       FileOf <- SkillFile, Words <- SkillWords, files <- skillFiles

---------------------------------------------------------------------------
\* Every line typed for the shell is used once and in order (Repl).
EveryLineOnce == R!EveryLineOnce
\* A signal that meets a request ends it (JobControl).
InterruptsAreHeard == J!InterruptsAreHeard
\* The server that serves is the one web stop would stop (WebServer).
RunningIsKnown == W!RunningIsKnown
\* No record and no line of the history is lost before its time (Logs).
RecordsAreKept == L!RecordsAreKept
\* ki:learn never goes back to an older script (Learning).
LearnsTheNewest == K!LearnsTheNewest
\* A skill is proposed when it is clearly the best (Learning).
MatchIsClear == K!MatchIsClear
=============================================================================
