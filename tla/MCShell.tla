------------------------------ MODULE MCShell ------------------------------
(* The parts of the shell that share no state, each from its own initial    *)
(* states: one of them, the focus, moves and the others rest. Its bounds    *)
(* are the values given to the parts' constants.                            *)
EXTENDS Home, Surroundings, RunnerAtRest, Sequences, TLC

VARIABLES
  focus,
  over, line, lines,                                              \* Interp
  text, parsed,                                                   \* Syntax
  expr, env, result                                               \* Arithm

T == INSTANCE MCTexts

S == INSTANCE MCSessions

\* Sessions of up to two lines.
CONSTANTS Scripts, Lines, KeyboardLines, ExecStmt(_, _)
MCScripts == S!MCScripts
MCLines == S!MCLines
MCKeyboard == S!MCKeyboard
I == INSTANCE MCInterp WITH
       VarNames <- {"x", "i", "j"}, Dirs <- {"home", "work"},
       MaxTurns <- 60, MaxLines <- 2, Budgets <- {50}

\* The interpreter's recursion is tied here.
MCExecStmt(r, st) == I!RunStmt(r, st)

G == INSTANCE Syntax WITH Texts <- T!MCTexts

\* Four bits, so that sums, products and shifts overflow.
A == INSTANCE ArithmReference WITH Bits <- 4, Exprs <- T!MCExprs, Vars <- T!MCVars

Line(k, syn, does) == [k |-> k, syn |-> syn, does |-> does]
MCTyped ==
  {Line("shell", "whole", "ok"), Line("shell", "whole", "fail"),
   Line("shell", "open", "ok"), Line("shell", "close", "ok"),
   Line("shell", "bad", "ok"), Line("shell", "whole", "exit1"),
   Line("ki", "whole", "ok"), Line("exit", "whole", "ok"),
   Line("builtin", "whole", "history"), Line("builtin", "whole", "off")}

\* Two names of one file, a skill whose words are part of another's.
MCFileOf == [n \in {"a", "b", "c", "C"} |-> IF n = "C" THEN "c" ELSE n]
MCDirectory == <<"a", "b", "c">>
MCWords == [n \in {"a", "b", "c", "C"} |->
             CASE n = "a" -> {1, 2} [] n = "b" -> {1, 2, 3} [] OTHER -> {2, 3, 4, 5}]
MCQueries == {{1, 2}, {1, 2, 3}, {2, 3, 4}, {2, 3, 4, 5}}

---------------------------------------------------------------------------
interp == <<shell, over, line, lines>>
grammar == <<text, parsed>>
arithmetic == <<expr, env, result>>
repl == <<pending, history, file, recent, logged, logging, lastExit, left, typed, went, done>>
signalling == <<loop, run, cancelFunc, cancelled, sigChan, handler, taken, child, foreground,
                signals, quiet, asked>>
web == <<webServer, token, started, server, portTaken, stopping, pty, ws, finished, webShell,
         kiInitialized, kiEngine, user>>
logs == <<logFiles, gz, modified, today, logHistory, logPc, number, kept, written, dropped, torn>>
learning == <<turns, conversation, mode, turnsBefore, hinted, skillFiles, loaded, events,
              newest, crossed>>

\* Where the initial states of a part are many, only the focus has them all.
ShellInit ==
  /\ focus \in {"interp", "grammar", "arithmetic", "repl", "signals", "web", "logs",
                "learning", "home"}
  /\ Init /\ (focus # "home" => sameDisk)
  /\ W!Init /\ (focus # "web" => ~portTaken)
  /\ I!Init /\ R!Init /\ J!Init /\ L!Init /\ K!Init
  /\ IF focus = "grammar" THEN G!Init ELSE text = <<>> /\ parsed = G!Parse(<<>>)
  /\ IF focus = "arithmetic" THEN A!Init
     ELSE expr = <<>> /\ env = (CHOOSE e \in T!MCVars : TRUE) /\ result = A!NoResult

Others(part) ==
  /\ focus = part /\ UNCHANGED focus
  /\ part # "home" => UNCHANGED vars
  /\ part # "interp" => UNCHANGED interp
  /\ part # "grammar" => UNCHANGED grammar
  /\ part # "arithmetic" => UNCHANGED arithmetic
  /\ part # "repl" => UNCHANGED repl
  /\ part # "signals" => UNCHANGED signalling
  /\ part # "web" => UNCHANGED web
  /\ part # "logs" => UNCHANGED logs
  /\ part # "learning" => UNCHANGED learning

ShellNext ==
  \/ Others("home") /\ Next
  \/ Others("interp") /\ I!Next
  \/ Others("grammar") /\ G!Next
  \/ Others("arithmetic") /\ A!Next
  \/ Others("repl") /\ R!Next
  \/ Others("signals") /\ J!Next
  \/ Others("web") /\ W!Next
  \/ Others("logs") /\ L!Next
  \/ Others("learning") /\ K!Next

ShellSpec == ShellInit /\ [][ShellNext]_<<focus, vars, interp, grammar, arithmetic, repl,
                                          signalling, web, logs, learning>>

---------------------------------------------------------------------------
(* The properties of the interpreter's parts; those of the others are in    *)
(* Surroundings, and NothingLeftBehind is in RunnerAtRest.                  *)

\* Control flow is bash's for every program the reference knows (MCInterp).
ControlFlow == I!ControlFlow
\* A subshell's lists reach its parent through += only (Interp).
ListsSharedOnlyByAppend == I!ListsSharedOnlyByAppend
\* An exit, a return or the end of the context stops every loop (Interp).
LoopsEndWithTheShell == I!LoopsEndWithTheShell
\* Locals and a command's own assignments end with it (MCInterp).
ScopesClose == I!ScopesClose
\* The directory and the stack of directories move together (MCInterp).
DirStackFollows == I!DirStackFollows
\* A trap changes nothing but what it writes (MCInterp).
TrapsAreTransparent == I!TrapsAreTransparent
\* A command recalled from the history is the command recorded (Syntax).
RecallsTheSame == G!RecallsTheSame
\* A recorded command can be typed line by line (Syntax).
LinesWait == G!LinesWait
=============================================================================
