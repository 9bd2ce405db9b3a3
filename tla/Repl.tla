------------------------------- MODULE Repl --------------------------------
(* The interactive loop (shell_repl.go): one line at a time is asked of the *)
(* KI, answered by a command of the loop's own, or collected until it is a  *)
(* whole program and run statement by statement. A text is the sequence of  *)
(* the lines it was typed in; the parser's verdict on it depends only on    *)
(* which lines open and close compound commands.                            *)
EXTENDS Naturals, Sequences, SequencesExt

CONSTANTS
  Typed,       \* the lines a user types: [k, syn, does] (kind, syntax, effect)
  MaxLines,    \* bound: lines typed in a session
  MaxContext   \* maxHistory of the collector (10 in ki.go:46)

VARIABLES
  pending,     \* multiLine: the lines of the command being typed
  history,     \* kishHistory.entries: texts
  file,        \* the history file: lines
  recent,      \* shellContext.history: the last statements, newest first
  logged,      \* shellLog, as the number of statements it recorded
  logging,     \* loggingEnabled
  lastExit,    \* lastExitCode
  left,        \* "" while the loop runs, else how it was left
  typed,       \* (bound) number of lines typed
  went,        \* (history) texts that came to the shell's part of the loop
  done         \* (history) of those: run, rejected or thrown away by ^C

vars == <<pending, history, file, recent, logged, logging, lastExit, left, typed, went, done>>

---------------------------------------------------------------------------
(* syntax.Parser and isIncomplete on a text: an open command needs more     *)
(* lines; "bad" lines and a close too many are errors no line can mend.     *)
Read(s, line) ==
    LET d == CASE line.syn = "open" -> s.depth + 1
               [] line.syn = "close" -> s.depth - 1
               [] OTHER -> s.depth
        cur == Append(s.cur, line)
    IN  [bad |-> s.bad \/ line.syn = "bad" \/ d < 0,
         depth |-> IF d < 0 THEN 0 ELSE d,
         cur |-> IF d <= 0 THEN <<>> ELSE cur,
         stmts |-> IF d <= 0 THEN Append(s.stmts, cur) ELSE s.stmts]

Unread == [bad |-> FALSE, depth |-> 0, cur |-> <<>>, stmts |-> <<>>]

Verdict(text) ==
    LET read[i \in 0..Len(text)] == IF i = 0 THEN Unread ELSE Read(read[i - 1], text[i])
        end == read[Len(text)]
    IN  CASE end.bad -> [is |-> "error", stmts |-> <<>>]
          [] end.depth > 0 -> [is |-> "incomplete", stmts |-> <<>>]
          [] OTHER -> [is |-> "program", stmts |-> end.stmts]

(* What the last line of a statement does decides how the statement ends:   *)
(* runner.Exited is asked only when Run returns an error, and exit 0 is none.*)
Does(stmt) == Last(stmt).does
Leaves(stmt) == Does(stmt) = "exit1"
ExitCode(stmt) == IF Does(stmt) \in {"fail", "exit1"} THEN 1 ELSE 0

(* The statements that run: up to the first that ends the shell.            *)
Running(stmts) ==
    LET n == SelectInSeq(stmts, Leaves)
    IN  IF n = 0 THEN stmts ELSE SubSeq(stmts, 1, n)

---------------------------------------------------------------------------
Init ==
  /\ pending = <<>> /\ history = <<>> /\ file = <<>> /\ recent = <<>>
  /\ logged = 0 /\ logging = TRUE /\ lastExit = 0 /\ left = "" /\ typed = 0
  /\ went = <<>> /\ done = <<>>

(* KishHistory.Add: the entry in memory, its lines in the file. *)
AddAll(texts) ==
  /\ history' = history \o texts
  /\ file' = file \o FlattenSeq(texts)

Reading == left = "" /\ typed < MaxLines /\ typed' = typed + 1

(* Readline's ^C: the command being typed is forgotten. *)
Interrupted ==
  /\ Reading
  /\ pending' = <<>>
  /\ done' = done \o pending
  /\ UNCHANGED <<history, file, recent, logged, logging, lastExit, left, went>>

EndOfInput ==
  /\ Reading
  /\ left' = "eof"
  /\ UNCHANGED <<pending, history, file, recent, logged, logging, lastExit, went, done>>

Blank ==
  /\ Reading
  /\ UNCHANGED <<pending, history, file, recent, logged, logging, lastExit, left, went, done>>

(* isKIRequest comes first, whatever is pending: handleKI, or ContinuousMode. *)
AskKI(line) ==
  /\ Reading
  /\ line.k = "ki"
  /\ AddAll(<< <<line>> >>)
  /\ UNCHANGED <<pending, recent, logged, logging, lastExit, left, went, done>>

(* exit, quit and logout as a whole line, with or without a code. *)
ExitWord(line) ==
  /\ Reading
  /\ line.k = "exit"
  /\ left' = "exit"
  /\ UNCHANGED <<pending, history, file, recent, logged, logging, lastExit, went, done>>

(* handleBuiltin: history reloads the file, one entry for every line of it; *)
(* log turns logging on or off; jobs, web, ki:clear, ... are elsewhere.     *)
Handle(line) ==
  /\ line.k = "builtin"
  /\ LET reloaded == IF line.does = "history" THEN [i \in DOMAIN file |-> <<file[i]>>] ELSE history
     IN  history' = Append(reloaded, <<line>>)
  /\ file' = Append(file, line)
  /\ logging' = CASE line.does = "on" -> TRUE [] line.does = "off" -> FALSE [] OTHER -> logging
  /\ UNCHANGED <<pending, recent, logged, lastExit, left, went, done>>

Builtin(line) == Reading /\ Handle(line)

(* More: the text so far wants more lines. *)
More(text) ==
  /\ Verdict(text).is = "incomplete"
  /\ pending' = text
  /\ UNCHANGED <<history, file, recent, logged, lastExit, left, done>>

Rejected_KeepsLines(text) ==
  /\ Verdict(text).is = "error"
  /\ pending' = text
  /\ done' = done \o text
  /\ UNCHANGED <<history, file, recent, logged, lastExit, left>>

Rejected(text) ==
  /\ Verdict(text).is = "error"
  /\ pending' = <<>>
  /\ done' = done \o text
  /\ UNCHANGED <<history, file, recent, logged, lastExit, left>>

(* Run: every statement, each recorded unless it ended the shell. *)
Run(text) ==
  /\ Verdict(text).is = "program"
  /\ pending' = <<>>
  /\ done' = done \o text
  /\ LET ran == Running(Verdict(text).stmts)
         over == Leaves(Last(ran))
         kept == IF over THEN Front(ran) ELSE ran
     IN  /\ lastExit' = ExitCode(Last(ran))
         /\ left' = IF over THEN "exited" ELSE ""
         /\ AddAll(kept)
         /\ logged' = IF logging THEN logged + Len(kept) ELSE logged
         /\ LET all == Reverse(kept) \o recent
            IN  recent' = SubSeq(all, 1, IF Len(all) < MaxContext THEN Len(all) ELSE MaxContext)

(* What reaches the parser: the lines so far and the new text. *)
Collect(text) ==
  /\ went' = went \o text
  /\ UNCHANGED logging
  /\ More(pending \o text) \/ Rejected(pending \o text) \/ Run(pending \o text)

ShellLine(line) == Reading /\ line.k = "shell" /\ Collect(<<line>>)

(* expandBang: the text of entry n (!n, !-n, !! and !text name one), then on  *)
(* as a typed line would, but past the KI's test; a ! that names no entry is *)
(* a command like any other.                                                *)
Bang(n) ==
  /\ Reading
  /\ LET text == history[n]
     IN  IF Len(text) = 1 /\ text[1].k = "builtin" THEN Handle(text[1]) ELSE Collect(text)

(* The next session: initHistory reads the file, a line an entry. *)
Start ==
  /\ left # "" /\ left' = ""
  /\ history' = [i \in DOMAIN file |-> <<file[i]>>]
  /\ pending' = <<>> /\ recent' = <<>> /\ logging' = TRUE /\ lastExit' = 0
  /\ went' = <<>> /\ done' = <<>>
  /\ UNCHANGED <<file, logged, typed>>

Next ==
  \/ Interrupted \/ EndOfInput \/ Blank \/ Start
  \/ \E line \in Typed : AskKI(line) \/ ExitWord(line) \/ Builtin(line) \/ ShellLine(line)
  \/ \E n \in DOMAIN history : Bang(n)

Spec == Init /\ [][Next]_vars

---------------------------------------------------------------------------
(* Of what was typed for the shell every line is used once and in order: in *)
(* one program that ran or was rejected, thrown away by ^C, or still        *)
(* waiting for the rest of its command (shell_repl.go:66-137).              *)
EveryLineOnce == went = done \o pending
=============================================================================
