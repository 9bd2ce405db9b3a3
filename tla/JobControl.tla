----------------------------- MODULE JobControl -----------------------------
(* The loop's goroutine, the goroutine that takes the terminal's signals    *)
(* (shell_repl.go:23-42) and the foreground process (shell_jobcontrol.go).  *)
(* kiCancelFunc is a plain variable of both goroutines, so each read and    *)
(* write of it is a step of its own.  The terminal sends a signal to the    *)
(* whole foreground group: to the shell and, as nothing gives a child a     *)
(* group of its own, to the child.                                          *)
EXTENDS Naturals, Sequences

CONSTANTS
  MaxRuns,     \* bound: requests and commands of a session
  MaxSignals   \* bound: signals typed in a session

NoRun == 0

VARIABLES
  loop,        \* "prompt", "request", "clearing", "command", or "dead"
  run,         \* number of the current or last request or command
  cancelFunc,  \* kiCancelFunc: the request it cancels, or NoRun for nil
  cancelled,   \* the requests whose context is cancelled
  sigChan,     \* the channel: at most one signal
  handler,     \* the signal goroutine: "wait", "test", "call", "clear", "kill"
  taken,       \* the signal it took
  child,       \* "none", "running", "stopped" or "ended"
  foreground,  \* foregroundPID: the run it belongs to, or NoRun for 0
  signals,     \* (bound) number of signals typed
  quiet,       \* (history) the current request began with no signal on its way
  asked        \* (history) quiet requests that a signal met

vars == <<loop, run, cancelFunc, cancelled, sigChan, handler, taken, child,
          foreground, signals, quiet, asked>>

Signals == {"INT", "TSTP"}

AtRest == handler = "wait" /\ sigChan = <<>>

Init ==
  /\ loop = "prompt" /\ run = NoRun /\ cancelFunc = NoRun /\ cancelled = {}
  /\ sigChan = <<>> /\ handler = "wait" /\ taken = "INT" /\ child = "none"
  /\ foreground = NoRun /\ signals = 0 /\ quiet = FALSE
  /\ asked = {}

---------------------------------------------------------------------------
(* The loop. *)

StartRequest_WithoutCancel ==
  /\ loop = "prompt" /\ run < MaxRuns
  /\ run' = run + 1
  /\ loop' = "request"
  /\ quiet' = AtRest
  /\ UNCHANGED <<cancelFunc, cancelled, sigChan, handler, taken, child, foreground, signals, asked>>

\* kiCancelFunc = kiCancel, then handleKI or ContinuousMode.
StartRequest ==
  /\ loop = "prompt" /\ run < MaxRuns
  /\ run' = run + 1
  /\ cancelFunc' = run + 1
  /\ loop' = "request"
  /\ quiet' = AtRest
  /\ UNCHANGED <<cancelled, sigChan, handler, taken, child, foreground, signals, asked>>

\* The request returns; kiCancelFunc = nil.
EndRequest ==
  /\ loop = "request"
  /\ loop' = "clearing"
  /\ cancelFunc' = NoRun
  /\ UNCHANGED <<run, cancelled, sigChan, handler, taken, child, foreground, signals, quiet, asked>>

\* kiCancel() ends the context in any case.
CancelContext ==
  /\ loop = "clearing"
  /\ loop' = "prompt"
  /\ cancelled' = cancelled \union {run}
  /\ UNCHANGED <<run, cancelFunc, sigChan, handler, taken, child, foreground, signals, quiet, asked>>

\* jobControlMiddleware: Start, foregroundPID.Store, Wait.
StartCommand ==
  /\ loop = "prompt" /\ run < MaxRuns
  /\ run' = run + 1
  /\ loop' = "command"
  /\ child' = "running"
  /\ foreground' = run + 1
  /\ UNCHANGED <<cancelFunc, cancelled, sigChan, handler, taken, signals, quiet, asked>>

\* Wait returns for a child that ended, never for one that stopped.
EndCommand ==
  /\ loop = "command" /\ child = "ended"
  /\ loop' = "prompt"
  /\ child' = "none"
  /\ foreground' = NoRun
  /\ UNCHANGED <<run, cancelFunc, cancelled, sigChan, handler, taken, signals, quiet, asked>>

ChildEnds ==
  /\ child = "running" /\ child' = "ended"
  /\ UNCHANGED <<loop, run, cancelFunc, cancelled, sigChan, handler, taken, foreground, signals, quiet, asked>>

---------------------------------------------------------------------------
(* The terminal. While readline has it (the prompt) ^C is a character. The  *)
(* channel holds one signal and drops the next; a child may catch its own.  *)
Type(sig) ==
  /\ loop \notin {"prompt", "dead"} /\ signals < MaxSignals
  /\ signals' = signals + 1
  /\ sigChan' = IF sigChan = <<>> THEN <<sig>> ELSE sigChan
  /\ child' \in IF child # "running" THEN {child}
                ELSE {"running", IF sig = "INT" THEN "ended" ELSE "stopped"}
  /\ asked' = IF loop = "request" /\ quiet /\ AtRest
              THEN asked \union {run} ELSE asked
  /\ UNCHANGED <<loop, run, cancelFunc, cancelled, handler, taken, foreground, quiet>>

---------------------------------------------------------------------------
(* The signal goroutine. *)

Take ==
  /\ handler = "wait" /\ sigChan # <<>>
  /\ taken' = Head(sigChan)
  /\ sigChan' = <<>>
  /\ handler' = "test"
  /\ UNCHANGED <<loop, run, cancelFunc, cancelled, child, foreground, signals, quiet, asked>>

\* if kiCancelFunc != nil
Test ==
  /\ handler = "test"
  /\ handler' = IF cancelFunc # NoRun THEN "call" ELSE "kill"
  /\ UNCHANGED <<loop, run, cancelFunc, cancelled, sigChan, taken, child, foreground, signals, quiet, asked>>

\* kiCancelFunc(): the variable is read again; a nil function ends the process.
Call ==
  /\ handler = "call"
  /\ IF cancelFunc = NoRun
     THEN loop' = "dead" /\ handler' = "dead" /\ UNCHANGED cancelled
     ELSE handler' = "clear" /\ cancelled' = cancelled \union {cancelFunc} /\ UNCHANGED loop
  /\ UNCHANGED <<run, cancelFunc, sigChan, taken, child, foreground, signals, quiet, asked>>

Clear ==
  /\ handler = "clear"
  /\ handler' = "wait"
  /\ cancelFunc' = NoRun
  /\ UNCHANGED <<loop, run, cancelled, sigChan, taken, child, foreground, signals, quiet, asked>>

\* kill(-pid): there is no such group, so nothing happens.
Kill ==
  /\ handler = "kill"
  /\ handler' = "wait"
  /\ UNCHANGED <<loop, run, cancelFunc, cancelled, sigChan, taken, child, foreground, signals, quiet, asked>>

Next ==
  \/ StartRequest \/ EndRequest \/ CancelContext
  \/ StartCommand \/ EndCommand \/ ChildEnds
  \/ \E sig \in Signals : Type(sig)
  \/ Take \/ Test \/ Call \/ Clear \/ Kill

Spec == Init /\ [][Next]_vars

---------------------------------------------------------------------------
(* A request that a signal meets is over, or its context cancelled, by the   *)
(* time the signal goroutine rests again, unless a signal was on its way     *)
(* when it began: that one may cancel it, or clear its kiCancelFunc unseen   *)
(* (shell_repl.go:26-38 against 92-98).                                      *)
InterruptsAreHeard ==
  AtRest => \A r \in asked : r \in cancelled \/ loop = "clearing" \/ r < run
=============================================================================
