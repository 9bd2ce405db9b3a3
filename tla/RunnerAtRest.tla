---------------------------- MODULE RunnerAtRest ----------------------------
(* What the Runner of a session may look like between two lines.            *)
EXTENDS Integers, Sequences

VARIABLE shell   \* the Runner of kish-sh/interp/api.go, see Interp

Nil == -1   \* a closed stdin
Discard == 0
Tty == 1
Stderr == 2
Keyboard == 3

AtRest == ~ shell.panicked /\ ~ shell.hung

(* Whatever way a line ends, by its last statement, an exit or a return out *)
(* of nested calls, loops and traps, errexit or the end of the context,     *)
(* what runner.go sets for the time of a command is put back: inLoop,       *)
(* inFunc, inSource, noErrExit, the function's overlay, the streams. Only   *)
(* exec keeps redirections, and only a trap that does not parse leaves      *)
(* handlingTrap behind.                                                     *)
NothingLeftBehind ==
    AtRest =>
      /\ ~ shell.inLoop /\ ~ shell.inFunc /\ ~ shell.inSource
      /\ ~ shell.noErrExit /\ ~ shell.sourceSetParams
      /\ Len(shell.env) = 1
      /\ shell.keepRedirs \/ << shell.stdin, shell.stdout, shell.stderr >>
                             = << Keyboard, Tty, Stderr >>
      /\ shell.handlingTrap => shell.unparsed
=============================================================================
