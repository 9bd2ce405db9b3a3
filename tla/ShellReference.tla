--------------------------- MODULE ShellReference --------------------------
(* What the control flow of a shell program does in bash (5), written       *)
(* without the flags and counters of the interpreter: a command has an      *)
(* outcome, which is to go on, to break or continue n loops, to return, or  *)
(* to exit, and every outcome but "go" abandons what is left up to the      *)
(* command that takes it.                                                   *)
(*                                                                          *)
(* odd notes where the interpreter is known to go another way:              *)
(*   - a break that abandons statements of a list inside of the loop's own, *)
(*     wants more loops than there are, or is in a function that was called *)
(*     from a loop and has none of its own;                                 *)
(*   - a return in a subshell of a function, which the interpreter refuses; *)
(*   - a while loop whose last turn failed: the interpreter's succeeds;     *)
(*   - a C-style loop whose body fails, which the interpreter leaves;       *)
(*   - under errexit a failure in a subshell or after !, of which a         *)
(*     condition further out takes note in bash only, and one that a block, *)
(*     an if or a loop passes on, which ends the interpreter only;          *)
(*   - a return or exit that is negated;                                    *)
(*   - whatever the right side of a pipe does to the shell: in bash it has  *)
(*     one of its own.                                                      *)
(* A return outside of functions is refused by both, with status 2 in bash  *)
(* and 1 by the interpreter; no other command of the programs has status 2. *)
EXTENDS ShellSyntax, Integers, SequencesExt, TLC

Go(t) == t.oc = "go"

Started(opts, funcs, keys) ==
    [out |-> <<>>, code |-> 0, oc |-> "go", n |-> 0, opts |-> opts,
     funcs |-> funcs, keys |-> keys, depth |-> 0, outer |-> FALSE, fn |-> FALSE,
     odd |-> FALSE]

Refused == 2

Leaves(t) == t.oc \in {"break", "cont"}

(* Whether a condition, an && or || or a ! takes note of a failure: "no",   *)
(* "seen", or "unseen" when it does for bash and not for the interpreter.   *)
Unseen(tested) == IF tested = "seen" THEN "unseen" ELSE tested

RECURSIVE RefStmt(_, _, _)

(* A list that is not a loop's own. *)
RefList(t, body, tested) ==
    FoldLeft(LAMBDA u, st : IF Go(u) THEN RefStmt(u, st, tested)
                            ELSE IF Leaves(u) THEN [u EXCEPT !.odd = TRUE] ELSE u,
             t, body)

(* One turn of a loop: the loop takes the outcomes that are for it. *)
TurnTaken(t, v) ==
    IF ~ Leaves(v) THEN [t |-> v, done |-> ~ Go(v)]
    ELSE IF v.n > 1
    THEN [t |-> [v EXCEPT !.n = @ - 1, !.odd = @ \/ t.depth = 0], done |-> TRUE]
    ELSE [t |-> [v EXCEPT !.oc = "go"], done |-> v.oc = "break"]

RefTurn(t, body, tested) ==
    TurnTaken(t, [FoldLeft(LAMBDA u, st : IF Go(u) THEN RefStmt(u, st, tested) ELSE u,
                           [t EXCEPT !.depth = @ + 1], body)
                  EXCEPT !.depth = t.depth])

RECURSIVE RefWhile(_, _, _), RefTurns(_, _, _, _)

NextTurn(turn, cm, tested) == IF turn.done THEN turn.t ELSE RefWhile(turn.t, cm, tested)

AfterCond(c, last, cm, tested) ==
    IF ~ Go(c) THEN [c EXCEPT !.odd = @ \/ Leaves(c)]
    ELSE IF (c.code = 0) = cm.until THEN [c EXCEPT !.code = last, !.odd = @ \/ last # 0]
    ELSE NextTurn(RefTurn([c EXCEPT !.code = 0], cm.body, tested), cm, tested)

RefWhile(t, cm, tested) == AfterCond(RefList(t, cm.cond, "seen"), t.code, cm, tested)

NextItem(turn, cm, turns, tested) ==
    LET failing == cm.c = "cstyle" /\ turns > 1 /\ Go(turn.t) /\ turn.t.code # 0
        u == IF failing THEN [turn.t EXCEPT !.odd = TRUE] ELSE turn.t
    IN  IF turn.done THEN u ELSE RefTurns(u, cm, turns - 1, tested)

RefTurns(t, cm, turns, tested) ==
    IF turns = 0 THEN t ELSE NextItem(RefTurn(t, cm.body, tested), cm, turns, tested)

(* A subshell is in no loop; it gives back its output and its status.       *)
Outside(t, u) ==
    [t EXCEPT !.out = u.out, !.code = u.code, !.keys = u.keys,
              !.odd = u.odd \/ u.oc = "return"]

RefSubshell(t, body, tested) ==
    Outside(t, RefList([t EXCEPT !.depth = 0, !.outer = FALSE], body, Unseen(tested)))

(* A function is in no loop of its caller's. *)
Entered(t) ==
    [t EXCEPT !.fn = TRUE, !.code = 0, !.depth = 0, !.outer = @ \/ t.depth > 0]

Returned(t, u) ==
    [u EXCEPT !.fn = t.fn, !.depth = t.depth, !.outer = t.outer,
              !.oc = IF @ = "return" THEN "go" ELSE @]

RefCall(t, args, tested) ==
    LET name == args[1].v[1]
        arg  == IF Len(args) = 1 THEN 1
                ELSE CHOOSE i \in 0..3 : ToString(i) = args[2].v[1]
    IN  CASE name = "true"  -> [t EXCEPT !.code = 0]
          [] name = "false" -> [t EXCEPT !.code = 1]
          [] name = "echo"  ->
                [t EXCEPT !.code = 0, !.out = Append(@, args[2].v[1])]
          [] name \in {"break", "continue"} ->
                IF t.depth = 0 THEN [t EXCEPT !.code = 0, !.odd = @ \/ t.outer]
                ELSE [t EXCEPT !.code = 0, !.n = arg,
                               !.oc = IF name = "break" THEN "break" ELSE "cont"]
          [] name = "return" ->
                IF ~ t.fn THEN [t EXCEPT !.code = Refused]
                ELSE [t EXCEPT !.oc = "return", !.code = arg]
          [] name = "exit"  -> [t EXCEPT !.oc = "exit", !.code = arg]
          [] name = "read"  ->
                IF t.keys = 0 THEN [t EXCEPT !.code = 1]
                ELSE [t EXCEPT !.code = 0, !.keys = @ - 1]
          [] OTHER -> Returned(t, RefStmt(Entered(t), t.funcs[name], tested))

RefRight(x, cm, tested) ==
    IF (x.code = 0) # (cm.c = "and") THEN x
    ELSE IF Go(x) THEN RefStmt(x, cm.y, tested)
    ELSE [x EXCEPT !.odd = @ \/ Leaves(x)]

(* What errexit makes of a failure on the right the pipe's own status does. *)
FailsAlike(y, tested) ==
    y.oc = "exit" /\ y.code # 0 /\ "errexit" \in y.opts /\ tested = "no"

Piped(t, x, y, tested) ==
    [t EXCEPT !.out = y.out, !.keys = x.keys,
              !.code = IF "pipefail" \in t.opts /\ y.code = 0 THEN x.code ELSE y.code,
              !.odd = \/ y.odd \/ y.funcs # t.funcs
                      \/ ~ Go(y) /\ ~ FailsAlike(y, tested)]

RefPipe(t, x, cm, tested) ==
    Piped(t, x, RefStmt([t EXCEPT !.odd = x.odd, !.keys = Len(x.out) - Len(t.out)],
                        cm.y, tested), tested)

RefBranch(c, cm, tested) ==
    IF ~ Go(c) THEN [c EXCEPT !.odd = @ \/ Leaves(c)]
    ELSE IF c.code = 0 THEN RefList(c, cm.body, tested)
    ELSE RefList([c EXCEPT !.code = 0], cm.else, tested)

RefCmd(t, cm, tested) ==
    CASE cm.c = "call"     -> RefCall(t, cm.args, tested)
      [] cm.c = "block"    -> RefList(t, cm.body, tested)
      [] cm.c = "subshell" -> RefSubshell(t, cm.body, tested)
      [] cm.c \in {"and", "or"} ->
            RefRight(RefStmt(t, cm.x, "seen"), cm, tested)
      [] cm.c = "pipe"     -> RefPipe(t, RefSubshell(t, <<cm.x>>, tested), cm, tested)
      [] cm.c = "func"     ->
            [t EXCEPT !.funcs = [f \in DOMAIN @ \union {cm.n} |->
                                    IF f = cm.n THEN cm.body ELSE @[f]]]
      [] cm.c = "if"       -> RefBranch(RefList(t, cm.cond, "seen"), cm, tested)
      [] cm.c = "while"    -> RefWhile(t, cm, tested)
      [] cm.c = "for"      -> RefTurns(t, cm, Len(cm.items), tested)
      [] cm.c = "cstyle"   -> RefTurns(t, cm, cm.bound, tested)

(* errexit: a failure that nothing takes note of ends the shell where it    *)
(* happens, not where a compound command passes it on.                      *)
Errexits(u, st, tested) ==
    CASE tested = "seen" -> u
      [] tested = "no" /\ st.cmd.c \in {"call", "subshell", "pipe"} ->
            [u EXCEPT !.oc = "exit"]
      [] OTHER -> [u EXCEPT !.odd = TRUE]

RefStatus(u, st, tested) ==
    CASE st.neg /\ ~ Go(u) -> [u EXCEPT !.odd = TRUE]
      [] st.neg /\ Go(u)   -> [u EXCEPT !.code = IF @ = 0 THEN 1 ELSE 0]
      [] /\ ~ st.neg /\ Go(u) /\ u.code # 0 /\ "errexit" \in u.opts
         /\ st.cmd.c \notin {"and", "or"} -> Errexits(u, st, tested)
      [] OTHER -> u

(* What is negated is taken note of, which the interpreter looks at too late. *)
Within(st, tested) == IF st.neg /\ tested = "no" THEN "unseen" ELSE tested

RefStmt(t, st, tested) ==
    RefStatus(RefCmd([t EXCEPT !.code = 0], st.cmd, Within(st, tested)), st, tested)
=============================================================================
