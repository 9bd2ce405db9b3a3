------------------------------ MODULE Interp -------------------------------
(* The shell interpreter, kish-sh/interp: what running a statement does to  *)
(* the Runner. A step of the session is a line of the prompt, or a file;    *)
(* the operators below are the methods of the Runner, as functions from its *)
(* state before to its state after.                                         *)
(*                                                                          *)
(* State of a Runner: the fields of the struct by their names, and with     *)
(* them the process around it: what was written where (log), the arrays     *)
(* behind lists (heap), the lines that wait to be read from each input      *)
(* (feeds), files that were closed, and how many statements may still start *)
(* before the context is cancelled (left). unparsed is history: a trap was  *)
(* run whose text does not parse.                                           *)
EXTENDS Environ, ShellSyntax, RunnerAtRest, Integers, SequencesExt, TLC

CONSTANTS
    Scripts,   \* what eval, source and trap may be given: name -> [ok, body]
    Dirs,      \* the directories one can change to
    MaxTurns,  \* bound on the turns of a loop that nothing ends
    MaxLines,  \* bound on the lines of a session
    ExecStmt(_, _),   \* the Runner after a statement: RunStmt, see there
    Lines,     \* what may be entered after a line of each kind, "start" first
    Budgets,   \* how many statements may start before the context ends
    KeyboardLines   \* what waits on the terminal to be read

NoExit == [code |-> 0, returning |-> FALSE, exiting |-> FALSE, fatal |-> FALSE]

Ok(e) == e.code = 0

Clear(e) == IF e.returning \/ e.exiting \/ e.fatal THEN e ELSE NoExit

Code(n) == [NoExit EXCEPT !.code = n]

OneIf(b) == IF b THEN Code(1) ELSE NoExit

Fatal(e) ==
    IF e.fatal THEN e
    ELSE [e EXCEPT !.exiting = TRUE, !.fatal = TRUE,
                   !.code = IF @ = 0 THEN 1 ELSE @]

(* A handler's error: an exit status, or anything else, which is fatal. *)
FromHandlerError(e, err) ==
    CASE err = "none" -> e
      [] err = "status" -> [e EXCEPT !.code = 127]
      [] OTHER -> Fatal(e)

NoFuncs == [n \in {} |-> <<>>]

(* New and the Reset of the first Run. Reset keeps the handlers it names;   *)
(* the subshell handler is not among them. The variables it sets are those  *)
(* of every session; UID, EUID and GID are left out.                        *)
Runner(handler, keyboard, left) ==
    [exit |-> NoExit, lastExit |-> NoExit, lastExpandExit |-> NoExit,
     opts |-> {}, noErrExit |-> FALSE, inLoop |-> FALSE, inFunc |-> FALSE,
     inSource |-> FALSE, sourceSetParams |-> FALSE, handlingTrap |-> FALSE,
     brk |-> 0, cont |-> 0, params |-> <<>>,
     env |-> <<Overlay(FALSE)>>, funcs |-> NoFuncs, alias |-> NoFuncs,
     callbackErr |-> "", callbackExit |-> "", bgProcs |-> <<>>,
     dir |-> "home", dirStack |-> <<"home">>, keepRedirs |-> FALSE,
     stdin |-> Keyboard, stdout |-> Tty, stderr |-> Stderr,
     subshellHandler |-> handler,
     log |-> <<>>, heap |-> EmptyHeap, closed |-> {}, files |-> 10,
     feeds |-> [f \in {Nil, Keyboard} |-> IF f = Nil THEN <<>> ELSE keyboard],
     left |-> left, hung |-> FALSE, panicked |-> FALSE, unparsed |-> FALSE]

Given(dir) ==
    [n \in {"HOME", "PWD", "IFS", "OPTIND"} |->
        StringVar(CASE n = "IFS" -> <<" ">> [] n = "OPTIND" -> <<"1">>
                    [] n \in {"HOME", "PWD"} -> <<dir>>)]

Reset(r) ==
    LET new == Runner(FALSE, r.feeds[Keyboard], r.left)
    IN  [new EXCEPT !.env = << [Overlay(FALSE) EXCEPT !.vals = Given(new.dir)] >>,
                    !.log = r.log, !.heap = r.heap]

(* subshell: a copy of what a child may change. What the struct has beyond  *)
(* these fields starts afresh.                                              *)
SubshellOf(r, background) ==
    [Runner(FALSE, <<>>, r.left)
     EXCEPT !.dir = r.dir, !.params = r.params, !.stdin = r.stdin,
            !.stdout = r.stdout, !.stderr = r.stderr, !.opts = r.opts,
            !.exit = r.exit, !.lastExit = r.lastExit,
            !.env = NewOverlay(r.env, background), !.funcs = r.funcs,
            !.alias = r.alias, !.dirStack = r.dirStack,
            !.log = r.log, !.heap = r.heap, !.closed = r.closed,
            !.files = r.files, !.feeds = r.feeds]

(* What a shell leaves in the process it shares with its parent. *)
Join(r, child) ==
    [r EXCEPT !.log = child.log, !.heap = child.heap, !.closed = child.closed,
              !.files = child.files, !.feeds = child.feeds,
              !.left = child.left, !.hung = r.hung \/ child.hung,
              !.panicked = r.panicked \/ child.panicked]

(* Subshells do not exit the parent shell. *)
Left(e) == [e EXCEPT !.exiting = FALSE]

---------------------------------------------------------------------------
(* Stop looks at the flags, unless a trap is being run, then at the context. *)

Stop(r) ==
    \/ ~ r.handlingTrap /\ (r.exit.returning \/ r.exit.exiting)
    \/ r.left = 0
    \/ "noexec" \in r.opts
    \/ r.hung \/ r.panicked   \* nothing runs in a process that hangs or died

Stopped(r) ==
    IF /\ ~ (~ r.handlingTrap /\ (r.exit.returning \/ r.exit.exiting))
       /\ r.left = 0
    THEN [r EXCEPT !.exit = Fatal(@)]
    ELSE r

(* What goes to a file that was closed is lost. *)
Write(r, to, words) ==
    IF to = Discard \/ to \in r.closed THEN r
    ELSE [r EXCEPT !.log = Append(@, [to |-> to, words |-> words])]

Written(r, from, to) ==
    LET new == SubSeq(r.log, from + 1, Len(r.log))
        To(entry) == entry.to = to
    IN  SelectSeq(new, To)

NewFile(r, lines) ==
    [r EXCEPT !.files = @ + 1,
              !.feeds = [f \in DOMAIN @ \union {r.files} |->
                            IF f = r.files THEN lines ELSE @[f]]]

Close(r, fs) == [r EXCEPT !.closed = @ \union fs]

---------------------------------------------------------------------------
(* Variables of a Runner. *)

LookupVar(r, n) ==
    CASE n = "?" -> StringVar(<<ToString(r.lastExit.code)>>)
      [] n = "#" -> StringVar(<<ToString(Len(r.params))>>)
      [] n = "!" -> IF r.bgProcs = <<>> THEN Unset
                    ELSE StringVar(<<ToString(Len(r.bgProcs))>>)
      [] n = "1" -> IF r.params = <<>> THEN Unset ELSE StringVar(r.params[1])
      [] OTHER -> LET v == Get(r.env, n)
                  IN  IF Declared(v) THEN v ELSE Unset

(* A variable that cannot be set makes the status 1; the caller goes on. *)
SetVar(r, n, v) ==
    LET res == Set(r.env, n,
                   [v EXCEPT !.exported = @ \/ "allexport" \in r.opts])
    IN  IF res.ok THEN [r EXCEPT !.env = res.chain]
        ELSE [r EXCEPT !.exit.code = 1]

SetVarString(r, n, s) == SetVar(r, n, StringVar(s))

DelVar(r, n) ==
    LET res == Set(r.env, n, Unset)
    IN  IF res.ok THEN [r EXCEPT !.env = res.chain]
        ELSE [r EXCEPT !.exit.code = 1]

(* A plain string assigned to a list becomes its first element, of a clone. *)
SetVarWithIndex_InPlace(r, prev, n, v) ==
    IF v.kind = "String" /\ prev.kind = "Indexed" /\ prev.list.len > 0
    THEN SetVar([r EXCEPT !.heap = StoreAt(@, prev.list, 1, v.str)], n, prev)
    ELSE SetVar(r, n, v)

SetVarWithIndex(r, prev, n, v) ==
    IF v.kind = "String" /\ prev.kind = "Indexed"
    THEN LET rest == IF prev.list.len = 0 THEN <<>>
                     ELSE Tail(Elements(r.heap, prev.list))
             made == MakeSlice(r.heap, <<v.str>> \o rest)
         IN  SetVar([r EXCEPT !.heap = made.heap], n,
                    [prev EXCEPT !.list = made.list])
    ELSE SetVar(r, n, v)

(* stmts runs every statement; each looks at the flags for itself. *)
EachStmt == INSTANCE Walk WITH Step <- ExecStmt

Stmts(r, body) == EachStmt!Through(r, body)

---------------------------------------------------------------------------
(* Expansion of words, as far as it runs commands or fails.                 *)

(* The output of $(...), as the words a subshell wrote to its own stdout. A *)
(* fatal error is an error of the expansion, which ends nothing by itself.  *)
Captured(r, child) ==
    [r  |-> [Join(r, child) EXCEPT !.lastExpandExit = Left(child.exit)],
     ok |-> ~ child.exit.fatal,
     fs |-> FoldLeft(LAMBDA fs, line : fs \o line.words, <<>>,
                     Written(child, Len(r.log), r.files))]

Substitute(r, body) ==
    Captured(r, Stmts([SubshellOf(NewFile(r, <<>>), FALSE) EXCEPT !.stdout = r.files],
                      body))

(* An unset parameter under nounset ends the shell; other errors do not. *)
ExpandErr(r) ==
    [r EXCEPT !.exit.code = 1, !.exit.exiting = TRUE]

NonEmpty(fs) == SelectSeq(fs, LAMBDA f : f # <<>>)

ExpandWord(r, word) ==
    CASE word.w = "lit" -> [r |-> r, fs |-> <<word.v>>, ok |-> TRUE]
      [] word.w = "param" ->
            LET found == LookupVar(r, word.n)
                v == Resolve(r.env, "", found).var
            IN  IF ~ v.set /\ "nounset" \in r.opts
                THEN [r |-> ExpandErr(r), fs |-> <<>>, ok |-> FALSE]
                ELSE [r |-> r, fs |-> NonEmpty(<<ValueOf(r.heap, v)>>), ok |-> TRUE]
      [] word.w = "all" ->
            LET v == LookupVar(r, word.n)
            IN  [r |-> r, fs |-> IF v.kind = "Indexed"
                                 THEN NonEmpty(Elements(r.heap, v.list))
                                 ELSE NonEmpty(<<ValueOf(r.heap, v)>>),
                 ok |-> TRUE]
      [] OTHER -> [Substitute(r, word.body) EXCEPT !.fs = NonEmpty(@)]

(* fields: the first error drops what was expanded before it. *)
AddFields(acc, one) ==
    [one EXCEPT !.fs = IF one.ok THEN acc.fs \o @ ELSE <<>>]

TakeWord(acc, word) ==
    IF acc.ok THEN AddFields(acc, ExpandWord(acc.r, word)) ELSE acc

EachWord == INSTANCE Walk WITH Step <- TakeWord

Fields(r, words) == EachWord!Through([r |-> r, fs |-> <<>>, ok |-> TRUE], words)

(* literal: one string, without splitting. *)
Joined(res) == [r |-> res.r, s |-> FoldLeft(LAMBDA a, b : a \o b, <<>>, res.fs)]

Literal(r, word) == Joined(Fields(r, <<word>>))

(* assignVal: the value an assignment gives. += on a list stores into the   *)
(* array of the slice at hand, whoever shares it.                           *)
Value(r, n, v) == [r |-> r, n |-> n, v |-> v]

StrValue(one, end, prev, app, ref) ==
    LET kind  == IF ref THEN "NameRef" ELSE "String"
        full  == IF prev.list.len > 0
                 THEN [heap |-> one.r.heap, list |-> prev.list]
                 ELSE AppendSlice(one.r.heap, prev.list, << <<>> >>)
        first == Elements(full.heap, full.list)[1]
    IN  CASE ~ app -> Value(one.r, end, [prev EXCEPT !.kind = kind, !.str = one.s])
          [] prev.kind # "Indexed" ->
                Value(one.r, end, [prev EXCEPT !.kind = "String", !.str = @ \o one.s])
          [] OTHER ->
                Value([one.r EXCEPT !.heap = StoreAt(full.heap, full.list, 1, first \o one.s)],
                    end, [prev EXCEPT !.list = full.list])

ListValue(many, end, prev, app) ==
    LET heap == many.r.heap
        made == CASE ~ app \/ prev.kind = "Unknown" -> MakeSlice(heap, many.fs)
                  [] prev.kind = "String" -> MakeSlice(heap, <<prev.str>> \o many.fs)
                  [] OTHER -> AppendSlice(heap, prev.list, many.fs)
    IN  Value([many.r EXCEPT !.heap = made.heap], end,
            [prev EXCEPT !.list = made.list,
                         !.kind = IF app /\ @ \notin {"Unknown", "String"} THEN @ ELSE "Indexed"])

AssignVal(r, found, as, ref) ==
    LET end  == Resolve(r.env, as.n, found)
        prev == [end.var EXCEPT !.set = TRUE]
    IN  IF as.kind = "list" THEN ListValue(Fields(r, as.words), end.name, prev, as.app)
        ELSE StrValue(IF as.words = <<>> THEN [r |-> r, s |-> <<>>]
                       ELSE Literal(r, as.words[1]), end.name, prev, as.app, ref)

---------------------------------------------------------------------------
(* Redirections. The result names the file to close when the statement ends. *)

SetOutput(r, n, to) ==
    IF n = 2 THEN [r EXCEPT !.stderr = to] ELSE [r EXCEPT !.stdout = to]

Redir(r, rd) ==
    LET file == r.files
        made == NewFile(r, rd.lines)
        Res(q, cls) == [r |-> q, cls |-> cls, ok |-> TRUE]
    IN  CASE rd.op = "in"  -> Res([made EXCEPT !.stdin = file], {file})
          [] rd.op = "out" -> Res(SetOutput(made, rd.n, file), {file})
          [] rd.op = "all" ->
                Res([made EXCEPT !.stdout = file, !.stderr = file], {file})
          [] rd.op = "dup" ->
                Res(SetOutput(r, rd.n, CASE rd.arg = 1 -> r.stdout
                                         [] rd.arg = 2 -> r.stderr
                                         [] OTHER -> Discard), {})
          [] rd.op = "closein" -> Res([r EXCEPT !.stdin = Nil], {})
          [] OTHER -> [r |-> [r EXCEPT !.exit.code = 1], cls |-> {}, ok |-> FALSE]

TakeRedir(acc, rd) ==
    IF acc.ok THEN [Redir(acc.r, rd) EXCEPT !.cls = @ \union acc.cls] ELSE acc

EachRedir == INSTANCE Walk WITH Step <- TakeRedir

Redirs(r, rds) == EachRedir!Through([r |-> r, cls |-> {}, ok |-> TRUE], rds)

---------------------------------------------------------------------------
(* Traps. A text that does not parse leaves handlingTrap as it is.          *)

TrapRun(r, callback) == Stmts([r EXCEPT !.handlingTrap = TRUE], Scripts[callback].body)

TrapCallback_KeepsItsStatus(r, callback) ==
    IF callback = "" \/ r.handlingTrap THEN r
    ELSE IF ~ Scripts[callback].ok
    THEN [r EXCEPT !.handlingTrap = TRUE, !.unparsed = TRUE]
    ELSE [TrapRun(r, callback) EXCEPT !.handlingTrap = FALSE]

TrapCallback(r, callback) ==
    IF callback = "" \/ r.handlingTrap THEN r
    ELSE IF ~ Scripts[callback].ok
    THEN [r EXCEPT !.handlingTrap = TRUE, !.unparsed = TRUE]
    ELSE [TrapRun(r, callback) EXCEPT !.exit = r.exit, !.handlingTrap = FALSE]

---------------------------------------------------------------------------
(* Loops. The counters are looked at after each statement of the loop's own *)
(* list, and of no list below it.                                           *)

Counted(q) ==
    CASE q.cont > 0 -> [r |-> [q EXCEPT !.cont = @ - 1], done |-> TRUE,
                        broken |-> q.cont - 1 > 0]
      [] q.brk > 0  -> [r |-> [q EXCEPT !.brk = @ - 1], done |-> TRUE, broken |-> TRUE]
      [] OTHER -> [r |-> q, done |-> FALSE, broken |-> FALSE]

LoopStmt(acc, st) == IF acc.done THEN acc ELSE Counted(ExecStmt(acc.r, st))

EachLoopStmt == INSTANCE Walk WITH Step <- LoopStmt

LoopStmts(r, body) ==
    EachLoopStmt!Through([r |-> [r EXCEPT !.inLoop = TRUE], done |-> FALSE,
                          broken |-> FALSE], body)

LoopStmtsBroken_StaysInLoop(r, body) == LoopStmts(r, body)

LoopStmtsBroken(r, body) == [LoopStmts(r, body) EXCEPT !.r.inLoop = r.inLoop]

(* A condition runs with errexit and the ERR trap off. *)
Condition_Untested(r, body) == Stmts(r, body)

Condition(r, body) ==
    [Stmts([r EXCEPT !.noErrExit = TRUE], body) EXCEPT !.noErrExit = r.noErrExit]

(* The turns of a loop: its state, and whether it has come to its end.      *)
Turning(r, over) == [r |-> r, over |-> over]

(* A loop that nothing ends hangs. *)
EndOf(turning) == IF turning.over THEN turning.r ELSE [turning.r EXCEPT !.hung = TRUE]

NextWhile(turn) == Turning(turn.r, turn.broken)

(* A turn whose condition has been run. *)
AfterCondition(cond, cm) ==
    LET go == [cond EXCEPT !.exit = Clear(@)]
    IN  IF Ok(cond.exit) = cm.until THEN Turning(go, TRUE)
        ELSE NextWhile(LoopStmtsBroken(go, cm.body))

WhileTurn_NeverStops(turning, cm) ==
    IF turning.over THEN turning
    ELSE AfterCondition(Condition(turning.r, cm.cond), cm)

WhileTurn(turning, cm) ==
    IF turning.over THEN turning
    ELSE IF Stop(turning.r) THEN Turning(Stopped(turning.r), TRUE)
    ELSE AfterCondition(Condition(turning.r, cm.cond), cm)

EachWhileTurn == INSTANCE Walk WITH Step <- WhileTurn

ExecWhile(r, cm) ==
    EndOf(EachWhileTurn!Through(Turning(r, FALSE), [i \in 1..MaxTurns |-> cm]))

ForTurn(acc, turn) ==
    IF acc.broken THEN acc
    ELSE LoopStmtsBroken(SetVarString(acc.r, turn.n, turn.item), turn.body)

EachForTurn == INSTANCE Walk WITH Step <- ForTurn

ForItems(r, n, items, body) ==
    EachForTurn!Through([r |-> r, broken |-> FALSE],
                        [i \in DOMAIN items |-> [n |-> n, item |-> items[i], body |-> body]]).r

ForOver(items, cm) == ForItems(items.r, cm.n, items.fs, cm.body)

ExecFor(r, cm) ==
    ForOver(IF cm.in THEN Fields(r, cm.items) ELSE [r |-> r, fs |-> r.params], cm)

(* The counter of a C-style loop is written in unary. A status that is not  *)
(* zero ends the loop; a flag does not.                                     *)
CStyleStep(r, n) ==
    IF n = "" THEN r ELSE SetVarString(r, n, Append(Get(r.env, n).str, "i"))

NextCStyle(turn, n) ==
    IF turn.broken THEN Turning(turn.r, TRUE) ELSE Turning(CStyleStep(turn.r, n), FALSE)

CStyleEnds(r, cm) ==
    \/ cm.n # "" /\ Len(Get(r.env, cm.n).str) >= cm.bound
    \/ ~ Ok(r.exit)

CStyleTurn(turning, cm) ==
    IF turning.over THEN turning
    ELSE IF CStyleEnds(turning.r, cm) THEN Turning(turning.r, TRUE)
    ELSE NextCStyle(LoopStmtsBroken(turning.r, cm.body), cm.n)

EachCStyleTurn == INSTANCE Walk WITH Step <- CStyleTurn

ExecCStyle(r, cm) ==
    EndOf(EachCStyleTurn!Through(
              Turning(IF cm.n = "" THEN r ELSE SetVarString(r, cm.n, <<>>), FALSE),
              [i \in 1..MaxTurns |-> cm]))

(* select reads until a line is not empty, whatever the reason it is; one   *)
(* turn of the body later it goes on as a for loop over the items.          *)
SelectRest(turn, items, cm) ==
    IF turn.broken THEN turn.r ELSE ForItems(turn.r, cm.n, items, cm.body)

SelectFrom(items, cm) ==
    LET lines == items.r.feeds[items.r.stdin]
        full  == {i \in DOMAIN lines : lines[i] # <<>>}
        first == Min(full)
        reply == lines[first][1]
        index == IF reply[1] \in {"1", "2", "3"}
                 THEN CHOOSE i \in 1..3 : ToString(i) = reply[1] ELSE 0
        read  == [items.r EXCEPT
                    !.feeds[items.r.stdin] = SubSeq(lines, first + 1, Len(lines))]
        named == SetVarString(read, "REPLY", reply)
        set   == IF index \in DOMAIN items.fs
                 THEN SetVarString(named, cm.n, items.fs[index]) ELSE named
    IN  IF full = {} THEN [items.r EXCEPT !.hung = TRUE]
        ELSE SelectRest(LoopStmtsBroken(set, cm.body), items.fs, cm)

ExecSelect(r, cm) == SelectFrom(Fields(r, cm.items), cm)

---------------------------------------------------------------------------
(* Commands.                                                                *)

(* Aliases are replaced from the first word on, further ones only after one *)
(* whose text ends in a blank.                                              *)
ExpandAlias(acc, alias) ==
    LET i   == acc.at
        als == alias[acc.args[i].v[1]]
        new == SubSeq(acc.args, 1, i - 1) \o als.args
               \o SubSeq(acc.args, i + 1, Len(acc.args))
    IN  IF \/ i = 0 \/ i > Len(acc.args) \/ acc.args[i].w # "lit"
           \/ acc.args[i].v[1] \notin DOMAIN alias
        THEN [acc EXCEPT !.at = 0]
        ELSE [args |-> new, at |-> IF als.blank THEN i + Len(als.args) ELSE 0]

EachAlias == INSTANCE Walk WITH Step <- ExpandAlias

ExpandAliases(r, args) ==
    IF "expand_aliases" \notin r.opts THEN args
    ELSE EachAlias!Through([args |-> args, at |-> 1], [i \in DOMAIN args |-> r.alias]).args

Exec(r, fields) ==
    LET err == CASE fields[1] = <<"missing">> -> "status"
                 [] fields[1] = <<"broken">>  -> "error"
                 [] OTHER -> "none"
        ran == IF err = "none" THEN Write(r, r.stdout, fields) ELSE r
    IN  [ran EXCEPT !.exit = FromHandlerError(@, err)]

IsBuiltin(name) ==
    name \in {"true", "false", ":", "exit", "set", "shift", "unset", "echo",
              "break", "continue", "cd", "wait", "builtin", "eval", "source",
              "exec", "command", "dirs", "pushd", "popd", "return", "read",
              "mapfile", "shopt", "alias", "unalias", "trap", "fg", "bg",
              "jobs", "disown", "history"}

---------------------------------------------------------------------------
(* Builtins. Each yields the state and the status; the status takes the     *)
(* place of whatever the builtin left in exit.                              *)

Result(r, e) == [r |-> r, e |-> e]

Digits == [s \in {"-1", "0", "1", "2", "3"} |->
              CASE s = "-1" -> -1 [] s = "0" -> 0 [] s = "1" -> 1
                [] s = "2" -> 2 [] OTHER -> 3]

IsNumber(f) == Len(f) = 1 /\ f[1] \in DOMAIN Digits
Number(f) == Digits[f[1]]

ExitCmd(r, args) ==
    CASE args = <<>> -> Result(r, [r.lastExit EXCEPT !.exiting = TRUE])
      [] Len(args) > 1 -> Result(r, Code(1))
      [] IsNumber(args[1]) ->
            Result(r, [Code(Number(args[1]) % 256) EXCEPT !.exiting = TRUE])
      [] OTHER -> Result(r, Code(2))

ReturnCmd(r, args) ==
    CASE ~ r.inFunc /\ ~ r.inSource -> Result(r, Code(1))
      [] args = <<>> -> Result(r, [NoExit EXCEPT !.returning = TRUE])
      [] Len(args) = 1 /\ IsNumber(args[1]) ->
            Result(r, [Code(Number(args[1]) % 256) EXCEPT !.returning = TRUE])
      [] OTHER -> Result(r, Code(2))

(* break and continue set a counter for the loops around; outside of a loop *)
(* they only complain.                                                      *)
LoopCmd(r, name, args) ==
    LET n == IF args = <<>> THEN 1 ELSE Number(args[1])
    IN  CASE ~ r.inLoop -> Result(r, NoExit)
          [] Len(args) > 1 \/ (Len(args) = 1 /\ ~ IsNumber(args[1])) ->
                Result(r, Code(2))
          [] name = "break" -> Result([r EXCEPT !.brk = n], NoExit)
          [] OTHER -> Result([r EXCEPT !.cont = n], NoExit)

OptNames == [f \in {"e", "u", "n", "a"} |->
                CASE f = "e" -> "errexit" [] f = "u" -> "nounset"
                  [] f = "n" -> "noexec" [] OTHER -> "allexport"]

(* set: flags, then parameters, which only "--" may make empty; "-" ends    *)
(* the flags, too, and of "+" there is no second letter to look at. Each    *)
(* step looks at the arguments from one on; -o takes the next one, too.     *)
SetParams(r, ps) == [r EXCEPT !.params = ps, !.sourceSetParams = @ \/ r.inSource]

SetOpt(r, opt, on) ==
    [r EXCEPT !.opts = IF on THEN @ \union {opt} ELSE @ \ {opt}]

SetDone(res) == [res |-> res, done |-> TRUE, skip |-> FALSE]

SetMore(r, skip) == [res |-> Result(r, NoExit), done |-> FALSE, skip |-> skip]

SetArg(acc, args) ==
    LET r    == acc.res.r
        flag == args[1]
        on   == flag[1] = "-"
    IN  CASE acc.done -> acc
          [] acc.skip -> [acc EXCEPT !.skip = FALSE]
          [] flag = <<"--">> -> SetDone(Result(SetParams(r, Tail(args)), NoExit))
          [] flag = <<"-">> /\ Len(args) = 1 -> SetDone(Result(r, NoExit))
          [] flag = <<"-">> /\ Len(args) > 1 ->
                SetDone(Result([r EXCEPT !.params = Tail(args)], NoExit))
          [] flag = <<"+">> -> SetDone(Result([r EXCEPT !.panicked = TRUE], NoExit))
          [] flag[1] \notin {"-", "+"} -> SetDone(Result(SetParams(r, args), NoExit))
          [] Len(flag) = 2 /\ flag[2] \in DOMAIN OptNames ->
                SetMore(SetOpt(r, OptNames[flag[2]], on), FALSE)
          [] Len(flag) = 2 /\ flag[2] = "o" /\ Len(args) > 1
             /\ args[2] \in {<<"pipefail">>, <<"errexit">>} ->
                SetMore(SetOpt(r, args[2][1], on), TRUE)
          [] OTHER -> SetDone(Result(r, Code(2)))

EachSetArg == INSTANCE Walk WITH Step <- SetArg

SetCmd(r, args) ==
    EachSetArg!Through(SetMore(r, FALSE),
                       [i \in DOMAIN args |-> SubSeq(args, i, Len(args))]).res

(* A negative count slices out of bounds, which ends the process. *)
ShiftCmd(r, args) ==
    LET n == IF args = <<>> THEN 1 ELSE Number(args[1])
    IN  CASE Len(args) > 1 \/ (Len(args) = 1 /\ ~ IsNumber(args[1])) ->
                Result(r, Code(2))
          [] n >= Len(r.params) -> Result([r EXCEPT !.params = <<>>], NoExit)
          [] n < 0 -> Result([r EXCEPT !.panicked = TRUE], NoExit)
          [] OTHER -> Result([r EXCEPT !.params = SubSeq(@, n + 1, Len(@))], NoExit)

UnsetName(r, gone) ==
    IF gone.flag # <<"-f">> /\ LookupVar(r, gone.name).set THEN DelVar(r, gone.name)
    ELSE IF gone.flag # <<"-v">> /\ gone.name \in DOMAIN r.funcs
    THEN [r EXCEPT !.funcs = [n \in DOMAIN @ \ {gone.name} |-> @[n]]]
    ELSE r

EachUnset == INSTANCE Walk WITH Step <- UnsetName

UnsetCmd(r, args) ==
    LET flag  == args[1]
        names == IF flag \in {<<"-v">>, <<"-f">>} THEN Tail(args) ELSE args
    IN  Result(EachUnset!Through(r, [i \in DOMAIN names |->
                                        [flag |-> flag, name |-> names[i][1]]]),
               NoExit)

ChangeDir(r, path) ==
    LET old == Get(r.env, "PWD").str
    IN  IF path \notin Dirs THEN Result(r, Code(1))
        ELSE Result([SetVarString(SetVarString(r, "OLDPWD", old), "PWD", <<path>>)
                     EXCEPT !.dir = path], NoExit)

CdCmd(r, args) ==
    LET var(n) == LET s == Get(r.env, n).str IN IF s = <<>> THEN "" ELSE s[1]
    IN  CASE args = <<>> -> ChangeDir(r, var("HOME"))
          [] Len(args) > 1 -> Result(r, Code(2))
          [] args[1] = <<"-">> -> ChangeDir(r, var("OLDPWD"))
          [] OTHER -> ChangeDir(r, args[1][1])

DirsCmd(r) ==
    Write(r, r.stdout, [i \in DOMAIN r.dirStack |-> << Reverse(r.dirStack)[i] >>])

Swap(stack) ==
    LET n == Len(stack)
    IN  [stack EXCEPT ![n] = stack[n - 1], ![n - 1] = stack[n]]

(* pushd swaps the top of the stack before it knows that it can go there. *)
PushdCmd_PushesFirst(r, args) ==
    IF Len(args) # 1
    THEN Result(r, Code(1))
    ELSE LET there == ChangeDir([r EXCEPT !.dirStack = Append(@, args[1][1])], args[1][1])
         IN  there

(* What a change of directory went well prints the stack. *)
Shown(res) == IF Ok(res.e) THEN Result(DirsCmd(res.r), NoExit) ELSE res

PushdCmd(r, args) ==
    LET change == args = <<>> \/ args[1] # <<"-n">>
        rest   == IF change THEN args ELSE Tail(args)
        Back(q) == ChangeDir(q, Last(q.dirStack))
        Pushed(there) == IF Ok(there.e)
                         THEN [there EXCEPT !.r.dirStack = Append(@, there.r.dir)]
                         ELSE there
    IN  CASE rest = <<>> /\ ~ change -> Result(r, NoExit)
          [] rest = <<>> /\ Len(r.dirStack) < 2 -> Result(r, Code(1))
          [] rest = <<>> /\ Len(r.dirStack) > 1 -> Shown(Back([r EXCEPT !.dirStack = Swap(@)]))
          [] Len(rest) > 1 -> Result(r, Code(2))
          [] change -> Shown(Pushed(ChangeDir(r, rest[1][1])))
          [] OTHER -> Shown(Result([r EXCEPT !.dirStack = Swap(Append(@, rest[1][1]))],
                                   NoExit))

PopdCmd(r, args) ==
    LET change == args = <<>> \/ args[1] # <<"-n">>
        rest   == IF change THEN args ELSE Tail(args)
        popped == [r EXCEPT !.dirStack = Front(@)]
    IN  CASE rest # <<>> -> Result(r, Code(2))
          [] Len(r.dirStack) < 2 -> Result(r, Code(1))
          [] change /\ Len(r.dirStack) > 1 -> Shown(ChangeDir(popped, Last(popped.dirStack)))
          [] OTHER -> Shown(Result([popped EXCEPT
                                      !.dirStack[Len(popped.dirStack)] = Last(r.dirStack)],
                                   NoExit))

(* wait: everything ends before its parent goes on, so there is only the    *)
(* status to fetch.                                                         *)
WaitCmd(r, args) ==
    LET Take(acc, arg) ==
            IF acc.stop THEN acc
            ELSE IF IsNumber(arg) /\ Number(arg) \in DOMAIN r.bgProcs
            THEN [e |-> r.bgProcs[Number(arg)], stop |-> FALSE]
            ELSE [e |-> [acc.e EXCEPT !.code = 1], stop |-> TRUE]
    IN  Result(r, FoldLeft(Take, [e |-> NoExit, stop |-> FALSE], args).e)

OwnStatus(r) == Result(r, r.exit)

EvalCmd(r, args) ==
    LET name == args[1][1]
    IN  IF args = <<>> THEN OwnStatus(r)
        ELSE IF ~ Scripts[name].ok THEN Result(r, Code(1))
        ELSE OwnStatus(Stmts(r, Scripts[name].body))

SourceCmd(r, args) ==
    LET name == args[1][1]
        own  == Len(args) > 1
        in   == [r EXCEPT !.params = IF own THEN Tail(args) ELSE @,
                          !.sourceSetParams = FALSE, !.inSource = TRUE]
        Out(ran) == [ran EXCEPT
                        !.params = IF own /\ ~ ran.sourceSetParams THEN r.params ELSE @,
                        !.sourceSetParams = r.sourceSetParams,
                        !.inSource = r.inSource, !.exit.returning = FALSE]
    IN  CASE args = <<>> -> Result(r, Code(2))
          [] name \notin DOMAIN Scripts \/ ~ Scripts[name].ok -> Result(r, Code(1))
          [] OTHER -> OwnStatus(Out(Stmts(in, Scripts[name].body)))

(* exec without a command keeps the redirections made so far, and every     *)
(* later one.                                                               *)
ExecCmdBuiltin(r, args) ==
    IF args = <<>> THEN Result([r EXCEPT !.keepRedirs = TRUE], NoExit)
    ELSE OwnStatus(Exec([r EXCEPT !.exit.exiting = TRUE], args))

(* read: one line, its words over the names, the last one takes the rest.   *)
ReadInto(r, part) == SetVarString(r, part.n, part.s)

EachRead == INSTANCE Walk WITH Step <- ReadInto

ReadCmd(r, args) ==
    LET names == IF args = <<>> THEN << <<"REPLY">> >> ELSE args
        lines == r.feeds[r.stdin]
        eof   == lines = <<>>
        words == IF eof THEN <<>> ELSE lines[1]
        taken == IF eof THEN r ELSE [r EXCEPT !.feeds[r.stdin] = Tail(@)]
        Rest(i) == FoldLeft(LAMBDA a, b : a \o b, <<>>,
                            SubSeq(words, i, Len(words)))
        Val(i) == CASE i > Len(words) -> <<>>
                    [] i < Len(names) -> words[i]
                    [] OTHER -> Rest(i)
    IN  Result(EachRead!Through(taken, [i \in DOMAIN names |->
                                          [n |-> names[i][1], s |-> Val(i)]]),
               OneIf(eof))

(* mapfile gives its array elements, one by one, and a kind, and leaves Set *)
(* as it was. There is nothing to scan where stdin is closed.               *)
MapfileCmd(r) ==
    LET made == FoldLeft(LAMBDA a, l : AppendSlice(a.heap, a.list, <<l[1]>>),
                         [heap |-> r.heap, list |-> NilSlice], r.feeds[r.stdin])
    IN  IF r.stdin = Nil THEN Result(r, Code(2))
        ELSE Result(SetVar([r EXCEPT !.heap = made.heap, !.feeds[r.stdin] = <<>>],
                      "MAPFILE",
                      [Unset EXCEPT !.kind = "Indexed", !.list = made.list]),
               NoExit)

AliasCmd(r, args) ==
    LET text  == Tail(args)
        blank == Last(text) = <<" ">>
        words == IF blank THEN Front(text) ELSE text
        new   == [args |-> [i \in DOMAIN words |-> Lit(words[i])], blank |-> blank]
        name  == args[1][1]
    IN  IF Len(args) < 2 THEN Result(r, NoExit)
        ELSE Result([r EXCEPT !.alias = [n \in DOMAIN @ \union {name} |->
                                           IF n = name THEN new ELSE @[n]]], NoExit)

UnaliasCmd(r, args) ==
    LET gone == {args[i][1] : i \in DOMAIN args}
    IN  Result([r EXCEPT !.alias = [n \in DOMAIN @ \ gone |-> @[n]]], NoExit)

TrapSignal(acc, set) ==
    CASE acc.bad -> acc
      [] set.sig = <<"ERR">>  -> [acc EXCEPT !.r.callbackErr = set.text]
      [] set.sig = <<"EXIT">> -> [acc EXCEPT !.r.callbackExit = set.text]
      [] OTHER -> [acc EXCEPT !.bad = TRUE]

EachSignal == INSTANCE Walk WITH Step <- TrapSignal

TrapCmd(r, args) ==
    LET reset == Len(args) = 1
        text  == IF reset \/ args[1] = <<"-">> THEN "" ELSE args[1][1]
        sigs  == IF reset THEN args ELSE Tail(args)
        res   == EachSignal!Through([r |-> r, bad |-> FALSE],
                                    [i \in DOMAIN sigs |-> [sig |-> sigs[i], text |-> text]])
    IN  IF args = <<>> THEN Result(r, NoExit)
        ELSE Result(res.r, IF res.bad THEN Code(2) ELSE NoExit)

ShoptCmd(r, args) ==
    IF Len(args) = 2 /\ args[2] = <<"expand_aliases">>
    THEN Result([r EXCEPT !.opts = IF args[1] = <<"-s">> THEN @ \union {args[2][1]}
                                   ELSE @ \ {args[2][1]}], NoExit)
    ELSE Result(r, Code(1))

Builtin(r, name, args) ==
    CASE name \in {"true", ":"} -> Result(r, NoExit)
      [] name = "false"  -> Result(r, Code(1))
      [] name = "exit"   -> ExitCmd(r, args)
      [] name = "set"    -> SetCmd(r, args)
      [] name = "shift"  -> ShiftCmd(r, args)
      [] name = "unset"  -> UnsetCmd(r, args)
      [] name = "echo"   -> Result(Write(r, r.stdout, args), NoExit)
      [] name \in {"break", "continue"} -> LoopCmd(r, name, args)
      [] name = "cd"     -> CdCmd(r, args)
      [] name = "wait"   -> WaitCmd(r, args)
      [] name = "eval"   -> EvalCmd(r, args)
      [] name = "source" -> SourceCmd(r, args)
      [] name = "exec"   -> ExecCmdBuiltin(r, args)
      [] name = "dirs"   -> Result(DirsCmd(r), NoExit)
      [] name = "pushd"  -> PushdCmd(r, args)
      [] name = "popd"   -> PopdCmd(r, args)
      [] name = "return" -> ReturnCmd(r, args)
      [] name = "read"   -> ReadCmd(r, args)
      [] name = "mapfile" -> MapfileCmd(r)
      [] name = "shopt"  -> ShoptCmd(r, args)
      [] name = "alias"  -> AliasCmd(r, args)
      [] name = "unalias" -> UnaliasCmd(r, args)
      [] name = "trap"   -> TrapCmd(r, args)
      [] OTHER -> Result(r, Code(2))   \* unimplemented builtin

(* command and builtin run what follows them as a command that is no        *)
(* function; of several in a row the last one tells whether it may also be  *)
(* a program.                                                               *)
Wrappers == {"command", "builtin"}

CommandCmd(r, name, args) ==
    LET plain == {i \in DOMAIN args : args[i][1] \notin Wrappers}
        i     == Min(plain)
        last  == IF i = 1 THEN name ELSE args[i - 1][1]
        from  == SubSeq(args, i, Len(args))
    IN  CASE plain = {} -> Result(r, NoExit)
          [] IsBuiltin(args[i][1]) -> Builtin(r, args[i][1], Tail(from))
          [] last = "builtin" -> Result(r, Code(1))
          [] OTHER -> OwnStatus(Exec(r, from))

BuiltinCmd(r, name, args) ==
    LET Took(res) == [res.r EXCEPT !.exit = res.e]
    IN  Took(IF name \in Wrappers THEN CommandCmd(r, name, args)
             ELSE Builtin(r, name, args))

---------------------------------------------------------------------------
(* Calls. *)

CallFunc_LeavesScope(r, name, args) ==
    [ExecStmt([r EXCEPT !.params = args, !.inFunc = TRUE], r.funcs[name])
     EXCEPT !.params = r.params, !.inFunc = r.inFunc, !.exit.returning = FALSE]

CallFunc(r, name, args) ==
    LET inner == [r EXCEPT !.params = args, !.inFunc = TRUE,
                           !.env = Append(@, Overlay(TRUE))]
    IN  [ExecStmt(inner, r.funcs[name])
         EXCEPT !.params = r.params, !.inFunc = r.inFunc,
                !.env = SubSeq(@, 1, Len(r.env)), !.exit.returning = FALSE]

Call(r, fields) ==
    LET name == fields[1][1]
    IN  IF Stop(r) THEN Stopped(r)
        ELSE IF name \in DOMAIN r.funcs THEN CallFunc(r, name, Tail(fields))
        ELSE IF IsBuiltin(name) THEN BuiltinCmd(r, name, Tail(fields))
        ELSE Exec(r, fields)

(* Assignments without a command. *)
AssignedTo(prev, val) == SetVarWithIndex(val.r, prev, val.n, val.v)

AssignOne(r, prev, a) == AssignedTo(prev, AssignVal(r, prev, a, FALSE))

AssignNext(r, a) == AssignOne(r, [LookupVar(r, a.n) EXCEPT !.local = FALSE], a)

EachAssign == INSTANCE Walk WITH Step <- AssignNext

AssignAll(r, as) == EachAssign!Through(r, as)

(* Assignments before a command are put back after it. *)
ExportFor(prev, end, val) ==
    [r |-> SetVar(val.r, val.n, [val.v EXCEPT !.exported = TRUE]),
     prev |-> Append(prev, [n |-> end.name, v |-> end.var])]

AssignOneFor(acc, end, a) ==
    ExportFor(acc.prev, end, AssignVal(acc.r, end.var, [a EXCEPT !.n = end.name], FALSE))

AssignNextFor(acc, a) ==
    AssignOneFor(acc, Resolve(acc.r.env, a.n, LookupVar(acc.r, a.n)), a)

EachAssignFor == INSTANCE Walk WITH Step <- AssignNextFor

AssignFor(r, as) == EachAssignFor!Through([r |-> r, prev |-> <<>>], as)

Restore(r, was) == SetVar(r, was.n, was.v)

EachRestore == INSTANCE Walk WITH Step <- Restore

CallWith(tmp, fields) == EachRestore!Through(Call(tmp.r, fields), tmp.prev)

OnlyAssigned(r) ==
    IF Ok(r.exit) THEN [r EXCEPT !.exit = r.lastExpandExit] ELSE r

CallFields(exp, as) ==
    IF exp.fs = <<>> THEN OnlyAssigned(AssignAll(exp.r, as))
    ELSE CallWith(AssignFor(exp.r, as), exp.fs)

ExecCall(r, cm) ==
    CallFields(Fields([r EXCEPT !.lastExpandExit = NoExit], ExpandAliases(r, cm.args)),
               cm.as)

SubshellDone(r, child) == [Join(r, child) EXCEPT !.exit = Left(child.exit)]

ExecSubshell(r, cm) ==
    IF r.subshellHandler
    THEN [r EXCEPT !.exit.code = Stmts(Runner(FALSE, <<>>, r.left), cm.body).exit.code]
    ELSE SubshellDone(r, Stmts(SubshellOf(r, FALSE), cm.body))

RestOfList(x, cm) == IF Ok(x.exit) = (cm.c = "and") THEN ExecStmt(x, cm.y) ELSE x

ExecList(r, cm) ==
    RestOfList([ExecStmt([r EXCEPT !.noErrExit = TRUE], cm.x)
                EXCEPT !.noErrExit = r.noErrExit], cm)

(* A pipe: the left side in a subshell, the right side in this shell. *)
PipeDone(w, x, y) ==
    LET e == IF "pipefail" \in y.opts /\ ~ Ok(x.exit) /\ Ok(y.exit)
             THEN Left(x.exit) ELSE y.exit
    IN  [y EXCEPT !.feeds[w] = <<>>, !.exit = IF x.exit.fatal THEN Fatal(e) ELSE e]

PipeRight(r, x, y) ==
    LET w     == r.files
        lines == Written(x, Len(r.log), w)
        feed  == [i \in DOMAIN lines |-> lines[i].words]
    IN  PipeDone(w, x, ExecStmt([Join(NewFile(r, <<>>), x)
                                 EXCEPT !.stdin = w, !.feeds[w] = feed], y))

ExecPipe(r, cm) ==
    PipeRight(r, ExecStmt([SubshellOf(NewFile(r, <<>>), TRUE) EXCEPT
                             !.stdout = r.files,
                             !.stderr = IF cm.all THEN r.files ELSE @], cm.x), cm.y)

Branch(cond, cm) ==
    IF Ok(cond.exit) THEN Stmts(cond, cm.body)
    ELSE Stmts([cond EXCEPT !.exit = Clear(@)], cm.else)

ExecIf(r, cm) == Branch(Condition(r, cm.cond), cm)

CaseOf(str, cases) ==
    LET hits == {i \in DOMAIN cases : \E p \in cases[i].pats : p = str.s \/ p = <<"*">>}
    IN  IF hits = {} THEN str.r ELSE Stmts(str.r, cases[Min(hits)].body)

ExecCase(r, cm) == CaseOf(Literal(r, cm.word), cm.cases)

DeclVal(r, found, a, ref) ==
    IF a.kind = "naked"
    THEN [r |-> r, n |-> a.n, v |-> [found EXCEPT !.kind = "KeepValue"]]
    ELSE AssignVal(r, found, a, ref)

(* declare, local, export, readonly and nameref. *)
Marked(r, v, cm) ==
    [v EXCEPT !.local = IF "g" \in cm.opts THEN FALSE
                        ELSE IF cm.variant = "local" \/ (cm.variant = "declare" /\ r.inFunc)
                        THEN TRUE ELSE @,
              !.exported = @ \/ cm.variant = "export" \/ "x" \in cm.opts,
              !.readonly = @ \/ cm.variant = "readonly" \/ "r" \in cm.opts]

Declare(val, cm) == SetVar(val.r, val.n, Marked(val.r, val.v, cm))

DeclareNext(r, decl) ==
    Declare(DeclVal(r, LookupVar(r, decl.as.n), decl.as,
                    decl.cm.variant = "nameref" \/ "n" \in decl.cm.opts), decl.cm)

EachDecl == INSTANCE Walk WITH Step <- DeclareNext

ExecDecl(r, cm) ==
    IF cm.variant = "local" /\ ~ r.inFunc THEN [r EXCEPT !.exit.code = 1]
    ELSE EachDecl!Through(r, [i \in DOMAIN cm.as |-> [as |-> cm.as[i], cm |-> cm]])

ExecCmd(r, cm) ==
    CASE Stop(r)           -> Stopped(r)
      [] cm.c = "call"     -> ExecCall(r, cm)
      [] cm.c = "block"    -> Stmts(r, cm.body)
      [] cm.c = "time"     -> Stmts(r, cm.body)
      [] cm.c = "subshell" -> ExecSubshell(r, cm)
      [] cm.c \in {"and", "or"} -> ExecList(r, cm)
      [] cm.c = "pipe"     -> ExecPipe(r, cm)
      [] cm.c = "if"       -> ExecIf(r, cm)
      [] cm.c = "while"    -> ExecWhile(r, cm)
      [] cm.c = "for"      -> ExecFor(r, cm)
      [] cm.c = "select"   -> ExecSelect(r, cm)
      [] cm.c = "cstyle"   -> ExecCStyle(r, cm)
      [] cm.c = "case"     -> ExecCase(r, cm)
      [] cm.c = "decl"     -> ExecDecl(r, cm)
      [] cm.c = "func"     ->
            [r EXCEPT !.funcs = [n \in DOMAIN @ \union {cm.n} |->
                                    IF n = cm.n THEN cm.body ELSE @[n]]]
      [] cm.c = "arithm"   -> [r EXCEPT !.exit.code = IF cm.zero THEN 1 ELSE @]
      [] cm.c = "test"     ->
            [r EXCEPT !.exit.code = IF cm.result = "false" /\ @ = 0 THEN 1
                                    ELSE IF cm.result = "error" THEN 2 ELSE @]
      [] OTHER -> [r EXCEPT !.panicked = TRUE]   \* no node of the syntax

(* A failure that nothing tests runs the ERR trap, and under errexit ends   *)
(* the shell.                                                               *)
Errexit(r) == IF "errexit" \in r.opts THEN [r EXCEPT !.exit.exiting = TRUE] ELSE r

AfterCmd(r, st) ==
    IF st.neg
    THEN [r EXCEPT !.exit = IF Ok(@) THEN [@ EXCEPT !.code = 1] ELSE Clear(@)]
    ELSE IF st.cmd.c \in {"and", "or"} \/ Ok(r.exit) \/ r.noErrExit THEN r
    ELSE Errexit(TrapCallback(r, r.callbackErr))

BackFrom(q, r) ==
    IF q.keepRedirs THEN q
    ELSE [q EXCEPT !.stdin = r.stdin, !.stdout = r.stdout, !.stderr = r.stderr]

Under(redir, st, r) ==
    Close(BackFrom(AfterCmd(IF Ok(redir.r.exit) THEN ExecCmd(redir.r, st.cmd) ELSE redir.r,
                         st), r),
          redir.cls)

StmtSync(r, st) == Under(Redirs(r, st.redirs), st, r)

ExitTrap(r) == TrapCallback(r, r.callbackExit)

Run(r, body) == ExitTrap(Stmts([r EXCEPT !.exit = NoExit], body))

NoteEnd(r, child) == [Join(r, child) EXCEPT !.bgProcs = Append(@, Left(child.exit))]

(* A shell of its own, whose end is noted in bgProcs; here it runs to its   *)
(* end before its parent goes on.                                           *)
StartBackground(r, st) ==
    NoteEnd(r, Run(SubshellOf(r, TRUE), <<[st EXCEPT !.bg = FALSE]>>))

StartStmt(r, st) == IF st.bg THEN StartBackground(r, st) ELSE StmtSync(r, st)

Noted(r) == [r EXCEPT !.lastExit = r.exit]

(* Every statement within a statement is an ExecStmt, and there is only one *)
(* way to execute a statement: ExecStmt is RunStmt. What it runs has fewer  *)
(* statements left to start than it had.                                    *)
RunStmt(r, st) ==
    IF Stop(r) THEN Stopped(r)
    ELSE Noted(StartStmt([r EXCEPT !.exit = NoExit, !.left = @ - 1], st))

---------------------------------------------------------------------------
(* The session of shell_repl.go: each statement of a line is run by itself, *)
(* and whether the shell is over is asked only after a failure.             *)

VARIABLES
    over,    \* the prompt is gone
    line,    \* the last line: its kind, its statements, the Runner before it
    lines    \* how many lines were entered

vars == <<shell, over, line, lines>>

Checked(r) == [r |-> r, over |-> r.panicked \/ (~ Ok(r.exit) /\ r.exit.exiting)]

LineStmt(acc, st) == IF acc.over THEN acc ELSE Checked(Run(acc.r, <<st>>))

EachLineStmt == INSTANCE Walk WITH Step <- LineStmt

RunLine(r, body) ==
    EachLineStmt!Through([r |-> r, over |-> FALSE], body)

Init ==
    /\ \E left \in Budgets : shell = Reset(Runner(TRUE, KeyboardLines, left))
    /\ over = FALSE
    /\ line = [kind |-> "start", body |-> <<>>, before |-> shell]
    /\ lines = 0

Enter(l) ==
    /\ ~ over /\ ~ shell.hung
    /\ lines' = lines + 1
    /\ line' = [kind |-> l.kind, body |-> l.body, before |-> shell]
    /\ \E res \in {RunLine(shell, l.body)} : shell' = res.r /\ over' = res.over

Next == lines < MaxLines /\ \E l \in Lines[line.kind] : Enter(l)

Spec == Init /\ [][Next]_vars

---------------------------------------------------------------------------
(* Properties. *)

(* A statement that runs its command in a shell of its own. *)
Confined(st) ==
    \/ st.bg \/ st.cmd.c = "subshell"
    \/ st.cmd.c = "call" /\ st.cmd.as = <<>>
       /\ \E i \in DOMAIN st.cmd.args : st.cmd.args[i].w = "subst"

Lists(r) ==
    [n \in {m \in VarNames : Get(r.env, m).kind = "Indexed"} |->
        Elements(r.heap, Get(r.env, n).list)]

(* The statements inside of a confined one, as deep as the instances nest. *)
Inside(st) ==
    {st} \union
    (IF st.cmd.c = "subshell" THEN Range(st.cmd.body)
     ELSE IF st.cmd.c = "call"
     THEN UNION {IF w.w = "subst" THEN Range(w.body) ELSE {} :
                    w \in Range(st.cmd.args)}
     ELSE {})

Appends(st) == "as" \in DOMAIN st.cmd
               /\ \E i \in DOMAIN st.cmd.as : st.cmd.as[i].app

(* What a subshell does to a list never shows in its parent's, though both  *)
(* have slices of one array, as long as nothing is appended with +=: a list *)
(* that is replaced, or whose first element is, is a new array.             *)
ListsSharedOnlyByAppend ==
    AtRest /\ (\A i \in DOMAIN line.body : /\ Confined(line.body[i])
                                           /\ \A st \in Inside(line.body[i]) : ~ Appends(st))
       => Lists(shell) = Lists(line.before)

(* Every loop ends with its shell: an exit, a return, errexit or the end of *)
(* the context stops it. Not so select, which at the end of its input reads *)
(* again, and for ((;;)), which looks at the status only: lines that have   *)
(* one of these are of the kind "endless".                                  *)
LoopsEndWithTheShell == shell.hung => line.kind = "endless"
=============================================================================
