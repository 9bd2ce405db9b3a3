------------------------------- MODULE Arithm -------------------------------
(* What an arithmetic expression is worth: expand.Arithm (arith.go) on the  *)
(* parser's tree, against the value bash gives the same tokens. Numbers are *)
(* two's complement of Bits bits (64 in the code).                          *)
EXTENDS ArithmSyntax, Integers, FiniteSets, Bitwise

CONSTANTS
  Bits,     \* width of a number
  Exprs,    \* the expressions, as tokens
  Vars      \* the variables' values: name -> "" (unset), a numeral or a name

VARIABLES expr, env, result
vars == <<expr, env, result>>

MaxNameRefDepth == 100
Modulus == 2^Bits
Wrap(n) == ((n + Modulus \div 2) % Modulus) - Modulus \div 2
Unsigned(n) == n % Modulus
OneIf(b) == IF b THEN 1 ELSE 0

\* A variable holds text; a number assigned is kept as one.
Number(n) == [is |-> "number", n |-> n]
Text(s) == [is |-> "text", s |-> s]
Atoi(v) == IF v.is = "number" THEN v.n
           ELSE IF v.s \in DOMAIN NumberOf THEN NumberOf[v.s] ELSE 0

Worth(n, e) == [val |-> n, env |-> e, err |-> ""]
Error(what, e) == [val |-> 0, env |-> e, err |-> what]

\* Go's division and remainder go towards zero.
Abs(n) == IF n < 0 THEN -n ELSE n
Quo(x, y) == IF (x < 0) = (y < 0) THEN Abs(x) \div Abs(y) ELSE -(Abs(x) \div Abs(y))
Rem(x, y) == x - y * Quo(x, y)

RECURSIVE IntPow(_, _, _), FollowVars(_, _, _), Eval(_, _)

(* intPow, with p as the product so far: squares, and no check of b's sign. *)
IntPow(a, b, p) ==
    IF b <= 0 THEN p
    ELSE IntPow(Wrap(a * a), b \div 2, IF b % 2 = 1 THEN Wrap(p * a) ELSE p)

(* A shift by uint(y): a negative y is a huge number. *)
Shl(x, y) == IF y < 0 \/ y >= Bits THEN 0 ELSE Wrap(x * 2^y)
Shr(x, y) == IF y < 0 \/ y >= Bits THEN (IF x < 0 THEN -1 ELSE 0) ELSE x \div 2^y

(* binArit, and assgnArit's operators: the same but for the =. *)
BinArit(op, x, y) ==
    CASE op = "+" -> Wrap(x + y) [] op = "-" -> Wrap(x - y) [] op = "*" -> Wrap(x * y)
      [] op = "/" -> Wrap(Quo(x, y)) [] op = "%" -> Rem(x, y)
      [] op = "**" -> IntPow(x, y, 1)
      [] op = "==" -> OneIf(x = y) [] op = "!=" -> OneIf(x # y)
      [] op = "<" -> OneIf(x < y) [] op = ">" -> OneIf(x > y)
      [] op = "<=" -> OneIf(x <= y) [] op = ">=" -> OneIf(x >= y)
      [] op = "&" -> Wrap(Unsigned(x) & Unsigned(y))
      [] op = "|" -> Wrap(Unsigned(x) | Unsigned(y))
      [] op = "^" -> Wrap(Unsigned(x) ^^ Unsigned(y))
      [] op = "<<" -> Shl(x, y) [] op = ">>" -> Shr(x, y)
      [] op = "&&" -> OneIf(x # 0 /\ y # 0) [] op = "||" -> OneIf(x # 0 \/ y # 0)
      [] op = "," -> y

Applied(op, x, y, e) ==
    CASE op = "^^" -> Error("unsupported", e)
      [] op \in {"/", "%"} /\ y = 0 -> Error("division by zero", e)
      [] OTHER -> Worth(BinArit(op, x, y), e)

OperatorOf == [a \in Assigns \ {"="} |->
                 CHOOSE op \in UNION {Levels[n] : n \in DOMAIN Levels} : op \o "=" = a]

(* A name is replaced by its value while that is a name, up to the limit.   *)
FollowVars(w, e, i) ==
    IF w \notin DOMAIN e THEN Atoi(Text(w))
    ELSE IF e[w] = Text("") \/ i + 1 >= MaxNameRefDepth THEN 0
    ELSE IF e[w].is = "number" THEN e[w].n
    ELSE FollowVars(e[w].s, e, i + 1)

\* w++ and the like; old is what the variable holds.
StepName(post, op, w, old, e) ==
    Worth(IF post THEN old ELSE Wrap(old + op), [e EXCEPT ![w] = Number(Wrap(old + op))])

SignOf(op, v) ==
    IF v.err # "" THEN v
    ELSE [v EXCEPT !.val = CASE op = "!" -> OneIf(@ = 0) [] op = "~" -> -1 - @
                             [] op = "+" -> @ [] op = "-" -> Wrap(-@)]

Assign(w, v) == IF v.err # "" THEN v ELSE Worth(v.val, [v.env EXCEPT ![w] = Number(v.val)])

AssignOp(op, w, old, v) ==
    IF op = "=" \/ v.err # "" THEN Assign(w, v)
    ELSE Assign(w, Applied(OperatorOf[op], old, v.val, v.env))

OneOf(c, then, else) == IF c.err # "" THEN c ELSE Eval(IF c.val = 1 THEN then ELSE else, c.env)

Both(op, l, r) == IF l.err # "" THEN l ELSE IF r.err # "" THEN r ELSE Applied(op, l.val, r.val, r.env)
BothOf(op, l, y) == Both(op, l, Eval(y, l.env))

(* Arithm *)
Eval(x, e) ==
    CASE x.k = "word" -> Worth(FollowVars(x.w, e, 0), e)
      [] x.k = "paren" -> Eval(x.x, e)
      [] x.k \in {"pre", "post"} /\ x.op \in StepOps ->
           IF x.x.k # "word" THEN Error("panic", e)
           ELSE IF x.x.w \notin DOMAIN e THEN Error("not a name", e)
           ELSE StepName(x.k = "post", IF x.op = "++" THEN 1 ELSE -1, x.x.w, Atoi(e[x.x.w]), e)
      [] x.k = "pre" /\ x.op \notin StepOps -> SignOf(x.op, Eval(x.x, e))
      [] x.k = "bin" /\ x.op \in Assigns -> AssignOp(x.op, x.x.w, Atoi(e[x.x.w]), Eval(x.y, e))
      [] x.k = "bin" /\ x.op = "?" -> OneOf(Eval(x.x, e), x.y.x, x.y.y)
      [] x.k = "bin" /\ x.op \notin Assigns \union {"?"} -> BothOf(x.op, Eval(x.x, e), x.y)

---------------------------------------------------------------------------
NoResult == [err |-> "none"]

Init ==
  /\ expr \in Exprs
  /\ env \in Vars
  /\ result = NoResult

ValueOf(tree) == IF tree.err # "" THEN Error("syntax", env) ELSE Eval(tree.x, env)

(* A (( )) command: parsed, then evaluated. *)
Evaluate ==
  /\ result = NoResult
  /\ result' = ValueOf(ParseArithm(expr))
  /\ UNCHANGED <<expr, env>>

Next == Evaluate
Spec == Init /\ [][Next]_vars
=============================================================================
