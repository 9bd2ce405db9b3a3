---------------------------- MODULE ArithmSyntax ----------------------------
(* The syntax of arithmetic expressions, as in (( )) and $(( )): the parser *)
(* from tokens to a tree (parser_arithm.go) and the printer back to tokens. *)
EXTENDS Naturals, Sequences, SequencesExt

NumberOf == [n \in {"0", "1", "2", "3", "7"} |->
               CASE n = "0" -> 0 [] n = "1" -> 1 [] n = "2" -> 2 [] n = "3" -> 3 [] n = "7" -> 7]

Assigns == {"=", "+=", "-=", "*=", "/=", "%=", "&=", "|=", "^=", "<<=", ">>="}
SignOps == {"!", "~", "+", "-"}
StepOps == {"++", "--"}


(* One method of the parser for each level, from the loosest on. *)
Levels ==
  << {","}, Assigns, {"?"}, {"||", "^^"}, {"&&"}, {"|"}, {"^"}, {"&"}, {"==", "!="},
     {"<", ">", "<=", ">="}, {"<<", ">>"}, {"+", "-"}, {"*", "/", "%"}, {"**"} >>

AssignLevel == 2
TernaryLevel == 3
PowerLevel == 14

ArithmOps == UNION {Levels[n] : n \in DOMAIN Levels} \union SignOps \union StepOps \union
             {":", "(", ")", "END"}

NoExpr == [k |-> "none"]
WordExpr(w) == [k |-> "word", w |-> w]
Paren(x) == [k |-> "paren", x |-> x]
Prefix(op, x) == [k |-> "pre", op |-> op, x |-> x]
Postfix(op, x) == [k |-> "post", op |-> op, x |-> x]
BinaryExpr(op, x, y) == [k |-> "bin", op |-> op, x |-> x, y |-> y]

IsArithName(x) == x.k = "word" /\ x.w \notin DOMAIN NumberOf

---------------------------------------------------------------------------
(* The parser: q holds the tokens, the current one, the expression read and *)
(* the first error, after which every token is the end.                     *)

Cur(q) == IF q.err # "" THEN "END" ELSE q.ts[q.i]
Adv(q) == IF q.ts[q.i] = "END" THEN q ELSE [q EXCEPT !.i = @ + 1]
Fail(q, what) == IF q.err = "" THEN [q EXCEPT !.err = what] ELSE q
Holding(q, x) == [q EXCEPT !.x = x]

(* x op y, or the error that one of them is missing. *)
Joined(v, op, y) ==
    IF v.x = NoExpr THEN Fail(y, "must follow")
    ELSE IF y.x = NoExpr THEN Fail(y, "must be followed by")
    ELSE Holding(y, BinaryExpr(op, v.x, y.x))

RECURSIVE Level(_, _), LeftOf(_, _), Unary(_), Value(_)

(* arithmExprBinary *)
LeftOf(v, n) ==
    IF Cur(v) \notin Levels[n] THEN v
    ELSE LeftOf(Joined(v, Cur(v), Level(Adv(v), n + 1)), n)

\* What an assignment needs on its left, and a ? before its second half.
Target(v) == IF IsArithName(v.x) THEN v ELSE Fail(v, "must follow")
AtColon(v) == IF v.x = NoExpr THEN Fail(v, "must be followed by")
              ELSE IF Cur(v) # ":" THEN Fail(v, "missing") ELSE v

Ternary(v, then) == Joined(v, "?", Joined(then, ":", Level(Adv(AtColon(then)), TernaryLevel)))

\* v is read one level down: what its own level makes of the operator after it.
AtLevel(v, n) ==
    CASE n \notin {AssignLevel, TernaryLevel, PowerLevel} -> LeftOf(v, n)
      [] Cur(v) \notin Levels[n] -> v
      [] n = PowerLevel -> Joined(v, "**", Level(Adv(v), PowerLevel))
      [] n = AssignLevel -> Joined(Target(v), Cur(v), Level(Adv(Target(v)), AssignLevel))
      [] n = TernaryLevel -> Ternary(v, Level(Adv(v), 1))

Level(q, n) == AtLevel(IF n = PowerLevel THEN Unary(q) ELSE Level(q, n + 1), n)

Prefixed(op, v) == Holding(v, Prefix(op, v.x))
Signed(op, v) == IF v.x = NoExpr THEN Fail(v, "must be followed by") ELSE Prefixed(op, v)

Unary(q) == IF Cur(q) \in SignOps THEN Signed(Cur(q), Unary(Adv(q))) ELSE Value(q)

\* A value takes a ++ or -- after it, if it is a name.
WithStep(v) ==
    IF Cur(v) \notin StepOps THEN v
    ELSE IF IsArithName(v.x) THEN Holding(Adv(v), Postfix(Cur(v), v.x))
    ELSE Fail(v, "must follow")

InParens(v) == IF v.x = NoExpr THEN Fail(v, "must be followed by")
               ELSE IF Cur(v) # ")" THEN Fail(v, "without matching")
               ELSE WithStep(Holding(Adv(v), Paren(v.x)))

Value(q) ==
    CASE Cur(q) \in StepOps ->
           IF Cur(Adv(q)) \in ArithmOps THEN Fail(Adv(q), "must be followed by")
           ELSE Prefixed(Cur(q), Value(Adv(q)))
      [] Cur(q) = "(" -> InParens(Level(Adv(q), 1))
      [] Cur(q) = ":" -> Fail(q, "missing")
      [] Cur(q) \notin ArithmOps -> WithStep(Holding(Adv(q), WordExpr(Cur(q))))
      [] OTHER -> Holding(q, NoExpr)

(* followArithm and arithmEnd: the expression between (( and )). *)
AtEnd(v) == IF v.x = NoExpr THEN Fail(v, "must be followed by")
            ELSE IF Cur(v) # "END" THEN Fail(v, "without matching") ELSE v
ErrAndTree(v) == [err |-> v.err, x |-> v.x]

ParseArithm(ts) ==
    ErrAndTree(AtEnd(Level([ts |-> Append(ts, "END"), i |-> 1, err |-> "", x |-> NoExpr], 1)))

---------------------------------------------------------------------------
(* The printer. No space follows a prefix, so that two signs are one token; *)
(* a binary operator has spaces (the comma one).                            *)

Touching(sign, ts) ==
    IF sign \in {"+", "-"} /\ ts[1] \in {sign, sign \o sign}
    THEN <<sign \o sign>> \o (IF ts[1] = sign THEN <<>> ELSE <<sign>>) \o Tail(ts)
    ELSE <<sign>> \o ts

RECURSIVE PrintArithm(_)

(* arithmExprRecurse *)
PrintArithm(x) ==
    CASE x.k = "word" -> <<x.w>>
      [] x.k = "paren" -> <<"(">> \o PrintArithm(x.x) \o <<")">>
      [] x.k = "pre" -> Touching(x.op, PrintArithm(x.x))
      [] x.k = "post" -> PrintArithm(x.x) \o <<x.op>>
      [] x.k = "bin" -> PrintArithm(x.x) \o <<x.op>> \o PrintArithm(x.y)
=============================================================================
