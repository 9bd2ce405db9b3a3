--------------------------- MODULE ArithmReference ---------------------------
(* What bash makes of an arithmetic expression, from its tokens alone: it   *)
(* splits at the operator that binds least, outside parentheses and ? :,    *)
(* and evaluates what C would.                                              *)
EXTENDS Arithm

Opens(ts, i) == Cardinality({j \in 1..i - 1 : ts[j] \in {"(", "?"}})
Closes(ts, i) == Cardinality({j \in 1..i - 1 : ts[j] \in {")", ":"}})
Outside(ts, i) == Opens(ts, i) = Closes(ts, i)

IsWordTok(t) == t \notin ArithmOps
EndsOperand(t) == IsWordTok(t) \/ t = ")" \/ t \in StepOps

\* Operators with two operands, from the loosest on.
Binds == << {","}, Assigns, {"?"}, {"||"}, {"&&"}, {"|"}, {"^"}, {"&"}, {"==", "!="},
            {"<", ">", "<=", ">="}, {"<<", ">>"}, {"+", "-"}, {"*", "/", "%"}, {"**"} >>
ToTheRight == {2, 3, 14}

\* Where to split, or 0.
SplitAt(ts) ==
    LET at(n) == {i \in 2..Len(ts) : ts[i] \in Binds[n] /\ EndsOperand(ts[i - 1]) /\ Outside(ts, i)}
        levels == {n \in DOMAIN Binds : at(n) # {}}
        loosest == CHOOSE n \in levels : \A m \in levels : n <= m
    IN  IF levels = {} THEN 0
        ELSE IF loosest \in ToTheRight
        THEN CHOOSE i \in at(loosest) : \A j \in at(loosest) : i <= j
        ELSE CHOOSE i \in at(loosest) : \A j \in at(loosest) : i >= j

Colon(ts, q) ==
    LET cs == {j \in q + 1..Len(ts) : ts[j] = ":" /\ Opens(ts, j) = Closes(ts, j) + 1}
    IN  IF cs = {} THEN 0 ELSE CHOOSE j \in cs : \A k \in cs : j <= k

\* Numbers as sets of bits.
BitsOf(n) == {i \in 0..Bits - 1 : (Unsigned(n) \div 2^i) % 2 = 1}
OfBits(s) == Wrap(FoldSet(LAMBDA i, sum : sum + 2^i, 0, s))

RECURSIVE Power(_, _), NameValue(_, _, _), Ref(_, _)
Power(a, n) == IF n = 0 THEN 1 ELSE Wrap(a * Power(a, n - 1))

\* The value of a name: that of its text; no end of it is 0.
NameValue(w, e, seen) ==
    IF w \in DOMAIN NumberOf THEN NumberOf[w]
    ELSE IF w \in seen \/ e[w] = Text("") THEN 0
    ELSE IF e[w].is = "number" THEN e[w].n
    ELSE NameValue(e[w].s, e, seen \union {w})

Arith(op, x, y) ==
    CASE op = "+" -> Wrap(x + y) [] op = "-" -> Wrap(x - y) [] op = "*" -> Wrap(x * y)
      [] op = "/" -> Wrap((IF x * y < 0 THEN -1 ELSE 1) * (Abs(x) \div Abs(y)))
      [] op = "%" -> (IF x < 0 THEN -1 ELSE 1) * (Abs(x) % Abs(y))
      [] op = "**" -> Power(x, IF y < 0 THEN 0 ELSE y)
      [] op = "&" -> OfBits(BitsOf(x) \cap BitsOf(y))
      [] op = "|" -> OfBits(BitsOf(x) \union BitsOf(y))
      [] op = "^" -> OfBits((BitsOf(x) \union BitsOf(y)) \ (BitsOf(x) \cap BitsOf(y)))
      [] op = "<<" -> OfBits({i + y : i \in BitsOf(x)} \cap 0..Bits - 1)
      [] op = ">>" -> CHOOSE n \in -(2^(Bits - 1))..2^(Bits - 1) - 1 : n * 2^y <= x /\ x < (n + 1) * 2^y
      [] op = "==" -> OneIf(x = y) [] op = "!=" -> OneIf(x # y)
      [] op = "<" -> OneIf(x < y) [] op = ">" -> OneIf(x > y)
      [] op = "<=" -> OneIf(x <= y) [] op = ">=" -> OneIf(x >= y)
      [] op = "," -> y

(* odd: the code is known to differ here - a condition that is neither 0    *)
(* nor 1, an && or || that spares an error or an effect, a negative power   *)
(* or shift, a step or an assignment on top of a name's name, ++ on no name.*)
V(val, e, odd) == [val |-> val, env |-> e, err |-> "", odd |-> odd]
Bad(what, r) == [val |-> 0, env |-> r.env, err |-> what, odd |-> r.odd]

\* r after l: what went wrong or was odd in l counts.
After(l, r) == IF l.err # "" THEN l ELSE [r EXCEPT !.odd = @ \/ l.odd]

Two(op, x, y, r) ==
    IF op \in {"/", "%"} /\ y = 0 THEN Bad("division by zero", r)
    ELSE IF y \notin (CASE op = "**" -> Nat [] op \in {"<<", ">>"} -> 0..Bits - 1 [] OTHER -> Int) THEN V(0, r.env, TRUE)
    ELSE V(Arith(op, x, y), r.env, r.odd)

Assigned(name, op, r, e) ==
    LET v == IF op = "=" THEN r ELSE Two(OperatorOf[op], NameValue(name, e, {}), r.val, r)
        odd == v.odd \/ (op # "=" /\ e[name].is = "text" /\ e[name].s \in DOMAIN e)
    IN  IF r.err # "" THEN r ELSE IF v.err # "" THEN [v EXCEPT !.odd = odd]
        ELSE V(v.val, [v.env EXCEPT ![name] = Number(v.val)], odd)

Stepped(name, op, e, post) ==
    LET old == NameValue(name, e, {})
        new == Wrap(IF op = "++" THEN old + 1 ELSE old - 1)
    IN  V(IF post THEN old ELSE new, [e EXCEPT ![name] = Number(new)],
          e[name].is = "text" /\ e[name].s \in DOMAIN e)

\* What is no expression: nothing is evaluated, whatever e is.
Syntax(e) == Bad("syntax", V(0, e, FALSE))
Left(ts, i) == SubSeq(ts, 1, i - 1)
Right(ts, i) == SubSeq(ts, i + 1, Len(ts))

\* cond ? then : else, with both branches read after the condition.
Chosen(l, then, else) ==
    IF "syntax" \in {l.err, then.err, else.err} THEN Syntax(l.env)
    ELSE After([l EXCEPT !.odd = @ \/ l.val \notin {0, 1}], IF l.val # 0 THEN then ELSE else)
ChosenAt(ts, i, c, l) ==
    IF c = 0 THEN Syntax(l.env)
    ELSE Chosen(l, Ref(SubSeq(ts, i + 1, c - 1), l.env), Ref(Right(ts, c), l.env))

\* l && r and l || r: r is spared when l settles it.
Logical(op, l, r) ==
    IF "syntax" \in {l.err, r.err} THEN Syntax(l.env)
    ELSE IF l.err # "" THEN l
    ELSE IF (l.val # 0) = (op = "||")
    THEN V(OneIf(op = "||"), l.env, l.odd \/ r.err # "" \/ r.env # l.env \/ r.odd)
    ELSE IF r.err # "" THEN After(l, r) ELSE After(l, [r EXCEPT !.val = OneIf(@ # 0)])

Binary(op, l, r) ==
    IF op \in {"&&", "||"} THEN Logical(op, l, r)
    ELSE IF "syntax" \in {l.err, r.err} THEN Syntax(l.env)
    ELSE IF l.err # "" \/ r.err # "" THEN After(l, r)
    ELSE After(l, Two(op, l.val, r.val, r))
BinaryAt(ts, i, l) == Binary(ts[i], l, Ref(Right(ts, i), l.env))

SplitRef(ts, i, e) ==
    CASE ts[i] \in Assigns ->
           IF i # 2 \/ ts[1] \notin DOMAIN e THEN Syntax(e)
           ELSE Assigned(ts[1], ts[2], Ref(Right(ts, 2), e), e)
      [] ts[i] = "?" -> ChosenAt(ts, i, Colon(ts, i), Ref(Left(ts, i), e))
      [] OTHER -> BinaryAt(ts, i, Ref(Left(ts, i), e))

UnaryRef(op, u) ==
    IF u.err # "" THEN u
    ELSE [u EXCEPT !.val = CASE op = "!" -> OneIf(@ = 0) [] op = "+" -> @ [] op = "-" -> Wrap(0 - @)
                             [] op = "~" -> OfBits((0..Bits - 1) \ BitsOf(@))]

Operand(ts, n, e) ==
    CASE n = 0 -> Syntax(e)
      [] n > 0 /\ ts[1] \in SignOps -> UnaryRef(ts[1], Ref(Tail(ts), e))
      [] n > 0 /\ ts[1] \in StepOps ->
           IF n = 2 /\ ts[2] \in DOMAIN e THEN Stepped(ts[2], ts[1], e, FALSE) ELSE V(0, e, TRUE)
      [] n > 0 /\ ts[1] \notin SignOps \union StepOps /\ ts[n] \in StepOps ->
           IF n = 2 /\ ts[1] \in DOMAIN e THEN Stepped(ts[1], ts[n], e, TRUE) ELSE Syntax(e)
      [] n > 0 /\ ts[1] = "(" /\ ts[n] \notin StepOps ->
           IF ts[n] = ")" /\ \A j \in 2..n - 1 : Opens(ts, j) > Closes(ts, j)
           THEN Ref(SubSeq(ts, 2, n - 1), e) ELSE Syntax(e)
      [] OTHER -> IF n = 1 /\ IsWordTok(ts[1]) THEN V(NameValue(ts[1], e, {}), e, FALSE) ELSE Syntax(e)

Parts(ts, i, e) == IF i # 0 THEN SplitRef(ts, i, e) ELSE Operand(ts, Len(ts), e)
Ref(ts, e) == Parts(ts, SplitAt(ts), e)

MeansTheSame(r, ref) ==
    ~ref.odd => /\ r.err = ref.err
                /\ r.err = "" => r.val = ref.val
                /\ r.err # "syntax" => r.env = ref.env

---------------------------------------------------------------------------
=============================================================================
