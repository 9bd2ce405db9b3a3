------------------------------ MODULE MCTexts ------------------------------
(* The texts and the expressions MCShell gives Syntax and ArithmReference.  *)
EXTENDS ArithmSyntax, FiniteSets

(* Every command of the grammar, around commands of one level and of two.   *)
Leaves == {<<"a">>, <<"a", "<<", "E">>, <<"!", "a">>, <<"a", "&">>, <<"(", "a", ")">>}
Atoms == Leaves \union
  {<<"((", "n", "))">>, <<"for", "i", ";", "do", "a", ";", "done">>,
   <<"case", "w", "in", "esac">>, <<"a", "b", ">", "f">>, <<">", "f">>, <<"time">>}

End(x) == IF Last(x) = "&" THEN x ELSE Append(x, ";")

Around(x) ==
  {<<"{">> \o End(x) \o <<"}">>, <<"{">> \o End(x) \o <<"}", ">", "f">>,
   <<"(">> \o x \o <<")">>, <<"time">> \o x, <<"f", "(", ")">> \o x,
   <<"for", "i", "in", "a", "b", ";", "do">> \o End(x) \o <<"done">>,
   <<"case", "w", "in", "p", ")">> \o x \o <<";&", "esac">>,
   <<"b", "||">> \o x, <<"b", ">", "f", "|">> \o x, x \o <<"&">>,
   <<"((", "n", "))", "&&">> \o x}

Both(x, y) ==
  {x \o <<"&&">> \o y, x \o <<"|">> \o y,
   <<"{">> \o End(x) \o End(y) \o <<"}">>,
   <<"(">> \o End(x) \o y \o <<")">>,
   <<"if">> \o End(x) \o <<"then">> \o End(y) \o <<"fi">>,
   <<"if">> \o End(x) \o <<"then", "a", ";", "elif">> \o End(y)
     \o <<"then", "b", ";", "else">> \o End(x) \o <<"fi">>,
   <<"while">> \o End(x) \o <<"do">> \o End(y) \o <<"done">>,
   <<"case", "w", "in", "(", "esac", "|", "p", ")">> \o x \o <<";;", "q", ")">> \o y \o <<"esac">>}

Level1 == UNION {Around(x) : x \in Atoms} \union UNION {Both(x, y) : x \in Leaves, y \in Leaves}
Level2 == UNION {Around(x) : x \in Level1}
          \union UNION {Both(x, <<"a">>) \union Both(<<"a">>, x)
                        \union Both(<<"a", "<<", "E">>, x) : x \in Level1}

Words(signs, n) == UNION {[1..k -> signs] : k \in 1..n}
Signs == {"-", "+", "!", "++", "--", "(", ")"}
Commands ==
  {<<"((", "x">> \o m \o <<"y", "))">> : m \in Words(Signs \union {"?", ":", "=", ",", "**"}, 2)}
  \union {<<"((">> \o m \o <<"y", "))">> : m \in Words(Signs, 3)}

\* The bodies of the here-documents follow the line.
WithBodies(x) ==
  LET n == Cardinality({i \in DOMAIN x : x[i] = "<<"})
  IN  x \o FlattenSeq([i \in 1..n |-> <<"NL", IF i = 1 THEN "x" ELSE "y", "NL", "E">>])

MCTexts == {WithBodies(x) : x \in Commands \union {<<"(">> \o x \o <<")">> : x \in Commands}
                                  \union Atoms \union Level1 \union Level2}

---------------------------------------------------------------------------
(* Every pair of operators, with and without parentheses and signs; three   *)
(* of those that differ most; and every short word over what is ambiguous.  *)
Ops == (UNION {Levels[n] : n \in DOMAIN Levels}) \ {"^^", "?"}
Few == {"-", "**", "&&", "&", "=", "==", ",", "+="}

MCExprs ==
  Words({"x", "1", "-", "++", "(", ")", "?", ":", "**", "="}, 3)
  \union {<<"x", o1, "2", o2, "y">> : o1 \in Ops, o2 \in Ops}
  \union {<<"2", o1, "x", o2, "3">> : o1 \in Few, o2 \in Ops}
  \union {<<"x", o1, "2", o2, "y", o3, "3">> : o1 \in Few, o2 \in Few, o3 \in Few}
  \union {<<"x", "==", "y", "?", "x", o1, "2", ":", "y", o2, "1">> : o1 \in Few, o2 \in Few}
  \union {<<p, "x", o, q, "y">> : p \in SignOps \union StepOps, q \in SignOps \union StepOps, o \in Ops}
  \union {<<"(", "x", o1, "2", ")", o2, "y">> : o1 \in Ops, o2 \in Ops}
  \union {<<"x", o1, "(", "2", o2, "y", ")">> : o1 \in Ops, o2 \in Ops}

\* Numbers, a name that names another, a circle of names, nothing.
MCVars ==
  LET Text(s) == [is |-> "text", s |-> s]
  IN  {[x |-> Text("7"), y |-> Text("2")], [x |-> Text("y"), y |-> Text("3")],
       [x |-> Text("y"), y |-> Text("x")], [x |-> Text("0"), y |-> Text("")]}
=============================================================================
