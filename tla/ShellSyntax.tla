---------------------------- MODULE ShellSyntax ----------------------------
(* The part of the syntax tree the interpreter's model runs: one operator   *)
(* for each node of kish-sh/syntax/nodes.go. A word is one expansion; how   *)
(* the parts of a word are split and joined is left out.                    *)
EXTENDS Naturals, Sequences

(* Words. *)
Lit(v)        == [w |-> "lit", v |-> v]
Param(n)      == [w |-> "param", n |-> n]
AllElements(n) == [w |-> "all", n |-> n]
CmdSubst(b)   == [w |-> "subst", body |-> b]

(* Assignments: n=word, n+=word, n=(words), or the bare name of a declare. *)
Assign(n, v)    == [n |-> n, kind |-> "str", app |-> FALSE, words |-> <<v>>]
AppendTo(n, v)  == [n |-> n, kind |-> "str", app |-> TRUE, words |-> <<v>>]
AssignList(n, ws) == [n |-> n, kind |-> "list", app |-> FALSE, words |-> ws]
AppendList(n, ws) == [n |-> n, kind |-> "list", app |-> TRUE, words |-> ws]
Naked(n)        == [n |-> n, kind |-> "naked", app |-> FALSE, words |-> <<>>]

(* Redirections: of stdin, of one output, of both, or of one onto another. *)
RedirIn(lines) == [op |-> "in", n |-> 0, arg |-> 0, lines |-> lines]
RedirOut(n)    == [op |-> "out", n |-> n, arg |-> 0, lines |-> <<>>]
RedirAll       == [op |-> "all", n |-> 1, arg |-> 0, lines |-> <<>>]
Dup(n, m)      == [op |-> "dup", n |-> n, arg |-> m, lines |-> <<>>]
CloseIn        == [op |-> "closein", n |-> 0, arg |-> 0, lines |-> <<>>]
RedirFails     == [op |-> "bad", n |-> 1, arg |-> 0, lines |-> <<>>]

(* Statements and commands. *)
Stmt(c)       == [cmd |-> c, neg |-> FALSE, bg |-> FALSE, redirs |-> <<>>]
Negated(s)    == [s EXCEPT !.neg = TRUE]
Background(s) == [s EXCEPT !.bg = TRUE]
Redirected(s, rds) == [s EXCEPT !.redirs = rds]

CallExpr(as, args) == Stmt([c |-> "call", as |-> as, args |-> args])
Block(b)      == Stmt([c |-> "block", body |-> b])
Subshell(b)   == Stmt([c |-> "subshell", body |-> b])
AndStmt(x, y) == Stmt([c |-> "and", x |-> x, y |-> y])
OrStmt(x, y)  == Stmt([c |-> "or", x |-> x, y |-> y])
Pipe(x, y)    == Stmt([c |-> "pipe", x |-> x, y |-> y, all |-> FALSE])
PipeAll(x, y) == Stmt([c |-> "pipe", x |-> x, y |-> y, all |-> TRUE])
IfClause(cond, then, else) ==
    Stmt([c |-> "if", cond |-> cond, body |-> then, else |-> else])
WhileClause(cond, do, until) ==
    Stmt([c |-> "while", cond |-> cond, body |-> do, until |-> until])
ForClause(n, in, items, do) ==
    Stmt([c |-> "for", n |-> n, in |-> in, items |-> items, body |-> do])
SelectClause(n, items, do) ==
    Stmt([c |-> "select", n |-> n, items |-> items, body |-> do])
(* for ((n = 0; n < bound; n++)), or for ((;;)) without a name. *)
CStyleLoop(n, bound, do) ==
    Stmt([c |-> "cstyle", n |-> n, bound |-> bound, body |-> do])
FuncDecl(n, b) == Stmt([c |-> "func", n |-> n, body |-> b])
CaseClause(word, items) == Stmt([c |-> "case", word |-> word, cases |-> items])
ArithmCmd(zero) == Stmt([c |-> "arithm", zero |-> zero])
TestClause(result) == Stmt([c |-> "test", result |-> result])
DeclClause(variant, opts, args) ==
    Stmt([c |-> "decl", variant |-> variant, opts |-> opts, as |-> args])
TimeClause(b) == Stmt([c |-> "time", body |-> b])

(* Shorthands. *)
Cmd(words)  == CallExpr(<<>>, [i \in DOMAIN words |-> Lit(<<words[i]>>)])
Set1(n, v)  == CallExpr(<<Assign(n, Lit(<<v>>))>>, <<>>)
=============================================================================
