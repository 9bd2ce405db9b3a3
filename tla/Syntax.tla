------------------------------- MODULE Syntax -------------------------------
(* The statements of the shell's grammar: syntax.Parser from tokens to      *)
(* statements, syntax.Printer from a statement to tokens, and the round the *)
(* interactive loop makes with them: a statement is recorded as it is       *)
(* printed (app.go:351) and recalled by parsing that text.                  *)
(* Words are opaque; a text is one line of tokens and the bodies of its     *)
(* here-documents, so that no two nodes are on lines of their own.          *)
EXTENDS ArithmSyntax, SequencesExt

CONSTANT Texts      \* the texts typed first

Stop == "E"                                   \* the word every << has
CaseOps == {";;", ";&", ";;&"}
Ends == {"EOF", "NL", ";", "&", "|", "&&", "||", ")"} \union CaseOps
Operators == Ends \union {"(", "((", "))", "<<", ">"}

NoCmd == [k |-> "none"]
IsNone(s) == s.cmd.k = "none" /\ s.redirs = <<>>
Stmt(cmd, redirs) == [neg |-> FALSE, bg |-> FALSE, cmd |-> cmd, redirs |-> redirs]

---------------------------------------------------------------------------
(* The parser's state: the tokens, the current one, the here-documents that *)
(* wait for their bodies, the bodies read, how many of those that wait are  *)
(* buried, the quote state and the first error; and whether a nested list   *)
(* began while one waited outside it.                                       *)

StartOf(ts) == [ts |-> Append(ts, "EOF"), i |-> 0, hd |-> <<>>, docs |-> <<>>, seen |-> 0,
                buried |-> 0, quote |-> "no", err |-> "", outside |-> FALSE]

Tok(p) == IF p.err # "" THEN "EOF" ELSE p.ts[p.i]
IsWord(p) == Tok(p) \notin Operators
Err(p, what) == IF p.err = "" THEN [p EXCEPT !.err = what] ELSE p

RECURSIVE ReadBodies(_, _), NextWord(_)

(* doHeredocs: one body after another, each to its stop word. *)
ReadBodies(p, n) ==
    IF n = 0 THEN [p EXCEPT !.hd = SubSeq(p.hd, 1, p.buried)]
    ELSE LET At(j) == p.ts[j] = Stop /\ p.ts[j - 1] = "NL" /\ p.ts[j + 1] \in {"NL", "EOF"}
             ends == {j \in p.i + 2..Len(p.ts) - 1 : At(j)}
             end == CHOOSE j \in ends : \A k \in ends : j <= k
         IN  IF p.ts[p.i] # "NL" \/ ends = {} THEN Err(p, "unclosed here-document")
             ELSE ReadBodies([p EXCEPT !.i = end + 1,
                                       !.docs = Append(@, SubSeq(p.ts, p.i + 1, end - 2))], n - 1)

(* next: newlines are one token; the first reads the bodies that wait.      *)
NextWord(p) ==
    IF p.err # "" \/ (p.i > 0 /\ p.ts[p.i] = "EOF") THEN p
    ELSE LET q == [p EXCEPT !.i = @ + 1]
         IN  IF p.i > 0 /\ p.ts[p.i] = "NL" /\ q.ts[q.i] = "NL" THEN NextWord(q)
             ELSE IF q.ts[q.i] = "NL" /\ Len(q.hd) > q.buried
             THEN ReadBodies(q, Len(q.hd) - q.buried)
             ELSE q

Got(p, t) == IF Tok(p) = t THEN NextWord(p) ELSE p
Follow(p, t, what) == IF Tok(p) = t THEN NextWord(p) ELSE Err(p, what)
FollowRsrv(p, t) == Follow(p, t, "must be followed by")
StmtEnd(p, t) == Follow(p, t, "must end with")
Matched(p, t) == Follow(p, t, IF Tok(p) = "EOF" THEN "reached EOF" ELSE "other")
StopToken(p) == Tok(p) \in Ends

PreNested(p, quote) ==
    [p EXCEPT !.buried = Len(p.hd), !.quote = quote, !.outside = @ \/ Len(p.hd) > 0]
PostNested(p, old) == [p EXCEPT !.buried = old.buried, !.quote = old.quote]

---------------------------------------------------------------------------
RECURSIVE Stmts(_, _, _, _), GetStmt(_, _, _), AndOr(_, _), GotStmtPipe(_, _, _), Pipes(_, _),
          DoRedirects(_, _), CallExpr(_, _, _), IfClauses(_, _), WordList(_, _),
          CaseItems(_, _), Patterns(_, _), CallEnd(_, _, _), CallRedirects(_, _, _)

(* stmts: gotEnd says the statement before ended with ; or &. *)
AfterStmt(r, stops, list) ==
    IF IsNone(r.s) THEN [p |-> Err(r.p, "other"), list |-> list]
    ELSE Stmts(r.p, stops, Append(list, r.s), r.ended)

Stmts(p0, stops, list, gotEnd) ==
    LET newLine == Tok(p0) = "NL"
        p == IF newLine THEN NextWord(p0) ELSE p0
        t == Tok(p)
        Out(q) == [p |-> q, list |-> list]
    IN  CASE Tok(p0) = "EOF" \/ t \in stops \/ (t = ")" /\ p.quote = "sub")
               \/ (t \in CaseOps /\ p.quote = "case") -> Out(p)
          [] OTHER ->
               IF t = "}" \/ t \in CaseOps \/ (~newLine /\ ~gotEnd) THEN Out(Err(p, "other"))
               ELSE IF t = "EOF" THEN Out(p)
               ELSE AfterStmt(GetStmt(p, TRUE, FALSE), stops, list)

StmtList(p, stops) == Stmts(p, stops, <<>>, TRUE)

NotEmpty(r) == IF r.list = <<>> THEN [r EXCEPT !.p = Err(@, "must be followed by")] ELSE r

FollowStmts(p, stops) ==
    IF Tok(p) = ";" THEN [p |-> Err(p, "must be followed by"), list |-> <<>>]
    ELSE NotEmpty(StmtList(p, stops))

(* getStmt: ! once, then pipelines joined by && and ||, then ; or &.        *)
EndStmt(a, readEnd) ==
    LET t == Tok(a.p)
    IN  IF a.p.err # "" THEN [p |-> a.p, s |-> Stmt(NoCmd, <<>>), ended |-> FALSE]
        ELSE IF ~IsNone(a.s) /\ readEnd /\ t \in {";", "&"}
        THEN [p |-> NextWord(a.p), s |-> [a.s EXCEPT !.bg = (t = "&")], ended |-> TRUE]
        ELSE [p |-> a.p, s |-> a.s, ended |-> FALSE]

WithAndOr(r, binCmd) == IF IsNone(r.s) \/ r.p.err # "" \/ binCmd THEN r ELSE AndOr(r.p, r.s)

GetStmt(p, readEnd, binCmd) ==
    LET neg == Tok(p) = "!"
        q == Got(p, "!")
        bad == neg /\ (StopToken(q) \/ Tok(q) = "!")
    IN  EndStmt(WithAndOr(GotStmtPipe(IF bad THEN Err(q, "other") ELSE q, neg, FALSE), binCmd),
                readEnd)

Binary(op, x, y) == [k |-> "binary", op |-> op, left |-> x, right |-> y]

MoreAndOr(y, op, x) ==
    IF IsNone(y.s) THEN [p |-> Err(y.p, "must be followed by"), s |-> x]
    ELSE AndOr(y.p, Stmt(Binary(op, x, y.s), <<>>))

AndOr(p, x) ==
    IF Tok(p) \notin {"&&", "||"} THEN [p |-> p, s |-> x]
    ELSE MoreAndOr(GetStmt(Got(NextWord(p), "NL"), FALSE, TRUE), Tok(p), x)

DoRedirects(p, redirs) ==
    LET op == Tok(p)
        q == NextWord(p)
        doc == IF op = "<<" THEN q.seen + 1 ELSE 0
        r == IF op = "<<" THEN [q EXCEPT !.hd = Append(@, doc), !.seen = doc] ELSE q
    IN  IF op \notin {">", "<<"} THEN [p |-> p, redirs |-> redirs]
        ELSE IF ~IsWord(q) THEN [p |-> Err(q, "must be followed by"), redirs |-> redirs]
        ELSE DoRedirects(NextWord(r), Append(redirs, [op |-> op, word |-> Tok(q), doc |-> doc]))

(* callExpr: words and redirects to the end of the command. *)
CallExpr(p, words, redirs) ==
    IF Tok(p) \in {">", "<<"} THEN CallRedirects(DoRedirects(p, redirs), words, redirs)
    ELSE IF IsWord(p) THEN CallExpr(NextWord(p), Append(words, Tok(p)), redirs)
    ELSE CallEnd(p, words, redirs)

CallEnd(p, words, redirs) ==
    [p |-> IF StopToken(p) /\ (Tok(p) # ")" \/ p.quote = "sub") THEN p ELSE Err(p, "other"),
     cmd |-> [k |-> "call", words |-> words], redirs |-> redirs]

CallRedirects(d, words, redirs) ==
    IF d.redirs = redirs THEN CallEnd(d.p, words, redirs) ELSE CallExpr(d.p, words, d.redirs)

(* ifClause, from if or elif on. *)
IfBody(b, cond, clauses) == IfClauses(b.p, Append(clauses, [cond |-> cond, body |-> b.list]))

IfCond(c, clauses) ==
    IfBody(FollowStmts(FollowRsrv(c.p, "then"), {"fi", "elif", "else"}), c.list, clauses)

ElseBody(b, clauses) ==
    [p |-> b.p, clauses |-> Append(clauses, [cond |-> <<>>, body |-> b.list])]

IfClauses(p, clauses) ==
    IF Tok(p) = "else" THEN ElseBody(FollowStmts(NextWord(p), {"fi"}), clauses)
    ELSE IF Tok(p) # "elif" /\ clauses # <<>> THEN [p |-> p, clauses |-> clauses]
    ELSE IfCond(FollowStmts(NextWord(p), {"then"}), clauses)

WordList(p, words) ==
    IF StopToken(p) THEN [p |-> p, words |-> words]
    ELSE IF IsWord(p) THEN WordList(NextWord(p), Append(words, Tok(p)))
    ELSE [p |-> Err(p, "other"), words |-> words]

(* wordIter *)
Iter(p, name, in, words) == [p |-> p, name |-> name, in |-> in, words |-> words]

IterIn(list, name) == Iter(Got(Got(list.p, ";"), "NL"), name, TRUE, list.words)

IterFrom(q, name) ==
    LET nl == Got(q, "NL")
    IN  IF Tok(q) = ";" THEN Iter(Got(NextWord(q), "NL"), name, FALSE, <<>>)
        ELSE IF Tok(nl) = "in" THEN IterIn(WordList(NextWord(nl), <<>>), name)
        ELSE IF Tok(nl) = "do" THEN Iter(nl, name, FALSE, <<>>)
        ELSE Iter(Err(nl, "must be followed by"), name, FALSE, <<>>)

WordIter(p) ==
    IterFrom(IF IsWord(p) THEN NextWord(p) ELSE Err(p, "must be followed by"), Tok(p))

NextPattern(q, all) ==
    IF Tok(q) = ")" THEN [p |-> q, pats |-> all]
    ELSE Patterns(IF Tok(q) = "|" THEN NextWord(q) ELSE Err(q, "other"), all)

Patterns(p, pats) ==
    IF Tok(p) = "EOF" THEN [p |-> p, pats |-> pats]
    ELSE NextPattern(IF IsWord(p) THEN NextWord(p) ELSE Err(p, "other"), Append(pats, Tok(p)))

(* caseItems *)
NextItem(p, item, items) ==
    IF Tok(p) \notin CaseOps THEN [p |-> p, items |-> Append(items, [item EXCEPT !.op = ";;"])]
    ELSE CaseItems(Got(NextWord(p), "NL"), Append(items, [item EXCEPT !.op = Tok(p)]))

ItemBody(b, h, items) ==
    NextItem(PostNested(b.p, h.p), [pats |-> h.pats, body |-> b.list, op |-> ""], items)

ItemPatterns(h, items) ==
    ItemBody(StmtList(NextWord(PreNested(h.p, "case")), {"esac"}), h, items)

CaseItems(p, items) ==
    IF Tok(p) \in {"EOF", "esac"} THEN [p |-> p, items |-> items]
    ELSE ItemPatterns(Patterns(Got(p, "("), <<>>), items)

(* arithmExpCmd, to the )) *)
ArithmParsed(p, end, r) ==
    IF r.err # "" THEN [p |-> Err(p, r.err), x |-> NoExpr]
    ELSE [p |-> [p EXCEPT !.i = end], x |-> r.x]

ArithmExpr(p) ==
    LET ends == {j \in p.i + 1..Len(p.ts) : p.ts[j] = "))"}
        end == CHOOSE j \in ends : \A k \in ends : j <= k
    IN  IF ends = {} THEN [p |-> Err(p, "reached EOF"), x |-> NoExpr]
        ELSE ArithmParsed(p, end, ParseArithm(SubSeq(p.ts, p.i + 1, end - 1)))

Closers == {"}", "then", "elif", "fi", "do", "done", "esac"}

Compound(q, cmd) == [p |-> q, cmd |-> cmd]

(* subshell; its quote state is what makes a ) its end. *)
SubshellEnd(b, p) ==
    Compound(Matched(PostNested(b.p, p), ")"), [k |-> "subshell", body |-> b.list])

SubshellCmd(p) == SubshellEnd(FollowStmts(NextWord(PreNested(p, "sub")), {}), p)

BlockEnd(b) == Compound(Matched(b.p, "}"), [k |-> "block", body |-> b.list])

BlockCmd(p) == BlockEnd(FollowStmts(NextWord(p), {"}"}))

ArithmEnd(a) == Compound(NextWord(a.p), [k |-> "arithm", expr |-> a.x])

IfEnd(c) == Compound(StmtEnd(c.p, "fi"), [k |-> "if", clauses |-> c.clauses])

DoBody(p) == FollowStmts(FollowRsrv(p, "do"), {"done"})

(* whileClause, until included *)
WhileEnd(b, k, cond) ==
    Compound(StmtEnd(b.p, "done"), [k |-> k, clauses |-> <<[cond |-> cond, body |-> b.list]>>])

WhileCond(c, k) == WhileEnd(DoBody(c.p), k, c.list)

WhileCmd(p) == WhileCond(FollowStmts(NextWord(p), {"do"}), Tok(p))

(* forClause and selectClause, over words *)
ForEnd(b, k, iter) ==
    Compound(StmtEnd(b.p, "done"), [k |-> k, name |-> iter.name, in |-> iter.in,
                                    words |-> iter.words, body |-> b.list])

ForIter(iter, k) == ForEnd(DoBody(iter.p), k, iter)

ForCmd(p) == ForIter(WordIter(NextWord(p)), Tok(p))

CaseEnd(items, name) ==
    Compound(StmtEnd(items.p, "esac"), [k |-> "case", name |-> name, items |-> items.items])

CaseCmd(p) ==
    LET q == NextWord(p)
        word == IF IsWord(q) THEN NextWord(q) ELSE Err(q, "must be followed by")
    IN  CaseEnd(CaseItems(Got(FollowRsrv(Got(word, "NL"), "in"), "NL"), <<>>), Tok(q))

TimeEnd(timed) ==
    Compound(timed.p, [k |-> "time", body |-> IF IsNone(timed.s) THEN <<>> ELSE <<timed.s>>])

TimeCmd(p) == TimeEnd(GotStmtPipe(NextWord(p), FALSE, FALSE))

(* funcDecl: p is at the ( after the name; the body is a whole statement. *)
FuncEnd(body, name) ==
    IF IsNone(body.s) THEN Compound(Err(body.p, "must be followed by"), NoCmd)
    ELSE Compound(body.p, [k |-> "func", name |-> name, body |-> <<body.s>>])

FuncDecl(p, name) ==
    FuncEnd(GetStmt(Got(Follow(NextWord(p), ")", "must be followed by"), "NL"), FALSE, FALSE), name)

Clause(p, t) ==
    CASE t = "{" -> BlockCmd(p)
      [] t = "(" -> SubshellCmd(p)
      [] t = "((" -> ArithmEnd(ArithmExpr(p))
      [] t = "if" -> IfEnd(IfClauses(p, <<>>))
      [] t \in {"while", "until"} -> WhileCmd(p)
      [] t \in {"for", "select"} -> ForCmd(p)
      [] t = "case" -> CaseCmd(p)
      [] t = "time" -> TimeCmd(p)
      [] t \in Closers \/ t = "!" -> Compound(Err(p, "other"), NoCmd)
      [] OTHER -> IF IsWord(p) THEN FuncDecl(NextWord(p), t) ELSE Compound(p, NoCmd)

Starters == {"{", "if", "while", "until", "for", "select", "case", "time", "!"}

WithRedirs(c, redirs) == [p |-> c.p, cmd |-> c.cmd, redirs |-> redirs]

(* gotStmtPipe: one command, by its first token. *)
Command(p, redirs) ==
    IF IsWord(p) /\ Tok(NextWord(p)) # "(" /\ Tok(p) \notin Closers \union Starters
    THEN CallExpr(NextWord(p), <<Tok(p)>>, redirs)
    ELSE WithRedirs(Clause(p, Tok(p)), redirs)

Finished(post, cmd, neg, binCmd) ==
    LET s == [Stmt(cmd, post.redirs) EXCEPT !.neg = neg]
    IN  IF IsNone(s) \/ binCmd THEN [p |-> post.p, s |-> s] ELSE Pipes(post.p, s)

LateRedirects(c, pre, neg, binCmd) ==
    LET late == pre # <<>> /\ c.cmd.k \notin {"call", "none"}
    IN  Finished(DoRedirects(IF late THEN Err(c.p, "other") ELSE c.p, c.redirs),
                 c.cmd, neg, binCmd)

AfterRedirects(pre, neg, binCmd) ==
    LateRedirects(Command(pre.p, pre.redirs), pre.redirs, neg, binCmd)

GotStmtPipe(p, neg, binCmd) == AfterRedirects(DoRedirects(p, <<>>), neg, binCmd)

(* In "! x | y" the ! is the pipeline's. *)
MorePipes(y, x) ==
    IF IsNone(y.s) THEN [p |-> Err(y.p, "must be followed by"), s |-> x]
    ELSE Pipes(y.p, [Stmt(Binary("|", [x EXCEPT !.neg = FALSE], y.s), <<>>) EXCEPT !.neg = x.neg])

Pipes(p, x) ==
    IF Tok(p) # "|" THEN [p |-> p, s |-> x]
    ELSE MorePipes(GotStmtPipe(Got(NextWord(p), "NL"), FALSE, TRUE), x)

FileOf(r) ==
    LET p == IF r.p.err = "" /\ Len(r.p.hd) > 0 THEN Err(r.p, "unclosed here-document") ELSE r.p
    IN  [err |-> p.err, stmts |-> r.list, docs |-> p.docs, outside |-> p.outside]

(* Parser.Parse; bodies the text does not reach are missing. *)
Parse(ts) ==
    FileOf(StmtList(NextWord(StartOf(ts)), {}))

Incomplete_AtCloser(ts) == Parse(ts).err \in {"reached EOF", "must end with"}

(* isIncomplete: the errors that make the loop ask for another line. *)
Incomplete(ts) == Parse(ts).err \in {"reached EOF", "must be followed by", "must end with"}

---------------------------------------------------------------------------
(* The printer's state: what is written, wantNewline, mustNewline,          *)
(* wroteSemi, pendingHdocs, firstLine, and whether the ( just written has   *)
(* no space after it.                                                       *)

PrintOf(docs) == [out |-> <<>>, want |-> FALSE, must |-> FALSE, semi |-> FALSE, hd |-> <<>>,
                  docs |-> docs, first |-> TRUE, glue |-> FALSE]

(* A ( or (( right after a ( is read as the (( of arithmetic. *)
Write(s, t) ==
    [s EXCEPT !.out = IF ~s.glue THEN Append(@, t)
                      ELSE CASE t = "(" -> Append(Front(@), "((")
                             [] t = "((" -> Front(@) \o <<"((", "(">>
                             [] OTHER -> Append(@, t),
              !.glue = FALSE]
WriteAll(s, ts) == FoldLeft(Write, s, ts)

WantsNewline(s) == s.must \/ s.want

FlushHeredocs(s) ==
    LET Body(acc, d) == acc \o <<"NL">> \o s.docs[d] \o <<"NL", Stop>>
    IN  IF s.hd = <<>> THEN s
        ELSE [s EXCEPT !.out = FoldLeft(Body, @, s.hd), !.hd = <<>>, !.must = TRUE, !.glue = FALSE]

Newline(s) ==
    [FlushHeredocs(s) EXCEPT !.out = Append(@, "NL"), !.want = FALSE, !.must = FALSE, !.glue = FALSE]

Newlines(s) ==
    IF s.first THEN [s EXCEPT !.first = FALSE] ELSE IF WantsNewline(s) THEN Newline(s) ELSE s

Semicolon(s) == IF s.semi THEN s ELSE Write(s, ";")

SemiRsrv(s, t) == Write(IF WantsNewline(s) THEN Newlines(s) ELSE Semicolon(s), t)
SemiOrNewl(s, t) == Write(IF WantsNewline(s) THEN Newline(s) ELSE Semicolon(s), t)

RECURSIVE StartsWithLparen(_), PrintStmt(_, _), PrintCmd(_, _),
          PrintList(_, _, _), PrintRest(_, _, _), PrintIf(_, _)

StartsWithLparen_NoPipe(stmt) == stmt.cmd.k \in {"subshell", "arithm"}

StartsWithLparen(stmt) ==
    \/ stmt.cmd.k \in {"subshell", "arithm"}
    \/ stmt.cmd.k = "binary" /\ StartsWithLparen(stmt.cmd.left)

(* stmtList: every statement after the first on a line of its own. *)
PrintList(s, list, sep) ==
    IF list = <<>> THEN s
    ELSE PrintRest(PrintStmt(Newlines(s), Head(list)), Tail(list), sep)

PrintRest(s, list, sep) ==
    IF list = <<>> THEN [s EXCEPT !.want = sep]
    ELSE PrintList([s EXCEPT !.want = TRUE], list, TRUE)

SeparateList(s, list) == PrintList(s, list, s.want)

NestedStmts(s, list) == SeparateList([s EXCEPT !.want = @ \/ Len(list) > 1], list)

(* stmt: the redirects that are not among the words come last. *)
Redirect(s, r) ==
    [WriteAll(s, <<r.op, r.word>>) EXCEPT !.hd = IF r.op = "<<" THEN Append(@, r.doc) ELSE @]

Ampersand(s, stmt) == IF stmt.bg THEN [Write(s, "&") EXCEPT !.semi = TRUE] ELSE s

Bang(s, stmt) == IF stmt.neg THEN Write(s, "!") ELSE s

PrintStmt(s, stmt) ==
    Ampersand(FoldLeft(Redirect, PrintCmd(Bang([s EXCEPT !.semi = FALSE], stmt), stmt.cmd),
                       stmt.redirs), stmt)

PrintElse(s, more) ==
    IF more = <<>> THEN SemiRsrv(s, "fi")
    ELSE IF more[1].cond # <<>> THEN PrintIf(SemiRsrv(s, "elif"), more)
    ELSE SemiRsrv(NestedStmts(SemiRsrv(s, "else"), more[1].body), "fi")

PrintIf(s, clauses) ==
    LET c == Head(clauses)
    IN  PrintElse(NestedStmts(SemiOrNewl(NestedStmts(s, c.cond), "then"), c.body), Tail(clauses))

CaseOp(s, op) ==
    [Write(IF WantsNewline(s) THEN [Newlines(s) EXCEPT !.want = TRUE] ELSE s, op)
     EXCEPT !.semi = TRUE]

CaseItem(s, item) ==
    LET pats == FoldLeft(LAMBDA acc, w : Append(acc, "|") \o <<w>>, <<Head(item.pats)>>, Tail(item.pats))
        open == IF Head(item.pats) = "esac" THEN <<"(">> ELSE <<>>
    IN  CaseOp(NestedStmts(WriteAll(Newlines(s), open \o pats \o <<")">>), item.body), item.op)

DoList(head, list) == SemiRsrv(NestedStmts(SemiOrNewl(head, "do"), list), "done")

PrintCmd(s, cmd) ==
    CASE cmd.k = "none" -> s
      [] cmd.k = "call" -> WriteAll(s, cmd.words)
      [] cmd.k = "block" ->
           SemiRsrv(NestedStmts([Write(s, "{") EXCEPT !.semi = TRUE], cmd.body), "}")
      [] cmd.k = "subshell" ->
           LET spaced == StartsWithLparen(cmd.body[1]) /\ Len(cmd.body) = 1
           IN  Write(Newlines(NestedStmts([Write(s, "(") EXCEPT !.glue = ~spaced], cmd.body)), ")")
      [] cmd.k = "arithm" -> WriteAll(s, <<"((">> \o PrintArithm(cmd.expr) \o <<"))">>)
      [] cmd.k = "if" -> PrintIf(Write(s, "if"), cmd.clauses)
      [] cmd.k \in {"while", "until"} ->
           DoList(NestedStmts(Write(s, cmd.k), cmd.clauses[1].cond), cmd.clauses[1].body)
      [] cmd.k \in {"for", "select"} ->
           DoList(WriteAll(s, <<cmd.k, cmd.name>> \o (IF cmd.in THEN <<"in">> ELSE <<>>) \o cmd.words),
                  cmd.body)
      [] cmd.k = "case" ->
           SemiRsrv(FoldLeft(CaseItem, [WriteAll(s, <<"case", cmd.name, "in">>)
                                        EXCEPT !.must = @ \/ cmd.items = <<>>], cmd.items), "esac")
      [] cmd.k = "binary" -> PrintStmt(Write(PrintStmt(s, cmd.left), cmd.op), cmd.right)
      [] cmd.k = "func" -> PrintStmt(WriteAll(s, <<cmd.name, "(", ")">>), cmd.body[1])
      [] cmd.k = "time" -> IF cmd.body = <<>> THEN Write(s, "time")
                           ELSE PrintStmt(Write(s, "time"), cmd.body[1])

(* Printer.Print of a statement, as nodeToString calls it. *)
Printed(stmt, docs) == FlushHeredocs(PrintList(PrintOf(docs), <<stmt>>, TRUE)).out

---------------------------------------------------------------------------
(* The round: a text of one statement is typed, and recalled as printed.    *)

VARIABLES text, parsed
vars == <<text, parsed>>

Init == text \in Texts /\ parsed = Parse(text)

Recall ==
  /\ parsed.err = "" /\ Len(parsed.stmts) = 1
  /\ text' = Printed(parsed.stmts[1], parsed.docs)
  /\ parsed' = Parse(text')

Next == Recall
Spec == Init /\ [][Next]_vars

---------------------------------------------------------------------------
\* A sign that follows no operand, and the same sign right after it.
TwoSigns(ts) ==
  \E i \in 2..Len(ts) - 1 :
    /\ ts[i] \in {"+", "-"} /\ ts[i + 1] \in {ts[i], ts[i] \o ts[i]}
    /\ ts[i - 1] \in (ArithmOps \union {"(("}) \ ({")"} \union StepOps)

(* What is recalled from the history is the command that was recorded: the  *)
(* text printed for a statement is parsed to that statement, its            *)
(* here-documents included (app.go:351-355, printer.go:1055-1478). Not when *)
(* one waits outside a nested list: the printer puts its body inside, where *)
(* the parser does not look for it (parser.go:693, printer.go:537); nor for *)
(* two signs in an expression, which become -- or ++ (printer.go:884-892).  *)
RecallsTheSame == [][~parsed.outside /\ ~TwoSigns(text) => parsed' = parsed]_vars

AskedForMore(out) == \A n \in DOMAIN out : out[n] = "NL" => Incomplete(SubSeq(out, 1, n - 1))

(* A recorded text typed line by line is never rejected before its last     *)
(* line: what ends too early asks for more (app.go:357-366). A text with a  *)
(* here-document is: its error is none that isIncomplete knows.             *)
LinesWait ==
  parsed.err = "" /\ Len(parsed.stmts) = 1 /\ parsed.docs = <<>> =>
    AskedForMore(Printed(parsed.stmts[1], parsed.docs))
=============================================================================
