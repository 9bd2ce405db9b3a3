---------------------------- MODULE MCSessions -----------------------------
(* Sessions of a few lines for TLC. *)
EXTENDS ShellSyntax, FiniteSets, TLC

Echo(w) == Cmd(<<"echo", w>>)
True  == Cmd(<<"true">>)
False == Cmd(<<"false">>)
Read  == Cmd(<<"read", "x">>)

MCScripts ==
    ("say" :> [ok |-> TRUE, body |-> <<Echo("t")>>]) @@
    ("fail" :> [ok |-> TRUE, body |-> <<Echo("t"), False>>]) @@
    ("leave" :> [ok |-> TRUE, body |-> <<Echo("t"), Cmd(<<"exit", "3">>)>>]) @@
    ("back" :> [ok |-> TRUE, body |-> <<Cmd(<<"return", "3">>), Echo("t")>>]) @@
    ("params" :> [ok |-> TRUE, body |-> <<Cmd(<<"set", "--", "k">>), Echo("t")>>]) @@
    ("garbled" :> [ok |-> FALSE, body |-> <<>>])

MCKeyboard == << << <<"1">> >>, << <<"2">> >> >>

Flag(f, rest) == CallExpr(<<>>, <<Lit(<<"set">>), Lit(f)>> \o [i \in DOMAIN rest |-> Lit(<<rest[i]>>)])

(* What the reference of control flow knows how to set up. *)
PlainSetups == {<<True>>, <<Flag(<<"-", "e">>, <<>>)>>, <<Flag(<<"-", "o">>, <<"pipefail">>)>>}

Simple == {True, False, Echo("a"), Cmd(<<"break">>), Cmd(<<"continue">>),
           Cmd(<<"return", "1">>), Cmd(<<"exit", "1">>)}

Short == {<<s>> : s \in Simple}
Bodies == Short \union {<<s, t>> : s, t \in Simple}

Level2 ==
    Simple
    \union {Block(b) : b \in Bodies} \union {Subshell(b) : b \in Bodies}
    \union {AndStmt(s, t) : s, t \in Simple} \union {OrStmt(s, t) : s, t \in Simple}
    \union {Pipe(s, t) : s, t \in Simple}
    \union {IfClause(c, b, <<Echo("e")>>) : c \in Short, b \in Bodies}
    \union {WhileClause(<<Read>>, b, FALSE) : b \in Bodies}
    \union {ForClause("i", TRUE, <<Lit(<<"1">>), Lit(<<"2">>)>>, b) : b \in Bodies}
    \union {CStyleLoop("i", 2, b) : b \in Bodies}
    \union {Negated(s) : s \in Simple}

Loop(s) == ForClause("j", TRUE, <<Lit(<<"1">>), Lit(<<"2">>)>>, <<s, Echo("b")>>)
Call1(s) == Block(<<FuncDecl("f", Block(<<s, Echo("b")>>)), Cmd(<<"f">>), Echo("c")>>)
Tested(s) == IfClause(<<s>>, <<Echo("y")>>, <<Echo("n")>>)

MCPrograms == {<<Loop(s)>> : s \in Level2} \union {<<Call1(s)>> : s \in Level2}
              \union {<<Tested(s)>> : s \in Level2}
              \union {<<Loop(Block(<<FuncDecl("f", s), Cmd(<<"f">>)>>))>> : s \in Simple}

---------------------------------------------------------------------------
(* Sessions about the rest of the shell's state: something that changes it, *)
(* in each of the places a statement can stand.                             *)

X(ws) == CallExpr(<<AssignList("x", [i \in DOMAIN ws |-> Lit(<<ws[i]>>)])>>, <<>>)
XPlus(w) == CallExpr(<<AppendTo("x", Lit(<<w>>))>>, <<>>)
XPlusList(w) == CallExpr(<<AppendList("x", <<Lit(<<w>>)>>)>>, <<>>)
Local(n, v) == DeclClause("local", {}, <<Assign(n, Lit(<<v>>))>>)
Trap(t, s) == Cmd(<<"trap", t, s>>)

StateSetups ==
    {<<X(<<"a", "b">>)>>, <<X(<<"a", "b">>), XPlusList("c")>>,
     <<DeclClause("readonly", {}, <<Assign("x", Lit(<<"r">>))>>)>>,
     <<Cmd(<<"set", "p", "q">>), FuncDecl("f", Block(<<Cmd(<<"shift">>), Echo("f")>>))>>,
     <<Cmd(<<"pushd", "work">>)>>, <<Cmd(<<"shopt", "-s", "expand_aliases">>),
       Cmd(<<"alias", "say", "echo", "s", " ">>)>>,
     <<Trap("say", "ERR")>>, <<Trap("fail", "ERR")>>, <<Trap("leave", "EXIT")>>,
     <<Trap("garbled", "ERR")>>, <<Flag(<<"-", "u">>, <<>>)>>,
     <<DeclClause("nameref", {}, <<Assign("i", Lit(<<"x">>))>>), X(<<"a">>)>>}

Mutators ==
    {Set1("x", "n"), Set1("i", "n"), X(<<"n">>), XPlus("n"), XPlusList("n"),
     Cmd(<<"unset", "x">>), FuncDecl("f", Echo("g")), Cmd(<<"alias", "say", "true">>),
     Cmd(<<"unalias", "say">>), Cmd(<<"say", "say">>), Cmd(<<"cd", "work">>),
     Cmd(<<"cd", "-">>), Cmd(<<"cd", "gone">>), Cmd(<<"dirs">>),
     Cmd(<<"popd", "-n">>), Cmd(<<"pushd", "-n", "gone">>),
     Cmd(<<"set", "--", "z">>), Cmd(<<"shift">>), Cmd(<<"shift", "-1">>),
     Cmd(<<"f", "u", "v">>), Cmd(<<"read", "x", "i">>), Cmd(<<"mapfile">>),
     Redirected(Cmd(<<"mapfile">>), <<RedirIn(<< << <<"l">> >>, << <<"m">> >> >>)>>),
     Cmd(<<"eval", "say">>), Cmd(<<"eval", "garbled">>), Cmd(<<"eval", "leave">>),
     Cmd(<<"source", "say">>), Cmd(<<"source", "params", "w">>),
     Cmd(<<"source", "back">>), Cmd(<<"source", "none">>),
     Cmd(<<"exec", "missing">>), Cmd(<<"exec", "prog">>), Cmd(<<"missing">>),
     Cmd(<<"broken">>), Cmd(<<"builtin", "cd", "work">>), Cmd(<<"command", "f">>),
     Cmd(<<"builtin", "f">>), Cmd(<<"wait", "1">>), Cmd(<<"fg">>),
     Redirected(Cmd(<<"exec">>), <<RedirOut(1)>>),
     Redirected(False, <<RedirOut(1), Dup(2, 1)>>), Redirected(Echo("r"), <<RedirFails>>),
     Redirected(Read, <<CloseIn>>), Redirected(Echo("r"), <<RedirAll>>),
     DeclClause("export", {}, <<Naked("x")>>), DeclClause("declare", {"r"}, <<Naked("x")>>),
     Local("x", "l"), ArithmCmd(TRUE), TestClause("false"), TestClause("error"),
     TimeClause(<<False>>),
     CallExpr(<<>>, <<Lit(<<"echo">>), Param("x"), AllElements("x"), Param("?"), Param("#")>>),
     CallExpr(<<Assign("x", CmdSubst(<<False>>))>>, <<>>),
     CallExpr(<<Assign("x", Lit(<<"t">>))>>, <<Lit(<<"f">>), Lit(<<"u">>)>>),
     CaseClause(Param("x"), <<[pats |-> {<<"a">>}, body |-> <<Echo("a")>>],
                              [pats |-> {<<"*">>}, body |-> <<Echo("o")>>]>>),
     ForClause("i", FALSE, <<>>, <<Echo("p")>>),
     WhileClause(<<True>>, <<Cmd(<<"exit", "0">>)>>, FALSE),
     WhileClause(<<Read>>, <<Cmd(<<"eval", "leave">>)>>, TRUE)}

MayNotEnd ==
    {SelectClause("x", <<Lit(<<"one">>), Lit(<<"two">>)>>, <<Cmd(<<"break">>)>>),
     SelectClause("x", <<Lit(<<"one">>), Lit(<<"two">>)>>, <<Echo("s")>>),
     CStyleLoop("", 0, <<Cmd(<<"break">>)>>), CStyleLoop("", 0, <<Cmd(<<"exit", "0">>)>>)}

Capture(s) == CallExpr(<<>>, <<Lit(<<"echo">>), CmdSubst(<<s>>)>>)

Places(s) ==
    {<<s>>, <<Subshell(<<s, False>>)>>, <<Pipe(s, Read)>>, <<PipeAll(True, s)>>, <<Capture(s)>>,
     <<Background(s)>>, <<Redirected(Block(<<s>>), <<RedirOut(1)>>)>>,
     <<Negated(s)>>, <<AndStmt(s, False)>>,
     <<FuncDecl("g", Block(<<Local("x", "l"), s, Cmd(<<"return", "2">>)>>)), Cmd(<<"g">>)>>,
     <<IfClause(<<s>>, <<Cmd(<<"exit", "0">>)>>, <<False>>)>>}

StateLines   == UNION {Places(s) : s \in Mutators}
EndlessLines == UNION {Places(s) : s \in MayNotEnd}

(* A statement that looks back at the status of the one before it. *)
StatusLines ==
    {<<s, t>> : s \in {True, False},
                t \in {CallExpr(<<>>, <<Lit(<<"echo">>), Param("?")>>), Cmd(<<"exit">>)}}

(* x is assigned in functions only, where it is local or for one command.   *)
ScopeLines ==
    {<<FuncDecl("g", Block(<<Local("x", "l"), s, t>>)), Cmd(<<"g">>)>> :
        s \in {Set1("x", "n"), X(<<"n">>), XPlus("n"), XPlusList("n"), Read,
               Cmd(<<"unset", "x">>), DeclClause("export", {}, <<Naked("x")>>),
               CallExpr(<<Assign("x", Lit(<<"t">>))>>, <<Lit(<<"h">>)>>)},
        t \in {False, Cmd(<<"return">>), Cmd(<<"exit", "1">>), Cmd(<<"broken">>)}}
    \union {<<FuncDecl("h", s), CallExpr(as, <<Lit(<<"h">>)>>)>> :
        as \in {<<Assign("x", Lit(<<"t">>))>>, <<AppendTo("x", Lit(<<"t">>))>>,
                <<Assign("x", Lit(<<"t">>)), Assign("x", Lit(<<"u">>))>>},
        s \in {True, Echo("h"), Cmd(<<"exit", "1">>), Local("x", "m"), Cmd(<<"missing">>)}}

DirLines ==
    {<<s, t>> : s, t \in {Cmd(<<"pushd", "work">>), Cmd(<<"pushd", "home">>),
                          Cmd(<<"pushd", "gone">>), Cmd(<<"pushd">>), Cmd(<<"popd">>),
                          Subshell(<<Cmd(<<"popd">>)>>), Cmd(<<"pushd", "work", "home">>)}}

---------------------------------------------------------------------------

Kind(k, bodies) == {[kind |-> k, body |-> b] : b \in bodies}

MCLines ==
    ("start" :> (Kind("plain", PlainSetups) \union Kind("state", StateSetups))) @@
    ("plain" :> (Kind("control", MCPrograms) \union Kind("any", StateLines)
                 \union Kind("endless", EndlessLines)
                 \union Kind("scope", ScopeLines))) @@
    ("state" :> (Kind("any", StateLines \union StatusLines) \union Kind("endless", EndlessLines)
                 \union Kind("scope", ScopeLines)
                 \union Kind("dirs", DirLines)))
=============================================================================
