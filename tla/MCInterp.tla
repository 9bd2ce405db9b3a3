----------------------------- MODULE MCInterp ------------------------------
(* What the sessions of MCSessions are checked for beside Interp's own      *)
(* properties.                                                              *)
EXTENDS Interp

Ref == INSTANCE ShellReference

(* The words that reach the terminal, the status and whether the shell is   *)
(* to exit are those of the reference, for every program that is not odd;   *)
(* only a return that is refused has a status of its own.                   *)
ControlFlow ==
    LET b   == line.before
        ref == Ref!RefList(Ref!Started(b.opts, b.funcs, Len(b.feeds[Keyboard])),
                           line.body, "no")
        new == Written(shell, Len(b.log), Tty)
    IN  line.kind = "control" /\ ~ ref.odd =>
          /\ ref.out = [i \in DOMAIN new |-> new[i].words[1][1]]
          /\ shell.exit.code = IF ref.code = Ref!Refused THEN 1 ELSE ref.code
          /\ (ref.oc = "exit") = shell.exit.exiting

(* The assignments before a command that are not undone: of two to one name *)
(* the second is put back last, to the value of the first (runner.go:491),  *)
(* and += on a list stores into the array the saved list shares             *)
(* (vars.go:340).                                                           *)
NotUndone(st, before) ==
    /\ st.cmd.c = "call" /\ st.cmd.args # <<>>
    /\ \/ \E i, j \in DOMAIN st.cmd.as : i # j /\ st.cmd.as[i].n = st.cmd.as[j].n
       \/ \E i \in DOMAIN st.cmd.as :
            st.cmd.as[i].app /\ Get(before.env, st.cmd.as[i].n).kind = "Indexed"

(* Locals and assignments for one command end with their function or their  *)
(* command, on whatever way it is left, but for the two kinds that are not  *)
(* undone: the x of the session is untouched, down to what a list holds;    *)
(* only a read-only x, which no local can hide, may have been exported.     *)
ScopesClose ==
    LET Held(r) == LET v == Get(r.env, "x")
                   IN  << v.set, v.kind, v.str, v.list, Elements(r.heap, v.list),
                          v.exported /\ ~ v.readonly >>
    IN  line.kind = "scope" /\ (\A st \in Range(line.body) : ~ NotUndone(st, line.before))
          => Held(shell) = Held(line.before)

(* pushd and popd move the shell and the stack together; one that fails     *)
(* moves neither.                                                           *)
DirStackFollows ==
    line.kind = "dirs" /\ Last(line.before.dirStack) = line.before.dir
       => /\ Last(shell.dirStack) = shell.dir
          /\ Range(shell.dirStack) \subseteq Dirs

(* $?, or an exit without a status: the status of the statement before. *)
LooksBack(st) ==
    st.cmd.c = "call" /\ st.cmd.args # <<>>
    /\ LET arg(i) == st.cmd.args[i] IN
       \/ \E i \in DOMAIN st.cmd.args : arg(i).w = "param" /\ arg(i).n = "?"
       \/ Len(st.cmd.args) = 1 /\ arg(1) = Lit(<<"exit">>)

(* A trap that parses changes nothing of what its shell does but what it    *)
(* writes: the same line without traps ends with the same status and says   *)
(* the same. Not so where a trap on EXIT, which runs after every statement  *)
(* that is typed, is followed by a statement that looks back: the status it *)
(* sees is that of the trap (runner.go:326, 857), as only the status of the *)
(* Runner is put back.                                                      *)
TrapsAreTransparent ==
    LET b     == line.before
        Other(entry) == entry.words # << <<"t">> >>
        Said(r) == SelectSeq(Written(r, Len(b.log), Tty), Other)
        Agrees(bare) == bare.exit = shell.exit /\ Said(bare) = Said(shell)
        Hidden == b.callbackExit = ""
                  \/ \A i \in 2..Len(line.body) : ~ LooksBack(line.body[i])
    IN  lines = 2 /\ Hidden
        /\ (\E t \in {b.callbackErr, b.callbackExit} : t # "" /\ Scripts[t].ok)
           => Agrees(RunLine([b EXCEPT !.callbackErr = "", !.callbackExit = ""], line.body).r)
=============================================================================
