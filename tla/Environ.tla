------------------------------ MODULE Environ ------------------------------
(* The variables of the shell interpreter: values whose lists are Go slices *)
(* (kish-sh/expand/environ.go), and the chain of overlays that scopes them  *)
(* (kish-sh/interp/vars.go). A string is a sequence of letters. A list is a *)
(* slice: the number of its backing array and a length; the arrays are in a *)
(* heap that all shells of the process share, as goroutines do.             *)
EXTENDS Naturals, Sequences, FiniteSets, FiniteSetsExt

CONSTANT VarNames

MaxNameRefDepth == 100

(* A variable; unset and undeclared in every respect at first. *)
Unset == [set |-> FALSE, local |-> FALSE, exported |-> FALSE, readonly |-> FALSE,
          kind |-> "Unknown", str |-> <<>>, list |-> [arr |-> 0, len |-> 0]]

StringVar(s) == [Unset EXCEPT !.set = TRUE, !.kind = "String", !.str = s]

ListVar(l) == [Unset EXCEPT !.set = TRUE, !.kind = "Indexed", !.list = l]

Declared(v) ==
    v.set \/ v.local \/ v.exported \/ v.readonly \/ v.kind # "Unknown"

---------------------------------------------------------------------------
(* Slices. *)

Elements(heap, l) == SubSeq(heap[l.arr + 1], 1, l.len)

NilSlice == [arr |-> 0, len |-> 0]

(* heap[1] is the array of the nil slice. *)
EmptyHeap == << <<>> >>

(* make and a literal: an array just as long as its elements. *)
MakeSlice(heap, xs) ==
    [heap |-> Append(heap, xs), list |-> [arr |-> Len(heap), len |-> Len(xs)]]

(* append: in place while the capacity allows, else into an array of twice *)
(* the capacity or of what is needed.                                      *)
AppendSlice(heap, l, xs) ==
    LET array == heap[l.arr + 1]
        need  == l.len + Len(xs)
        cap   == Len(array)
        grown == IF 2 * cap >= need THEN 2 * cap ELSE need
        At(i) == IF i <= l.len THEN array[i]
                 ELSE IF i <= need THEN xs[i - l.len]
                 ELSE IF i <= cap THEN array[i] ELSE <<>>
    IN  IF xs = <<>> THEN [heap |-> heap, list |-> l]
        ELSE IF need <= cap
        THEN [heap |-> [heap EXCEPT ![l.arr + 1] = [i \in 1..cap |-> At(i)]],
              list |-> [l EXCEPT !.len = need]]
        ELSE [heap |-> Append(heap, [i \in 1..grown |-> At(i)]),
              list |-> [arr |-> Len(heap), len |-> need]]

(* l[i] = x, on the array that every copy of the slice shares. *)
StoreAt(heap, l, i, x) == [heap EXCEPT ![l.arr + 1] = [@ EXCEPT ![i] = x]]

ValueOf(heap, v) ==
    CASE v.kind = "String" -> v.str
      [] v.kind = "Indexed" /\ v.list.len > 0 -> Elements(heap, v.list)[1]
      [] OTHER -> <<>>

---------------------------------------------------------------------------
(* The chain of overlays, the process's environment first.                 *)

NoValues == [n \in {} |-> Unset]

Overlay(func) == [func |-> func, vals |-> NoValues]

Own(chain, i, n) ==
    IF n \in DOMAIN chain[i].vals THEN chain[i].vals[n] ELSE Unset

Get(chain, n) ==
    LET holders == {i \in DOMAIN chain : n \in DOMAIN chain[i].vals}
    IN  IF holders = {} THEN Unset ELSE Own(chain, Max(holders), n)

(* Set passes a variable that is local neither here nor there on to the     *)
(* parent, scope by scope, as long as the scopes are functions'.            *)
SetLevel(chain, n, v) ==
    Max({i \in DOMAIN chain :
            ~ chain[i].func \/ v.local \/ Own(chain, i, n).local})

Store(chain, i, n, v) ==
    [chain EXCEPT ![i].vals =
        [m \in DOMAIN @ \union {n} |-> IF m = n THEN v ELSE @[m]]]

Set(chain, n, v) ==
    LET i     == SetLevel(chain, n, v)
        prev  == Get(SubSeq(chain, 1, i), n)
        keeps == v.kind = "KeepValue"
        value == IF keeps
                 THEN [v EXCEPT !.kind = prev.kind, !.str = prev.str,
                                !.list = prev.list]
                 ELSE v
        mine  == [value EXCEPT !.local = prev.local \/ @]
    IN  IF ~ keeps /\ prev.readonly
        THEN [ok |-> FALSE, chain |-> chain]
        ELSE [ok |-> TRUE, chain |-> Store(chain, i, n, mine)]

(* Each, for a shell in the background: what is visible, in one overlay. *)
Visible(chain) == UNION {DOMAIN chain[i].vals : i \in DOMAIN chain}

NewOverlay(chain, background) ==
    IF background
    THEN << [func |-> FALSE, vals |-> [n \in Visible(chain) |-> Get(chain, n)]] >>
    ELSE Append(chain, Overlay(FALSE))

(* Resolve follows namerefs to the variable they end at, so many at most.   *)
Follow(at, chain) ==
    IF at.var.kind # "NameRef" THEN at
    ELSE [name |-> at.var.str[1], var |-> Get(chain, at.var.str[1])]

EachFollow == INSTANCE Walk WITH Step <- Follow

Resolve(chain, n, v) ==
    LET end == EachFollow!Through([name |-> n, var |-> v],
                                  [i \in 1..MaxNameRefDepth - 1 |-> chain])
    IN  CASE v.kind # "NameRef" -> [name |-> n, var |-> v]
          [] v.kind = "NameRef" /\ end.var.kind # "NameRef" -> end
          [] OTHER -> [name |-> end.var.str[1], var |-> Unset]
=============================================================================
