---------------------------- MODULE BudgetStore -----------------------------
(***************************************************************************)
(* ~/.aish/budget.json and those who rewrite it: ki:budget, ki:killswitch  *)
(* (cost_builtins.go) and POST /api/costs (web_server.go), in any number   *)
(* of shells and web requests at once.  Each one loads the whole file,     *)
(* changes its own fields, and writes the whole file back with             *)
(* os.WriteFile, which truncates the file before it writes: three steps,   *)
(* no lock, no rename.  A guard may read the file between any two of them. *)
(***************************************************************************)
EXTENDS Budget

CONSTANTS Writers,      \* the goroutines and processes that run updates
          Edits,        \* the updates users ask for
          MaxUpdates,   \* bound: updates begun
          MaxFailures   \* bound: crashes and failed writes

\* An update sets some limits and may throw the killswitch. The thresholds of
\* the run tokens have no field in any of them: they are derived.
ASSUME StoreAssumption ==
  /\ \A e \in Edits : /\ e.kill \in {"keep", "on", "off"}
                      /\ DOMAIN e.lim \subseteq LimitKeys \ {"softRun", "sparRun"}
                      /\ \A k \in DOMAIN e.lim : e.lim[k] \in Int
  /\ MaxUpdates \in Nat /\ MaxFailures \in Nat

VARIABLES
  file,       \* budget.json
  pc,         \* "idle", "loaded" or "truncated"
  edit,       \* the update a writer runs
  ov,         \* the overrides it is about to write
  wanted,     \* (history) what the updates written so far amount to
  overlap,    \* (history) an update began while another one was running
  updates,    \* (bound) updates still to begin
  failures    \* (bound) failures still to occur

vars == <<file, pc, edit, ov, wanted, overlap, updates, failures>>

\* The fields of the update replace those of the budget; a run-token ceiling
\* takes its two thresholds along.
Apply(e, old) ==
  LET derived == IF "tokensRun" \in DOMAIN e.lim THEN RunTokenLimits(e.lim["tokensRun"]) ELSE <<>>
  IN  [kill |-> IF e.kill = "keep" THEN old.kill ELSE e.kill = "on",
       lim  |-> Layer(Layer(e.lim, derived), old.lim)]

NoEdit == [kill |-> "keep", lim |-> <<>>]

-----------------------------------------------------------------------------
Init ==
  /\ file = MissingFile
  /\ pc = [w \in Writers |-> "idle"]
  /\ edit = [w \in Writers |-> NoEdit]
  /\ ov = [w \in Writers |-> NoOverrides]
  /\ wanted = NoOverrides
  /\ overlap = FALSE
  /\ updates = MaxUpdates /\ failures = MaxFailures

Finish(w) ==
  /\ pc' = [pc EXCEPT ![w] = "idle"]
  /\ edit' = [edit EXCEPT ![w] = NoEdit]
  /\ ov' = [ov EXCEPT ![w] = NoOverrides]

Load_IgnoresError(w) ==
  /\ pc[w] = "idle" /\ updates > 0
  /\ \E e \in Edits :
       /\ edit' = [edit EXCEPT ![w] = e]
       /\ ov' = [ov EXCEPT ![w] = Apply(e, file.ov)]
  /\ pc' = [pc EXCEPT ![w] = "loaded"]
  /\ overlap' = (overlap \/ \E x \in Writers : pc[x] # "idle")
  /\ updates' = updates - 1
  /\ UNCHANGED <<file, wanted, failures>>

\* The update begins: loadBudgetOverrides, then the fields in memory.
Load(w) ==
  /\ pc[w] = "idle" /\ updates > 0
  /\ Loads(file)
  /\ \E e \in Edits :
       /\ edit' = [edit EXCEPT ![w] = e]
       /\ ov' = [ov EXCEPT ![w] = Apply(e, file.ov)]
  /\ pc' = [pc EXCEPT ![w] = "loaded"]
  /\ overlap' = (overlap \/ \E x \in Writers : pc[x] # "idle")
  /\ updates' = updates - 1
  /\ UNCHANGED <<file, wanted, failures>>

\* The file cannot be read: the update is refused and changes nothing.
RefuseUpdate(w) ==
  /\ pc[w] = "idle" /\ updates > 0
  /\ ~Loads(file)
  /\ updates' = updates - 1
  /\ UNCHANGED <<file, pc, edit, ov, wanted, overlap, failures>>

Truncate_Removes(w) ==
  /\ pc[w] = "loaded"
  /\ file' = MissingFile
  /\ pc' = [pc EXCEPT ![w] = "truncated"]
  /\ UNCHANGED <<edit, ov, wanted, overlap, updates, failures>>

\* os.WriteFile opens with O_CREATE|O_TRUNC.
Truncate(w) ==
  /\ pc[w] = "loaded"
  /\ file' = EmptyFile
  /\ pc' = [pc EXCEPT ![w] = "truncated"]
  /\ UNCHANGED <<edit, ov, wanted, overlap, updates, failures>>

(* ... and writes at offset 0.  If another writer has written since the    *)
(* last truncation, a shorter text leaves the end of the longer one behind *)
(* it, which is no JSON any more.                                          *)
Write(w) ==
  /\ pc[w] = "truncated"
  /\ \/ file' = FileOf(ov[w])
     \/ file.state # "empty" /\ file # FileOf(ov[w]) /\ file' = GarbledFile
  /\ wanted' = Apply(edit[w], wanted)
  /\ Finish(w)
  /\ UNCHANGED <<overlap, updates, failures>>

\* The file cannot be opened for writing; the error is reported.
OpenFails(w) ==
  /\ pc[w] = "loaded" /\ failures > 0
  /\ failures' = failures - 1
  /\ Finish(w)
  /\ UNCHANGED <<file, wanted, overlap, updates>>

\* The write fails (a full disk); the error is reported.
WriteFails(w) ==
  /\ pc[w] = "truncated" /\ failures > 0
  /\ failures' = failures - 1
  /\ Finish(w)
  /\ UNCHANGED <<file, wanted, overlap, updates>>

\* The process is killed, or the machine stops.
Crash(w) ==
  /\ pc[w] # "idle" /\ failures > 0
  /\ failures' = failures - 1
  /\ Finish(w)
  /\ UNCHANGED <<file, wanted, overlap, updates>>

Next == \E w \in Writers :
  \/ Load(w) \/ RefuseUpdate(w) \/ Truncate(w) \/ Write(w)
  \/ OpenFails(w) \/ WriteFails(w) \/ Crash(w)

Spec == Init /\ [][Next]_vars

-----------------------------------------------------------------------------
TypeOK ==
  /\ IsBudgetFile(file)
  /\ pc \in [Writers -> {"idle", "loaded", "truncated"}]
  /\ edit \in [Writers -> Edits \cup {NoEdit}]
  /\ DOMAIN ov = Writers /\ \A w \in Writers : IsOverrides(ov[w])
  /\ IsOverrides(wanted)
  /\ overlap \in BOOLEAN
  /\ updates \in 0..MaxUpdates
  /\ failures \in 0..MaxFailures

(* As long as no update began during another one, a guard that reads the   *)
(* file at any moment, also in the middle of an update or after one that   *)
(* failed or crashed, gets the wanted budget or an error, on which it      *)
(* refuses: never the defaults, never a killswitch that was thrown and is  *)
(* off again.                                                              *)
ReadersSeeWantedOrRefuse == ~overlap /\ Loads(file) => file.ov = wanted

(* The two thresholds of a run-token ceiling are ordered below it, however *)
(* updates interleave: they are derived and written together.              *)
ThresholdsOrdered ==
  Loads(file) /\ "tokensRun" \in DOMAIN file.ov.lim /\ file.ov.lim["tokensRun"] >= 0
  => LET lim == file.ov.lim IN
       /\ {"softRun", "sparRun"} \subseteq DOMAIN lim
       /\ lim["softRun"] <= lim["sparRun"] /\ lim["sparRun"] <= lim["tokensRun"]

(* A budget that an interrupted update left unreadable stays so, and calls *)
(* stay refused, until someone repairs the file by hand: no later update   *)
(* starts over from the defaults.                                          *)
Broken == ~Loads(file) /\ \A w \in Writers : pc[w] = "idle"

BrokenStaysClosed == [](Broken => []~Loads(file))

-----------------------------------------------------------------------------
(* web_server.go: "Only fields present in the request body are changed;    *)
(* omitted fields keep their stored value."                                *)
OmittedFieldsKeepTheirValue == Loads(file) => file.ov = wanted
=============================================================================
