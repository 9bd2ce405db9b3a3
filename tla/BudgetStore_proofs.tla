------------------------- MODULE BudgetStore_proofs -------------------------
(***************************************************************************)
(* budget.json under any number of writers, updates, crashes and failed    *)
(* writes, and for every kind of update users can ask for.                 *)
(***************************************************************************)
EXTENDS BudgetStore, TLAPS

LEMMA NothingIsSet == DOMAIN <<>> = {}
OBVIOUS

LEMMA NoOverridesTyped == IsOverrides(NoOverrides)
BY NothingIsSet DEF IsOverrides, NoOverrides

LEMMA FilesTyped ==
  /\ IsBudgetFile(MissingFile) /\ IsBudgetFile(EmptyFile) /\ IsBudgetFile(GarbledFile)
  /\ \A o : IsOverrides(o) => IsBudgetFile(FileOf(o))
BY NoOverridesTyped DEF IsBudgetFile, MissingFile, EmptyFile, GarbledFile, FileOf

\* Limits as a budget may hold them.
IsLimits(l) == DOMAIN l \subseteq LimitKeys /\ \A k \in DOMAIN l : l[k] \in Int

\* The fields one layer leaves out come from the one below.
LEMMA LayerSays ==
  ASSUME NEW top, NEW base
  PROVE  /\ DOMAIN Layer(top, base) = DOMAIN top \cup DOMAIN base
         /\ \A k \in DOMAIN top : Layer(top, base)[k] = top[k]
         /\ \A k \in DOMAIN base \ DOMAIN top : Layer(top, base)[k] = base[k]
BY DEF Layer

LEMMA LayerTyped ==
  ASSUME NEW top, NEW base, IsLimits(top), IsLimits(base)
  PROVE  IsLimits(Layer(top, base))
<1>1. ASSUME NEW k \in DOMAIN Layer(top, base)
      PROVE  k \in LimitKeys /\ Layer(top, base)[k] \in Int
  <2>1. CASE k \in DOMAIN top
    <3>1. Layer(top, base)[k] = top[k]
      BY <2>1, LayerSays
    <3> QED BY <2>1, <3>1 DEF IsLimits
  <2>2. CASE k \in DOMAIN base \ DOMAIN top
    <3>1. Layer(top, base)[k] = base[k]
      BY <2>2 DEF Layer
    <3> QED BY <2>2, <3>1 DEF IsLimits
  <2> QED BY <1>1, <2>1, <2>2, LayerSays
<1> QED BY <1>1 DEF IsLimits

\* The thresholds of a ceiling: 80% and 90% of it, rounded towards zero.
LEMMA ThresholdsDerived ==
  ASSUME NEW hard \in Int
  PROVE  /\ DOMAIN RunTokenLimits(hard) = {"tokensRun", "softRun", "sparRun"}
         /\ RunTokenLimits(hard)["tokensRun"] = hard
         /\ RunTokenLimits(hard)["softRun"] = Quo(hard * 80, 100)
         /\ RunTokenLimits(hard)["sparRun"] = Quo(hard * 90, 100)
         /\ Quo(hard * 80, 100) \in Int /\ Quo(hard * 90, 100) \in Int
         /\ hard >= 0 => /\ Quo(hard * 80, 100) <= Quo(hard * 90, 100)
                         /\ Quo(hard * 90, 100) <= hard
<1>1. hard * 80 \in Int /\ hard * 90 \in Int
  OBVIOUS
<1>2. \A a \in Int : Quo(a, 100) \in Int
  BY DEF Quo
<1>3. hard >= 0 => /\ Quo(hard * 80, 100) <= Quo(hard * 90, 100)
                   /\ Quo(hard * 90, 100) <= hard
  BY DEF Quo
<1> QED BY <1>1, <1>2, <1>3 DEF RunTokenLimits

LEMMA ThresholdsTyped ==
  ASSUME NEW hard \in Int
  PROVE  IsLimits(RunTokenLimits(hard))
<1> DEFINE lim == RunTokenLimits(hard)
<1>1. /\ DOMAIN lim = {"tokensRun", "softRun", "sparRun"}
      /\ lim["tokensRun"] \in Int /\ lim["softRun"] \in Int /\ lim["sparRun"] \in Int
  BY ThresholdsDerived
<1> QED BY <1>1 DEF IsLimits, LimitKeys

\* What an update derives from its run-token ceiling, if it sets one.
Derived(e) == IF "tokensRun" \in DOMAIN e.lim THEN RunTokenLimits(e.lim["tokensRun"]) ELSE <<>>

LEMMA DerivedTyped ==
  ASSUME NEW e \in Edits
  PROVE  IsLimits(Derived(e))
<1>1. CASE "tokensRun" \in DOMAIN e.lim
  <2>1. e.lim["tokensRun"] \in Int
    BY <1>1, StoreAssumption
  <2> QED BY <1>1, <2>1, ThresholdsTyped DEF Derived
<1>2. CASE "tokensRun" \notin DOMAIN e.lim
  BY <1>2, NothingIsSet DEF Derived, IsLimits
<1> QED BY <1>1, <1>2

\* A budget stays one under every update.
LEMMA ApplyTyped ==
  ASSUME NEW e \in Edits, NEW old, IsOverrides(old)
  PROVE  IsOverrides(Apply(e, old))
<1>1. /\ Apply(e, old).lim = Layer(Layer(e.lim, Derived(e)), old.lim)
      /\ Apply(e, old).kill \in BOOLEAN
  BY DEF Apply, Derived, IsOverrides
<1>2. IsLimits(e.lim) /\ IsLimits(old.lim)
  BY StoreAssumption DEF IsLimits, IsOverrides
<1>3. IsLimits(Apply(e, old).lim)
  BY <1>1, <1>2, DerivedTyped, LayerTyped
<1> QED BY <1>1, <1>3 DEF IsOverrides, IsLimits

-----------------------------------------------------------------------------
(* Types. *)

LEMMA InitTyped == Init => TypeOK
<1> SUFFICES ASSUME Init PROVE TypeOK
  OBVIOUS
<1>1. IsBudgetFile(file) /\ IsOverrides(wanted) /\ overlap \in BOOLEAN
  BY FilesTyped, NoOverridesTyped DEF Init
<1>2. /\ pc \in [Writers -> {"idle", "loaded", "truncated"}]
      /\ edit \in [Writers -> Edits \cup {NoEdit}]
      /\ DOMAIN ov = Writers /\ \A w \in Writers : IsOverrides(ov[w])
  BY NoOverridesTyped DEF Init
<1>3. updates \in 0..MaxUpdates /\ failures \in 0..MaxFailures
  BY StoreAssumption DEF Init
<1> QED BY <1>1, <1>2, <1>3 DEF TypeOK

\* Every way an update ends.
LEMMA FinishTyped ==
  ASSUME TypeOK, NEW w \in Writers, Finish(w)
  PROVE  /\ pc' \in [Writers -> {"idle", "loaded", "truncated"}]
         /\ edit' \in [Writers -> Edits \cup {NoEdit}]
         /\ DOMAIN ov' = Writers /\ \A x \in Writers : IsOverrides(ov'[x])
BY NoOverridesTyped DEF TypeOK, Finish

LEMMA NextTyped == TypeOK /\ [Next]_vars => TypeOK'
<1> SUFFICES ASSUME TypeOK, [Next]_vars PROVE TypeOK'
  OBVIOUS
<1>0. CASE UNCHANGED vars
  BY <1>0 DEF vars, TypeOK
<1>1. ASSUME NEW w \in Writers, Load(w) PROVE TypeOK'
  <2>1. PICK e \in Edits : /\ edit' = [edit EXCEPT ![w] = e]
                           /\ ov' = [ov EXCEPT ![w] = Apply(e, file.ov)]
    BY <1>1 DEF Load
  <2>2. IsOverrides(Apply(e, file.ov))
    BY ApplyTyped DEF TypeOK, IsBudgetFile
  <2>3. edit' \in [Writers -> Edits \cup {NoEdit}]
    BY <2>1 DEF TypeOK
  <2>4. DOMAIN ov' = Writers /\ \A x \in Writers : IsOverrides(ov'[x])
    BY <2>1, <2>2 DEF TypeOK
  <2>5. updates' \in 0..MaxUpdates /\ overlap' \in BOOLEAN
    BY <1>1, StoreAssumption DEF Load, TypeOK
  <2>6. pc' \in [Writers -> {"idle", "loaded", "truncated"}]
    BY <1>1 DEF Load, TypeOK
  <2> QED BY <1>1, <2>3, <2>4, <2>5, <2>6 DEF Load, TypeOK
<1>2. ASSUME NEW w \in Writers, RefuseUpdate(w) PROVE TypeOK'
  <2>1. updates' \in 0..MaxUpdates
    BY <1>2, StoreAssumption DEF RefuseUpdate, TypeOK
  <2> QED BY <1>2, <2>1 DEF RefuseUpdate, TypeOK
<1>3. ASSUME NEW w \in Writers, Truncate(w) PROVE TypeOK'
  BY <1>3, FilesTyped DEF Truncate, TypeOK
<1>4. ASSUME NEW w \in Writers, Write(w) PROVE TypeOK'
  <2>1. IsBudgetFile(file')
    BY <1>4, FilesTyped DEF Write, TypeOK
  <2>2. IsOverrides(wanted')
    <3>1. CASE edit[w] \in Edits
      BY <1>4, <3>1, ApplyTyped DEF Write, TypeOK
    <3>2. CASE edit[w] = NoEdit
      BY <1>4, <3>2, NothingIsSet DEF Write, TypeOK, NoEdit, Apply, Layer, IsOverrides
    <3> QED BY <3>1, <3>2 DEF TypeOK
  <2> QED BY <1>4, <2>1, <2>2, FinishTyped DEF Write, TypeOK
<1>5. ASSUME NEW w \in Writers, OpenFails(w) \/ WriteFails(w) \/ Crash(w) PROVE TypeOK'
  <2>1. /\ Finish(w) /\ failures > 0 /\ failures' = failures - 1
        /\ UNCHANGED <<file, wanted, overlap, updates>>
    BY <1>5 DEF OpenFails, WriteFails, Crash
  <2>2. failures' \in 0..MaxFailures
    BY <2>1, StoreAssumption DEF TypeOK
  <2> QED BY <2>1, <2>2, FinishTyped DEF TypeOK
<1> QED BY <1>0, <1>1, <1>2, <1>3, <1>4, <1>5 DEF Next

(* Every writer leaves a budget.json of the kind every reader knows: a     *)
(* budget, an empty file or one that is no JSON.                           *)
THEOREM StoreTypes == Spec => []TypeOK
BY InitTyped, NextTyped, PTL DEF Spec

-----------------------------------------------------------------------------
(* What readers see. *)

\* As long as updates did not overlap: one writer at most is at work, it will
\* write what the updates so far and its own amount to, and while it has the
\* file truncated nobody can read it.
OneAtATime ==
  ~overlap =>
    /\ \A w, x \in Writers : pc[w] # "idle" /\ pc[x] # "idle" => w = x
    /\ \A w \in Writers : pc[w] # "idle" => ov[w] = Apply(edit[w], wanted)
    /\ \A w \in Writers : pc[w] = "truncated" => ~Loads(file)
    /\ Loads(file) => file.ov = wanted

LEMMA InitOneAtATime == Init => OneAtATime
BY DEF Init, OneAtATime, MissingFile

LEMMA NextOneAtATime == TypeOK /\ OneAtATime /\ [Next]_vars => OneAtATime'
<1> SUFFICES ASSUME TypeOK, OneAtATime, [Next]_vars, ~overlap' PROVE OneAtATime'
  BY DEF OneAtATime
<1>0. CASE UNCHANGED vars
  BY <1>0 DEF vars, OneAtATime, Loads
<1>1. ASSUME NEW w \in Writers, Load(w) PROVE OneAtATime'
  <2>1. ~overlap /\ \A x \in Writers : pc[x] = "idle"
    BY <1>1 DEF Load, TypeOK
  <2>2. file.ov = wanted /\ Loads(file)
    BY <1>1, <2>1 DEF Load, OneAtATime
  <2>3. PICK e \in Edits : /\ edit' = [edit EXCEPT ![w] = e]
                           /\ ov' = [ov EXCEPT ![w] = Apply(e, file.ov)]
    BY <1>1 DEF Load
  <2>4. file' = file /\ wanted' = wanted /\ pc' = [pc EXCEPT ![w] = "loaded"]
    BY <1>1 DEF Load
  <2>5. pc'[w] = "loaded" /\ \A x \in Writers \ {w} : pc'[x] = "idle"
    BY <2>1, <2>4 DEF TypeOK
  <2>6. ov'[w] = Apply(e, wanted') /\ edit'[w] = e
    BY <2>2, <2>3, <2>4 DEF TypeOK
  <2> QED BY <2>2, <2>4, <2>5, <2>6 DEF OneAtATime, Loads
<1>2. ASSUME NEW w \in Writers, RefuseUpdate(w) PROVE OneAtATime'
  BY <1>2 DEF RefuseUpdate, OneAtATime, Loads
<1>3. ASSUME NEW w \in Writers, Truncate(w) PROVE OneAtATime'
  <2>1. /\ ~overlap /\ file' = EmptyFile /\ ~Loads(file)'
        /\ pc' = [pc EXCEPT ![w] = "truncated"] /\ pc[w] = "loaded"
        /\ UNCHANGED <<edit, ov, wanted>>
    BY <1>3 DEF Truncate, EmptyFile, Loads
  <2>2. \A x \in Writers : pc'[x] # "idle" <=> pc[x] # "idle"
    BY <2>1 DEF TypeOK
  <2> QED BY <2>1, <2>2 DEF OneAtATime
<1>4. ASSUME NEW w \in Writers, Write(w) PROVE OneAtATime'
  <2>1. /\ ~overlap /\ pc[w] = "truncated" /\ wanted' = Apply(edit[w], wanted)
        /\ file' = FileOf(ov[w]) \/ file' = GarbledFile
    BY <1>4 DEF Write
  <2>2. ov[w] = wanted' /\ \A x \in Writers \ {w} : pc[x] = "idle"
    BY <2>1 DEF OneAtATime
  <2>3. \A x \in Writers : pc'[x] = "idle"
    BY <1>4, <2>2 DEF Write, Finish, TypeOK
  <2>4. Loads(file)' => file'.ov = wanted'
    BY <2>1, <2>2 DEF Loads, FileOf, GarbledFile
  <2> QED BY <2>3, <2>4 DEF OneAtATime
<1>5. ASSUME NEW w \in Writers, OpenFails(w) \/ WriteFails(w) \/ Crash(w) PROVE OneAtATime'
  <2>1. /\ ~overlap /\ pc[w] # "idle" /\ Finish(w) /\ UNCHANGED <<file, wanted>>
    BY <1>5 DEF OpenFails, WriteFails, Crash
  <2>2. \A x \in Writers : pc'[x] = "idle"
    BY <2>1 DEF OneAtATime, Finish, TypeOK
  <2> QED BY <2>1, <2>2 DEF OneAtATime, Loads
<1> QED BY <1>0, <1>1, <1>2, <1>3, <1>4, <1>5 DEF Next

(* A guard that reads budget.json at any moment finds the wanted budget or *)
(* nothing it can read, on which it refuses, unless two updates overlapped *)
(* (saveBudgetOverrides in cost_guard.go:118-125).                *)
THEOREM ReadersAreSafe == Spec => []ReadersSeeWantedOrRefuse
<1>1. OneAtATime => ReadersSeeWantedOrRefuse
  BY DEF OneAtATime, ReadersSeeWantedOrRefuse
<1> QED BY <1>1, InitOneAtATime, NextOneAtATime, StoreTypes, PTL DEF Spec

-----------------------------------------------------------------------------
(* The thresholds of the run tokens. *)

Ordered(lim) ==
  "tokensRun" \in DOMAIN lim /\ lim["tokensRun"] >= 0 =>
    /\ {"softRun", "sparRun"} \subseteq DOMAIN lim
    /\ lim["softRun"] <= lim["sparRun"] /\ lim["sparRun"] <= lim["tokensRun"]

\* They are ordered in whatever is, or is about to be, in the file.
OrderedInv == Ordered(file.ov.lim) /\ \A w \in Writers : Ordered(ov[w].lim)

LEMMA NothingIsOrdered == Ordered(NoOverrides.lim)
BY NothingIsSet DEF Ordered, NoOverrides

\* An update sets the ceiling with both thresholds, or none of the three.
LEMMA ApplyOrdered ==
  ASSUME NEW e \in Edits, NEW old, Ordered(old.lim)
  PROVE  Ordered(Apply(e, old).lim)
<1> DEFINE mid == Layer(e.lim, Derived(e))
           new == Layer(mid, old.lim)
<1>1. Apply(e, old).lim = new
  BY DEF Apply, Derived
<1>2. "softRun" \notin DOMAIN e.lim /\ "sparRun" \notin DOMAIN e.lim
  BY StoreAssumption
<1>3. CASE "tokensRun" \in DOMAIN e.lim
  <2> DEFINE hard == e.lim["tokensRun"]
  <2>1. hard \in Int
    BY <1>3, StoreAssumption
  <2>2. Derived(e) = RunTokenLimits(hard)
    BY <1>3 DEF Derived
  <2>3. DOMAIN Derived(e) = {"tokensRun", "softRun", "sparRun"}
    BY <2>1, <2>2, ThresholdsDerived
  <2>4. /\ mid["tokensRun"] = hard
        /\ mid["softRun"] = Derived(e)["softRun"] /\ mid["sparRun"] = Derived(e)["sparRun"]
        /\ {"tokensRun", "softRun", "sparRun"} \subseteq DOMAIN mid
    <3>1. {"tokensRun", "softRun", "sparRun"} \subseteq DOMAIN e.lim \cup DOMAIN Derived(e)
      BY <2>3
    <3>2. DOMAIN mid = DOMAIN e.lim \cup DOMAIN Derived(e)
      BY DEF Layer
    <3>3. mid["tokensRun"] = hard
      BY <1>3, <3>1 DEF Layer
    <3>4. mid["softRun"] = Derived(e)["softRun"]
      BY <1>2, <3>1 DEF Layer
    <3>5. mid["sparRun"] = Derived(e)["sparRun"]
      BY <1>2, <3>1 DEF Layer
    <3> QED BY <3>1, <3>2, <3>3, <3>4, <3>5
  <2>5. /\ new["tokensRun"] = hard
        /\ new["softRun"] = Derived(e)["softRun"] /\ new["sparRun"] = Derived(e)["sparRun"]
        /\ {"tokensRun", "softRun", "sparRun"} \subseteq DOMAIN new
    BY <2>4 DEF Layer
  <2> HIDE DEF hard, mid, new
  <2>6. hard >= 0 => /\ Derived(e)["softRun"] <= Derived(e)["sparRun"]
                     /\ Derived(e)["sparRun"] <= hard
    BY <2>1, <2>2, ThresholdsDerived
  <2> QED BY <1>1, <2>5, <2>6 DEF Ordered
<1>4. CASE "tokensRun" \notin DOMAIN e.lim
  <2>1. DOMAIN mid = DOMAIN e.lim
    BY <1>4, NothingIsSet DEF Derived, Layer
  <2>2. \A k \in {"tokensRun", "softRun", "sparRun"} :
          /\ k \in DOMAIN new <=> k \in DOMAIN old.lim
          /\ k \in DOMAIN old.lim => new[k] = old.lim[k]
    BY <1>2, <1>4, <2>1 DEF Layer
  <2> HIDE DEF mid, new
  <2> QED BY <1>1, <2>2 DEF Ordered
<1> QED BY <1>3, <1>4

LEMMA NextOrdered == TypeOK /\ OrderedInv /\ [Next]_vars => OrderedInv'
<1> SUFFICES ASSUME TypeOK, OrderedInv, [Next]_vars PROVE OrderedInv'
  OBVIOUS
<1>0. CASE UNCHANGED vars
  BY <1>0 DEF vars, OrderedInv
<1>1. ASSUME NEW w \in Writers, Load(w) PROVE OrderedInv'
  <2>1. PICK e \in Edits : ov' = [ov EXCEPT ![w] = Apply(e, file.ov)]
    BY <1>1 DEF Load
  <2>2. Ordered(Apply(e, file.ov).lim)
    BY ApplyOrdered DEF OrderedInv
  <2>3. file' = file
    BY <1>1 DEF Load
  <2>4. \A x \in Writers : ov'[x] = IF x = w THEN Apply(e, file.ov) ELSE ov[x]
    BY <2>1 DEF TypeOK
  <2> QED BY <2>2, <2>3, <2>4 DEF OrderedInv
<1>2. ASSUME NEW w \in Writers, RefuseUpdate(w) PROVE OrderedInv'
  BY <1>2 DEF RefuseUpdate, OrderedInv
<1>3. ASSUME NEW w \in Writers, Truncate(w) PROVE OrderedInv'
  BY <1>3, NothingIsOrdered DEF Truncate, OrderedInv, EmptyFile
<1>4. ASSUME NEW w \in Writers, Finish(w),
             file' \in {file, FileOf(ov[w]), GarbledFile} PROVE OrderedInv'
  <2>1. Ordered(file'.ov.lim)
    BY <1>4, NothingIsOrdered DEF OrderedInv, FileOf, GarbledFile
  <2>2. \A x \in Writers : ov'[x] = IF x = w THEN NoOverrides ELSE ov[x]
    BY <1>4 DEF Finish, TypeOK
  <2> QED BY <2>1, <2>2, NothingIsOrdered DEF OrderedInv
<1>5. ASSUME NEW w \in Writers, Write(w) PROVE OrderedInv'
  BY <1>4, <1>5 DEF Write
<1>6. ASSUME NEW w \in Writers, OpenFails(w) \/ WriteFails(w) \/ Crash(w) PROVE OrderedInv'
  BY <1>4, <1>6 DEF OpenFails, WriteFails, Crash
<1> QED BY <1>0, <1>1, <1>2, <1>3, <1>5, <1>6 DEF Next

(* Whatever updates interleave, a run-token ceiling in budget.json has its *)
(* two thresholds beside it, in order (cost_builtins.go:206-215,           *)
(* web_server.go:384-390).                                                 *)
THEOREM ThresholdsStayOrdered == Spec => []ThresholdsOrdered
<1>1. Init => OrderedInv
  BY NothingIsOrdered DEF Init, OrderedInv, MissingFile
<1>2. OrderedInv => ThresholdsOrdered
  BY DEF OrderedInv, Ordered, ThresholdsOrdered
<1> QED BY <1>1, <1>2, NextOrdered, StoreTypes, PTL DEF Spec

-----------------------------------------------------------------------------
(* A broken file. *)

(* Once nobody is at work and the file cannot be read, no update ever makes *)
(* it readable again, and so none replaces limits by the defaults: each is  *)
(* refused at its load (cost_builtins.go, web_server.go).                  *)
THEOREM BrokenIsForGood == Spec => BrokenStaysClosed
<1>1. Broken /\ [Next]_vars => Broken'
  <2> SUFFICES ASSUME Broken, [Next]_vars PROVE Broken'
    OBVIOUS
  <2>1. ASSUME NEW w \in Writers, RefuseUpdate(w) PROVE Broken'
    BY <2>1 DEF RefuseUpdate, Broken, Loads
  <2>2. CASE UNCHANGED vars
    BY <2>2 DEF vars, Broken, Loads
  <2> QED BY <2>1, <2>2 DEF Next, Broken, Load, Truncate, Write, OpenFails, WriteFails, Crash
<1>2. Broken => ~Loads(file)
  BY DEF Broken
<1> QED BY <1>1, <1>2, PTL DEF Spec, BrokenStaysClosed
=============================================================================
