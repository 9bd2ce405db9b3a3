-------------------------------- MODULE Home --------------------------------
(* The state directory: the move of ~/.kish to ~/.aish (app.go:235-332) and *)
(* the first start, which writes what is missing (config.go:65,             *)
(* ki_prompt_ab.go:48, security_permissions.go:233) and then works with it. *)
(* Several shells may start at once, each may die at any step, a rename may *)
(* fail (another file system) and so may each copy (a full disk).           *)
EXTENDS Naturals, FiniteSets

CONSTANTS
  Shells,      \* processes (strings)
  Files,       \* the files of the directory
  Legacy,      \* those of them the user has in ~/.kish
  Defaults,    \* those of them a start writes when they are missing
  MaxRestarts  \* bound

Old == "old"          \* what the user had in ~/.kish
Default == "default"  \* what WriteDefault* writes

ASSUME HomeAssumption ==
  /\ Legacy # {} /\ Legacy \subseteq Files /\ Defaults \subseteq Files
  /\ MaxRestarts \in Nat

VARIABLES
  kish,        \* ~/.kish: file -> the set of what it holds; << >> when there is none
  aish,        \* ~/.aish: the same for the files there so far
  exists,      \* ~/.aish exists
  pc,          \* shell -> where its start is
  todo,        \* shell -> the files its copy has not begun
  at,          \* shell -> the file it copies
  sameDisk,    \* a rename can work
  restarts

vars == <<kish, aish, exists, pc, todo, at, sameDisk, restarts>>

FilesOf(d) == DOMAIN d
NoFiles == [f \in {} |-> {}]
Put(d, f, c) == [g \in FilesOf(d) \union {f} |-> IF g = f THEN c ELSE d[g]]

AnyFile == CHOOSE f \in Legacy : TRUE

Init ==
  /\ kish = [f \in Legacy |-> {Old}]
  /\ aish = NoFiles /\ exists = FALSE
  /\ pc = [p \in Shells |-> "start"]
  /\ todo = [p \in Shells |-> {}] /\ at = [p \in Shells |-> AnyFile]
  /\ sameDisk \in BOOLEAN /\ restarts = 0

Go(p, from, to) == pc[p] = from /\ pc' = [pc EXCEPT ![p] = to]

---------------------------------------------------------------------------
(* migrateLegacyKishDir, once in a process. *)

\* os.Stat(target)
CheckTarget(p) ==
  /\ Go(p, "start", IF exists THEN "mkdir" ELSE "legacy")
  /\ UNCHANGED <<kish, aish, exists, todo, at, sameDisk, restarts>>

\* os.Stat(legacy)
CheckLegacy(p) ==
  /\ Go(p, "legacy", IF FilesOf(kish) # {} THEN "rename" ELSE "mkdir")
  /\ UNCHANGED <<kish, aish, exists, todo, at, sameDisk, restarts>>

\* os.Rename, which Go refuses when the new name is a directory.
Rename(p) ==
  /\ sameDisk /\ FilesOf(kish) # {} /\ ~exists
  /\ Go(p, "rename", "mkdir")
  /\ aish' = kish /\ exists' = TRUE /\ kish' = NoFiles
  /\ UNCHANGED <<todo, at, sameDisk, restarts>>

\* It may fail for other reasons too; copyDir begins with a Stat of its own.
RenameFails(p) ==
  /\ Go(p, "rename", IF FilesOf(kish) # {} THEN "copydir" ELSE "mkdir")
  /\ UNCHANGED <<kish, aish, exists, todo, at, sameDisk, restarts>>

\* copyDir: MkdirAll(dst) ...
CopyDir(p) ==
  /\ Go(p, "copydir", "list")
  /\ exists' = TRUE
  /\ UNCHANGED <<kish, aish, todo, at, sameDisk, restarts>>

\* ... and ReadDir(src), which fails when another shell has renamed it.
List(p) ==
  /\ Go(p, "list", IF FilesOf(kish) # {} THEN "copy" ELSE "mkdir")
  /\ todo' = [todo EXCEPT ![p] = FilesOf(kish)]
  /\ UNCHANGED <<kish, aish, exists, at, sameDisk, restarts>>

\* copyFile: Open(src), O_TRUNC of dst ...
Truncate(p, f) ==
  /\ f \in todo[p] /\ f \in FilesOf(kish)
  /\ Go(p, "copy", "bytes")
  /\ aish' = Put(aish, f, {})
  /\ at' = [at EXCEPT ![p] = f]
  /\ todo' = [todo EXCEPT ![p] = @ \ {f}]
  /\ UNCHANGED <<kish, exists, sameDisk, restarts>>

\* ... and io.Copy.
CopyBytes(p) ==
  /\ Go(p, "bytes", "copy")
  /\ aish' = Put(aish, at[p], kish[at[p]])
  /\ UNCHANGED <<kish, exists, todo, at, sameDisk, restarts>>

CopyEnds_RemovesLegacy(p) ==
  /\ \E from \in {"copydir", "list", "copy", "bytes"} : Go(p, from, "mkdir")
  /\ kish' = NoFiles
  /\ UNCHANGED <<aish, exists, todo, at, sameDisk, restarts>>

\* The copy ends with its last file, or with its first error; the start goes on.
CopyEnds(p) ==
  /\ \E from \in {"copydir", "list", "copy", "bytes"} : Go(p, from, "mkdir")
  /\ UNCHANGED <<kish, aish, exists, todo, at, sameDisk, restarts>>

\* aishDir: os.MkdirAll
MakeDir(p) ==
  /\ Go(p, "mkdir", "defaults")
  /\ exists' = TRUE
  /\ UNCHANGED <<kish, aish, todo, at, sameDisk, restarts>>

---------------------------------------------------------------------------
(* The start, and life. *)

\* WriteDefaultConfig, WriteDefaultPromptVariants, WriteDefaultPermissions.
WriteDefault(p, f) ==
  /\ pc[p] = "defaults"
  /\ f \in Defaults \ FilesOf(aish)
  /\ aish' = Put(aish, f, {Default})
  /\ UNCHANGED <<kish, exists, pc, todo, at, sameDisk, restarts>>

Started(p) ==
  /\ Defaults \subseteq FilesOf(aish)
  /\ Go(p, "defaults", "live")
  /\ UNCHANGED <<kish, aish, exists, todo, at, sameDisk, restarts>>

\* An append to the history, a log, the usage database, ...
Work(p, f) ==
  /\ pc[p] = "live" /\ f \in Files \ Defaults
  /\ aish' = Put(aish, f, (IF f \in FilesOf(aish) THEN aish[f] ELSE {}) \union {p})
  /\ UNCHANGED <<kish, exists, pc, todo, at, sameDisk, restarts>>

\* The process ends, or dies wherever it is, and is started again.
Restart(p) ==
  /\ restarts < MaxRestarts /\ restarts' = restarts + 1
  /\ pc[p] # "start" /\ pc' = [pc EXCEPT ![p] = "start"]
  /\ UNCHANGED <<kish, aish, exists, todo, at, sameDisk>>

Step(p) ==
  \/ CheckTarget(p) \/ CheckLegacy(p) \/ Rename(p) \/ RenameFails(p)
  \/ CopyDir(p) \/ List(p) \/ CopyBytes(p) \/ CopyEnds(p) \/ MakeDir(p)
  \/ \E f \in Files : Truncate(p, f) \/ WriteDefault(p, f) \/ Work(p, f)
  \/ Started(p) \/ Restart(p)

Next == \E p \in Shells : Step(p)

Spec == Init /\ [][Next]_vars

---------------------------------------------------------------------------
(* Whatever fails and whoever dies, what the user had in ~/.kish is whole   *)
(* there or whole in ~/.aish: "nothing is lost" (README.md:13), "no data is   *)
(* lost" (app.go:239-240).                                                  *)
OriginalsSurvive ==
  \A f \in Legacy :
    \/ f \in FilesOf(kish) /\ Old \in kish[f]
    \/ f \in FilesOf(aish) /\ Old \in aish[f]

(* The part of it a step can be seen to keep: the old directory is whole,   *)
(* or it was renamed and nobody is copying onto its files.                  *)
MovedWhole ==
  \/ kish = [f \in Legacy |-> {Old}]
  \/ /\ kish = NoFiles
     /\ \A f \in Legacy : f \in FilesOf(aish) /\ Old \in aish[f]
     /\ \A p \in Shells : pc[p] \notin {"copy", "bytes"}

(* A copy goes on only next to a ~/.aish, so that no rename meets it.       *)
CopiesHaveATarget ==
  \A p \in Shells : pc[p] \in {"list", "copy", "bytes"} => exists

CopiesKnowTheirFile ==
  \A p \in Shells : pc[p] = "bytes" => at[p] \in Legacy
=============================================================================
