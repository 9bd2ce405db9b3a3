-------------------------------- MODULE Logs --------------------------------
(* shell.log and audit.log (the same code twice: security_shelllog.go,      *)
(* security_audit.go) and the history file: what a start does to them       *)
(* (rotateIfNeeded, then logrotate.go) and what a session appends, with a   *)
(* crash between any two steps. One shell at a time: what another appends   *)
(* between a copy and the truncation after it is lost, as logrotate.go      *)
(* takes no lock. The days do not reach the 90 after which cleanOldGzips    *)
(* removes an archive.                                                      *)
EXTENDS Integers, Sequences, FiniteSets, SequencesExt

CONSTANTS
  MaxFiles,    \* numbered files kept (3 for the shell log, 4 for the audit log)
  MinSize,     \* entries below which no archive is made (1024 bytes)
  MaxSize,     \* entries from which a log is rotated by number (5 MB, 10 MB)
  HistoryCap,  \* lines of the history file kept (50000)
  MaxEntries,  \* bound: entries written
  MaxDays      \* bound: days that pass

NoFile == << -1 >>
Numbers == 0..MaxFiles     \* 0 is the log itself

VARIABLES
  files,       \* number -> its entries, or NoFile
  gz,          \* day -> [data, is], for the days with an archive: "part",
               \* "whole", or "unflushed" when closing it failed
  modified,    \* day of the log's last write
  today,
  history,     \* lines of the history file
  pc,          \* "off", "shift", "move", "open", "gzip", "compress", "truncate",
               \* "trim", "cut", "rewrite" or "session"
  number,      \* the file shift is at
  kept,        \* what trimFile read and will write
  written,     \* entries written so far
  dropped,     \* (history) entries that left with the oldest numbered file
  torn         \* (history) where a crash met the shifting or the rewriting

vars == <<files, gz, modified, today, history, pc, number, kept, written, dropped, torn>>

Entries(s) == {s[i] : i \in DOMAIN s} \ {-1}

Init ==
  /\ files = [n \in Numbers |-> NoFile] /\ gz = [d \in {} |-> [data |-> <<>>, is |-> "part"]]
  /\ modified = 0 /\ today = 0 /\ history = <<>> /\ pc = "off" /\ number = MaxFiles
  /\ kept = <<>> /\ written = 0 /\ dropped = {} /\ torn = {}

---------------------------------------------------------------------------
(* newShellLog, initAudit: open for appending, rotate by number. *)

Open ==
  /\ pc = "off"
  /\ files' = [files EXCEPT ![0] = IF @ = NoFile THEN <<>> ELSE @]
  /\ modified' = IF files[0] = NoFile THEN today ELSE modified
  /\ pc' = IF files[0] # NoFile /\ Len(files[0]) >= MaxSize THEN "shift" ELSE "gzip"
  /\ number' = MaxFiles
  /\ UNCHANGED <<gz, today, history, kept, written, dropped, torn>>

Shift_Upwards ==
  /\ pc = "shift"
  /\ LET n == MaxFiles + 1 - number
     IN  IF n = MaxFiles
         THEN /\ files' = [files EXCEPT ![n] = NoFile]
              /\ dropped' = dropped \union Entries(files[n])
         ELSE /\ files' = IF files[n] = NoFile THEN files
                          ELSE [files EXCEPT ![n + 1] = files[n], ![n] = NoFile]
              /\ UNCHANGED dropped
  /\ number' = number - 1
  /\ pc' = IF number = 1 THEN "move" ELSE "shift"
  /\ UNCHANGED <<gz, modified, today, history, kept, written, torn>>

\* for i := maxFiles; i >= 1; i--: remove the last, rename the others.
Shift ==
  /\ pc = "shift"
  /\ IF number = MaxFiles
     THEN /\ files' = [files EXCEPT ![number] = NoFile]
          /\ dropped' = dropped \union Entries(files[number])
     ELSE /\ files' = IF files[number] = NoFile THEN files
                      ELSE [files EXCEPT ![number + 1] = files[number], ![number] = NoFile]
          /\ UNCHANGED dropped
  /\ number' = number - 1
  /\ pc' = IF number = 1 THEN "move" ELSE "shift"
  /\ UNCHANGED <<gz, modified, today, history, kept, written, torn>>

\* os.Rename(log, log.1), and a new log.
Move ==
  /\ pc = "move"
  /\ files' = [files EXCEPT ![1] = files[0], ![0] = NoFile]
  /\ pc' = "open"
  /\ UNCHANGED <<gz, modified, today, history, number, kept, written, dropped, torn>>

Reopen ==
  /\ pc = "open"
  /\ files' = [files EXCEPT ![0] = <<>>]
  /\ modified' = today
  /\ pc' = "gzip"
  /\ UNCHANGED <<gz, today, history, number, kept, written, dropped, torn>>

---------------------------------------------------------------------------
(* rotateLog, trimFile. *)

\* A log of an earlier day, unless that day has an archive; os.Create of it.
Archive ==
  /\ pc = "gzip"
  /\ IF Len(files[0]) >= MinSize /\ modified < today /\ modified \notin DOMAIN gz
     THEN /\ gz' = [d \in DOMAIN gz \union {modified} |->
                     IF d = modified THEN [data |-> <<>>, is |-> "part"] ELSE gz[d]]
          /\ pc' = "compress"
     ELSE pc' = "trim" /\ UNCHANGED gz
  /\ UNCHANGED <<files, modified, today, history, number, kept, written, dropped, torn>>

\* compressFile: when the copy fails the log is left as it is; that the last
\* block is written by the deferred Close, and may fail there, it does not see.
Compress ==
  /\ pc = "compress"
  /\ \/ /\ \E is \in {"whole", "unflushed"} :
             gz' = [gz EXCEPT ![modified] = [data |-> files[0], is |-> is]]
        /\ pc' = "truncate"
     \/ pc' = "trim" /\ UNCHANGED gz
  /\ UNCHANGED <<files, modified, today, history, number, kept, written, dropped, torn>>

Truncate ==
  /\ pc = "truncate"
  /\ files' = [files EXCEPT ![0] = <<>>]
  /\ modified' = today
  /\ pc' = "trim"
  /\ UNCHANGED <<gz, today, history, number, kept, written, dropped, torn>>

\* The part after the last newline counts as a line, so one less is kept.
Trim ==
  /\ pc = "trim"
  /\ LET n == Len(history)
     IN  /\ pc' = IF n + 1 <= HistoryCap THEN "session" ELSE "cut"
         /\ kept' = IF n + 1 <= HistoryCap THEN <<>>
                    ELSE SubSeq(history, n - HistoryCap + 2, n)
  /\ UNCHANGED <<files, gz, modified, today, history, number, written, dropped, torn>>

\* os.WriteFile: O_TRUNC, then the lines.
Cut ==
  /\ pc = "cut"
  /\ history' = <<>>
  /\ pc' = "rewrite"
  /\ UNCHANGED <<files, gz, modified, today, number, kept, written, dropped, torn>>

Rewrite ==
  /\ pc = "rewrite"
  /\ history' = kept
  /\ pc' = "session"
  /\ UNCHANGED <<files, gz, modified, today, number, kept, written, dropped, torn>>

---------------------------------------------------------------------------
\* ShellLog.Record and AuditLog.Log, and KishHistory.Add with them.
Record ==
  /\ pc = "session" /\ written < MaxEntries
  /\ written' = written + 1
  /\ files' = [files EXCEPT ![0] = Append(@, written + 1)]
  /\ modified' = today
  /\ history' = Append(history, written + 1)
  /\ UNCHANGED <<gz, today, pc, number, kept, dropped, torn>>

NextDay ==
  /\ today < MaxDays /\ today' = today + 1
  /\ UNCHANGED <<files, gz, modified, history, pc, number, kept, written, dropped, torn>>

\* The session ends, or dies wherever it is.
End ==
  /\ pc # "off" /\ pc' = "off"
  /\ torn' = torn \union ({pc} \cap {"shift", "move", "rewrite"})
  /\ UNCHANGED <<files, gz, modified, today, history, number, kept, written, dropped>>

Next ==
  \/ Open \/ Shift \/ Move \/ Reopen \/ Archive \/ Compress \/ Truncate
  \/ Trim \/ Cut \/ Rewrite \/ Record \/ NextDay \/ End

Spec == Init /\ [][Next]_vars

---------------------------------------------------------------------------
(* An entry once written is in the log, a numbered file or an archive that  *)
(* was written to its end (or whose Close failed unseen) until it leaves    *)
(* with the oldest numbered file, once all the others are full of later     *)
(* ones unless a crash met their shifting; and the history's lines are its  *)
(* last ones, no fewer than it may keep, unless a crash met their rewriting *)
(* (security_shelllog.go:144-168, logrotate.go:24-79).                      *)
RecordsAreKept ==
  /\ \A e \in 1..written :
       \/ \E n \in Numbers : e \in Entries(files[n])
       \/ \E d \in DOMAIN gz : gz[d].is # "part" /\ e \in Entries(gz[d].data)
       \/ e \in dropped
  /\ torn \cap {"shift", "move"} = {} => \A e \in dropped : written - e >= MaxFiles * MaxSize
  /\ "rewrite" \notin torn \union {pc} =>
       /\ \A i \in DOMAIN history : history[i] = written - Len(history) + i
       /\ Len(history) >= HistoryCap - 1 \/ Len(history) = written
=============================================================================
