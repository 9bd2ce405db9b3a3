------------------------ MODULE Surroundings_proofs ------------------------
(* What the parts around the model and the interpreter keep, for any number *)
(* of lines, signals, servers, records and exchanges.                       *)
EXTENDS Home, Surroundings, Recursion_proofs, FiniteSetTheorems

-----------------------------------------------------------------------------
(* Signals (JobControl). A quiet request has its own kiCancelFunc, and the  *)
(* signal that meets it is in the channel or in the goroutine's hands, until*)
(* its context is cancelled.                                                *)

SignalTypes ==
  /\ run \in Nat
  /\ asked \subseteq 1..run
  /\ loop = "request" => run # J!NoRun
  /\ loop = "dead" => handler = "dead"

QuietHasItsCancel ==
  loop = "request" /\ quiet /\ run \notin cancelled =>
    cancelFunc = run /\ handler \in {"wait", "test", "call"}

SignalIsOnItsWay ==
  run \in asked /\ run \notin cancelled =>
    loop \in {"clearing", "dead"} \/ (loop = "request" /\ quiet /\ ~J!AtRest)

SignalInv == SignalTypes /\ QuietHasItsCancel /\ SignalIsOnItsWay

LEMMA SignalInvNext == SignalInv /\ [J!Next]_(J!vars) => SignalInv'
<1> SUFFICES ASSUME SignalInv, [J!Next]_(J!vars) PROVE SignalInv'
  OBVIOUS
<1> USE DEF SignalInv, SignalTypes, QuietHasItsCancel, SignalIsOnItsWay, J!AtRest, J!NoRun
<1>1. CASE J!StartRequest
  <2>1. run + 1 \in Nat \ {0} /\ run + 1 \notin asked /\ asked \subseteq 1..(run + 1)
    OBVIOUS
  <2> QED BY <1>1, <2>1 DEF J!StartRequest
<1>2. CASE J!EndRequest
  BY <1>2 DEF J!EndRequest
<1>3. CASE J!CancelContext
  BY <1>3 DEF J!CancelContext
<1>4. CASE J!StartCommand
  <2>1. run + 1 \in Nat \ {0} /\ run + 1 \notin asked /\ asked \subseteq 1..(run + 1)
    OBVIOUS
  <2> QED BY <1>4, <2>1 DEF J!StartCommand
<1>5. CASE J!EndCommand
  BY <1>5 DEF J!EndCommand
<1>6. CASE J!ChildEnds
  BY <1>6 DEF J!ChildEnds
<1>7. ASSUME NEW sig \in J!Signals, J!Type(sig)
      PROVE  SignalInv'
  <2>1. loop = "request" => run \in 1..run
    OBVIOUS
  <2>2. sigChan' = sigChan \/ sigChan' # <<>>
    BY <1>7 DEF J!Type
  <2> QED BY <1>7, <2>1, <2>2 DEF J!Type
<1>8. CASE J!Take
  BY <1>8 DEF J!Take
<1>9. CASE J!Test
  BY <1>9 DEF J!Test
<1>10. CASE J!Call
  BY <1>10 DEF J!Call
<1>11. CASE J!Clear
  BY <1>11 DEF J!Clear
<1>12. CASE J!Kill
  BY <1>12 DEF J!Kill
<1>13. CASE UNCHANGED J!vars
  BY <1>13 DEF J!vars
<1> QED
  BY <1>1, <1>2, <1>3, <1>4, <1>5, <1>6, <1>7, <1>8, <1>9, <1>10, <1>11, <1>12, <1>13
  DEF J!Next

(* A signal that meets a request ends it: whatever the two goroutines do    *)
(* between the test of kiCancelFunc and its call, and however many requests,*)
(* commands and signals there are.                                          *)
THEOREM SignalsReachTheRequest == J!Spec => []InterruptsAreHeard
<1>1. J!Init => SignalInv
  BY DEF J!Init, SignalInv, SignalTypes, QuietHasItsCancel, SignalIsOnItsWay, J!NoRun
<1>2. SignalInv /\ [J!Next]_(J!vars) => SignalInv'
  BY SignalInvNext
<1>3. SignalInv => InterruptsAreHeard
  BY DEF SignalInv, SignalTypes, SignalIsOnItsWay, InterruptsAreHeard, J!InterruptsAreHeard, J!AtRest
<1> QED BY <1>1, <1>2, <1>3, PTL DEF J!Spec

-----------------------------------------------------------------------------
(* The web interface (WebServer), for a user who waits until web start and  *)
(* web stop have done their work. Only the newest server is anywhere on its *)
(* way, and webServer names it from its making to its end.                  *)

ServerTypes ==
  /\ server \in [W!Servers -> {"none", "begun", "made", "listening", "failed", "down", "gone"}]
  /\ started \in 0..MaxServers /\ token = started
  /\ webServer \in 0..MaxServers /\ stopping \in 0..MaxServers

OnlyTheNewest ==
  \A s \in W!Servers :
    /\ s > started => server[s] = "none"
    /\ server[s] \in {"begun", "made", "listening", "failed", "down"} => s = started

WebServerNamesIt ==
  /\ \A s \in W!Servers :
       /\ server[s] = "begun" => webServer = W!NoServer /\ stopping = W!NoServer
       /\ server[s] \in {"made", "listening", "failed"} => webServer = s /\ stopping = W!NoServer
  /\ webServer # W!NoServer =>
       server[webServer] \in {"made", "listening", "failed", "down"}
  /\ stopping # W!NoServer => server[stopping] \in {"down", "gone"}

ServerInv == ServerTypes /\ OnlyTheNewest /\ WebServerNamesIt

LEMMA ServerInvNext == Patient /\ ServerInv /\ [W!Next]_(W!vars) => ServerInv'
<1> SUFFICES ASSUME Patient, ServerInv, [W!Next]_(W!vars) PROVE ServerInv'
  OBVIOUS
<1> USE WebAssumption
    DEF ServerInv, ServerTypes, OnlyTheNewest, WebServerNamesIt, W!Servers, W!NoServer
<1>1. CASE W!Start
  <2>1. webServer = 0 /\ stopping = 0 /\ W!AtRest
    BY <1>1 DEF W!Start, W!Types
  <2>2. \A s \in W!Servers : server[s] \in {"none", "gone"}
    BY <2>1 DEF W!AtRest
  <2>3. started + 1 \in W!Servers /\ server[started + 1] = "none"
    BY <1>1 DEF W!Start
  <2>4. /\ server' = [server EXCEPT ![started + 1] = "begun"]
        /\ started' = started + 1 /\ token' = started + 1
        /\ webServer' = 0 /\ stopping' = 0
    BY <1>1, <2>1 DEF W!Start
  <2> QED BY <2>1, <2>2, <2>3, <2>4
<1>2. ASSUME NEW s \in W!Servers, W!Make(s)
      PROVE  ServerInv'
  BY <1>2 DEF W!Make
<1>3. ASSUME NEW s \in W!Servers, W!Listen(s)
      PROVE  ServerInv'
  <2>1. /\ server[s] = "made"
        /\ \E to \in {"failed", "listening"} : server' = [server EXCEPT ![s] = to]
        /\ UNCHANGED <<webServer, token, started, stopping>>
    BY <1>3 DEF W!Listen
  <2> QED BY <2>1
<1>4. ASSUME NEW s \in W!Servers, W!Return(s)
      PROVE  ServerInv'
  BY <1>4 DEF W!Return
<1>5. CASE W!Stop
  <2>1. W!AtRest /\ webServer # 0 /\ stopping = 0
    BY <1>5 DEF W!Stop, W!Types
  <2>2. webServer \in W!Servers /\ server[webServer] = "listening"
    BY <2>1 DEF W!AtRest
  <2>3. /\ server' = [server EXCEPT ![webServer] = "down"]
        /\ stopping' = webServer
        /\ UNCHANGED <<webServer, token, started>>
    BY <1>5, <2>2 DEF W!Stop
  <2> QED BY <2>1, <2>2, <2>3
<1>6. CASE W!Stopped
  BY <1>6 DEF W!Stopped
<1>7. CASE \/ W!Open \/ W!ShellExits \/ W!PtyEnds \/ W!WsEnds \/ W!CloseSession
  BY <1>7 DEF W!Open, W!ShellExits, W!PtyEnds, W!WsEnds, W!CloseSession, W!web
<1>8. ASSUME NEW u \in Users, W!Ensure(u) \/ W!InitEngine(u) \/ W!Use(u)
      PROVE  ServerInv'
  BY <1>8 DEF W!Ensure, W!InitEngine, W!Use, W!web
<1>9. CASE UNCHANGED W!vars
  BY <1>9 DEF W!vars
<1> QED
  BY <1>1, <1>2, <1>3, <1>4, <1>5, <1>6, <1>7, <1>8, <1>9 DEF W!Next

(* The server that serves is the one web stop would stop, with the token    *)
(* the user was told, after any sequence of starts, failures and stops, if  *)
(* the user lets each of them come to its end. Without that it is not so:   *)
(* a second web start before the first server is made starts another one.   *)
THEOREM ServerIsTheKnownOne == Patient => (W!Spec => []RunningIsKnown)
<1> SUFFICES ASSUME Patient PROVE W!Spec => []RunningIsKnown
  OBVIOUS
<1>1. W!Init => ServerInv
  BY WebAssumption DEF W!Init, ServerInv, ServerTypes, OnlyTheNewest, WebServerNamesIt,
     W!Servers, W!NoServer
<1>2. ServerInv /\ [W!Next]_(W!vars) => ServerInv'
  BY ServerInvNext
<1>3. ServerInv => RunningIsKnown
  <2> SUFFICES ASSUME ServerInv, W!AtRest, NEW s \in W!Servers
               PROVE  server[s] = "listening" <=> webServer = s /\ token = s
    BY DEF RunningIsKnown, W!RunningIsKnown
  <2> QED
    BY DEF ServerInv, ServerTypes, OnlyTheNewest, WebServerNamesIt, W!AtRest,
       W!Servers, W!NoServer
<1> QED BY <1>1, <1>2, <1>3, PTL DEF W!Spec

-----------------------------------------------------------------------------
(* The logs (Logs). First where everything is at each step of a start: what *)
(* a rename overwrites is not there, what a truncation empties is archived. *)

LogFile == {L!NoFile} \cup Seq(Nat \ {0})
Size(f) == IF f = L!NoFile THEN 0 ELSE Len(f)

LogTypes ==
  /\ logFiles \in [L!Numbers -> LogFile]
  /\ written \in Nat
  /\ \A n \in L!Numbers : \A e \in L!Entries(logFiles[n]) : e \in Nat \ {0} /\ e <= written
  /\ dropped \subseteq 1..written

FilesAtEachStep ==
  /\ logPc = "shift" =>
       /\ number \in 1..MaxFiles
       /\ Size(logFiles[0]) >= MaxSize
       /\ number < MaxFiles => logFiles[number + 1] = L!NoFile
  /\ logPc = "move" => number = 0 /\ logFiles[1] = L!NoFile
  /\ logPc = "open" => logFiles[0] = L!NoFile
  /\ logPc \in {"gzip", "compress", "truncate", "trim", "cut", "rewrite", "session"} =>
       logFiles[0] # L!NoFile
  /\ logPc = "compress" => modified \in DOMAIN gz /\ gz[modified].is = "part"
  /\ logPc = "truncate" => /\ modified \in DOMAIN gz /\ gz[modified].is # "part"
                           /\ gz[modified].data = logFiles[0]

LogInv == LogTypes /\ FilesAtEachStep

LEMMA NoFileIsNone ==
  /\ L!Entries(L!NoFile) = {} /\ Size(L!NoFile) = 0
  /\ L!NoFile \notin Seq(Nat \ {0})
BY DEF L!Entries, L!NoFile, Size

LEMMA EmptyFileHasNone ==
  L!Entries(<<>>) = {} /\ <<>> \in LogFile /\ <<>> # L!NoFile /\ Size(<<>>) = 0
BY DEF L!Entries, LogFile, L!NoFile, Size

LEMMA AppendedEntries ==
  ASSUME NEW f \in LogFile, f # L!NoFile, NEW e \in Nat \ {0}
  PROVE  /\ Append(f, e) \in LogFile /\ Append(f, e) # L!NoFile
         /\ L!Entries(Append(f, e)) = L!Entries(f) \cup {e}
         /\ Size(Append(f, e)) = Size(f) + 1
<1>1. f \in Seq(Nat \ {0}) /\ Append(f, e) \in Seq(Nat \ {0})
  BY DEF LogFile
<1>2. /\ DOMAIN Append(f, e) = DOMAIN f \cup {Len(f) + 1}
      /\ \A i \in DOMAIN f : Append(f, e)[i] = f[i]
      /\ Append(f, e)[Len(f) + 1] = e
  BY <1>1
<1>3. {Append(f, e)[i] : i \in DOMAIN Append(f, e)} = {f[i] : i \in DOMAIN f} \cup {e}
  BY <1>2
<1>4. Append(f, e) # L!NoFile
  BY <1>1, NoFileIsNone
<1>5. Len(Append(f, e)) = Len(f) + 1
  BY <1>1
<1>6. e # -1
  OBVIOUS
<1>7. L!Entries(Append(f, e)) = L!Entries(f) \cup {e}
  BY <1>3, <1>6 DEF L!Entries
<1>8. Append(f, e) \in LogFile /\ Size(Append(f, e)) = Size(f) + 1
  BY <1>1, <1>4, <1>5 DEF LogFile, Size
<1> QED BY <1>4, <1>7, <1>8

LEMMA NumbersOfFiles ==
  /\ 0 \in L!Numbers /\ 1 \in L!Numbers /\ MaxFiles \in L!Numbers
  /\ \A n \in 1..MaxFiles : n \in L!Numbers /\ (n < MaxFiles => n + 1 \in L!Numbers)
BY LogsAssumption DEF L!Numbers

LEMMA LogInvNext == LogInv /\ [L!Next]_(L!vars) => LogInv'
<1> SUFFICES ASSUME LogInv, [L!Next]_(L!vars) PROVE LogInv'
  OBVIOUS
<1> USE LogsAssumption, NumbersOfFiles DEF LogInv, LogTypes, FilesAtEachStep
<1>1. CASE L!Open
  <2>1. CASE logFiles[0] = L!NoFile
    BY <1>1, <2>1, EmptyFileHasNone, NoFileIsNone DEF L!Open
  <2>2. CASE logFiles[0] # L!NoFile
    BY <1>1, <2>2 DEF L!Open, Size
  <2> QED BY <2>1, <2>2
<1>2. CASE L!Shift
  <2>1. /\ number \in 1..MaxFiles /\ number' = number - 1
        /\ logPc' = (IF number = 1 THEN "move" ELSE "shift") /\ logPc = "shift"
        /\ UNCHANGED <<gz, modified, written>>
    BY <1>2 DEF L!Shift
  <2>2. /\ logFiles' \in [L!Numbers -> LogFile]
        /\ logFiles'[0] = logFiles[0] /\ logFiles'[number] = L!NoFile
        /\ \A n \in L!Numbers : logFiles'[n] \in {L!NoFile, logFiles[n], logFiles[number]}
    <3>1. CASE number = MaxFiles
      BY <1>2, <2>1, <3>1 DEF L!Shift, LogFile
    <3>2. CASE number # MaxFiles
      <4>1. \/ logFiles' = logFiles /\ logFiles[number] = L!NoFile
            \/ logFiles' = [logFiles EXCEPT ![number + 1] = logFiles[number], ![number] = L!NoFile]
        BY <1>2, <3>2 DEF L!Shift
      <4>2. /\ number \in L!Numbers /\ number + 1 \in L!Numbers
            /\ number # 0 /\ number + 1 # 0 /\ number + 1 # number
        BY <2>1, <3>2
      <4>3. L!NoFile \in LogFile /\ logFiles[number] \in LogFile
        BY <4>2 DEF LogFile
      <4> QED BY <4>1, <4>2, <4>3
    <3> QED BY <3>1, <3>2
  <2>3. LogTypes'
    <3>1. \A n \in L!Numbers : \A e \in L!Entries(logFiles'[n]) : e \in Nat \ {0} /\ e <= written
      BY <2>1, <2>2, NoFileIsNone
    <3>2. dropped' \subseteq 1..written
      <4>1. L!Entries(logFiles[number]) \subseteq 1..written
        BY <2>1
      <4> QED BY <1>2, <4>1 DEF L!Shift
    <3> QED BY <2>1, <2>2, <3>1, <3>2
  <2>4. FilesAtEachStep'
    BY <2>1, <2>2
  <2> QED BY <2>3, <2>4
<1>3. CASE L!Move
  BY <1>3, NoFileIsNone DEF L!Move, LogFile
<1>4. CASE L!Reopen
  BY <1>4, EmptyFileHasNone DEF L!Reopen
<1>5. CASE L!Archive
  BY <1>5 DEF L!Archive
<1>6. CASE L!Compress
  BY <1>6 DEF L!Compress
<1>7. CASE L!Truncate
  BY <1>7, EmptyFileHasNone DEF L!Truncate
<1>8. CASE L!Trim \/ L!Cut \/ L!Rewrite
  BY <1>8 DEF L!Trim, L!Cut, L!Rewrite
<1>9. CASE L!Record
  BY <1>9, AppendedEntries DEF L!Record
<1>10. CASE L!NextDay \/ L!End
  BY <1>10 DEF L!NextDay, L!End
<1>11. CASE UNCHANGED L!vars
  BY <1>11 DEF L!vars
<1> QED
  BY <1>1, <1>2, <1>3, <1>4, <1>5, <1>6, <1>7, <1>8, <1>9, <1>10, <1>11 DEF L!Next

(* A record stays where it is, or moves whole, or leaves with the oldest    *)
(* file.                                                                    *)

InAFile(e) == \E n \in L!Numbers : e \in L!Entries(logFiles[n])
InAnArchive(e) == \E d \in DOMAIN gz : gz[d].is # "part" /\ e \in L!Entries(gz[d].data)
EveryRecordIsKept == \A e \in 1..written : InAFile(e) \/ InAnArchive(e) \/ e \in dropped

LEMMA KeptNext == LogInv /\ EveryRecordIsKept /\ [L!Next]_(L!vars) => EveryRecordIsKept'
<1> SUFFICES ASSUME LogInv, EveryRecordIsKept, [L!Next]_(L!vars), NEW e \in 1..written'
             PROVE  InAFile(e)' \/ InAnArchive(e)' \/ e \in dropped'
  BY DEF EveryRecordIsKept
<1> USE LogsAssumption, NumbersOfFiles
<1>1. CASE L!Record
  <2>1. /\ logFiles[0] \in LogFile /\ logFiles[0] # L!NoFile
        /\ logFiles \in [L!Numbers -> LogFile] /\ written \in Nat
    BY <1>1 DEF L!Record, LogInv, LogTypes, FilesAtEachStep
  <2>2. /\ L!Entries(logFiles'[0]) = L!Entries(logFiles[0]) \cup {written + 1}
        /\ \A n \in L!Numbers : n # 0 => logFiles'[n] = logFiles[n]
    BY <1>1, <2>1, AppendedEntries DEF L!Record
  <2>3. CASE e = written + 1
    BY <2>2, <2>3 DEF InAFile
  <2>4. CASE e # written + 1
    <3>1. e \in 1..written /\ gz' = gz /\ dropped' = dropped
      BY <1>1, <2>1, <2>4 DEF L!Record
    <3>2. InAFile(e) => InAFile(e)'
      BY <2>2 DEF InAFile
    <3> QED BY <3>1, <3>2 DEF EveryRecordIsKept, InAnArchive
  <2> QED BY <2>3, <2>4
<1>2. CASE ~L!Record
  <2>1. e \in 1..written
    BY <1>2 DEF L!Next, L!Open, L!Shift, L!Move, L!Reopen, L!Archive, L!Compress, L!Truncate,
       L!Trim, L!Cut, L!Rewrite, L!NextDay, L!End, L!vars
  <2>2. InAFile(e) \/ InAnArchive(e) \/ e \in dropped
    BY <2>1 DEF EveryRecordIsKept
  <2> USE <2>2
  <2>3. CASE L!Open
    <3>1. logFiles' = logFiles \/ (logFiles[0] = L!NoFile /\ logFiles' = [logFiles EXCEPT ![0] = <<>>])
      BY <2>3 DEF L!Open, LogInv, LogTypes
    <3>2. InAFile(e) => InAFile(e)'
      BY <3>1, NoFileIsNone DEF InAFile, LogInv, LogTypes
    <3> QED BY <2>3, <3>2 DEF L!Open, InAnArchive
  <2>4. CASE L!Shift
    <3>1. gz' = gz /\ dropped \subseteq dropped'
      BY <2>4 DEF L!Shift
    <3>2. ASSUME InAFile(e)
          PROVE  InAFile(e)' \/ e \in dropped'
      <4>1. PICK n \in L!Numbers : e \in L!Entries(logFiles[n])
        BY <3>2 DEF InAFile
      <4>2. CASE number = MaxFiles
        BY <2>4, <4>1, <4>2 DEF L!Shift, InAFile, LogInv, LogTypes
      <4>3. CASE number # MaxFiles
        <5>1. \/ logFiles' = logFiles
              \/ logFiles' = [logFiles EXCEPT ![number + 1] = logFiles[number], ![number] = L!NoFile]
          BY <2>4, <4>3 DEF L!Shift
        <5>2. /\ number \in L!Numbers /\ number + 1 \in L!Numbers /\ number + 1 # number
              /\ logFiles[number + 1] = L!NoFile
          BY <2>4, <4>3 DEF L!Shift, LogInv, FilesAtEachStep
        <5>3. n # number + 1
          BY <4>1, <5>2, NoFileIsNone
        <5> QED BY <4>1, <5>1, <5>2, <5>3 DEF InAFile, LogInv, LogTypes
      <4> QED BY <4>2, <4>3
    <3> QED BY <3>1, <3>2 DEF InAnArchive
  <2>5. CASE L!Move
    <3>1. /\ logFiles' = [logFiles EXCEPT ![1] = logFiles[0], ![0] = L!NoFile]
          /\ L!Entries(logFiles[1]) = {}
      BY <2>5, NoFileIsNone DEF L!Move, LogInv, FilesAtEachStep
    <3>2. InAFile(e) => InAFile(e)'
      BY <3>1 DEF InAFile, LogInv, LogTypes
    <3> QED BY <2>5, <3>2 DEF L!Move, InAnArchive
  <2>6. CASE L!Reopen
    <3>1. /\ logFiles' = [logFiles EXCEPT ![0] = <<>>]
          /\ L!Entries(logFiles[0]) = {}
      BY <2>6, NoFileIsNone DEF L!Reopen, LogInv, FilesAtEachStep
    <3>2. InAFile(e) => InAFile(e)'
      BY <3>1 DEF InAFile, LogInv, LogTypes
    <3> QED BY <2>6, <3>2 DEF L!Reopen, InAnArchive
  <2>7. CASE L!Archive
    <3>1. InAnArchive(e) => InAnArchive(e)'
      BY <2>7 DEF L!Archive, InAnArchive
    <3> QED BY <2>7, <3>1 DEF L!Archive, InAFile
  <2>8. CASE L!Compress
    <3>1. InAnArchive(e) => InAnArchive(e)'
      BY <2>8 DEF L!Compress, InAnArchive, LogInv, FilesAtEachStep
    <3> QED BY <2>8, <3>1 DEF L!Compress, InAFile
  <2>9. CASE L!Truncate
    <3>1. /\ logFiles' = [logFiles EXCEPT ![0] = <<>>]
          /\ \A x \in L!Entries(logFiles[0]) : InAnArchive(x)
      BY <2>9 DEF L!Truncate, InAnArchive, LogInv, FilesAtEachStep
    <3>2. InAFile(e) => InAFile(e)' \/ InAnArchive(e)
      BY <3>1 DEF InAFile, LogInv, LogTypes
    <3> QED BY <2>9, <3>2 DEF L!Truncate, InAnArchive
  <2>10. CASE UNCHANGED <<logFiles, gz, dropped>>
    BY <2>10 DEF InAFile, InAnArchive
  <2> QED
    BY <1>2, <2>3, <2>4, <2>5, <2>6, <2>7, <2>8, <2>9, <2>10
    DEF L!Next, L!Trim, L!Cut, L!Rewrite, L!NextDay, L!End, L!vars
<1> QED BY <1>1, <1>2

(* How old the records of a numbered file are: one full log for each file   *)
(* before it, and the log itself; while the files are shifted, those that   *)
(* moved already count the full log that is about to follow.                *)

Age(n) == (n - 1) * MaxSize
Since(n) == IF logPc \in {"shift", "move"} /\ n > number THEN Age(n) ELSE Age(n) + Size(logFiles[0])

DroppedAreOld == \A e \in dropped : written - e >= MaxFiles * MaxSize
FilesAreOld == \A n \in 1..MaxFiles : \A e \in L!Entries(logFiles[n]) : written - e >= Since(n)

RecordsAge == torn \cap {"shift", "move"} = {} => DroppedAreOld /\ FilesAreOld

LEMMA AgesGrow ==
  /\ Age(1) = 0
  /\ \A n \in Nat : Age(n) \in Int /\ Age(n + 1) = Age(n) + MaxSize
  /\ Age(MaxFiles) + MaxSize = MaxFiles * MaxSize
<1>1. ASSUME NEW n \in Int
      PROVE  (n - 1) * MaxSize \in Int /\ n * MaxSize = (n - 1) * MaxSize + MaxSize
  BY LogsAssumption
<1> QED BY <1>1, LogsAssumption DEF Age

LEMMA SizesAreNaturals == ASSUME NEW f \in LogFile PROVE Size(f) \in Nat
BY DEF LogFile, Size

LEMMA AgeNext == LogInv /\ RecordsAge /\ [L!Next]_(L!vars) => RecordsAge'
<1> SUFFICES ASSUME LogInv, RecordsAge, [L!Next]_(L!vars), torn' \cap {"shift", "move"} = {}
             PROVE  DroppedAreOld' /\ FilesAreOld'
  BY DEF RecordsAge
<1> USE LogsAssumption, NumbersOfFiles
<1>1. torn \cap {"shift", "move"} = {}
  BY DEF L!Next, L!Open, L!Shift, L!Move, L!Reopen, L!Archive, L!Compress, L!Truncate,
     L!Trim, L!Cut, L!Rewrite, L!Record, L!NextDay, L!End, L!vars
<1>2. DroppedAreOld /\ FilesAreOld
  BY <1>1 DEF RecordsAge
<1>3. /\ logFiles \in [L!Numbers -> LogFile] /\ written \in Nat
      /\ Size(logFiles[0]) \in Nat /\ MaxFiles * MaxSize \in Nat
      /\ \A n \in L!Numbers : \A e \in L!Entries(logFiles[n]) : e \in Nat /\ e <= written
      /\ \A e \in dropped : e \in Nat
  BY SizesAreNaturals DEF LogInv, LogTypes
<1>s. ASSUME NEW n \in Nat
      PROVE  /\ Age(n) \in Int /\ Since(n) \in Int
             /\ Since(n)' = IF logPc' \in {"shift", "move"} /\ n > number' THEN Age(n)
                           ELSE Age(n) + Size(logFiles'[0])
  <2>1. Since(n)' = IF logPc' \in {"shift", "move"} /\ n > number' THEN Age(n)
                    ELSE Age(n) + Size(logFiles'[0])
    BY DEF Since, Age, Size
  <2>2. Age(n) \in Int
    BY AgesGrow
  <2>3. Since(n) \in Int
    BY <1>3, <2>2 DEF Since
  <2> QED BY <2>1, <2>2, <2>3
<1>4. CASE L!Open
  <2>1. Size(logFiles'[0]) = Size(logFiles[0]) /\ \A n \in 1..MaxFiles : logFiles'[n] = logFiles[n]
    BY <1>3, <1>4, NoFileIsNone, EmptyFileHasNone DEF L!Open
  <2>2. /\ number' = MaxFiles /\ logPc = "off" /\ UNCHANGED <<written, dropped>>
    BY <1>4 DEF L!Open
  <2>3. \A n \in 1..MaxFiles : Since(n)' = Since(n)
    BY <2>1, <2>2, <1>s DEF Since
  <2> QED BY <1>2, <2>1, <2>2, <2>3 DEF DroppedAreOld, FilesAreOld
<1>5. CASE L!Shift
  <2>1. /\ number \in 1..MaxFiles /\ number' = number - 1 /\ written' = written
        /\ logPc = "shift" /\ logPc' \in {"shift", "move"}
        /\ Size(logFiles[0]) >= MaxSize
    BY <1>5 DEF L!Shift, LogInv, FilesAtEachStep
  <2>2. /\ \A n \in 1..number : \A e \in L!Entries(logFiles[n]) : written - e >= Age(n) + MaxSize
        /\ \A n \in (number + 1)..MaxFiles : \A e \in L!Entries(logFiles[n]) : written - e >= Age(n)
    <3>1. ASSUME NEW n \in 1..number, NEW e \in L!Entries(logFiles[n])
          PROVE  written - e >= Age(n) + MaxSize
      <4>1. n \in 1..MaxFiles /\ n \in Nat /\ n \in L!Numbers
        BY <2>1
      <4>2. Since(n) = Age(n) + Size(logFiles[0])
        BY <2>1 DEF Since
      <4>3. written - e >= Since(n) /\ e \in Nat
        BY <1>2, <1>3, <4>1 DEF FilesAreOld
      <4>4. Age(n) \in Int
        BY <4>1, <1>s
      <4> QED BY <1>3, <2>1, <4>2, <4>3, <4>4
    <3>2. ASSUME NEW n \in (number + 1)..MaxFiles
          PROVE  n \in 1..MaxFiles /\ Since(n) = Age(n)
      BY <2>1, <3>2 DEF Since
    <3> QED BY <1>2, <3>1, <3>2 DEF FilesAreOld
  <2>3. \A n \in 1..number - 1 : /\ Since(n)' = Since(n) \/ logFiles'[0] # logFiles[0]
                                 /\ n # number /\ n # number + 1
    BY <2>1, <1>s DEF Since
  <2>4. \A n \in number..MaxFiles : Since(n)' = Age(n)
    BY <2>1, <1>s
  <2>5. CASE number = MaxFiles
    <3>1. /\ logFiles' = [logFiles EXCEPT ![MaxFiles] = L!NoFile]
          /\ dropped' = dropped \cup L!Entries(logFiles[MaxFiles])
      BY <1>5, <2>5 DEF L!Shift
    <3>2. DroppedAreOld'
      BY <1>2, <2>1, <2>2, <2>5, <3>1, AgesGrow DEF DroppedAreOld
    <3>3. /\ logFiles'[MaxFiles] = L!NoFile /\ logFiles'[0] = logFiles[0]
          /\ \A n \in 1..number - 1 : logFiles'[n] = logFiles[n]
      BY <1>3, <2>5, <3>1
    <3>4. ASSUME NEW n \in 1..MaxFiles, NEW e \in L!Entries(logFiles'[n])
          PROVE  written' - e >= Since(n)'
      <4>1. n # MaxFiles
        BY <3>3, <3>4, NoFileIsNone
      <4>2. n \in 1..number - 1 /\ n \in 1..MaxFiles
        BY <2>1, <2>5, <4>1
      <4> QED BY <1>2, <2>1, <2>3, <3>3, <3>4, <4>2 DEF FilesAreOld
    <3> QED BY <3>2, <3>4 DEF FilesAreOld
  <2>6. CASE number # MaxFiles
    <3>1. /\ dropped' = dropped
          /\ \/ logFiles' = logFiles /\ logFiles[number] = L!NoFile
             \/ logFiles' = [logFiles EXCEPT ![number + 1] = logFiles[number], ![number] = L!NoFile]
      BY <1>5, <2>6 DEF L!Shift
    <3>2. /\ number \in L!Numbers /\ number + 1 \in 1..MaxFiles /\ number + 1 \in L!Numbers
          /\ number # 0 /\ number + 1 # number
          /\ logFiles[number + 1] = L!NoFile
      BY <2>1, <2>6, <1>5 DEF L!Shift, LogInv, FilesAtEachStep
    <3>3. /\ logFiles'[number] = L!NoFile /\ logFiles'[0] = logFiles[0]
          /\ logFiles'[number + 1] = logFiles[number]
          /\ \A n \in L!Numbers \ {number, number + 1} : logFiles'[n] = logFiles[n]
      BY <1>3, <3>1, <3>2
    <3>4. ASSUME NEW n \in 1..MaxFiles, NEW e \in L!Entries(logFiles'[n])
          PROVE  written' - e >= Since(n)'
      <4>1. n # number
        BY <3>3, <3>4, NoFileIsNone
      <4>2. CASE n = number + 1
        <5>1. e \in L!Entries(logFiles[number]) /\ number \in 1..number
          BY <2>1, <3>3, <3>4, <4>2
        <5>2. written - e >= Age(number) + MaxSize
          BY <2>2, <5>1
        <5>3. Age(n) = Age(number) + MaxSize
          BY <2>1, <4>2, AgesGrow
        <5>4. Since(n)' = Age(n)
          BY <2>1, <2>4, <4>2
        <5> QED BY <2>1, <5>2, <5>3, <5>4
      <4>3. CASE n < number
        <5>1. n \in 1..number - 1 /\ e \in L!Entries(logFiles[n])
          BY <2>1, <3>3, <3>4, <4>3
        <5> QED BY <1>2, <2>1, <2>3, <3>3, <5>1 DEF FilesAreOld
      <4>4. CASE n > number + 1
        <5>1. n \in (number + 1)..MaxFiles /\ n \in number..MaxFiles /\ e \in L!Entries(logFiles[n])
          BY <2>1, <3>3, <3>4, <4>4
        <5> QED BY <2>1, <2>2, <2>4, <5>1
      <4> QED BY <2>1, <4>1, <4>2, <4>3, <4>4
    <3> QED BY <1>2, <2>1, <3>1, <3>4 DEF FilesAreOld, DroppedAreOld
  <2> QED BY <2>5, <2>6
<1>6. CASE L!Move
  <2>1. /\ number = 0 /\ logPc = "move" /\ logPc' = "open" /\ UNCHANGED <<written, dropped>>
        /\ logFiles' = [logFiles EXCEPT ![1] = logFiles[0], ![0] = L!NoFile]
    BY <1>6 DEF L!Move, LogInv, FilesAtEachStep
  <2>2. /\ logFiles'[0] = L!NoFile /\ logFiles'[1] = logFiles[0]
        /\ \A n \in 2..MaxFiles : logFiles'[n] = logFiles[n]
    BY <1>3, <2>1
  <2>3. \A n \in 1..MaxFiles : Since(n) = Age(n) /\ Since(n)' = Age(n) /\ Age(n) \in Int
    BY <2>1, <2>2, <1>s, NoFileIsNone DEF Since
  <2>4. \A e \in L!Entries(logFiles[0]) : written - e >= Age(1)
    BY <1>3, AgesGrow
  <2>5. ASSUME NEW n \in 1..MaxFiles, NEW e \in L!Entries(logFiles'[n])
        PROVE  written' - e >= Since(n)'
    <3>1. CASE n = 1
      BY <2>1, <2>2, <2>3, <2>4, <2>5, <3>1
    <3>2. CASE n # 1
      <4>1. n \in 2..MaxFiles /\ e \in L!Entries(logFiles[n])
        BY <2>2, <2>5, <3>2
      <4> QED BY <1>2, <2>1, <2>3, <4>1 DEF FilesAreOld
    <3> QED BY <3>1, <3>2
  <2> QED BY <1>2, <2>1, <2>5 DEF FilesAreOld, DroppedAreOld
<1>7. CASE L!Reopen \/ L!Truncate
  <2>1. /\ logFiles'[0] = <<>> /\ \A n \in 1..MaxFiles : logFiles'[n] = logFiles[n]
        /\ logPc \notin {"shift", "move"} /\ logPc' \notin {"shift", "move"}
        /\ UNCHANGED <<written, dropped>>
    BY <1>3, <1>7 DEF L!Reopen, L!Truncate
  <2>2. ASSUME NEW n \in 1..MaxFiles
        PROVE  Since(n)' <= Since(n) /\ Since(n)' \in Int /\ Since(n) \in Int
    <3>1. n \in Nat /\ Age(n) \in Int
      BY <1>s
    <3>2. Since(n) = Age(n) + Size(logFiles[0])
      BY <2>1, Zenon DEF Since
    <3>3. Since(n)' = Age(n)
      <4>1. Since(n)' = Age(n) + Size(logFiles'[0])
        BY <2>1, <3>1, <1>s, Zenon
      <4>2. Size(logFiles'[0]) = 0
        BY <2>1, EmptyFileHasNone
      <4> QED BY <3>1, <4>1, <4>2
    <3> QED BY <1>3, <3>1, <3>2, <3>3
  <2>3. ASSUME NEW n \in 1..MaxFiles, NEW e \in L!Entries(logFiles'[n])
        PROVE  written' - e >= Since(n)'
    <3>1. e \in L!Entries(logFiles[n]) /\ n \in L!Numbers
      BY <2>1, <2>3
    <3>2. written - e >= Since(n) /\ e \in Nat
      BY <1>2, <1>3, <3>1 DEF FilesAreOld
    <3> QED BY <1>3, <2>1, <2>2, <3>2
  <2> QED BY <1>2, <2>1, <2>3 DEF FilesAreOld, DroppedAreOld
<1>8. CASE L!Record
  <2>1. /\ logPc = "session" /\ logPc' = "session" /\ written' = written + 1 /\ dropped' = dropped
        /\ \A n \in 1..MaxFiles : logFiles'[n] = logFiles[n]
        /\ Size(logFiles'[0]) = Size(logFiles[0]) + 1
    BY <1>3, <1>8, AppendedEntries DEF L!Record, LogInv, FilesAtEachStep
  <2>2. \A n \in 1..MaxFiles : Since(n)' = Since(n) + 1 /\ Since(n) \in Int
    BY <1>3, <2>1, <1>s DEF Since
  <2>3. ASSUME NEW n \in 1..MaxFiles, NEW e \in L!Entries(logFiles'[n])
        PROVE  written' - e >= Since(n)'
    <3>1. e \in L!Entries(logFiles[n]) /\ n \in L!Numbers
      BY <2>1
    <3>2. written - e >= Since(n) /\ e \in Nat
      BY <1>2, <1>3, <3>1 DEF FilesAreOld
    <3> QED BY <1>3, <2>1, <2>2, <3>2
  <2>4. DroppedAreOld'
    BY <1>2, <1>3, <2>1 DEF DroppedAreOld
  <2> QED BY <2>3, <2>4 DEF FilesAreOld
<1>9. CASE L!End
  <2>1. logPc \notin {"shift", "move"}
    BY <1>9 DEF L!End
  <2> QED BY <1>2, <1>9, <2>1, <1>s DEF L!End, FilesAreOld, DroppedAreOld, Since
<1>10. CASE L!Archive \/ L!Compress \/ L!Trim \/ L!Cut \/ L!Rewrite
  <2>1. /\ logPc \notin {"shift", "move"} /\ logPc' \notin {"shift", "move"}
        /\ UNCHANGED <<logFiles, written, dropped>>
    BY <1>10 DEF L!Archive, L!Compress, L!Trim, L!Cut, L!Rewrite
  <2> QED BY <1>2, <2>1 DEF FilesAreOld, DroppedAreOld, Since
<1>11. CASE L!NextDay \/ UNCHANGED L!vars
  BY <1>2, <1>11 DEF L!NextDay, L!vars, FilesAreOld, DroppedAreOld, Since
<1> QED
  BY <1>4, <1>5, <1>6, <1>7, <1>8, <1>9, <1>10, <1>11 DEF L!Next

(* The history file holds the latest lines, and so does what trimFile will  *)
(* write, unless a crash met its writing.                                   *)

LatestLines(s) == \A i \in DOMAIN s : s[i] = written - Len(s) + i

HistoryIsRecent ==
  /\ logHistory \in Seq(Int) /\ kept \in Seq(Int)
  /\ "rewrite" \notin torn \union {logPc} =>
       /\ LatestLines(logHistory)
       /\ Len(logHistory) >= HistoryCap - 1 \/ Len(logHistory) = written
  /\ "rewrite" \notin torn /\ logPc \in {"cut", "rewrite"} =>
       LatestLines(kept) /\ Len(kept) = HistoryCap - 1

LEMMA HistoryNext == LogInv /\ HistoryIsRecent /\ [L!Next]_(L!vars) => HistoryIsRecent'
<1> SUFFICES ASSUME LogInv, HistoryIsRecent, [L!Next]_(L!vars) PROVE HistoryIsRecent'
  OBVIOUS
<1> USE LogsAssumption
<1>1. written \in Nat /\ logHistory \in Seq(Int) /\ kept \in Seq(Int)
  BY DEF LogInv, LogTypes, HistoryIsRecent
<1>2. CASE L!Record
  <2>1. /\ logPc = "session" /\ logPc' = "session" /\ torn' = torn /\ kept' = kept
        /\ written' = written + 1 /\ logHistory' = Append(logHistory, written + 1)
    BY <1>2 DEF L!Record
  <2>2. /\ logHistory' \in Seq(Int) /\ Len(logHistory') = Len(logHistory) + 1
        /\ \A i \in DOMAIN logHistory : logHistory'[i] = logHistory[i]
        /\ logHistory'[Len(logHistory) + 1] = written + 1
        /\ DOMAIN logHistory' = 1..Len(logHistory) + 1
        /\ DOMAIN logHistory = 1..Len(logHistory) /\ Len(logHistory) \in Nat
    BY <1>1, <2>1
  <2>3. LatestLines(logHistory) => LatestLines(logHistory)'
    <3> SUFFICES ASSUME LatestLines(logHistory), NEW i \in 1..Len(logHistory) + 1
                 PROVE  logHistory'[i] = written' - Len(logHistory') + i
      BY <2>2 DEF LatestLines
    <3>1. CASE i = Len(logHistory) + 1
      BY <1>1, <2>1, <2>2, <3>1
    <3>2. CASE i # Len(logHistory) + 1
      <4>1. i \in DOMAIN logHistory /\ logHistory[i] = written - Len(logHistory) + i
        BY <2>2, <3>2 DEF LatestLines
      <4> QED BY <1>1, <2>1, <2>2, <4>1
    <3> QED BY <3>1, <3>2
  <2>4. Len(logHistory) >= HistoryCap - 1 \/ Len(logHistory) = written
          => Len(logHistory') >= HistoryCap - 1 \/ Len(logHistory') = written'
    <3>1. Len(logHistory) \in Nat /\ Len(logHistory') = Len(logHistory) + 1
      BY <2>2
    <3> QED BY <1>1, <2>1, <3>1
  <2> QED BY <1>1, <2>1, <2>2, <2>3, <2>4 DEF HistoryIsRecent
<1>3. CASE L!Trim
  <2>1. UNCHANGED <<written, torn, logHistory>> /\ logPc = "trim" /\ logPc' \in {"session", "cut"}
    BY <1>3 DEF L!Trim
  <2>2. CASE Len(logHistory) + 1 <= HistoryCap
    <3>1. logPc' = "session" /\ kept' = <<>>
      BY <1>3, <2>2 DEF L!Trim
    <3> QED BY <1>1, <2>1, <3>1 DEF HistoryIsRecent, LatestLines
  <2>3. CASE ~(Len(logHistory) + 1 <= HistoryCap)
    <3> DEFINE n == Len(logHistory)
               from == n - HistoryCap + 2
    <3>1. kept' = SubSeq(logHistory, from, n)
      BY <1>3, <2>3 DEF L!Trim
    <3>2. n \in Nat /\ from \in 1..n + 1 /\ n - from + 1 = HistoryCap - 1
      BY <1>1, <2>3
    <3>3. /\ kept' \in Seq(Int) /\ Len(kept') = HistoryCap - 1
          /\ DOMAIN kept' = 1..HistoryCap - 1
          /\ \A i \in 1..HistoryCap - 1 : kept'[i] = logHistory[from + i - 1]
      BY <1>1, <3>1, <3>2
    <3>4. \A i \in 1..HistoryCap - 1 : from + i - 1 \in DOMAIN logHistory
      BY <1>1, <3>2
    <3>5. LatestLines(logHistory) => LatestLines(kept)'
      <4> SUFFICES ASSUME LatestLines(logHistory), NEW i \in 1..HistoryCap - 1
                   PROVE  kept'[i] = written' - Len(kept') + i
        BY <3>3 DEF LatestLines
      <4>1. logHistory[from + i - 1] = written - n + (from + i - 1)
        BY <3>4 DEF LatestLines
      <4>2. kept'[i] = written - n + (from + i - 1) /\ Len(kept') = HistoryCap - 1
        BY <3>3, <4>1
      <4>3. from = n - HistoryCap + 2 /\ n \in Nat
        BY <3>2
      <4> HIDE DEF n, from
      <4> QED BY <1>1, <2>1, <4>2, <4>3
    <3>6. LatestLines(logHistory) => LatestLines(logHistory)'
      BY <2>1 DEF LatestLines
    <3> HIDE DEF n, from
    <3> QED BY <1>1, <2>1, <3>3, <3>5, <3>6 DEF HistoryIsRecent
  <2> QED BY <2>2, <2>3
<1>4. CASE L!Cut
  BY <1>1, <1>4 DEF L!Cut, HistoryIsRecent, LatestLines
<1>5. CASE L!Rewrite
  BY <1>1, <1>5 DEF L!Rewrite, HistoryIsRecent, LatestLines
<1>6. CASE L!End
  BY <1>6 DEF L!End, HistoryIsRecent, LatestLines
<1>7. CASE L!Open \/ L!Shift \/ L!Move \/ L!Reopen \/ L!Archive \/ L!Compress \/ L!Truncate
  BY <1>7 DEF L!Open, L!Shift, L!Move, L!Reopen, L!Archive, L!Compress, L!Truncate,
     HistoryIsRecent, LatestLines
<1>8. CASE L!NextDay \/ UNCHANGED L!vars
  BY <1>8 DEF L!NextDay, L!vars, HistoryIsRecent, LatestLines
<1> QED BY <1>2, <1>3, <1>4, <1>5, <1>6, <1>7, <1>8 DEF L!Next

(* No record is lost by the rotation, the archive or a crash at any step of *)
(* them: it leaves with the oldest file only, when as much has been written *)
(* after it as the numbered files hold, unless a crash met their shifting;  *)
(* and the history keeps the latest lines, as many as it may, unless a      *)
(* crash met its rewriting.                                                 *)
THEOREM NothingLeavesEarly == L!Spec => []RecordsAreKept
<1> DEFINE Inv == LogInv /\ EveryRecordIsKept /\ RecordsAge /\ HistoryIsRecent
<1>1. L!Init => Inv
  <2> SUFFICES ASSUME L!Init PROVE Inv
    OBVIOUS
  <2>1. LogInv
    BY LogsAssumption, NoFileIsNone
       DEF L!Init, LogInv, LogTypes, FilesAtEachStep, LogFile
  <2>2. EveryRecordIsKept
    BY DEF L!Init, EveryRecordIsKept
  <2>3. RecordsAge
    BY LogsAssumption, NumbersOfFiles, NoFileIsNone DEF L!Init, RecordsAge, DroppedAreOld, FilesAreOld
  <2>4. HistoryIsRecent
    BY DEF L!Init, HistoryIsRecent, LatestLines
  <2> QED BY <2>1, <2>2, <2>3, <2>4
<1>2. Inv /\ [L!Next]_(L!vars) => Inv'
  BY LogInvNext, KeptNext, AgeNext, HistoryNext
<1>3. Inv => RecordsAreKept
  BY DEF RecordsAreKept, L!RecordsAreKept, EveryRecordIsKept, InAFile, InAnArchive,
     RecordsAge, DroppedAreOld, HistoryIsRecent, LatestLines
<1> HIDE DEF Inv
<1> QED BY <1>1, <1>2, <1>3, PTL DEF L!Spec

-----------------------------------------------------------------------------
(* The lines of the loop (Repl).  A line is passed on as part of a text, so *)
(* what is asked of the texts is that they are sequences of lines: those    *)
(* typed, those of the history, and the statements the parser makes of them.*)

Texts == Seq(TypedLines)

LineTypes ==
  /\ pending \in Texts /\ done \in Texts /\ went \in Texts /\ file \in Texts
  /\ history \in Seq(Texts)

LinesInv == LineTypes /\ R!EveryLineOnce

\* The parser's state after some lines.
Reader == [bad : BOOLEAN, depth : Nat, cur : Texts, stmts : Seq(Texts)]

LEMMA ReadType ==
  ASSUME NEW s \in Reader, NEW line \in TypedLines
  PROVE  R!Read(s, line) \in Reader
<1> DEFINE d == CASE line.syn = "open" -> s.depth + 1
                  [] line.syn = "close" -> s.depth - 1
                  [] OTHER -> s.depth
           cur == Append(s.cur, line)
<1>1. s.depth \in Nat /\ s.cur \in Texts /\ s.stmts \in Seq(Texts)
  BY DEF Reader
<1>2. d \in Int
  BY <1>1
<1>3. cur \in Texts
  BY <1>1 DEF Texts
<1> DEFINE bad == s.bad \/ line.syn = "bad" \/ d < 0
           depth == IF d < 0 THEN 0 ELSE d
           rest == IF d <= 0 THEN <<>> ELSE cur
           stmts == IF d <= 0 THEN Append(s.stmts, cur) ELSE s.stmts
<1>4. R!Read(s, line) = [bad |-> bad, depth |-> depth, cur |-> rest, stmts |-> stmts]
  BY Zenon DEF R!Read
<1> HIDE DEF d, cur
<1>5. depth \in Nat
  BY <1>2
<1>6. rest \in Texts
  BY <1>3 DEF Texts
<1>7. stmts \in Seq(Texts)
  <2> HIDE DEF Texts
  <2> QED BY <1>1, <1>3
<1>8. bad \in BOOLEAN
  OBVIOUS
<1> HIDE DEF bad, depth, rest, stmts
<1> QED BY <1>4, <1>5, <1>6, <1>7, <1>8 DEF Reader

\* A program's statements are texts.
LEMMA VerdictType ==
  ASSUME NEW text \in Texts, R!Verdict(text).is = "program"
  PROVE  R!Verdict(text).stmts \in Seq(Texts)
<1> DEFINE N == Len(text)
           T == Reader
           walk == [u \in T |-> [i \in 1..N |-> R!Read(u, text[i])]]
           Body(f) == [i \in 0..N |-> IF i = 0 THEN R!Unread ELSE R!Read(f[i - 1], text[i])]
           read == CHOOSE f : f = Body(f)
           end == read[N]
<1>0. N \in Nat /\ \A i \in 1..N : text[i] \in TypedLines
  BY DEF Texts
<1>1. walk \in Bodies(T, N)
  <2> HIDE DEF N, T
  <2>1. \A u \in T : \A i \in 1..N : R!Read(u, text[i]) \in T
    BY <1>0, ReadType DEF T
  <2> QED BY <2>1 DEF Bodies
<1>2. R!Unread \in T
  BY DEF R!Unread, Reader, Texts
<1>3. PICK f : IsRun(f, T, N, R!Unread, walk)
  <2> HIDE DEF walk, N, T
  <2> QED BY <1>0, <1>1, <1>2, LoopExists
<1>4. f = Body(f)
  <2>1. ASSUME NEW i \in 1..N
        PROVE  f[i] = R!Read(f[i - 1], text[i])
    <3>1. f[i - 1] \in T /\ f[i] = walk[f[i - 1]][i]
      BY <1>3 DEF IsRun
    <3> HIDE DEF T, N
    <3> QED BY <3>1
  <2> HIDE DEF T
  <2> QED BY <1>0, <1>3, <2>1 DEF IsRun
<1>5. read = Body(read)
  <2> HIDE DEF Body
  <2> QED BY <1>4
<1> HIDE DEF read
<1>6. read[0] = R!Unread
  BY <1>0, <1>5
<1>7. ASSUME NEW n \in 0..N - 1, read[n] \in T
      PROVE  read[n + 1] \in T
  <2>1. n + 1 \in 1..N /\ n + 1 \in 0..N /\ n + 1 # 0 /\ (n + 1) - 1 = n
    BY <1>0
  <2>2. read[n + 1] = Body(read)[n + 1]
    BY <1>5, Zenon
  <2>3. read[n + 1] = R!Read(read[n], text[n + 1])
    <3> HIDE DEF N
    <3> QED BY <2>1, <2>2
  <2> HIDE DEF T
  <2> QED BY <1>0, <1>7, <2>1, <2>3, ReadType DEF T
<1>8. end \in T
  <2> DEFINE S == {n \in 0..N : read[n] \in T}
  <2>1. 0 \in S
    BY <1>0, <1>2, <1>6
  <2>2. \A n \in 0..N - 1 : n \in S => n + 1 \in S
    <3> HIDE DEF T, N
    <3> QED BY <1>0, <1>7
  <2>3. 0..N \subseteq S
    <3> HIDE DEF S, N
    <3> QED BY <1>0, <2>1, <2>2, LoopInvariant
  <2> QED BY <1>0, <2>3
<1>9. R!Verdict(text) = CASE end.bad -> [is |-> "error", stmts |-> <<>>]
                          [] end.depth > 0 -> [is |-> "incomplete", stmts |-> <<>>]
                          [] OTHER -> [is |-> "program", stmts |-> end.stmts]
  BY Zenon DEF R!Verdict, read
<1> HIDE DEF end
<1> QED BY <1>8, <1>9 DEF Reader

\* The lines of several texts are a text.
LEMMA FlattenType ==
  ASSUME NEW seqs \in Seq(Texts)
  PROVE  R!FlattenSeq(seqs) \in Texts
<1> DEFINE N == Len(seqs)
           T == Texts
           walk == [u \in T |-> [i \in 1..N |-> u \o seqs[i]]]
           Body(f) == [i \in 1..N |-> IF i = 1 THEN seqs[i] ELSE f[i - 1] \o seqs[i]]
           flat == CHOOSE f : f = Body(f)
<1>0. N \in Nat /\ \A i \in 1..N : seqs[i] \in T
  <2> HIDE DEF T
  <2>1. seqs \in Seq(T)
    BY DEF T
  <2> QED BY <2>1
<1>1. walk \in Bodies(T, N) /\ <<>> \in T
  <2> HIDE DEF N
  <2>1. \A u \in T : \A i \in 1..N : u \o seqs[i] \in T
    BY <1>0 DEF Texts
  <2>2. <<>> \in T
    BY DEF Texts
  <2> HIDE DEF T
  <2> QED BY <2>1, <2>2 DEF Bodies
<1>2. PICK f : IsRun(f, T, N, <<>>, walk)
  <2> HIDE DEF walk, N, T
  <2> QED BY <1>0, <1>1, LoopExists
<1>3. ASSUME NEW i \in 1..N
      PROVE  f[i] = f[i - 1] \o seqs[i]
  <2>1. f[i - 1] \in T /\ f[i] = walk[f[i - 1]][i]
    BY <1>2 DEF IsRun
  <2> HIDE DEF T, N
  <2> QED BY <2>1
<1> DEFINE g == [i \in 1..N |-> f[i]]
<1>4. g = Body(g)
  <2>1. ASSUME NEW i \in 1..N
        PROVE  g[i] = IF i = 1 THEN seqs[i] ELSE g[i - 1] \o seqs[i]
    <3>1. CASE i = 1
      <4>1. f[1] = <<>> \o seqs[1]
        <5>1. f[i] = f[i - 1] \o seqs[i]
          BY <1>3
        <5>2. i - 1 = 0 /\ f[0] = <<>>
          BY <1>2, <3>1 DEF IsRun
        <5> HIDE DEF N, T
        <5> QED BY <3>1, <5>1, <5>2
      <4>2. seqs[1] \in Seq(TypedLines)
        BY <1>0, <3>1 DEF Texts
      <4>3. f[1] = seqs[1]
        BY <4>1, <4>2
      <4> HIDE DEF N
      <4> QED BY <3>1, <4>3
    <3>2. CASE i # 1
      <4>1. i - 1 \in 1..N
        BY <1>0, <3>2
      <4> HIDE DEF N
      <4> QED BY <1>3, <3>2, <4>1
    <3> QED BY <3>1, <3>2
  <2> HIDE DEF N
  <2> QED BY <2>1
<1>5. flat = Body(flat)
  <2> HIDE DEF Body, g
  <2> QED BY <1>4
<1> HIDE DEF flat
<1>6. ASSUME NEW n \in 1..N
      PROVE  flat[n] = IF n = 1 THEN seqs[n] ELSE flat[n - 1] \o seqs[n]
  <2>1. flat[n] = Body(flat)[n]
    BY <1>5, Zenon
  <2> HIDE DEF N
  <2> QED BY <2>1
<1>7. ASSUME N # 0
      PROVE  flat[N] \in T
  <2> DEFINE S == {n \in 0..N : n = 0 \/ flat[n] \in T}
  <2>1. 0 \in S
    BY <1>0
  <2>2. ASSUME NEW n \in 0..N - 1, n \in S
        PROVE  n + 1 \in S
    <3>1. n + 1 \in 1..N /\ (n + 1) - 1 = n
      BY <1>0
    <3>2. seqs[n + 1] \in T
      BY <1>0, <3>1
    <3>3. flat[n + 1] = IF n + 1 = 1 THEN seqs[n + 1] ELSE flat[n] \o seqs[n + 1]
      BY <1>6, <3>1
    <3>4. flat[n + 1] \in T
      <4>1. CASE n = 0
        BY <3>2, <3>3, <4>1
      <4>2. CASE n # 0
        <5>1. flat[n] \in T
          BY <2>2, <4>2
        <5>2. flat[n + 1] = flat[n] \o seqs[n + 1]
          <6>1. n + 1 # 1
            BY <1>0, <4>2
          <6> QED BY <3>3, <6>1, Zenon
        <5> QED BY <3>2, <5>1, <5>2 DEF Texts
      <4> QED BY <4>1, <4>2
    <3> HIDE DEF T
    <3> QED BY <1>0, <3>1, <3>4
  <2>3. 0..N \subseteq S
    <3> HIDE DEF S, N
    <3> QED BY <1>0, <2>1, <2>2, LoopInvariant
  <2> HIDE DEF T
  <2> QED BY <1>0, <1>7, <2>3
<1>8. R!FlattenSeq(seqs) = IF N = 0 THEN seqs ELSE flat[N]
  BY Zenon DEF R!FlattenSeq, flat
<1>9. N = 0 => seqs \in T
  <2>1. N = 0 => seqs = <<>>
    <3> HIDE DEF Texts
    <3> QED OBVIOUS
  <2> QED BY <1>1, <2>1
<1> QED BY <1>7, <1>8, <1>9

\* What runs of a program, the last statement with it or not, are statements of it.
LEMMA RunningType ==
  ASSUME NEW stmts \in Seq(Texts)
  PROVE  R!Running(stmts) \in Seq(Texts) /\ R!Front(R!Running(stmts)) \in Seq(Texts)
<1> DEFINE I == {i \in 1..Len(stmts) : R!Leaves(stmts[i])}
           n == R!SelectInSeq(stmts, R!Leaves)
<1>1. n \in 0..Len(stmts)
  <2>1. CASE I = {}
    <3>1. n = 0
      BY <2>1, Zenon DEF R!SelectInSeq
    <3> HIDE DEF n
    <3> QED BY <3>1
  <2>2. CASE I # {}
    <3>1. n = R!Min(I)
      BY <2>2, Zenon DEF R!SelectInSeq
    <3>2. I \in SUBSET Nat /\ I \subseteq 1..Len(stmts)
      OBVIOUS
    <3> HIDE DEF I, n
    <3>3. \E m \in I : \A k \in I : m <= k
      BY <2>2, <3>2, LeastExists
    <3>4. R!Min(I) \in I
      BY <3>3 DEF R!Min
    <3>5. R!Min(I) \in 0..Len(stmts)
      <4>1. 1..Len(stmts) \subseteq 0..Len(stmts)
        OBVIOUS
      <4> QED BY <3>2, <3>4, <4>1, Zenon
    <3> QED BY <3>1, <3>5, Zenon
  <2> QED BY <2>1, <2>2
<1>2. R!Running(stmts) = IF n = 0 THEN stmts ELSE SubSeq(stmts, 1, n)
  BY Zenon DEF R!Running
<1> HIDE DEF n, Texts
<1>3. R!Running(stmts) \in Seq(Texts)
  <2>1. CASE n = 0
    BY <1>2, <2>1
  <2>2. CASE n # 0
    <3>1. SubSeq(stmts, 1, n) \in Seq(Texts)
      BY <1>1
    <3> QED BY <1>2, <2>2, <3>1
  <2> QED BY <2>1, <2>2
<1>4. \A ran \in Seq(Texts) : R!Front(ran) \in Seq(Texts)
  BY DEF R!Front
<1> QED BY <1>3, <1>4

\* initHistory makes an entry of every line of the file.
LEMMA ReloadType ==
  ASSUME NEW lines \in Texts
  PROVE  [i \in DOMAIN lines |-> <<lines[i]>>] \in Seq(Texts)
<1>1. DOMAIN lines = 1..Len(lines) /\ Len(lines) \in Nat
  BY DEF Texts
<1>2. \A i \in 1..Len(lines) : <<lines[i]>> \in Texts
  BY DEF Texts
<1> HIDE DEF Texts
<1> QED BY <1>1, <1>2

\* A command of the loop's own, typed or from the history.
LEMMA HandleKeeps ==
  ASSUME LinesInv, NEW line \in TypedLines, R!Handle(line)
  PROVE  LinesInv'
<1> DEFINE reloaded == IF line.does = "history" THEN [i \in DOMAIN file |-> <<file[i]>>] ELSE history
<1>1. /\ UNCHANGED <<pending, done, went>>
      /\ file' = Append(file, line) /\ history' = Append(reloaded, <<line>>)
  BY Zenon DEF R!Handle
<1>2. reloaded \in Seq(Texts)
  <2>1. [i \in DOMAIN file |-> <<file[i]>>] \in Seq(Texts)
    BY ReloadType DEF LinesInv, LineTypes
  <2> QED BY <2>1 DEF LinesInv, LineTypes
<1>3. <<line>> \in Texts
  BY DEF Texts
<1> HIDE DEF reloaded
<1>4. history' \in Seq(Texts)
  BY <1>1, <1>2, <1>3
<1>5. file' \in Texts
  BY <1>1 DEF LinesInv, LineTypes, Texts
<1> QED BY <1>1, <1>4, <1>5 DEF LinesInv, LineTypes, R!EveryLineOnce

\* Texts reach the history in memory and, line by line, the file.
LEMMA AddAllType ==
  ASSUME LineTypes, NEW texts \in Seq(Texts), R!AddAll(texts)
  PROVE  history' \in Seq(Texts) /\ file' \in Texts
<1>1. history' = history \o texts /\ file' = file \o R!FlattenSeq(texts)
  BY DEF R!AddAll
<1>2. R!FlattenSeq(texts) \in Texts
  BY FlattenType
<1>3. history' \in Seq(Texts)
  <2> HIDE DEF Texts
  <2> QED BY <1>1 DEF LineTypes
<1> QED BY <1>1, <1>2, <1>3 DEF LineTypes, Texts

\* The parser gets the waiting lines and the new text: they wait on, or are done.
LEMMA CollectKeeps ==
  ASSUME LinesInv, NEW text \in Texts, R!Collect(text)
  PROVE  LinesInv'
<1> DEFINE all == pending \o text
<1>1. pending \in Texts /\ done \in Texts /\ went \in Texts /\ file \in Texts /\ history \in Seq(Texts)
  BY DEF LinesInv, LineTypes
<1>2. all \in Texts /\ went \o text \in Texts /\ done \o all \in Texts /\ <<>> \in Texts
  BY <1>1 DEF Texts
<1>3. went' = went \o text
  BY DEF R!Collect
<1>4. went' = done \o all
  <2>1. (done \o pending) \o text = done \o all
    BY <1>1 DEF Texts
  <2>2. went = done \o pending
    BY DEF LinesInv, R!EveryLineOnce
  <2> QED BY <1>3, <2>1, <2>2
<1> HIDE DEF all
<1>5. CASE R!More(all)
  <2>1. pending' = all /\ UNCHANGED <<done, file, history>>
    BY <1>5 DEF R!More
  <2> QED BY <1>1, <1>2, <1>3, <1>4, <2>1 DEF LinesInv, LineTypes, R!EveryLineOnce
<1>6. ASSUME pending' = <<>>, done' = done \o all, history' \in Seq(Texts), file' \in Texts
      PROVE  LinesInv'
  <2>1. done' \o pending' = done'
    BY <1>2, <1>6 DEF Texts
  <2> QED BY <1>2, <1>3, <1>4, <1>6, <2>1 DEF LinesInv, LineTypes, R!EveryLineOnce
<1>7. CASE R!Rejected(all)
  <2>1. pending' = <<>> /\ done' = done \o all /\ UNCHANGED <<history, file>>
    BY <1>7 DEF R!Rejected
  <2> QED BY <1>1, <1>6, <2>1
<1>8. CASE R!Run(all)
  <2> DEFINE ran == R!Running(R!Verdict(all).stmts)
             over == R!Leaves(R!Last(ran))
             entries == IF over THEN R!Front(ran) ELSE ran
  <2>1. /\ R!Verdict(all).is = "program"
        /\ pending' = <<>> /\ done' = done \o all
        /\ R!AddAll(entries)
    BY <1>8, Zenon DEF R!Run
  <2>2. entries \in Seq(Texts)
    <3>1. ran \in Seq(Texts) /\ R!Front(ran) \in Seq(Texts)
      BY <1>2, <2>1, VerdictType, RunningType
    <3> QED BY <3>1, Zenon
  <2> HIDE DEF entries
  <2>3. history' \in Seq(Texts) /\ file' \in Texts
    BY <2>1, <2>2, AddAllType DEF LinesInv
  <2> QED BY <1>6, <2>1, <2>3
<1> QED BY <1>5, <1>7, <1>8 DEF R!Collect, all

LEMMA LinesInvNext == LinesInv /\ [R!Next]_(R!vars) => LinesInv'
<1> SUFFICES ASSUME LinesInv, [R!Next]_(R!vars) PROVE LinesInv'
  OBVIOUS
<1>0. /\ pending \in Texts /\ done \in Texts /\ went \in Texts /\ file \in Texts
      /\ history \in Seq(Texts) /\ went = done \o pending
      /\ <<>> \in Texts
  BY DEF LinesInv, LineTypes, R!EveryLineOnce, Texts
<1>1. ASSUME UNCHANGED <<pending, done, went, file, history>>
      PROVE  LinesInv'
  BY <1>1 DEF LinesInv, LineTypes, R!EveryLineOnce
<1>2. CASE R!Interrupted
  <2>1. pending' = <<>> /\ done' = done \o pending /\ UNCHANGED <<went, file, history>>
    BY <1>2 DEF R!Interrupted
  <2>2. done \o pending \in Texts /\ went = (done \o pending) \o <<>>
    BY <1>0 DEF Texts
  <2> QED BY <1>0, <2>1, <2>2 DEF LinesInv, LineTypes, R!EveryLineOnce
<1>3. CASE R!EndOfInput
  BY <1>1, <1>3 DEF R!EndOfInput
<1>4. CASE R!Blank
  BY <1>1, <1>4 DEF R!Blank
<1>5. CASE R!Start
  <2>1. /\ history' = [i \in DOMAIN file |-> <<file[i]>>]
        /\ pending' = <<>> /\ went' = <<>> /\ done' = <<>> /\ file' = file
    BY <1>5 DEF R!Start
  <2>2. history' \in Seq(Texts)
    BY <1>0, <2>1, ReloadType
  <2>3. <<>> = <<>> \o pending'
    BY <2>1
  <2> QED BY <1>0, <2>1, <2>2, <2>3 DEF LinesInv, LineTypes, R!EveryLineOnce
<1>6. ASSUME NEW line \in TypedLines,
             R!AskKI(line) \/ R!ExitWord(line) \/ R!Builtin(line) \/ R!ShellLine(line)
      PROVE  LinesInv'
  <2>0. <<line>> \in Texts
    BY DEF Texts
  <2>1. CASE R!AskKI(line)
    <3>1. R!AddAll(<< <<line>> >>) /\ UNCHANGED <<pending, done, went>>
      BY <2>1 DEF R!AskKI
    <3>2. << <<line>> >> \in Seq(Texts)
      BY <2>0
    <3>3. history' \in Seq(Texts) /\ file' \in Texts
      BY <3>1, <3>2, AddAllType DEF LinesInv
    <3> QED BY <1>0, <3>1, <3>3 DEF LinesInv, LineTypes, R!EveryLineOnce
  <2>2. CASE R!ExitWord(line)
    BY <1>1, <2>2 DEF R!ExitWord
  <2>3. CASE R!Builtin(line)
    BY <2>3, HandleKeeps DEF R!Builtin
  <2>4. CASE R!ShellLine(line)
    BY <2>0, <2>4, CollectKeeps DEF R!ShellLine
  <2> QED BY <1>6, <2>1, <2>2, <2>3, <2>4
<1>7. ASSUME NEW n \in DOMAIN history, R!Bang(n)
      PROVE  LinesInv'
  <2>1. history[n] \in Texts
    <3> HIDE DEF Texts
    <3> QED BY <1>0
  <2>2. CASE Len(history[n]) = 1 /\ history[n][1].k = "builtin"
    <3>1. R!Handle(history[n][1])
      BY <1>7, <2>2 DEF R!Bang
    <3>2. \A text \in Texts : Len(text) = 1 => text[1] \in TypedLines
      BY DEF Texts
    <3>3. history[n][1] \in TypedLines
      BY <2>1, <2>2, <3>2
    <3> QED BY <3>1, <3>3, HandleKeeps
  <2>3. CASE ~(Len(history[n]) = 1 /\ history[n][1].k = "builtin")
    <3>1. R!Collect(history[n])
      BY <1>7, <2>3 DEF R!Bang
    <3> QED BY <2>1, <3>1, CollectKeeps
  <2> QED BY <2>2, <2>3
<1>8. CASE UNCHANGED R!vars
  BY <1>1, <1>8 DEF R!vars
<1> QED BY <1>2, <1>3, <1>4, <1>5, <1>6, <1>7, <1>8 DEF R!Next

(* Every line typed for the shell's part of the loop is used once and in    *)
(* order, whatever the lines are: ran, rejected, thrown away or waiting.     *)
THEOREM NoLineIsLost == R!Spec => []EveryLineOnce
<1>1. R!Init => LinesInv
  <2> SUFFICES ASSUME R!Init PROVE LinesInv
    OBVIOUS
  <2>1. pending = <<>> /\ history = <<>> /\ file = <<>> /\ went = <<>> /\ done = <<>>
    BY DEF R!Init
  <2> QED BY <2>1 DEF LinesInv, LineTypes, R!EveryLineOnce, Texts
<1>2. LinesInv => EveryLineOnce
  BY DEF LinesInv, EveryLineOnce
<1> QED BY <1>1, <1>2, LinesInvNext, PTL DEF R!Spec

-----------------------------------------------------------------------------
(* The newest script (Learning).  Every list of turns is the end of one     *)
(* that got all of them; what an end has for its last script, the whole has.*)

Answers == SkillScripts \cup {K!NoScript}

IsLastScript(ts, i) ==
  ts[i] # K!NoScript /\ \A j \in i + 1..Len(ts) : ts[j] = K!NoScript

\* The last script of these turns, if there is one, is x.
Shown(ts, x) == \A i \in 1..Len(ts) : IsLastScript(ts, i) => ts[i] = x

\* t ends like the first n turns of s, or like s.
EndAt(t, s, n) == Len(t) <= n /\ \A k \in 1..Len(t) : t[k] = s[(n - Len(t)) + k]
EndOf(t, s) == EndAt(t, s, Len(s))

LEMMA ShownIsLast ==
  ASSUME NEW ts \in Seq(Answers), NEW x, Shown(ts, x)
  PROVE  K!LastScript(ts) \in {x, K!NoScript}
<1> DEFINE I == {i \in 1..Len(ts) : ts[i] # K!NoScript}
           n == IF I # {} THEN K!Max(I) ELSE 0
<1>1. K!LastScript(ts) = IF n = 0 THEN K!NoScript ELSE ts[n]
  BY Zenon DEF K!LastScript, K!SelectLastInSeq
<1>2. CASE I = {}
  <2>1. n = 0
    BY <1>2
  <2> QED BY <1>1, <2>1
<1>3. CASE I # {}
  <2>1. I \in SUBSET (0..Len(ts)) /\ Len(ts) \in Nat
    OBVIOUS
  <2>2. \E m \in I : \A k \in I : k <= m
    <3> HIDE DEF I
    <3> QED BY <1>3, <2>1, GreatestExists
  <2>3. n \in I /\ \A k \in I : n >= k
    <3>1. n = K!Max(I)
      BY <1>3
    <3>2. \E m \in I : \A k \in I : m >= k
      <4> HIDE DEF I
      <4> QED BY <2>1, <2>2
    <3> HIDE DEF I, n
    <3> QED BY <3>1, <3>2 DEF K!Max
  <2> HIDE DEF n
  <2>4. n \in 1..Len(ts) /\ IsLastScript(ts, n)
    <3>1. n \in 1..Len(ts) /\ ts[n] # K!NoScript
      BY <2>3
    <3>2. ASSUME NEW j \in n + 1..Len(ts), ts[j] # K!NoScript
          PROVE  FALSE
      <4>1. j \in I
        BY <3>1, <3>2
      <4>2. n >= j
        BY <2>3, <4>1
      <4> QED BY <3>1, <4>2
    <3> QED BY <3>1, <3>2 DEF IsLastScript
  <2>5. ts[n] = x /\ n # 0
    BY <2>4 DEF Shown
  <2> QED BY <1>1, <2>5
<1> QED BY <1>2, <1>3

LEMMA ShownEnd ==
  ASSUME NEW s \in Seq(Answers), NEW t \in Seq(Answers), EndOf(t, s), NEW x, Shown(s, x)
  PROVE  Shown(t, x)
<1> SUFFICES ASSUME NEW i \in 1..Len(t), IsLastScript(t, i)
             PROVE  t[i] = x
  BY DEF Shown
<1> DEFINE d == Len(s) - Len(t)
<1>1. d \in Nat /\ d + i \in 1..Len(s) /\ t[i] = s[d + i]
  BY DEF EndOf, EndAt
<1>2. ASSUME NEW j \in d + i + 1..Len(s)
      PROVE  s[j] = K!NoScript
  <2>1. j - d \in i + 1..Len(t) /\ d + (j - d) = j
    BY <1>1
  <2>2. t[j - d] = s[d + (j - d)]
    BY <2>1 DEF EndOf, EndAt
  <2> QED BY <2>1, <2>2 DEF IsLastScript
<1>3. IsLastScript(s, d + i)
  BY <1>1, <1>2 DEF IsLastScript
<1> QED BY <1>1, <1>3 DEF Shown

\* A new answer is the newest, if it has a script.
Newer(x, t) == IF t = K!NoScript THEN x ELSE t

LEMMA ShownAppend ==
  ASSUME NEW ts \in Seq(Answers), NEW t \in Answers, NEW x, Shown(ts, x)
  PROVE  Append(ts, t) \in Seq(Answers) /\ Shown(Append(ts, t), Newer(x, t))
<1> DEFINE all == Append(ts, t)
<1>1. /\ all \in Seq(Answers) /\ Len(all) = Len(ts) + 1 /\ all[Len(ts) + 1] = t
      /\ \A i \in 1..Len(ts) : all[i] = ts[i]
  OBVIOUS
<1> HIDE DEF all
<1>2. ASSUME NEW i \in 1..Len(all), IsLastScript(all, i)
      PROVE  all[i] = Newer(x, t)
  <2>1. CASE i = Len(ts) + 1
    BY <1>1, <1>2, <2>1 DEF IsLastScript, Newer
  <2>2. CASE i # Len(ts) + 1
    <3>1. i \in 1..Len(ts) /\ Len(ts) + 1 \in i + 1..Len(all)
      BY <1>1, <2>2
    <3>2. t = K!NoScript
      BY <1>1, <1>2, <3>1 DEF IsLastScript
    <3>3. IsLastScript(ts, i)
      BY <1>1, <1>2, <3>1 DEF IsLastScript
    <3> QED BY <1>1, <3>1, <3>2, <3>3 DEF Shown, Newer
  <2> QED BY <2>1, <2>2
<1> QED BY <1>1, <1>2 DEF Shown, all

\* ConversationHistory.Add keeps the end of what was added.
LEMMA AddEnd ==
  ASSUME NEW ts \in Seq(Answers), NEW t \in Answers
  PROVE  K!Add(ts, t) \in Seq(Answers) /\ EndOf(K!Add(ts, t), Append(ts, t))
<1> DEFINE all == Append(ts, t)
<1>1. all \in Seq(Answers) /\ Len(all) = Len(ts) + 1 /\ all # <<>>
  <2>1. all \in Seq(Answers) /\ Len(all) = Len(ts) + 1
    OBVIOUS
  <2> HIDE DEF all
  <2>2. all # <<>>
    BY <2>1
  <2> QED BY <2>1, <2>2
<1>2. K!Add(ts, t) = all \/ K!Add(ts, t) = Tail(all)
  BY DEF K!Add
<1> HIDE DEF all
<1>3. EndOf(all, all)
  BY <1>1 DEF EndOf, EndAt
<1>4. Tail(all) \in Seq(Answers) /\ EndOf(Tail(all), all)
  <2>1. /\ Tail(all) \in Seq(Answers) /\ Len(Tail(all)) = Len(all) - 1
        /\ \A k \in 1..Len(all) - 1 : Tail(all)[k] = all[k + 1]
    BY <1>1
  <2> QED BY <1>1, <2>1 DEF EndOf, EndAt
<1> QED BY <1>1, <1>2, <1>3, <1>4 DEF all

\* The dialog's cap does as well.
LEMMA CapEnd ==
  ASSUME NEW s \in Seq(Answers)
  PROVE  K!Tail20(s) \in Seq(Answers) /\ EndOf(K!Tail20(s), s)
<1>0. MaxDialog \in Nat
  BY LearningAssumption
<1>1. EndOf(s, s)
  BY DEF EndOf, EndAt
<1>2. CASE Len(s) > MaxDialog
  <2> DEFINE m == (Len(s) - MaxDialog) + 1
             t == SubSeq(s, m, Len(s))
  <2>1. m \in 1..Len(s) + 1 /\ (Len(s) - m) + 1 = MaxDialog
    BY <1>0, <1>2
  <2>2. t \in Seq(Answers) /\ Len(t) = MaxDialog /\ \A k \in 1..MaxDialog : t[k] = s[(Len(s) - MaxDialog) + k]
    <3>1. t \in Seq(Answers) /\ Len(t) = MaxDialog
      BY <1>0, <1>2
    <3>2. ASSUME NEW k \in 1..MaxDialog
          PROVE  t[k] = s[(Len(s) - MaxDialog) + k]
      BY <1>0, <1>2
    <3> QED BY <3>1, <3>2
  <2>3. K!Tail20(s) = t
    BY <1>2 DEF K!Tail20
  <2> HIDE DEF t
  <2> QED BY <1>0, <1>2, <2>2, <2>3 DEF EndOf, EndAt
<1>3. CASE ~(Len(s) > MaxDialog)
  BY <1>1, <1>3 DEF K!Tail20
<1> QED BY <1>2, <1>3

LEMMA EndStep ==
  ASSUME NEW s, NEW n \in Nat, NEW ts \in Seq(Answers), NEW new \in Seq(Answers), NEW t \in Answers,
         EndAt(ts, s, n), t = s[n + 1], EndOf(new, Append(ts, t))
  PROVE  EndAt(new, s, n + 1)
<1>1. PICK a \in Nat : a = Len(ts)
  OBVIOUS
<1>2. PICK b \in Nat : b = Len(new)
  OBVIOUS
<1> DEFINE all == Append(ts, t)
<1>3. /\ Len(all) = a + 1 /\ all[a + 1] = t
      /\ \A k \in 1..a : all[k] = ts[k]
  BY <1>1
<1> HIDE DEF all
<1>4. b <= a + 1 /\ \A k \in 1..b : new[k] = all[((a + 1) - b) + k]
  BY <1>2, <1>3 DEF EndOf, EndAt, all
<1>5. a <= n /\ \A k \in 1..a : ts[k] = s[(n - a) + k]
  BY <1>1 DEF EndAt
<1>6. ASSUME NEW k \in 1..b
      PROVE  new[k] = s[((n + 1) - b) + k]
  <2>1. PICK p \in 1..a + 1 : p = ((a + 1) - b) + k
    BY <1>4
  <2>2. new[k] = all[p] /\ ((n + 1) - b) + k = (n - a) + p
    BY <1>4, <2>1
  <2>3. CASE p = a + 1
    <3>1. new[k] = t /\ (n - a) + p = n + 1
      BY <1>3, <2>2, <2>3
    <3> QED BY <2>2, <3>1
  <2>4. CASE p # a + 1
    <3>1. p \in 1..a
      BY <2>4
    <3> QED BY <1>3, <1>5, <2>2, <3>1
  <2> QED BY <2>3, <2>4
<1> QED BY <1>2, <1>4, <1>5, <1>6 DEF EndAt

\* Refilled from a list, the conversation holds the end of it.
LEMMA RefilledEnd ==
  ASSUME NEW list \in Seq(Answers)
  PROVE  K!Refilled(list) \in Seq(Answers) /\ EndOf(K!Refilled(list), list)
<1> DEFINE N == Len(list)
           T == Seq(Answers)
           walk == [u \in T |-> [i \in 1..N |-> K!Add(u, list[i])]]
           Body(f) == [i \in 0..N |-> IF i = 0 THEN <<>> ELSE K!Add(f[i - 1], list[i])]
           added == CHOOSE f : f = Body(f)
<1>0. N \in Nat /\ \A i \in 1..N : list[i] \in Answers
  <2> HIDE DEF Answers
  <2> QED OBVIOUS
<1>1. walk \in Bodies(T, N) /\ <<>> \in T
  <2> HIDE DEF N, Answers
  <2>1. \A u \in T : \A i \in 1..N : K!Add(u, list[i]) \in T
    BY <1>0, AddEnd
  <2>2. <<>> \in T
    OBVIOUS
  <2> HIDE DEF T
  <2> QED BY <2>1, <2>2 DEF Bodies
<1>2. PICK f : IsRun(f, T, N, <<>>, walk)
  <2> HIDE DEF walk, N, T
  <2> QED BY <1>0, <1>1, LoopExists
<1>3. f = Body(f)
  <2>1. ASSUME NEW i \in 1..N
        PROVE  f[i] = K!Add(f[i - 1], list[i])
    <3>1. f[i - 1] \in T /\ f[i] = walk[f[i - 1]][i]
      BY <1>2 DEF IsRun
    <3> HIDE DEF T, N
    <3> QED BY <3>1
  <2> HIDE DEF T
  <2> QED BY <1>0, <1>2, <2>1 DEF IsRun
<1>4. added = Body(added)
  <2> HIDE DEF Body
  <2> QED BY <1>3
<1> HIDE DEF added
<1>5. added[0] = <<>>
  BY <1>0, <1>4
<1> DEFINE Good(n) == added[n] \in T /\ EndAt(added[n], list, n)
<1>6. ASSUME NEW n \in 0..N - 1, Good(n)
      PROVE  Good(n + 1)
  <2>1. n + 1 \in 1..N /\ n + 1 \in 0..N /\ n + 1 # 0 /\ (n + 1) - 1 = n /\ n \in Nat
    BY <1>0
  <2>2. added[n + 1] = Body(added)[n + 1]
    BY <1>4, Zenon
  <2>3. added[n + 1] = K!Add(added[n], list[n + 1])
    <3> HIDE DEF N
    <3> QED BY <2>1, <2>2
  <2>4. added[n] \in Seq(Answers) /\ list[n + 1] \in Answers
    BY <1>0, <1>6, <2>1
  <2>5. /\ added[n + 1] \in Seq(Answers)
        /\ EndOf(added[n + 1], Append(added[n], list[n + 1]))
    BY <2>3, <2>4, AddEnd
  <2>6. EndAt(added[n + 1], list, n + 1)
    <3> HIDE DEF Answers
    <3> QED BY <1>6, <2>1, <2>4, <2>5, EndStep
  <2> QED BY <2>5, <2>6
<1>7. Good(N)
  <2> DEFINE S == {n \in 0..N : Good(n)}
  <2>1. 0 \in S
    <3>1. EndAt(<<>>, list, 0)
      BY DEF EndAt
    <3>2. Good(0)
      BY <1>1, <1>5, <3>1
    <3> HIDE DEF Good
    <3> QED BY <1>0, <3>2
  <2>2. \A n \in 0..N - 1 : n \in S => n + 1 \in S
    <3> HIDE DEF Good, N
    <3> QED BY <1>0, <1>6
  <2>3. 0..N \subseteq S
    <3> HIDE DEF S, N
    <3> QED BY <1>0, <2>1, <2>2, LoopInvariant
  <2> HIDE DEF Good
  <2> QED BY <1>0, <2>3
<1>8. K!Refilled(list) = added[N]
  BY Zenon DEF K!Refilled, added
<1> QED BY <1>7, <1>8 DEF EndOf

(* The dialog's list is empty outside a dialog; what it shows is the newest *)
(* answer, and so is what the conversation shows, unless the web answered.  *)
LearnInv ==
  /\ turns \in Seq(Answers) /\ conversation \in Seq(Answers)
  /\ mode \notin {"dialog", "asking"} => conversation = <<>>
  /\ Shown(conversation, newest)
  /\ ~crossed => Shown(turns, newest)

LEMMA LearnInvNext == LearnInv /\ [K!Next]_(K!vars) => LearnInv'
<1> SUFFICES ASSUME LearnInv, [K!Next]_(K!vars) PROVE LearnInv'
  OBVIOUS
<1>0. /\ turns \in Seq(Answers) /\ conversation \in Seq(Answers)
      /\ Shown(conversation, newest) /\ (~crossed => Shown(turns, newest))
      /\ <<>> \in Seq(Answers) /\ \A x : Shown(<<>>, x)
  BY DEF LearnInv, Shown
<1> DEFINE Same == UNCHANGED <<turns, conversation, newest, crossed>>
           Elsewhere == mode \notin {"dialog", "asking"}
<1>1. ASSUME Same, mode' \in {"dialog", "asking"} \/ Elsewhere
      PROVE  LearnInv'
  BY <1>1 DEF LearnInv, Shown, IsLastScript
<1>2. CASE K!BeginRun
  BY <1>1, <1>2 DEF K!BeginRun
<1>3. ASSUME NEW q \in Queries, K!RunSkill(q)
      PROVE  LearnInv'
  BY <1>1, <1>3 DEF K!RunSkill
<1>4. CASE K!EndRun
  BY <1>1, <1>4 DEF K!EndRun
<1>5. ASSUME NEW n \in SkillNames, K!Learn(n)
      PROVE  LearnInv'
  BY <1>1, <1>5 DEF K!Learn, K!Exchange
<1>6. CASE K!StartDialog \/ K!AskFails
  BY <1>1, <1>6 DEF K!StartDialog, K!AskFails
<1>7. CASE K!Clear
  <2>1. turns' = <<>> /\ crossed' = FALSE /\ UNCHANGED mode /\ conversation' = <<>>
    BY <1>7 DEF K!Clear, LearnInv
  <2> QED BY <1>0, <2>1 DEF LearnInv, Shown
<1>8. CASE K!AskCancelled \/ K!StopDialog
  <2>1. conversation' = <<>> /\ UNCHANGED <<turns, newest, crossed>>
    BY <1>8 DEF K!AskCancelled, K!StopDialog
  <2> QED BY <1>0, <2>1 DEF LearnInv, Shown, IsLastScript
<1>9. CASE K!Ask
  <2>1. mode' = "asking" /\ turns' = K!Refilled(conversation) /\ UNCHANGED <<conversation, newest, crossed>>
    BY <1>9 DEF K!Ask
  <2>2. turns' \in Seq(Answers) /\ Shown(turns', newest)
    <3> HIDE DEF Answers
    <3> QED BY <1>0, <2>1, RefilledEnd, ShownEnd
  <2> QED BY <1>0, <2>1, <2>2 DEF LearnInv, Shown, IsLastScript
<1>10. CASE K!DialogCommand
  <2>1. mode' = mode /\ mode = "dialog" /\ conversation' = Append(conversation, K!NoScript) /\ UNCHANGED <<turns, newest, crossed>>
    BY <1>10 DEF K!DialogCommand
  <2>2. conversation' \in Seq(Answers) /\ Shown(conversation', newest)
    <3>1. K!NoScript \in Answers
      BY DEF Answers
    <3>2. Newer(newest, K!NoScript) = newest
      BY DEF Newer
    <3> QED BY <1>0, <2>1, <3>1, <3>2, ShownAppend
  <2> QED BY <1>0, <2>1, <2>2 DEF LearnInv, Shown, IsLastScript
<1>11. ASSUME NEW s \in Answers, K!Step(s) \/ K!WebAnswer(s) \/ \E ran \in BOOLEAN : K!AskAnswered(s, ran)
       PROVE  LearnInv'
  <2>1. turns' = K!Add(turns, s)
    BY <1>11 DEF K!Step, K!WebAnswer, K!AskAnswered
  <2>2. /\ turns' \in Seq(Answers)
        /\ ~crossed => Shown(turns', Newer(newest, s))
    <3>1. turns' \in Seq(Answers) /\ EndOf(turns', Append(turns, s))
      BY <1>0, <2>1, AddEnd
    <3>2. CASE ~crossed
      <4>1. Append(turns, s) \in Seq(Answers) /\ Shown(Append(turns, s), Newer(newest, s))
        BY <1>0, <3>2, ShownAppend
      <4> QED BY <3>1, <4>1, ShownEnd
    <3> QED BY <3>1, <3>2
  <2>3. CASE K!Step(s)
    <3>1. newest' = Newer(newest, s) /\ UNCHANGED <<crossed, mode>> /\ conversation' = <<>>
      BY <2>3 DEF K!Step, K!Answered, Newer, LearnInv
    <3>2. Shown(conversation', newest') /\ (~crossed' => Shown(turns', newest'))
      BY <1>0, <2>2, <3>1
    <3> QED BY <1>0, <2>2, <3>1, <3>2 DEF LearnInv, Shown, IsLastScript
  <2>4. CASE K!WebAnswer(s)
    <3>1. crossed' /\ UNCHANGED <<newest, mode, conversation>>
      BY <2>4 DEF K!WebAnswer
    <3> QED BY <1>0, <2>2, <3>1 DEF LearnInv, Shown, IsLastScript
  <2>5. ASSUME NEW ran \in BOOLEAN, K!AskAnswered(s, ran)
        PROVE  LearnInv'
    <3> DEFINE results == IF ran THEN <<K!NoScript>> ELSE <<>>
               mid == conversation \o results
    <3>1. /\ mode' = "dialog" /\ crossed' = crossed /\ newest' = Newer(newest, s)
          /\ conversation' = K!Tail20(mid \o <<s>>)
      BY <2>5, Zenon DEF K!AskAnswered, K!Answered, Newer
    <3>2. mid \in Seq(Answers) /\ Shown(mid, newest)
      <4>1. CASE ran
        <5>1. mid = Append(conversation, K!NoScript)
          BY <1>0, <4>1
        <5>2. K!NoScript \in Answers /\ Newer(newest, K!NoScript) = newest
          BY DEF Answers, Newer
        <5> QED BY <1>0, <5>1, <5>2, ShownAppend
      <4>2. CASE ~ran
        <5>1. mid = conversation
          BY <1>0, <4>2
        <5> QED BY <1>0, <5>1
      <4> QED BY <4>1, <4>2
    <3> HIDE DEF mid
    <3>3. mid \o <<s>> = Append(mid, s)
      BY <3>2
    <3>4. Append(mid, s) \in Seq(Answers) /\ Shown(Append(mid, s), Newer(newest, s))
      BY <3>2, ShownAppend
    <3>5. conversation' \in Seq(Answers) /\ Shown(conversation', newest')
      BY <3>1, <3>3, <3>4, CapEnd, ShownEnd
    <3> QED BY <1>0, <2>2, <3>1, <3>5 DEF LearnInv, Shown, IsLastScript
  <2> QED BY <1>11, <2>3, <2>4, <2>5
<1>12. CASE UNCHANGED K!vars
  <2>1. Same /\ UNCHANGED mode
    BY <1>12 DEF K!vars
  <2> QED BY <2>1 DEF LearnInv, Shown, IsLastScript
<1> QED BY <1>2, <1>3, <1>4, <1>5, <1>6, <1>7, <1>8, <1>9, <1>10, <1>11, <1>12 DEF K!Next, Answers

(* ki:learn takes the newest script a model answered with, or none: for any *)
(* lengths of the conversation and of the dialog's list, whatever has been  *)
(* dropped from them, refilled and cleared.                                 *)
THEOREM NewestIsLearned == K!Spec => []LearnsTheNewest
<1>1. K!Init => LearnInv
  <2> SUFFICES ASSUME K!Init PROVE LearnInv
    OBVIOUS
  <2>1. turns = <<>> /\ conversation = <<>>
    BY DEF K!Init
  <2> QED BY <2>1 DEF LearnInv, Shown
<1>2. LearnInv => LearnsTheNewest
  BY ShownIsLast DEF LearnInv, LearnsTheNewest, K!LearnsTheNewest
<1> QED BY <1>1, <1>2, LearnInvNext, PTL DEF K!Spec

-----------------------------------------------------------------------------
(* Skills a request matches (Learning). One pass over the scores finds the  *)
(* best one and the next best; the difference of two that are ahead of each *)
(* other cannot be, so at most one skill is.                                *)

\* The cardinality of the instance is that of the theorems.
LEMMA SameCardinality == \A S : K!Cardinality(S) = Cardinality(S)
BY Zenon DEF K!Cardinality, Cardinality

\* A score that counts is at least a half: six twelfths.
LEMMA ScoreType ==
  ASSUME NEW skill, skill.name \in SkillNames, NEW query
  PROVE  K!Score(skill, query) \in Nat /\ (K!Score(skill, query) > 0 => K!Score(skill, query) >= 6)
<1> DEFINE kw == SkillWords[skill.name]
           c == Cardinality(kw)
           hits == Cardinality(kw \cap query)
<1>1. c \in Nat /\ hits \in Nat
  <2>1. IsFiniteSet(kw)
    BY LearningAssumption
  <2>2. IsFiniteSet(kw \cap query)
    BY <2>1, FS_Intersection
  <2> QED BY <2>1, <2>2, FS_CardinalityType
<1>2. K!Score(skill, query) = IF hits < 2 \/ 2 * hits < c THEN 0 ELSE (12 * hits) \div c
  BY SameCardinality DEF K!Score
<1> HIDE DEF c, hits
<1>3. ASSUME ~(hits < 2 \/ 2 * hits < c), c > 0
      PROVE  (12 * hits) \div c \in Nat /\ (12 * hits) \div c >= 6
  <2>1. PICK q \in Nat : q = (12 * hits) \div c
    BY <1>1, <1>3
  <2>2. 12 * hits < c * (q + 1)
    BY <1>1, <1>3, <2>1
  <2>3. q \notin 0..5
    <3>1. q = 0 => c * (q + 1) = c
      BY <1>1
    <3>2. q = 1 => c * (q + 1) = 2 * c
      BY <1>1
    <3>3. q = 2 => c * (q + 1) = 3 * c
      BY <1>1
    <3>4. q = 3 => c * (q + 1) = 4 * c
      BY <1>1
    <3>5. q = 4 => c * (q + 1) = 5 * c
      BY <1>1
    <3>6. q = 5 => c * (q + 1) = 6 * c
      BY <1>1
    <3> QED BY <1>1, <1>3, <2>2, <3>1, <3>2, <3>3, <3>4, <3>5, <3>6
  <2> QED BY <2>1, <2>3
<1>4. ASSUME ~(hits < 2 \/ 2 * hits < c)
      PROVE  c > 0
  <2>1. c # 0
    <3>1. IsFiniteSet(kw) /\ IsFiniteSet(kw \cap query)
      BY LearningAssumption, FS_Intersection
    <3>2. hits <= c
      BY <3>1, FS_Subset DEF c, hits
    <3> QED BY <1>1, <1>4, <3>2
  <2> QED BY <1>1, <2>1
<1> QED BY <1>2, <1>3, <1>4

(* Among the first n scores: nothing counts, or i is the best with b and    *)
(* the next best is c.                                                      *)
NoneYet(sc, n, b, c) == b = 0 /\ c = 0 /\ \A i \in 1..n : sc[i] = 0
BestIs(sc, n, b, c, i) ==
  /\ i \in 1..n /\ sc[i] = b /\ b > 0 /\ c <= b
  /\ \A j \in 1..n : j # i => sc[j] <= c
  /\ c > 0 => \E j \in 1..n : j # i /\ sc[j] = c

AheadIn(sc, n, i) ==
  i \in 1..n /\ sc[i] > 0 /\ \A j \in 1..n : j # i => sc[i] - sc[j] >= 3

LEMMA RankStep ==
  ASSUME NEW N \in Nat, NEW sc \in [1..N -> Nat], NEW n \in 0..N - 1,
         NEW b \in Nat, NEW c \in Nat
  PROVE  LET score == sc[n + 1] IN
         /\ NoneYet(sc, n, b, c) =>
              IF score > b THEN BestIs(sc, n + 1, score, b, n + 1)
              ELSE score <= c /\ NoneYet(sc, n + 1, b, c)
         /\ \A i \in 1..n : BestIs(sc, n, b, c, i) =>
              IF score > b THEN BestIs(sc, n + 1, score, b, n + 1)
              ELSE IF score > c THEN BestIs(sc, n + 1, b, score, i)
              ELSE BestIs(sc, n + 1, b, c, i)
<1> DEFINE score == sc[n + 1]
<1>1. score \in Nat /\ n \in Nat /\ n + 1 \in 1..N /\ \A j \in 1..n + 1 : sc[j] \in Nat /\ (j \in 1..n \/ j = n + 1)
  OBVIOUS
<1>2. ASSUME NoneYet(sc, n, b, c), score > b
      PROVE  BestIs(sc, n + 1, score, b, n + 1)
  BY <1>1, <1>2 DEF NoneYet, BestIs
<1>3. ASSUME NoneYet(sc, n, b, c), ~(score > b)
      PROVE  score <= c /\ NoneYet(sc, n + 1, b, c)
  BY <1>1, <1>3 DEF NoneYet
<1>4. ASSUME NEW i \in 1..n, BestIs(sc, n, b, c, i), score > b
      PROVE  BestIs(sc, n + 1, score, b, n + 1)
  BY <1>1, <1>4 DEF BestIs
<1>5. ASSUME NEW i \in 1..n, BestIs(sc, n, b, c, i), ~(score > b), score > c
      PROVE  BestIs(sc, n + 1, b, score, i)
  BY <1>1, <1>5 DEF BestIs
<1>6. ASSUME NEW i \in 1..n, BestIs(sc, n, b, c, i), ~(score > b), ~(score > c)
      PROVE  BestIs(sc, n + 1, b, c, i)
  BY <1>1, <1>6 DEF BestIs
<1> HIDE DEF score
<1> QED BY <1>2, <1>3, <1>4, <1>5, <1>6 DEF score

\* What the best and the next best say about being ahead.
LEMMA AheadIsBest ==
  ASSUME NEW N \in Nat, NEW sc \in [1..N -> Nat], \A i \in 1..N : sc[i] > 0 => sc[i] >= 6,
         NEW b \in Nat, NEW c \in Nat
  PROVE  /\ NoneYet(sc, N, b, c) => \A i \in 1..N : ~AheadIn(sc, N, i)
         /\ \A i \in 1..N : BestIs(sc, N, b, c, i) =>
              /\ b - c >= 3 <=> AheadIn(sc, N, i)
              /\ \A j \in 1..N : AheadIn(sc, N, j) => j = i
<1>1. NoneYet(sc, N, b, c) => \A i \in 1..N : ~AheadIn(sc, N, i)
  BY DEF NoneYet, AheadIn
<1>2. ASSUME NEW i \in 1..N, BestIs(sc, N, b, c, i)
      PROVE  /\ b - c >= 3 <=> AheadIn(sc, N, i)
             /\ \A j \in 1..N : AheadIn(sc, N, j) => j = i
  <2>1. \A j \in 1..N : sc[j] \in Nat
    OBVIOUS
  <2>2. b - c >= 3 => AheadIn(sc, N, i)
    BY <1>2, <2>1 DEF BestIs, AheadIn
  <2>3. AheadIn(sc, N, i) => b - c >= 3
    BY <1>2, <2>1 DEF BestIs, AheadIn
  <2>4. ASSUME NEW j \in 1..N, AheadIn(sc, N, j), j # i
        PROVE  FALSE
    BY <1>2, <2>1, <2>4 DEF BestIs, AheadIn
  <2> QED BY <2>2, <2>3, <2>4
<1> QED BY <1>1, <1>2

\* Lists of skills that have a name each.
Named(skills) ==
  /\ Len(skills) \in Nat
  /\ \A i \in 1..Len(skills) : skills[i].name \in SkillNames

Scores(skills, query) == [i \in 1..Len(skills) |-> K!Score(skills[i], query)]

(* The loop of matchSkillForQuery: what it has after n skills.              *)
Ranks == [best : Nat, second : Nat, name : SkillNames \cup {""}]
RankedFor(r, skills, sc, n) ==
  /\ r \in Ranks
  /\ \/ NoneYet(sc, n, r.best, r.second) /\ r.name = ""
     \/ \E i \in 1..n : BestIs(sc, n, r.best, r.second, i) /\ r.name = skills[i].name

\* What one more skill makes of the best and the next best so far.
RankedNext(r, new, score, name) ==
  /\ new \in Ranks
  /\ score > r.best => new.best = score /\ new.second = r.best /\ new.name = name
  /\ ~(score > r.best) /\ score > r.second =>
       new.best = r.best /\ new.second = score /\ new.name = r.name
  /\ ~(score > r.best) /\ ~(score > r.second) => new = r

LEMMA RankIs ==
  ASSUME NEW r \in Ranks, NEW skill, skill.name \in SkillNames, NEW query
  PROVE  RankedNext(r, K!Rank(r, skill, query), K!Score(skill, query), skill.name)
<1> DEFINE score == K!Score(skill, query)
           new == K!Rank(r, skill, query)
<1>1. score \in Nat
  BY ScoreType
<1>2. new = IF score > r.best THEN [best |-> score, second |-> r.best, name |-> skill.name]
            ELSE IF score > r.second THEN [r EXCEPT !.second = score] ELSE r
  BY Zenon DEF K!Rank
<1> SUFFICES RankedNext(r, new, score, skill.name)
  OBVIOUS
<1> HIDE DEF score, new
<1>3. CASE score > r.best
  <2>1. new = [best |-> score, second |-> r.best, name |-> skill.name]
    BY <1>2, <1>3
  <2> QED BY <1>1, <1>3, <2>1 DEF Ranks, RankedNext
<1>4. CASE ~(score > r.best) /\ score > r.second
  <2>1. new = [r EXCEPT !.second = score]
    BY <1>2, <1>4
  <2>2. new \in Ranks /\ new.best = r.best /\ new.second = score /\ new.name = r.name
    BY <1>1, <2>1 DEF Ranks
  <2> QED BY <1>4, <2>2 DEF RankedNext
<1>5. CASE ~(score > r.best) /\ ~(score > r.second)
  <2>1. new = r
    BY <1>2, <1>5
  <2> QED BY <1>5, <2>1 DEF RankedNext
<1> QED BY <1>3, <1>4, <1>5

LEMMA RankedStep ==
  ASSUME NEW skills, Named(skills), NEW query, NEW n \in 0..Len(skills) - 1, NEW r,
         RankedFor(r, skills, Scores(skills, query), n)
  PROVE  RankedFor(K!Rank(r, skills[n + 1], query), skills, Scores(skills, query), n + 1)
<1> DEFINE N == Len(skills)
           sc == Scores(skills, query)
           score == sc[n + 1]
           new == K!Rank(r, skills[n + 1], query)
<1>1. N \in Nat /\ n \in Nat /\ n + 1 \in 1..N /\ skills[n + 1].name \in SkillNames
  BY DEF Named
<1>2. sc \in [1..N -> Nat] /\ score = K!Score(skills[n + 1], query)
  <2>1. \A i \in 1..N : K!Score(skills[i], query) \in Nat
    BY ScoreType DEF Named
  <2> QED BY <1>1, <2>1 DEF Scores
<1>3. RankedNext(r, new, score, skills[n + 1].name)
  <2>1. RankedNext(r, new, K!Score(skills[n + 1], query), skills[n + 1].name)
    BY <1>1, RankIs DEF RankedFor
  <2> HIDE DEF new, sc
  <2> QED BY <1>2, <2>1
<1>4. r.best \in Nat /\ r.second \in Nat
  BY DEF RankedFor, Ranks
<1> HIDE DEF sc, new, N
<1>5. /\ NoneYet(sc, n, r.best, r.second) =>
           IF score > r.best THEN BestIs(sc, n + 1, score, r.best, n + 1)
           ELSE score <= r.second /\ NoneYet(sc, n + 1, r.best, r.second)
      /\ \A i \in 1..n : BestIs(sc, n, r.best, r.second, i) =>
           IF score > r.best THEN BestIs(sc, n + 1, score, r.best, n + 1)
           ELSE IF score > r.second THEN BestIs(sc, n + 1, r.best, score, i)
           ELSE BestIs(sc, n + 1, r.best, r.second, i)
  <2>1. n \in 0..N - 1
    BY DEF N
  <2> QED BY <1>1, <1>2, <1>4, <2>1, RankStep
<1>6. score \in Nat
  BY <1>1, <1>2
<1> HIDE DEF score
<1>7. \/ NoneYet(sc, n, r.best, r.second) /\ r.name = ""
      \/ \E i \in 1..n : BestIs(sc, n, r.best, r.second, i) /\ r.name = skills[i].name
  BY DEF RankedFor, sc
<1>8. n + 1 \in 1..n + 1 /\ \A i \in 1..n : i \in 1..n + 1
  BY <1>1
<1>9. \/ NoneYet(sc, n + 1, new.best, new.second) /\ new.name = ""
      \/ \E i \in 1..n + 1 : BestIs(sc, n + 1, new.best, new.second, i) /\ new.name = skills[i].name
  <2>1. CASE NoneYet(sc, n, r.best, r.second) /\ r.name = ""
    <3>1. CASE score > r.best
      BY <1>3, <1>5, <1>8, <2>1, <3>1 DEF RankedNext
    <3>2. CASE ~(score > r.best)
      <4>1. score <= r.second /\ NoneYet(sc, n + 1, r.best, r.second)
        BY <1>5, <2>1, <3>2
      <4>2. ~(score > r.second)
        BY <1>4, <1>6, <4>1
      <4> QED BY <1>3, <2>1, <3>2, <4>1, <4>2 DEF RankedNext
    <3> QED BY <3>1, <3>2
  <2>2. ASSUME NEW i \in 1..n, BestIs(sc, n, r.best, r.second, i), r.name = skills[i].name
        PROVE  \E k \in 1..n + 1 : BestIs(sc, n + 1, new.best, new.second, k) /\ new.name = skills[k].name
    <3>1. CASE score > r.best
      BY <1>3, <1>5, <1>8, <2>2, <3>1 DEF RankedNext
    <3>2. CASE ~(score > r.best) /\ score > r.second
      BY <1>3, <1>5, <1>8, <2>2, <3>2 DEF RankedNext
    <3>3. CASE ~(score > r.best) /\ ~(score > r.second)
      BY <1>3, <1>5, <1>8, <2>2, <3>3 DEF RankedNext
    <3> QED BY <3>1, <3>2, <3>3
  <2> QED BY <1>7, <2>1, <2>2
<1> QED BY <1>3, <1>9 DEF RankedFor, RankedNext, sc, new

\* The loop, run to its end.
LEMMA MatchSkillIs ==
  ASSUME NEW skills, Named(skills), NEW query
  PROVE  \E end : /\ RankedFor(end, skills, Scores(skills, query), Len(skills))
                  /\ K!MatchSkill(skills, query) =
                       IF end.name # "" /\ end.best - end.second >= 3 THEN end.name ELSE ""
<1> DEFINE N == Len(skills)
           T == Ranks
           sc == Scores(skills, query)
           walk == [u \in T |-> [i \in 1..N |-> K!Rank(u, skills[i], query)]]
           Body(f) == [i \in 0..N |-> IF i = 0 THEN K!Unranked ELSE K!Rank(f[i - 1], skills[i], query)]
           ranked == CHOOSE f : f = Body(f)
<1>0. N \in Nat /\ \A i \in 1..N : skills[i].name \in SkillNames
  BY DEF Named
<1>1. walk \in Bodies(T, N)
  <2> HIDE DEF N, T
  <2>1. \A u \in T : \A i \in 1..N : K!Rank(u, skills[i], query) \in T
    BY <1>0, RankIs DEF T, RankedNext
  <2> QED BY <2>1 DEF Bodies
<1>2. K!Unranked \in T
  BY DEF K!Unranked, Ranks
<1>3. PICK f : IsRun(f, T, N, K!Unranked, walk)
  <2> HIDE DEF walk, N, T
  <2> QED BY <1>0, <1>1, <1>2, LoopExists
<1>4. f = Body(f)
  <2>1. ASSUME NEW i \in 1..N
        PROVE  f[i] = K!Rank(f[i - 1], skills[i], query)
    <3>1. f[i - 1] \in T /\ f[i] = walk[f[i - 1]][i]
      BY <1>3 DEF IsRun
    <3> HIDE DEF T, N
    <3> QED BY <3>1
  <2> HIDE DEF T
  <2> QED BY <1>0, <1>3, <2>1 DEF IsRun
<1>5. ranked = Body(ranked)
  <2> HIDE DEF Body
  <2> QED BY <1>4
<1> HIDE DEF ranked
<1>6. ranked[0] = K!Unranked
  BY <1>0, <1>5
<1> DEFINE Good(n) == RankedFor(ranked[n], skills, sc, n)
<1>7. ASSUME NEW n \in 0..N - 1, Good(n)
      PROVE  Good(n + 1)
  <2>1. n + 1 \in 1..N /\ n + 1 \in 0..N /\ n + 1 # 0 /\ (n + 1) - 1 = n
    BY <1>0
  <2>2. ranked[n + 1] = Body(ranked)[n + 1]
    BY <1>5, Zenon
  <2>3. ranked[n + 1] = K!Rank(ranked[n], skills[n + 1], query)
    <3> HIDE DEF N
    <3> QED BY <2>1, <2>2
  <2> QED BY <1>7, <2>3, RankedStep
<1>8. Good(0)
  <2>1. \A i \in 1..0 : FALSE
    OBVIOUS
  <2>2. NoneYet(sc, 0, 0, 0)
    BY <2>1 DEF NoneYet
  <2>3. K!Unranked.best = 0 /\ K!Unranked.second = 0 /\ K!Unranked.name = ""
    BY DEF K!Unranked
  <2> HIDE DEF sc
  <2>4. RankedFor(K!Unranked, skills, sc, 0)
    BY <1>2, <2>2, <2>3 DEF RankedFor
  <2> QED BY <1>6, <2>4
<1>9. Good(N)
  <2> DEFINE S == {n \in 0..N : Good(n)}
  <2> HIDE DEF Good
  <2>1. 0 \in S
    BY <1>0, <1>8
  <2>2. \A n \in 0..N - 1 : n \in S => n + 1 \in S
    <3> HIDE DEF N
    <3> QED BY <1>0, <1>7
  <2>3. 0..N \subseteq S
    <3> HIDE DEF S, N
    <3> QED BY <1>0, <2>1, <2>2, LoopInvariant
  <2> QED BY <1>0, <2>3
<1>10. K!MatchSkill(skills, query) =
         IF ranked[N].name # "" /\ ranked[N].best - ranked[N].second >= 3 THEN ranked[N].name ELSE ""
  BY Zenon DEF K!MatchSkill, ranked
<1> QED BY <1>9, <1>10

\* A skill is proposed exactly when it is the one that is ahead.
LEMMA OneIsAhead ==
  ASSUME NEW skills, Named(skills), NEW query
  PROVE  LET sc == Scores(skills, query)
             N == Len(skills) IN
         \/ K!MatchSkill(skills, query) = "" /\ \A i \in 1..N : ~AheadIn(sc, N, i)
         \/ \E i \in 1..N : /\ AheadIn(sc, N, i) /\ K!MatchSkill(skills, query) = skills[i].name
                            /\ \A j \in 1..N : AheadIn(sc, N, j) => j = i
<1> DEFINE N == Len(skills)
           sc == Scores(skills, query)
           match == K!MatchSkill(skills, query)
<1>1. N \in Nat /\ \A i \in 1..N : skills[i].name # ""
  BY LearningAssumption DEF Named
<1>2. sc \in [1..N -> Nat] /\ \A i \in 1..N : sc[i] > 0 => sc[i] >= 6
  <2>1. \A i \in 1..N : K!Score(skills[i], query) \in Nat
    BY ScoreType DEF Named
  <2>2. \A i \in 1..N : K!Score(skills[i], query) > 0 => K!Score(skills[i], query) >= 6
    BY ScoreType DEF Named
  <2> QED BY <1>1, <2>1, <2>2 DEF Scores
<1>3. PICK end : RankedFor(end, skills, sc, N) /\
                 match = IF end.name # "" /\ end.best - end.second >= 3 THEN end.name ELSE ""
  BY MatchSkillIs
<1> SUFFICES \/ match = "" /\ \A i \in 1..N : ~AheadIn(sc, N, i)
             \/ \E i \in 1..N : /\ AheadIn(sc, N, i) /\ match = skills[i].name
                                /\ \A j \in 1..N : AheadIn(sc, N, j) => j = i
  OBVIOUS
<1> HIDE DEF N, sc, match
<1>4. end.best \in Nat /\ end.second \in Nat
  BY <1>3 DEF RankedFor, Ranks
<1>5. /\ NoneYet(sc, N, end.best, end.second) => \A i \in 1..N : ~AheadIn(sc, N, i)
      /\ \A i \in 1..N : BestIs(sc, N, end.best, end.second, i) =>
           /\ end.best - end.second >= 3 <=> AheadIn(sc, N, i)
           /\ \A j \in 1..N : AheadIn(sc, N, j) => j = i
  BY <1>1, <1>2, <1>4, AheadIsBest
<1>6. CASE NoneYet(sc, N, end.best, end.second) /\ end.name = ""
  BY <1>3, <1>5, <1>6
<1>7. ASSUME NEW i \in 1..N, BestIs(sc, N, end.best, end.second, i), end.name = skills[i].name
      PROVE  \/ match = "" /\ \A k \in 1..N : ~AheadIn(sc, N, k)
             \/ \E k \in 1..N : /\ AheadIn(sc, N, k) /\ match = skills[k].name
                                /\ \A j \in 1..N : AheadIn(sc, N, j) => j = k
  <2>1. end.name # ""
    BY <1>1, <1>7
  <2>2. CASE AheadIn(sc, N, i)
    BY <1>3, <1>5, <1>7, <2>1, <2>2
  <2>3. CASE ~AheadIn(sc, N, i)
    BY <1>3, <1>5, <1>7, <2>1, <2>3
  <2> QED BY <2>2, <2>3
<1> QED BY <1>3, <1>6, <1>7 DEF RankedFor

\* initSkills reads skills that files hold.
Stored(saved) == {saved[f] : f \in DOMAIN saved}

LEMMA ReadSkillsType ==
  ASSUME NEW saved
  PROVE  K!ReadSkills(saved) \in Seq(Stored(saved))
<1> DEFINE N == Len(Directory)
           T == Seq(Stored(saved))
           Load(u, f) == IF f \in DOMAIN saved THEN Append(u, saved[f]) ELSE u
           walk == [u \in T |-> [i \in 1..N |-> Load(u, Directory[i])]]
           Body(f) == [i \in 0..N |-> IF i = 0 THEN <<>> ELSE Load(f[i - 1], Directory[i])]
           skills == CHOOSE f : f = Body(f)
<1>0. N \in Nat
  <2>1. \A S : \A d \in Seq(S) : Len(d) \in Nat
    OBVIOUS
  <2> QED BY <2>1, LearningAssumption, Zenon
<1>1. \A u \in T : \A f : Load(u, f) \in T
  <2> SUFFICES ASSUME NEW u \in T, NEW f PROVE Load(u, f) \in T
    OBVIOUS
  <2>1. CASE f \in DOMAIN saved
    <3>1. saved[f] \in Stored(saved)
      BY <2>1 DEF Stored
    <3> QED BY <2>1, <3>1
  <2>2. CASE f \notin DOMAIN saved
    BY <2>2
  <2> QED BY <2>1, <2>2
<1>2. <<>> \in T
  OBVIOUS
<1> HIDE DEF Load
<1>3. walk \in Bodies(T, N)
  <2> HIDE DEF N, T
  <2> QED BY <1>1 DEF Bodies
<1>4. PICK f : IsRun(f, T, N, <<>>, walk)
  <2> HIDE DEF walk, N, T
  <2> QED BY <1>0, <1>2, <1>3, LoopExists
<1>5. f = Body(f)
  <2>1. ASSUME NEW i \in 1..N
        PROVE  f[i] = Load(f[i - 1], Directory[i])
    <3>1. f[i - 1] \in T /\ f[i] = walk[f[i - 1]][i]
      BY <1>4 DEF IsRun
    <3> HIDE DEF T, N
    <3> QED BY <3>1
  <2> HIDE DEF T
  <2> QED BY <1>0, <1>4, <2>1 DEF IsRun
<1>6. skills = Body(skills)
  <2> HIDE DEF Body
  <2> QED BY <1>5
<1> HIDE DEF skills
<1>7. skills[0] = <<>>
  BY <1>0, <1>6
<1>8. ASSUME NEW n \in 0..N - 1, skills[n] \in T
      PROVE  skills[n + 1] \in T
  <2>1. n + 1 \in 0..N /\ n + 1 # 0 /\ (n + 1) - 1 = n
    BY <1>0
  <2>2. skills[n + 1] = Body(skills)[n + 1]
    BY <1>6, Zenon
  <2>3. skills[n + 1] = Load(skills[n], Directory[n + 1])
    <3> HIDE DEF N
    <3> QED BY <2>1, <2>2
  <2> HIDE DEF T
  <2> QED BY <1>1, <1>8, <2>3
<1>9. skills[N] \in T
  <2> DEFINE S == {n \in 0..N : skills[n] \in T}
  <2> HIDE DEF T
  <2>1. 0 \in S
    BY <1>0, <1>2, <1>7
  <2>2. \A n \in 0..N - 1 : n \in S => n + 1 \in S
    <3> HIDE DEF N
    <3> QED BY <1>0, <1>8
  <2>3. 0..N \subseteq S
    <3> HIDE DEF S, N
    <3> QED BY <1>0, <2>1, <2>2, LoopInvariant
  <2> QED BY <1>0, <2>3
<1>10. K!ReadSkills(saved) = skills[N]
  BY Zenon DEF K!ReadSkills, skills, Load
<1> QED BY <1>9, <1>10

\* The skills loaded are skills of the files, and each has a name it was learned by.
SkillInv ==
  /\ \A f \in DOMAIN skillFiles : skillFiles[f].name \in SkillNames
  /\ loaded \in Seq(Stored(skillFiles))

LEMMA SkillInvNext == SkillInv /\ [K!Next]_(K!vars) => SkillInv'
<1> SUFFICES ASSUME SkillInv, [K!Next]_(K!vars) PROVE SkillInv'
  OBVIOUS
<1>1. ASSUME UNCHANGED <<skillFiles, loaded>> PROVE SkillInv'
  BY <1>1 DEF SkillInv, Stored
<1>2. CASE K!BeginRun \/ K!EndRun \/ K!Clear \/ \E q \in Queries : K!RunSkill(q)
  BY <1>1, <1>2 DEF K!BeginRun, K!EndRun, K!Clear, K!RunSkill
<1>3. CASE K!StartDialog \/ K!DialogCommand \/ K!Ask \/ K!AskFails \/ K!AskCancelled \/ K!StopDialog
  BY <1>1, <1>3 DEF K!StartDialog, K!DialogCommand, K!Ask, K!AskFails, K!AskCancelled, K!StopDialog
<1>4. CASE \E s \in SkillScripts \union {K!NoScript} :
             K!Step(s) \/ K!WebAnswer(s) \/ \E ran \in BOOLEAN : K!AskAnswered(s, ran)
  BY <1>1, <1>4 DEF K!Step, K!WebAnswer, K!AskAnswered
<1>5. ASSUME NEW n \in SkillNames, K!Learn(n)
      PROVE  SkillInv'
  <2> DEFINE f == SkillFile[n]
             skill == [name |-> n, script |-> K!LastScript(turns)]
             saved == [g \in DOMAIN skillFiles \union {f} |-> IF g = f THEN skill ELSE skillFiles[g]]
  <2>1. skillFiles' = saved /\ loaded' = K!ReadSkills(saved)
    BY <1>5, Zenon DEF K!Learn
  <2>2. \A g \in DOMAIN saved : saved[g].name \in SkillNames
    BY DEF SkillInv
  <2> HIDE DEF saved
  <2>3. loaded' \in Seq(Stored(saved))
    BY <2>1, ReadSkillsType
  <2> QED BY <2>1, <2>2, <2>3 DEF SkillInv, Stored
<1>6. CASE UNCHANGED K!vars
  BY <1>1, <1>6 DEF K!vars
<1> QED BY <1>2, <1>3, <1>4, <1>5, <1>6 DEF K!Next

(* matchSkillForQuery proposes a skill exactly when one is strong enough    *)
(* and a quarter ahead of every other one: for any skills, words and        *)
(* requests, in whatever order the directory lists them.                    *)
THEOREM ProposalIsClear == K!Spec => []MatchIsClear
<1>1. K!Init => SkillInv
  <2> SUFFICES ASSUME K!Init PROVE SkillInv
    OBVIOUS
  <2>1. loaded = <<>> /\ DOMAIN skillFiles = {}
    BY DEF K!Init
  <2> QED BY <2>1 DEF SkillInv
<1>2. SkillInv => MatchIsClear
  <2> SUFFICES ASSUME SkillInv, NEW q \in Queries
               PROVE  LET Ahead(i) ==
                            /\ K!Score(loaded[i], q) > 0
                            /\ \A j \in DOMAIN loaded \ {i} :
                                 K!Score(loaded[i], q) - K!Score(loaded[j], q) >= 3
                      IN  K!MatchSkill(loaded, q) =
                            IF \E i \in DOMAIN loaded : Ahead(i)
                            THEN loaded[CHOOSE i \in DOMAIN loaded : Ahead(i)].name ELSE ""
    BY Zenon DEF MatchIsClear, K!MatchIsClear
  <2> DEFINE N == Len(loaded)
             D == DOMAIN loaded
             sc == Scores(loaded, q)
             match == K!MatchSkill(loaded, q)
             Ahead(i) ==
               /\ K!Score(loaded[i], q) > 0
               /\ \A j \in D \ {i} : K!Score(loaded[i], q) - K!Score(loaded[j], q) >= 3
  <2>1. loaded \in Seq(Stored(skillFiles)) /\ N \in Nat /\ D = 1..N
    BY DEF SkillInv
  <2>2. Named(loaded)
    <3>1. \A i \in 1..N : loaded[i] \in Stored(skillFiles)
      BY <2>1
    <3>2. \A r \in Stored(skillFiles) : r.name \in SkillNames
      BY DEF SkillInv, Stored
    <3> QED BY <2>1, <3>1, <3>2 DEF Named
  <2>3. \/ match = "" /\ \A i \in 1..N : ~AheadIn(sc, N, i)
        \/ \E i \in 1..N : /\ AheadIn(sc, N, i) /\ match = loaded[i].name
                           /\ \A j \in 1..N : AheadIn(sc, N, j) => j = i
    BY <2>2, OneIsAhead
  <2>4. ASSUME NEW i \in D PROVE Ahead(i) <=> AheadIn(sc, N, i)
    <3>1. \A j \in 1..N : sc[j] = K!Score(loaded[j], q)
      BY DEF Scores
    <3> HIDE DEF sc, N
    <3> QED BY <2>1, <3>1 DEF AheadIn
  <2> HIDE DEF N, D, sc, match, Ahead
  <2>5. match = IF \E i \in D : Ahead(i) THEN loaded[CHOOSE i \in D : Ahead(i)].name ELSE ""
    <3>1. CASE match = "" /\ \A i \in 1..N : ~AheadIn(sc, N, i)
      BY <2>1, <2>4, <3>1
    <3>2. ASSUME NEW i \in 1..N, AheadIn(sc, N, i), match = loaded[i].name,
                 \A j \in 1..N : AheadIn(sc, N, j) => j = i
          PROVE  match = IF \E k \in D : Ahead(k) THEN loaded[CHOOSE k \in D : Ahead(k)].name ELSE ""
      <4>1. Ahead(i) /\ i \in D
        BY <2>1, <2>4, <3>2
      <4>2. (CHOOSE k \in D : Ahead(k)) = i
        BY <2>1, <2>4, <3>2, <4>1
      <4>3. loaded[CHOOSE k \in D : Ahead(k)].name = loaded[i].name
        BY <4>2, Zenon
      <4> QED BY <3>2, <4>1, <4>3, Zenon
    <3> QED BY <2>3, <3>1, <3>2
  <2> QED BY <2>5, Zenon DEF match, D, Ahead
<1> QED BY <1>1, <1>2, SkillInvNext, PTL DEF K!Spec

-----------------------------------------------------------------------------
(* The state directory (Home). What the user had in ~/.kish survives its    *)
(* move, for every number of shells, files and restarts. The inductive      *)
(* invariant: ~/.kish is whole, or it was renamed and then nobody copies    *)
(* any more; and who copies does so next to an existing ~/.aish, which is   *)
(* what forbids the rename.                                                 *)

(* Where a start can be. *)
Places == {"start", "legacy", "rename", "mkdir", "copydir", "list", "copy", "bytes",
           "defaults", "live"}

TypeInv ==
  /\ pc \in [Shells -> Places]
  /\ at \in [Shells -> Files]

IInv == TypeInv /\ MovedWhole /\ CopiesHaveATarget /\ CopiesKnowTheirFile

(* Put changes the file it is given and no other. *)
LEMMA PutKeeps ==
  ASSUME NEW d, NEW f, NEW c, NEW g \in DOMAIN d, g # f
  PROVE  g \in DOMAIN Put(d, f, c) /\ Put(d, f, c)[g] = d[g]
  BY DEF Put, FilesOf

LEMMA PutSets ==
  ASSUME NEW d, NEW f, NEW c
  PROVE  f \in DOMAIN Put(d, f, c) /\ Put(d, f, c)[f] = c
  BY DEF Put, FilesOf

(* The move starts with a whole ~/.kish and nobody at work. *)
LEMMA InitIInv == Init => IInv
<1> SUFFICES ASSUME Init PROVE IInv
  OBVIOUS
<1>1. TypeInv
  <2>1. AnyFile \in Files
    BY HomeAssumption DEF AnyFile
  <2>. QED BY <2>1 DEF Init, TypeInv, Places
<1>2. MovedWhole
  BY DEF Init, MovedWhole
<1>3. CopiesHaveATarget /\ CopiesKnowTheirFile
  BY DEF Init, CopiesHaveATarget, CopiesKnowTheirFile
<1>. QED BY <1>1, <1>2, <1>3 DEF IInv

(* Go moves one shell, from where it was to where it is told. *)
LEMMA GoMoves ==
  ASSUME TypeInv, NEW p \in Shells, NEW from \in Places, NEW to \in Places, Go(p, from, to)
  PROVE  /\ pc' \in [Shells -> Places]
         /\ pc[p] = from /\ pc'[p] = to
         /\ \A q \in Shells \ {p} : pc'[q] = pc[q]
  BY DEF TypeInv, Go

(* An empty directory has no files. *)
LEMMA NoFilesEmpty == DOMAIN NoFiles = {}
  BY DEF NoFiles

(* Steps that write neither directory and begin no copy. *)
LEMMA QuietStep ==
  ASSUME IInv, NEW p \in Shells, NEW from \in Places, NEW to \in Places, Go(p, from, to),
         to \notin {"list", "copy", "bytes"},
         UNCHANGED <<kish, aish, at>>, exists => exists'
  PROVE  IInv'
<1> USE DEF IInv
<1>0. /\ pc' \in [Shells -> Places] /\ pc'[p] = to
      /\ \A q \in Shells \ {p} : pc'[q] = pc[q]
  BY GoMoves
<1>1. TypeInv'
  BY <1>0 DEF TypeInv
<1>2. \A q \in Shells : pc'[q] \in {"list", "copy", "bytes"} => pc[q] = pc'[q]
  BY <1>0
<1>3. MovedWhole'
  BY <1>2 DEF MovedWhole, NoFiles
<1>4. CopiesHaveATarget'
  BY <1>2 DEF CopiesHaveATarget
<1>5. CopiesKnowTheirFile'
  BY <1>2 DEF CopiesKnowTheirFile
<1>. QED BY <1>1, <1>3, <1>4, <1>5

(* Writes to ~/.aish by a shell that moves nowhere and takes away nothing   *)
(* the user had.                                                            *)
LEMMA LiveStep ==
  ASSUME IInv, NEW f, NEW c, aish' = Put(aish, f, c), UNCHANGED <<kish, exists, pc, at>>,
         f \in DOMAIN aish => (Old \in aish[f] => Old \in c)
  PROVE  IInv'
<1> USE DEF IInv
<1>1. TypeInv' /\ CopiesHaveATarget' /\ CopiesKnowTheirFile'
  BY DEF TypeInv, CopiesHaveATarget, CopiesKnowTheirFile
<1>2. ASSUME NEW g \in DOMAIN aish, Old \in aish[g]
      PROVE  g \in DOMAIN aish' /\ Old \in aish'[g]
  <2>1. CASE g = f
    BY <1>2, <2>1, PutSets
  <2>2. CASE g # f
    BY <1>2, <2>2, PutKeeps
  <2>. QED BY <2>1, <2>2
<1>3. MovedWhole'
  BY <1>2 DEF MovedWhole, FilesOf, NoFiles
<1>. QED BY <1>1, <1>3

(* Every step of every shell keeps the invariant. *)
LEMMA NextIInv == IInv /\ [Next]_vars => IInv'
<1> SUFFICES ASSUME IInv, [Next]_vars PROVE IInv'
  OBVIOUS
<1>1. ASSUME NEW p \in Shells, Step(p) PROVE IInv'
  <2>1. CASE CheckTarget(p)
    <3>1. Go(p, "start", "mkdir") \/ Go(p, "start", "legacy")
      BY <2>1 DEF CheckTarget
    <3>2. UNCHANGED <<kish, aish, exists, at>>
      BY <2>1 DEF CheckTarget
    <3>. QED BY <3>1, <3>2, QuietStep DEF Places
  <2>2. CASE CheckLegacy(p)
    <3>1. Go(p, "legacy", "rename") \/ Go(p, "legacy", "mkdir")
      BY <2>2 DEF CheckLegacy
    <3>2. UNCHANGED <<kish, aish, exists, at>>
      BY <2>2 DEF CheckLegacy
    <3>. QED BY <3>1, <3>2, QuietStep DEF Places
  <2>3. CASE Rename(p)
    <3>0. Go(p, "rename", "mkdir")
      BY <2>3 DEF Rename
    <3>1. /\ pc' \in [Shells -> Places] /\ pc'[p] = "mkdir"
          /\ \A q \in Shells \ {p} : pc'[q] = pc[q]
      BY <3>0, GoMoves DEF IInv, Places
    <3>2. \A q \in Shells : pc'[q] \notin {"list", "copy", "bytes"}
      BY <2>3, <3>1 DEF Rename, IInv, CopiesHaveATarget
    <3>3. kish = [f \in Legacy |-> {Old}]
      BY <2>3, NoFilesEmpty DEF Rename, IInv, MovedWhole, FilesOf
    <3>4. MovedWhole'
      <4>1. kish' = NoFiles'
        BY <2>3 DEF Rename, NoFiles
      <4>2. aish' = [f \in Legacy |-> {Old}]
        BY <2>3, <3>3 DEF Rename
      <4>3. \A f \in Legacy : f \in FilesOf(aish') /\ Old \in aish'[f]
        BY <4>2 DEF FilesOf
      <4>. QED BY <4>1, <4>3, <3>2 DEF MovedWhole, FilesOf
    <3>5. TypeInv'
      BY <2>3, <3>1 DEF Rename, IInv, TypeInv
    <3>6. CopiesHaveATarget' /\ CopiesKnowTheirFile'
      BY <3>2 DEF CopiesHaveATarget, CopiesKnowTheirFile
    <3>. QED BY <3>4, <3>5, <3>6 DEF IInv
  <2>4. CASE RenameFails(p)
    <3>1. Go(p, "rename", "copydir") \/ Go(p, "rename", "mkdir")
      BY <2>4 DEF RenameFails
    <3>2. UNCHANGED <<kish, aish, exists, at>>
      BY <2>4 DEF RenameFails
    <3>. QED BY <3>1, <3>2, QuietStep DEF Places
  <2>5. CASE CopyDir(p)
    <3>0. Go(p, "copydir", "list")
      BY <2>5 DEF CopyDir
    <3>1. /\ pc' \in [Shells -> Places] /\ pc'[p] = "list"
          /\ \A q \in Shells \ {p} : pc'[q] = pc[q]
      BY <3>0, GoMoves DEF IInv, Places
    <3>2. TypeInv' /\ CopiesHaveATarget'
      BY <2>5, <3>1 DEF CopyDir, IInv, TypeInv, CopiesHaveATarget
    <3>3. MovedWhole' /\ CopiesKnowTheirFile'
      BY <2>5, <3>1 DEF CopyDir, IInv, MovedWhole, NoFiles, FilesOf, CopiesKnowTheirFile
    <3>. QED BY <3>2, <3>3 DEF IInv
  <2>6. CASE List(p)
    <3>1. CASE FilesOf(kish) = {}
      <4>1. Go(p, "list", "mkdir") /\ UNCHANGED <<kish, aish, exists, at>>
        BY <2>6, <3>1 DEF List
      <4>. QED BY <4>1, QuietStep DEF Places
    <3>2. CASE FilesOf(kish) # {}
      <4>1. kish = [f \in Legacy |-> {Old}]
        BY <3>2, NoFilesEmpty DEF IInv, MovedWhole, FilesOf
      <4>0. Go(p, "list", "copy")
        BY <2>6, <3>2 DEF List
      <4>2. /\ pc' \in [Shells -> Places] /\ pc[p] = "list" /\ pc'[p] = "copy"
            /\ \A q \in Shells \ {p} : pc'[q] = pc[q]
        BY <4>0, GoMoves DEF IInv, Places
      <4>3. MovedWhole'
        BY <2>6, <4>1 DEF List, MovedWhole
      <4>4. TypeInv' /\ CopiesHaveATarget' /\ CopiesKnowTheirFile'
        BY <2>6, <4>2 DEF List, IInv, TypeInv, CopiesHaveATarget, CopiesKnowTheirFile
      <4>. QED BY <4>3, <4>4 DEF IInv
    <3>. QED BY <3>1, <3>2
  <2>7. CASE CopyBytes(p)
    <3>0. Go(p, "bytes", "copy")
      BY <2>7 DEF CopyBytes
    <3>1. /\ pc' \in [Shells -> Places] /\ pc[p] = "bytes" /\ pc'[p] = "copy"
          /\ \A q \in Shells \ {p} : pc'[q] = pc[q]
      BY <3>0, GoMoves DEF IInv, Places
    <3>2. kish = [f \in Legacy |-> {Old}]
      BY <3>1 DEF IInv, MovedWhole
    <3>3. MovedWhole'
      BY <2>7, <3>2 DEF CopyBytes, MovedWhole
    <3>4. TypeInv' /\ CopiesHaveATarget' /\ CopiesKnowTheirFile'
      BY <2>7, <3>1 DEF CopyBytes, IInv, TypeInv, CopiesHaveATarget, CopiesKnowTheirFile
    <3>. QED BY <3>3, <3>4 DEF IInv
  <2>8. CASE CopyEnds(p)
    <3>1. PICK from \in {"copydir", "list", "copy", "bytes"} : Go(p, from, "mkdir")
      BY <2>8 DEF CopyEnds
    <3>2. UNCHANGED <<kish, aish, exists, at>>
      BY <2>8 DEF CopyEnds
    <3>. QED BY <3>1, <3>2, QuietStep DEF Places
  <2>9. CASE MakeDir(p)
    <3>1. Go(p, "mkdir", "defaults") /\ exists' /\ UNCHANGED <<kish, aish, at>>
      BY <2>9 DEF MakeDir
    <3>. QED BY <3>1, QuietStep DEF Places
  <2>10. ASSUME NEW f \in Files, Truncate(p, f) PROVE IInv'
    <3>0. Go(p, "copy", "bytes")
      BY <2>10 DEF Truncate
    <3>1. kish = [g \in Legacy |-> {Old}] /\ f \in Legacy
      BY <2>10, NoFilesEmpty DEF Truncate, IInv, MovedWhole, FilesOf
    <3>2. /\ pc' \in [Shells -> Places] /\ pc[p] = "copy" /\ pc'[p] = "bytes"
          /\ \A q \in Shells \ {p} : pc'[q] = pc[q]
      BY <3>0, GoMoves DEF IInv, Places
    <3>3. at' = [at EXCEPT ![p] = f] /\ exists' = exists /\ kish' = kish
      BY <2>10 DEF Truncate
    <3>4. MovedWhole'
      BY <3>1, <3>3 DEF MovedWhole
    <3>5. TypeInv' /\ CopiesHaveATarget' /\ CopiesKnowTheirFile'
      BY <3>1, <3>2, <3>3 DEF IInv, TypeInv, CopiesHaveATarget, CopiesKnowTheirFile
    <3>. QED BY <3>4, <3>5 DEF IInv
  <2>11. ASSUME NEW f \in Files, WriteDefault(p, f) PROVE IInv'
    <3>1. aish' = Put(aish, f, {Default}) /\ UNCHANGED <<kish, exists, pc, at>>
      BY <2>11 DEF WriteDefault
    <3>2. f \notin DOMAIN aish
      BY <2>11 DEF WriteDefault, FilesOf
    <3>. QED BY <3>1, <3>2, LiveStep
  <2>12. ASSUME NEW f \in Files, Work(p, f) PROVE IInv'
    <3>. DEFINE c == (IF f \in FilesOf(aish) THEN aish[f] ELSE {}) \union {p}
    <3>1. aish' = Put(aish, f, c) /\ UNCHANGED <<kish, exists, pc, at>>
      BY <2>12 DEF Work
    <3>2. f \in DOMAIN aish => (Old \in aish[f] => Old \in c)
      BY DEF FilesOf
    <3>. QED BY <3>1, <3>2, LiveStep
  <2>13. CASE Started(p)
    <3>1. Go(p, "defaults", "live") /\ UNCHANGED <<kish, aish, exists, at>>
      BY <2>13 DEF Started
    <3>. QED BY <3>1, QuietStep DEF Places
  <2>14. CASE Restart(p)
    <3>1. pc[p] \in Places
      BY DEF IInv, TypeInv
    <3>2. Go(p, pc[p], "start") /\ UNCHANGED <<kish, aish, exists, at>>
      BY <2>14 DEF Restart, Go
    <3>. QED BY <3>1, <3>2, QuietStep DEF Places
  <2>. QED BY <1>1, <2>1, <2>2, <2>3, <2>4, <2>5, <2>6, <2>7, <2>8, <2>9, <2>10, <2>11,
              <2>12, <2>13, <2>14 DEF Step
<1>2. CASE UNCHANGED vars
  BY <1>2 DEF vars, IInv, TypeInv, MovedWhole, NoFiles, FilesOf, CopiesHaveATarget,
              CopiesKnowTheirFile
<1>. QED BY <1>1, <1>2 DEF Next

(* What the user had in ~/.kish is never lost (app.go:235-325), whatever    *)
(* fails, whoever dies and however many shells start at once.               *)
THEOREM LegacySurvives == Spec => []OriginalsSurvive
<1>1. IInv => OriginalsSurvive
  BY DEF IInv, MovedWhole, OriginalsSurvive, FilesOf
<1>. QED BY <1>1, InitIInv, NextIInv, PTL DEF Spec
=============================================================================
