--------------------------- MODULE Editing_proofs ---------------------------
(***************************************************************************)
(* Theorems about the edits of a file.                                     *)
(*                                                                         *)
(* RenderQueue, for any number of jobs, overlapping ticks, processes and   *)
(* editors, and any number of crashes and failed statements; then          *)
(* FilesPage, for any archive, any users and any number of requests,       *)
(* recipes, versions and works under way.                                  *)
(***************************************************************************)
EXTENDS RenderQueue, FilesPage, FiniteSetTheorems, WellFoundedInduction, TLAPS

-----------------------------------------------------------------------------
(* The render queue *)

Statuses == {"none", "pending", "processing"} \cup Terminal
TickRows == [pc : {"idle", "find", "claim", "won"}, job : Jobs \cup {Null}]
Runs     == [pc : {"idle", "load", "save", "catch", "end"}, job : Jobs \cup {Null}]

\* The queue, the statuses and the server keep their types.
TypeOK ==
    /\ queue \in Seq(Jobs) /\ status \in [Jobs -> Statuses]
    /\ up \in BOOLEAN /\ running \in Nat
    /\ tick \in [Ticks -> TickRows] /\ worker \in [Workers -> Runs]

\* What a tick and a process know of the status of their job.
StatusHeld ==
    /\ \A t \in Ticks : /\ tick[t].pc \in {"claim", "won"} => tick[t].job \in Jobs
                        /\ tick[t].pc = "won" => status[tick[t].job] = "processing"
    /\ \A w \in Workers : /\ worker[w].pc = "idle" <=> worker[w].job = Null
                          /\ worker[w].pc \in {"load", "save", "catch"}
                                => status[worker[w].job] = "processing"
                          /\ worker[w].pc = "end"
                                => status[worker[w].job] \in {"processing", "done", "failed"}

\* Ticks that have claimed and processes that run have jobs of their own.
JobsApart ==
    /\ \A t, u \in Ticks :
          tick[t].pc = "won" /\ tick[u].pc = "won" /\ tick[t].job = tick[u].job => t = u
    /\ \A w, x \in Workers : worker[w].pc # "idle" /\ worker[w].job = worker[x].job => w = x
    /\ \A t \in Ticks, w \in Workers :
          ~(tick[t].pc = "won" /\ worker[w].pc # "idle" /\ tick[t].job = worker[w].job)

DownIsEmpty ==
    ~up => /\ \A t \in Ticks : tick[t].pc = "idle"
           /\ \A w \in Workers : worker[w].pc = "idle"

Busy == {w \in Workers : worker[w].pc # "idle"}

RunsInv == TypeOK /\ StatusHeld /\ JobsApart /\ DownIsEmpty /\ RunningCounts

-----------------------------------------------------------------------------
(* One run per job, and the counter *)

LEMMA BusyFinite == IsFiniteSet(Busy) /\ Cardinality(Busy) \in Nat
<1>1. Busy \in SUBSET Workers  BY DEF Busy
<1>2. IsFiniteSet(Busy)  BY <1>1, FS_Subset, QueueAssumption
<1> QED BY <1>2, FS_CardinalityType

\* The statements of saveVersion touch neither jobs nor the server's memory.
LEMMA SavesKeepRuns ==
    ASSUME RunsInv, UNCHANGED <<jobVars, serverVars>>
    PROVE  RunsInv'
BY DEF RunsInv, TypeOK, StatusHeld, JobsApart, DownIsEmpty, RunningCounts, jobVars, serverVars

\* A job comes into being or is canceled: nobody has it.
LEMMA HttpKeepsRuns ==
    ASSUME RunsInv, NEW j \in Jobs, Enqueue(j) \/ Cancel(j)
    PROVE  RunsInv'
<1>1. PICK to \in {"pending", "canceled"} : status' = [status EXCEPT ![j] = to]
  BY DEF Enqueue, Cancel
<1>2. status[j] \in {"none", "pending"} /\ UNCHANGED serverVars /\ queue' \in Seq(Jobs)
  <2>1. queue \in Seq(Jobs)  BY DEF RunsInv, TypeOK
  <2>2. CASE Enqueue(j)  BY <2>1, <2>2 DEF Enqueue
  <2>3. CASE Cancel(j)  BY <2>1, <2>3 DEF Cancel
  <2> QED BY <2>2, <2>3
<1>3. TypeOK'  BY <1>1, <1>2 DEF RunsInv, TypeOK, serverVars, Statuses, Terminal
<1>4. StatusHeld'
  <2>1. tick' = tick /\ worker' = worker
    BY <1>2 DEF serverVars
  <2>2. \A i \in Jobs : status[i] \in {"processing", "done", "failed"} => status'[i] = status[i]
    BY <1>1, <1>2 DEF RunsInv, TypeOK
  <2>3. /\ \A t \in Ticks : tick[t].pc = "won" => tick[t].job \in Jobs
        /\ \A w \in Workers : worker[w].pc # "idle" => worker[w].job \in Jobs
    BY DEF RunsInv, TypeOK, StatusHeld, Runs
  <2> QED BY <2>1, <2>2, <2>3 DEF RunsInv, StatusHeld
<1>5. JobsApart' /\ DownIsEmpty' /\ RunningCounts'
  BY <1>2 DEF RunsInv, JobsApart, DownIsEmpty, RunningCounts, serverVars
<1> QED BY <1>3, <1>4, <1>5 DEF RunsInv

\* A tick reads, or gives up.
LEMMA ReadingKeepsRuns ==
    ASSUME RunsInv, NEW t \in Ticks, TickStarts(t) \/ TickFinds(t) \/ TickFails(t)
    PROVE  RunsInv'
<1>1. /\ tick' \in [Ticks -> TickRows] /\ \A u \in Ticks \ {t} : tick'[u] = tick[u]
      /\ tick'[t].pc # "won" /\ (tick'[t].pc = "claim" => tick'[t].job \in Jobs)
  <2>0. tick \in [Ticks -> TickRows] /\ NoTick \in TickRows /\ NoTick.pc = "idle"
    BY DEF RunsInv, TypeOK, NoTick, TickRows
  <2>1. CASE TickStarts(t)  BY <2>0, <2>1 DEF TickStarts, TickRows
  <2>2. CASE TickFinds(t)
    <3>1. CASE tick' = [tick EXCEPT ![t] = NoTick]  BY <2>0, <3>1
    <3>2. ASSUME NEW i \in Pending, tick' = [tick EXCEPT ![t] = [pc |-> "claim", job |-> queue[i]]]
          PROVE  /\ tick' \in [Ticks -> TickRows] /\ \A u \in Ticks \ {t} : tick'[u] = tick[u]
                 /\ tick'[t].pc # "won" /\ (tick'[t].pc = "claim" => tick'[t].job \in Jobs)
      <4>1. queue[i] \in Jobs  BY DEF Pending, RunsInv, TypeOK
      <4> QED BY <2>0, <3>2, <4>1 DEF TickRows
    <3> QED BY <2>2, <3>1, <3>2 DEF TickFinds
  <2>3. CASE TickFails(t)  BY <2>0, <2>3 DEF TickFails
  <2> QED BY <2>1, <2>2, <2>3
<1>2. UNCHANGED <<jobVars, up, running, worker>> /\ (tick[t].pc = "idle" => up)
  BY DEF TickStarts, TickFinds, TickFails
<1>3. TypeOK'  BY <1>1, <1>2 DEF RunsInv, TypeOK, jobVars
<1>4. StatusHeld'  BY <1>1, <1>2 DEF RunsInv, StatusHeld, jobVars
<1>5. JobsApart'  BY <1>1, <1>2 DEF RunsInv, JobsApart
<1>6. DownIsEmpty'  BY <1>1, <1>2 DEF RunsInv, DownIsEmpty
<1>7. RunningCounts'  BY <1>2 DEF RunsInv, RunningCounts
<1> QED BY <1>3, <1>4, <1>5, <1>6, <1>7 DEF RunsInv

\* The update finds the job pending, so nobody else has it.
LEMMA ClaimKeepsRuns ==
    ASSUME RunsInv, NEW t \in Ticks, TickClaims(t)
    PROVE  RunsInv'
<1> DEFINE j == tick[t].job
<1>0. j \in Jobs /\ tick[t].pc = "claim" /\ tick[t] \in TickRows
      /\ UNCHANGED <<queue, result, up, running, worker>>
  BY DEF TickClaims, RunsInv, TypeOK, StatusHeld
<1>1. CASE status[j] = "pending"
  <2>1. status' = [status EXCEPT ![j] = "processing"] /\ tick' = [tick EXCEPT ![t].pc = "won"]
    BY <1>1 DEF TickClaims
  <2>2. tick'[t].pc = "won" /\ tick'[t].job = j /\ tick' \in [Ticks -> TickRows]
        /\ \A u \in Ticks \ {t} : tick'[u] = tick[u]
    BY <1>0, <2>1 DEF RunsInv, TypeOK, TickRows
  <2>3. status' \in [Jobs -> Statuses] /\ status'[j] = "processing"
        /\ \A k \in Jobs \ {j} : status'[k] = status[k]
    BY <1>0, <2>1 DEF RunsInv, TypeOK, Statuses
  <2> HIDE DEF j
  <2>4. TypeOK'  BY <1>0, <2>2, <2>3 DEF RunsInv, TypeOK
  <2>5. StatusHeld'
    <3>1. ASSUME NEW u \in Ticks
          PROVE  /\ tick'[u].pc \in {"claim", "won"} => tick'[u].job \in Jobs
                 /\ tick'[u].pc = "won" => status'[tick'[u].job] = "processing"
      BY <1>0, <2>2, <2>3 DEF RunsInv, StatusHeld
    <3>2. ASSUME NEW w \in Workers
          PROVE  /\ worker'[w].pc = "idle" <=> worker'[w].job = Null
                 /\ worker'[w].pc \in {"load", "save", "catch"}
                       => status'[worker'[w].job] = "processing"
                 /\ worker'[w].pc = "end"
                       => status'[worker'[w].job] \in {"processing", "done", "failed"}
      <4>1. worker' = worker /\ worker[w] \in Runs  BY <1>0 DEF RunsInv, TypeOK
      <4>2. worker[w].job \in Jobs \cup {Null}  BY <4>1 DEF Runs
      <4> QED BY <2>3, <4>1, <4>2 DEF RunsInv, StatusHeld
    <3> QED BY <3>1, <3>2 DEF StatusHeld
  <2>6. JobsApart'
    <3>1. \A u \in Ticks : tick[u].pc = "won" => tick[u].job # j
      BY <1>1 DEF RunsInv, StatusHeld
    <3>2. \A w \in Workers : worker[w].pc # "idle" => worker[w].job # j
      BY <1>1 DEF RunsInv, TypeOK, StatusHeld, Runs
    <3> QED BY <1>0, <2>2, <3>1, <3>2 DEF RunsInv, JobsApart
  <2>7. DownIsEmpty' /\ RunningCounts'
    BY <1>0 DEF RunsInv, DownIsEmpty, RunningCounts
  <2> QED BY <2>4, <2>5, <2>6, <2>7 DEF RunsInv
<1>2. CASE status[j] # "pending"
  <2>1. status' = status /\ tick' = [tick EXCEPT ![t] = NoTick]
    BY <1>2 DEF TickClaims
  <2>2. \A u \in Ticks : tick'[u] = IF u = t THEN NoTick ELSE tick[u]
    BY <2>1 DEF RunsInv, TypeOK
  <2>3. NoTick \in TickRows /\ NoTick.pc = "idle"  BY DEF NoTick, TickRows
  <2>4. TypeOK'  BY <1>0, <2>1, <2>3 DEF RunsInv, TypeOK
  <2>5. StatusHeld' /\ JobsApart' /\ DownIsEmpty' /\ RunningCounts'
    BY <1>0, <2>1, <2>2, <2>3
       DEF RunsInv, StatusHeld, JobsApart, DownIsEmpty, RunningCounts
  <2> QED BY <2>4, <2>5 DEF RunsInv
<1> QED BY <1>1, <1>2

\* The claimed job passes from the tick to a process, and one more run is counted.
LEMMA StartKeepsRuns ==
    ASSUME RunsInv, NEW t \in Ticks, TickStartsProcess(t)
    PROVE  RunsInv'
<1> DEFINE j == tick[t].job
<1>0. j \in Jobs /\ tick[t].pc = "won" /\ status[j] = "processing" /\ up
      /\ UNCHANGED <<queue, status, result, up>> /\ running' = running + 1
  BY DEF TickStartsProcess, RunsInv, TypeOK, StatusHeld, DownIsEmpty, jobVars
<1>1. PICK w \in Workers : /\ worker[w].pc = "idle"
                           /\ worker' = [worker EXCEPT ![w] = [pc |-> "load", job |-> j]]
  BY DEF TickStartsProcess
<1>2. \A u \in Ticks : tick'[u] = IF u = t THEN NoTick ELSE tick[u]
  BY DEF TickStartsProcess, RunsInv, TypeOK
<1>3. NoTick \in TickRows /\ NoTick.pc = "idle"  BY DEF NoTick, TickRows
<1>4. /\ worker'[w].pc = "load" /\ worker'[w].job = j
      /\ \A x \in Workers \ {w} : worker'[x] = worker[x]
      /\ worker' \in [Workers -> Runs]
  BY <1>0, <1>1 DEF RunsInv, TypeOK, Runs
<1>5. j # Null  BY <1>0, QueueAssumption
<1>6. TypeOK'
  BY <1>0, <1>3, <1>4 DEF TickStartsProcess, RunsInv, TypeOK
<1>j. \A x \in Workers : worker[x].pc # "idle" => worker[x].job # j
  BY <1>0 DEF RunsInv, JobsApart
<1>k. \A u \in Ticks : u # t /\ tick[u].pc = "won" => tick[u].job # j
  BY <1>0 DEF RunsInv, JobsApart
<1> HIDE DEF j
<1>7. StatusHeld'
  BY <1>0, <1>2, <1>3, <1>4, <1>5 DEF RunsInv, StatusHeld
<1>8. JobsApart'
  BY <1>0, <1>2, <1>3, <1>4, <1>5, <1>j, <1>k DEF RunsInv, StatusHeld, JobsApart
<1>9. RunningCounts'
  <2>1. Busy' = Busy \cup {w} /\ w \notin Busy  BY <1>1, <1>4 DEF Busy
  <2>2. Cardinality(Busy \cup {w}) = Cardinality(Busy) + 1  BY <2>1, BusyFinite, FS_AddElement
  <2> QED BY <1>0, <2>1, <2>2 DEF RunsInv, RunningCounts, Busy
<1> QED BY <1>0, <1>6, <1>7, <1>8, <1>9 DEF RunsInv, DownIsEmpty

\* A process goes from one statement to the next, and the outcome is written over "processing".
LEMMA ProcessKeepsRuns ==
    ASSUME RunsInv, NEW w \in Workers,
           ProcessCallsSave(w) \/ ProcessReports(w) \/ ReportIsLost(w)
    PROVE  RunsInv'
<1> DEFINE j == worker[w].job
<1>0. TypeOK /\ StatusHeld /\ worker[w] \in Runs  BY DEF RunsInv, TypeOK
<1>1. /\ UNCHANGED <<queue, up, running, tick>>
      /\ worker[w].pc \in {"load", "save", "catch"}
  BY DEF ProcessCallsSave, ProcessReports, ReportIsLost, jobVars
<1>2. j \in Jobs /\ j # Null /\ status[j] = "processing"
  BY <1>0, <1>1, QueueAssumption DEF StatusHeld, Runs
<1>3. PICK pc \in {"save", "catch", "end"} : worker' = [worker EXCEPT ![w].pc = pc]
  BY DEF ProcessCallsSave, ProcessReports, ReportIsLost
<1>4. /\ worker' \in [Workers -> Runs] /\ worker'[w].pc = pc /\ worker'[w].job = j
      /\ \A x \in Workers \ {w} : worker'[x] = worker[x]
  BY <1>0, <1>3 DEF TypeOK, Runs
<1>5. \/ status' = status
      \/ pc = "end" /\ \E to \in {"done", "failed"} : status' = [status EXCEPT ![j] = to]
  <2>1. CASE ProcessCallsSave(w)  BY <2>1 DEF ProcessCallsSave, jobVars
  <2>2. CASE ProcessReports(w)
    <3>1. pc = "end"  BY <1>0, <1>4, <2>2 DEF ProcessReports, TypeOK, Runs
    <3> QED BY <2>2, <3>1 DEF ProcessReports
  <2>3. CASE ReportIsLost(w)  BY <2>3 DEF ReportIsLost, jobVars
  <2> QED BY <2>1, <2>2, <2>3
<1>6. /\ status' \in [Jobs -> Statuses] /\ \A k \in Jobs \ {j} : status'[k] = status[k]
      /\ status'[j] \in {"processing", "done", "failed"}
      /\ pc # "end" => status'[j] = "processing"
  BY <1>0, <1>2, <1>5 DEF TypeOK, Statuses, Terminal
<1>j. \A x \in Workers : x # w /\ worker[x].pc # "idle" => worker[x].job # j
  BY <1>1 DEF RunsInv, JobsApart
<1>k. \A u \in Ticks : tick[u].pc = "won" => tick[u].job # j
  BY <1>1 DEF RunsInv, JobsApart
<1> HIDE DEF j
<1>7. TypeOK'  BY <1>0, <1>1, <1>4, <1>6 DEF TypeOK
<1>8. StatusHeld'
  <2>1. ASSUME NEW u \in Ticks
        PROVE  /\ tick'[u].pc \in {"claim", "won"} => tick'[u].job \in Jobs
               /\ tick'[u].pc = "won" => status'[tick'[u].job] = "processing"
    BY <1>0, <1>1, <1>6, <1>k DEF StatusHeld
  <2>2. ASSUME NEW x \in Workers
        PROVE  /\ worker'[x].pc = "idle" <=> worker'[x].job = Null
               /\ worker'[x].pc \in {"load", "save", "catch"} => status'[worker'[x].job] = "processing"
               /\ worker'[x].pc = "end" => status'[worker'[x].job] \in {"processing", "done", "failed"}
    <3>1. CASE x = w  BY <1>2, <1>4, <1>6, <3>1
    <3>2. CASE x # w
      <4>1. worker'[x] = worker[x] /\ worker[x].job \in Jobs \cup {Null}
        BY <1>0, <1>4, <3>2 DEF TypeOK, Runs
      <4> QED BY <1>0, <1>6, <1>j, <3>2, <4>1 DEF StatusHeld
    <3> QED BY <3>1, <3>2
  <2> QED BY <2>1, <2>2 DEF StatusHeld
<1>9. JobsApart'
  <2>1. \A x \in Workers : /\ worker'[x].pc = "idle" <=> worker[x].pc = "idle"
                           /\ worker'[x].job = worker[x].job
    BY <1>1, <1>4 DEF j
  <2> QED BY <1>1, <2>1 DEF RunsInv, JobsApart
<1>10. DownIsEmpty'  BY <1>1, <1>4 DEF RunsInv, DownIsEmpty
<1>11. RunningCounts'
  <2>1. Busy' = Busy  BY <1>1, <1>4 DEF Busy
  <2> QED BY <1>1, <2>1 DEF RunsInv, RunningCounts, Busy
<1> QED BY <1>7, <1>8, <1>9, <1>10, <1>11 DEF RunsInv

\* The finally clause takes one off the counter for the one process that is over.
LEMMA EndKeepsRuns ==
    ASSUME RunsInv, NEW w \in Workers, ProcessEnds(w)
    PROVE  RunsInv'
<1>0. /\ TypeOK /\ worker[w].pc = "end" /\ UNCHANGED <<queue, status, up, tick>>
      /\ running' = running - 1
  BY DEF ProcessEnds, RunsInv, jobVars
<1>1. \A x \in Workers : worker'[x] = IF x = w THEN NoWorker ELSE worker[x]
  BY <1>0 DEF ProcessEnds, TypeOK
<1>2. NoWorker \in Runs /\ NoWorker.pc = "idle" /\ NoWorker.job = Null  BY DEF NoWorker, Runs
<1>3. RunningCounts' /\ running' \in Nat
  <2>1. Busy' = Busy \ {w} /\ w \in Busy  BY <1>0, <1>1, <1>2 DEF Busy
  <2>2. Cardinality(Busy \ {w}) = Cardinality(Busy) - 1 /\ IsFiniteSet(Busy \ {w})
    BY <2>1, BusyFinite, FS_RemoveElement
  <2>3. Cardinality(Busy \ {w}) \in Nat  BY <2>2, FS_CardinalityType
  <2> QED BY <1>0, <2>1, <2>2, <2>3 DEF RunsInv, RunningCounts, Busy
<1>4. TypeOK'  BY <1>0, <1>2, <1>3 DEF TypeOK, ProcessEnds
<1>5. StatusHeld' /\ JobsApart' /\ DownIsEmpty'
  <2>1. \A x \in Workers : worker[x].pc # "idle" => worker[x].job # Null
    BY DEF RunsInv, StatusHeld
  <2>2. StatusHeld'  BY <1>0, <1>1, <1>2 DEF RunsInv, StatusHeld
  <2>3. JobsApart'  BY <1>0, <1>1, <1>2, <2>1 DEF RunsInv, JobsApart
  <2>4. DownIsEmpty'  BY <1>0, <1>1, <1>2 DEF RunsInv, DownIsEmpty
  <2> QED BY <2>2, <2>3, <2>4
<1> QED BY <1>3, <1>4, <1>5 DEF RunsInv

\* Memory is empty after a crash, so whatever a restart does to the statuses concerns nobody.
LEMMA RestartKeepsRuns ==
    ASSUME RunsInv, Crash \/ Recover \/ StartWithoutRecovery
    PROVE  RunsInv'
<1>1. /\ \A t \in Ticks : tick'[t].pc = "idle"
      /\ \A w \in Workers : worker'[w].pc = "idle" /\ worker'[w].job = Null
      /\ tick' \in [Ticks -> TickRows] /\ worker' \in [Workers -> Runs]
  <2>1. CASE Crash
    BY <2>1 DEF Crash, NoTick, NoWorker, TickRows, Runs
  <2>2. CASE Recover \/ StartWithoutRecovery
    BY <2>2 DEF Recover, StartWithoutRecovery, RunsInv, TypeOK, StatusHeld, DownIsEmpty
  <2> QED BY <2>1, <2>2
<1>2. running' = 0
  <2>1. CASE Crash  BY <2>1 DEF Crash
  <2>2. CASE Recover \/ StartWithoutRecovery
    <3>1. Busy = {} /\ running' = running
      BY <2>2 DEF Recover, StartWithoutRecovery, RunsInv, DownIsEmpty, Busy
    <3> QED BY <3>1, FS_EmptySet DEF RunsInv, RunningCounts, Busy
  <2> QED BY <2>1, <2>2
<1>3. RunningCounts'
  <2>1. Busy' = {}  BY <1>1 DEF Busy
  <2> QED BY <1>2, <2>1, FS_EmptySet DEF RunningCounts, Busy
<1>4. queue' = queue /\ up' \in BOOLEAN /\ status' \in [Jobs -> Statuses]
  BY DEF Crash, Recover, StartWithoutRecovery, jobVars, RunsInv, TypeOK, Statuses
<1>5. TypeOK'  BY <1>1, <1>2, <1>4 DEF RunsInv, TypeOK
<1>6. StatusHeld' /\ JobsApart' /\ DownIsEmpty'
  BY <1>1 DEF StatusHeld, JobsApart, DownIsEmpty
<1> QED BY <1>3, <1>5, <1>6 DEF RunsInv

LEMMA RunsStep == RunsInv /\ [Next]_vars => RunsInv'
<1> SUFFICES ASSUME RunsInv, [Next]_vars  PROVE RunsInv'
  OBVIOUS
<1>1. ASSUME NEW j \in Jobs, Enqueue(j) \/ Cancel(j)  PROVE RunsInv'
  BY <1>1, HttpKeepsRuns
<1>2. ASSUME NEW s \in Editors, EditorSaves(s)  PROVE RunsInv'
  BY <1>2, SavesKeepRuns DEF EditorSaves
<1>3. ASSUME NEW t \in Ticks, TickStep(t)  PROVE RunsInv'
  BY <1>3, ReadingKeepsRuns, ClaimKeepsRuns, StartKeepsRuns DEF TickStep
<1>4. ASSUME NEW w \in Workers, ProcessStep(w)  PROVE RunsInv'
  <2>1. CASE ProcessSaves(w)  BY <2>1, SavesKeepRuns DEF ProcessSaves
  <2> QED BY <1>4, <2>1, ProcessKeepsRuns, EndKeepsRuns DEF ProcessStep
<1>5. CASE Crash \/ Recover \/ StartWithoutRecovery  BY <1>5, RestartKeepsRuns
<1>6. CASE UNCHANGED vars
  BY <1>6, SavesKeepRuns DEF vars
<1> QED BY <1>1, <1>2, <1>3, <1>4, <1>5, <1>6 DEF Next

LEMMA RunsInit == Init => RunsInv
<1> SUFFICES ASSUME Init  PROVE RunsInv
  OBVIOUS
<1>1. TypeOK
  BY DEF Init, TypeOK, Statuses, NoTick, TickRows, NoWorker, Runs
<1>2. /\ \A t \in Ticks : tick[t].pc = "idle"
      /\ \A w \in Workers : worker[w].pc = "idle" /\ worker[w].job = Null
  BY DEF Init, NoTick, NoWorker
<1>3. StatusHeld /\ JobsApart /\ DownIsEmpty
  BY <1>2 DEF StatusHeld, JobsApart, DownIsEmpty
<1>4. RunningCounts
  <2>1. Busy = {}  BY <1>2 DEF Busy
  <2> QED BY <2>1, FS_EmptySet DEF Init, RunningCounts, Busy
<1> QED BY <1>1, <1>3, <1>4 DEF RunsInv

\* Of the ticks that have claimed a job and the processes that run it there is one at most.
LEMMA RunsInvGivesOneRun == RunsInv => OneRunPerJob
<1> SUFFICES ASSUME RunsInv, NEW j \in Jobs
    PROVE  /\ Cardinality(HoldersOf(j)) + Cardinality(RunsOf(j)) <= 1
           /\ HoldersOf(j) # {} \/ (\E w \in RunsOf(j) : worker[w].pc # "end")
                 => status[j] = "processing"
  BY DEF OneRunPerJob
<1>0. \A w \in RunsOf(j) : worker[w].pc # "idle" /\ worker[w] \in Runs
  BY QueueAssumption DEF RunsOf, RunsInv, TypeOK, StatusHeld
<1>1. HoldersOf(j) # {} \/ (\E w \in RunsOf(j) : worker[w].pc # "end") => status[j] = "processing"
  BY <1>0 DEF HoldersOf, RunsOf, RunsInv, StatusHeld, Runs
<1>2. HoldersOf(j) = {} \/ \E t : HoldersOf(j) = {t}
  BY DEF HoldersOf, RunsInv, JobsApart
<1>3. RunsOf(j) = {} \/ \E w : RunsOf(j) = {w}
  BY <1>0 DEF RunsOf, RunsInv, JobsApart
<1>4. HoldersOf(j) = {} \/ RunsOf(j) = {}
  BY <1>0 DEF HoldersOf, RunsOf, RunsInv, JobsApart
<1>5. Cardinality(HoldersOf(j)) + Cardinality(RunsOf(j)) <= 1
  <2>1. Cardinality(HoldersOf(j)) \in {0, 1} /\ Cardinality(RunsOf(j)) \in {0, 1}
    BY <1>2, <1>3, FS_EmptySet, FS_Singleton
  <2>2. Cardinality(HoldersOf(j)) = 0 \/ Cardinality(RunsOf(j)) = 0
    BY <1>4, FS_EmptySet
  <2> QED BY <2>1, <2>2
<1> QED BY <1>1, <1>5

\* However many ticks read one job at the same time, one process at most runs it, and the row
\* says so until the outcome is written (render.service.ts, tick and process).
THEOREM EachJobRunsOnce == Spec => []OneRunPerJob
<1>1. RunsInv /\ [Next]_vars => RunsInv'  BY RunsStep
<1> QED BY <1>1, RunsInit, RunsInvGivesOneRun, PTL DEF Spec

\* The counter in memory is the number of processes under way, whatever fails or dies
\* (render.service.ts, the finally clause of process).
THEOREM CounterAgrees == Spec => []RunningCounts
<1>1. RunsInv /\ [Next]_vars => RunsInv'  BY RunsStep
<1>2. RunsInv => RunningCounts  BY DEF RunsInv
<1> QED BY <1>1, <1>2, RunsInit, PTL DEF Spec

-----------------------------------------------------------------------------
(* How statuses move, and the order of the claims *)

\* A status changes along these ways only; from processing back to pending by a restart.
LEMMA StatusMoves ==
    ASSUME RunsInv, [Next]_vars, NEW j \in Jobs
    PROVE  \/ status'[j] = status[j]
           \/ Enqueue(j) /\ status[j] = "none" /\ status'[j] = "pending"
           \/ status[j] = "pending" /\ status'[j] = "canceled"
           \/ /\ status[j] = "pending" /\ status'[j] = "processing"
              /\ \E t \in Ticks : TickClaims(t) /\ tick[t].job = j
           \/ status[j] = "processing" /\ status'[j] \in {"done", "failed"}
           \/ Recover /\ status[j] = "processing" /\ status'[j] = "pending"
<1>0. status \in [Jobs -> Statuses]  BY DEF RunsInv, TypeOK
<1>1. ASSUME NEW k \in Jobs, Enqueue(k) \/ Cancel(k)
      PROVE  \/ status'[j] = status[j]
             \/ Enqueue(j) /\ status[j] = "none" /\ status'[j] = "pending"
             \/ status[j] = "pending" /\ status'[j] = "canceled"
  <2>1. CASE k = j  BY <1>0, <1>1, <2>1 DEF Enqueue, Cancel
  <2>2. CASE k # j  BY <1>0, <1>1, <2>2 DEF Enqueue, Cancel
  <2> QED BY <2>1, <2>2
<1>2. ASSUME NEW t \in Ticks, TickStep(t)
      PROVE  \/ status'[j] = status[j]
             \/ /\ status[j] = "pending" /\ status'[j] = "processing"
                /\ TickClaims(t) /\ tick[t].job = j
  <2>1. CASE TickClaims(t)
    <3>1. tick[t].job \in Jobs  BY <2>1 DEF TickClaims, RunsInv, StatusHeld
    <3>2. CASE tick[t].job = j  BY <1>0, <2>1, <3>2 DEF TickClaims
    <3>3. CASE tick[t].job # j  BY <1>0, <2>1, <3>1, <3>3 DEF TickClaims
    <3> QED BY <3>2, <3>3
  <2> QED BY <1>2, <2>1 DEF TickStep, TickStarts, TickFinds, TickStartsProcess, TickFails, jobVars
<1>3. ASSUME NEW w \in Workers, ProcessStep(w)
      PROVE  \/ status'[j] = status[j]
             \/ status[j] = "processing" /\ status'[j] \in {"done", "failed"}
  <2>1. CASE ProcessReports(w)
    <3>1. worker[w].pc \in {"save", "catch"}  BY <2>1 DEF ProcessReports
    <3>2. worker[w].job \in Jobs /\ status[worker[w].job] = "processing"
      BY <3>1 DEF RunsInv, TypeOK, StatusHeld, Runs
    <3> QED BY <1>0, <2>1, <3>2 DEF ProcessReports
  <2> QED BY <1>3, <2>1 DEF ProcessStep, ProcessCallsSave, ProcessSaves, ReportIsLost, ProcessEnds, jobVars
<1>4. CASE Recover  BY <1>0, <1>4 DEF Recover
<1>5. CASE Crash \/ StartWithoutRecovery \/ UNCHANGED vars \/ \E s \in Editors : EditorSaves(s)
  BY <1>5 DEF Crash, StartWithoutRecovery, EditorSaves, vars, jobVars
<1> QED BY <1>1, <1>2, <1>3, <1>4, <1>5 DEF Next

\* Every job has one place in the queue, and the job a tick is about to claim has no older one
\* that is pending: what comes later is queued behind it, and a restart empties the ticks.
OrderInv ==
    /\ \A i, k \in DOMAIN queue : queue[i] = queue[k] => i = k
    /\ \A i \in DOMAIN queue : status[queue[i]] # "none"
    /\ \A t \in Ticks :
          tick[t].pc = "claim" =>
             \E k \in DOMAIN queue : /\ queue[k] = tick[t].job
                                     /\ \A i \in DOMAIN queue : i < k => status[queue[i]] # "pending"

\* A step after which no other job is pending and no other tick is about to claim.
LEMMA OrderKept ==
    ASSUME RunsInv, OrderInv, queue' = queue,
           \A j \in Jobs : /\ status[j] # "none" => status'[j] # "none"
                           /\ status'[j] = "pending" => status[j] = "pending",
           \A t \in Ticks : tick'[t].pc = "claim" => tick'[t] = tick[t]
    PROVE  OrderInv'
<1>1. \A i \in DOMAIN queue : queue[i] \in Jobs  BY DEF RunsInv, TypeOK
<1> QED BY <1>1 DEF OrderInv

LEMMA OrderStep == RunsInv /\ OrderInv /\ [Next]_vars => OrderInv'
<1> SUFFICES ASSUME RunsInv, OrderInv, [Next]_vars  PROVE OrderInv'
  OBVIOUS
<1>0. TypeOK /\ \A i \in DOMAIN queue : queue[i] \in Jobs  BY DEF RunsInv, TypeOK
<1>1. ASSUME NEW j \in Jobs, Enqueue(j)  PROVE OrderInv'
  <2>1. /\ queue' = Append(queue, j) /\ status[j] = "none" /\ tick' = tick
        /\ status' = [status EXCEPT ![j] = "pending"]
    BY <1>1 DEF Enqueue, serverVars
  <2>2. /\ DOMAIN queue = 1..Len(queue) /\ Len(queue) \in Nat
        /\ DOMAIN queue' = 1..(Len(queue) + 1) /\ queue'[Len(queue) + 1] = j
        /\ \A i \in DOMAIN queue : queue'[i] = queue[i]
    BY <1>0, <2>1 DEF TypeOK
  <2>3. \A i \in DOMAIN queue : queue[i] # j /\ status'[queue[i]] = status[queue[i]]
    BY <1>0, <2>1 DEF TypeOK, OrderInv
  <2>4. status'[j] = "pending"  BY <1>0, <2>1 DEF TypeOK
  <2>5. \A i, k \in DOMAIN queue' : queue'[i] = queue'[k] => i = k
    BY <2>2, <2>3 DEF OrderInv
  <2>6. \A i \in DOMAIN queue' : status'[queue'[i]] # "none"
    BY <2>2, <2>3, <2>4 DEF OrderInv
  <2>7. ASSUME NEW t \in Ticks, tick'[t].pc = "claim"
        PROVE  \E k \in DOMAIN queue' :
                  /\ queue'[k] = tick'[t].job
                  /\ \A i \in DOMAIN queue' : i < k => status'[queue'[i]] # "pending"
    <3>1. PICK k \in DOMAIN queue :
             /\ queue[k] = tick[t].job
             /\ \A i \in DOMAIN queue : i < k => status[queue[i]] # "pending"
      BY <2>1, <2>7 DEF OrderInv
    <3>2. k \in DOMAIN queue' /\ queue'[k] = tick'[t].job  BY <2>1, <2>2, <3>1
    <3>3. \A i \in DOMAIN queue' : i < k => i \in DOMAIN queue  BY <2>2
    <3> QED BY <2>2, <2>3, <3>1, <3>2, <3>3
  <2> QED BY <2>5, <2>6, <2>7 DEF OrderInv
<1>2. ASSUME NEW t \in Ticks, TickFinds(t)  PROVE OrderInv'
  <2>1. UNCHANGED <<queue, status>> /\ \A u \in Ticks \ {t} : tick'[u] = tick[u]
    BY <1>0, <1>2 DEF TickFinds, jobVars, TypeOK
  <2>2. tick'[t].pc = "claim" =>
           \E k \in DOMAIN queue : /\ queue[k] = tick'[t].job
                                   /\ \A i \in DOMAIN queue : i < k => status[queue[i]] # "pending"
    <3>1. CASE tick' = [tick EXCEPT ![t] = NoTick]
      BY <1>0, <3>1 DEF NoTick, TypeOK
    <3>2. ASSUME NEW k \in Pending, \A i \in Pending : k <= i,
                 tick' = [tick EXCEPT ![t] = [pc |-> "claim", job |-> queue[k]]]
          PROVE  /\ k \in DOMAIN queue /\ queue[k] = tick'[t].job
                 /\ \A i \in DOMAIN queue : i < k => status[queue[i]] # "pending"
      <4>1. tick'[t].job = queue[k]  BY <1>0, <3>2 DEF TypeOK
      <4>2. DOMAIN queue \subseteq Int  BY <1>0 DEF TypeOK
      <4> QED BY <3>2, <4>1, <4>2 DEF Pending
    <3> QED BY <1>2, <3>1, <3>2 DEF TickFinds
  <2> QED BY <2>1, <2>2 DEF OrderInv
<1>3. CASE Recover
  <2>1. \A u \in Ticks : tick'[u].pc = "idle"
    BY <1>3 DEF Recover, RunsInv, DownIsEmpty
  <2>2. queue' = queue /\ \A j \in Jobs : status[j] # "none" => status'[j] # "none"
    BY <1>0, <1>3 DEF Recover, TypeOK
  <2> QED BY <1>0, <2>1, <2>2 DEF OrderInv
<1>4. ASSUME ~Recover, \A j \in Jobs : ~Enqueue(j), \A t \in Ticks : ~TickFinds(t)
      PROVE  OrderInv'
  <2>1. \A j \in Jobs : /\ status[j] # "none" => status'[j] # "none"
                        /\ status'[j] = "pending" => status[j] = "pending"
    BY <1>4, StatusMoves
  <2>2. queue' = queue /\ \A t \in Ticks : tick'[t].pc = "claim" => tick'[t] = tick[t]
    <3>1. ASSUME NEW j \in Jobs, Cancel(j)
          PROVE  queue' = queue /\ \A u \in Ticks : tick'[u].pc = "claim" => tick'[u] = tick[u]
      BY <3>1 DEF Cancel, serverVars
    <3>2. ASSUME NEW t \in Ticks, TickStep(t)
          PROVE  queue' = queue /\ \A u \in Ticks : tick'[u].pc = "claim" => tick'[u] = tick[u]
      BY <1>0, <1>4, <3>2
         DEF TickStep, TickStarts, TickClaims, TickStartsProcess, TickFails, TypeOK, TickRows, NoTick, jobVars
    <3>3. ASSUME NEW w \in Workers, ProcessStep(w)
          PROVE  queue' = queue /\ \A u \in Ticks : tick'[u].pc = "claim" => tick'[u] = tick[u]
      BY <3>3 DEF ProcessStep, ProcessCallsSave, ProcessSaves, ProcessReports, ReportIsLost, ProcessEnds,
                  jobVars, serverVars
    <3>4. CASE Crash \/ StartWithoutRecovery \/ UNCHANGED vars \/ \E s \in Editors : EditorSaves(s)
      BY <3>4 DEF Crash, StartWithoutRecovery, EditorSaves, vars, jobVars, serverVars, NoTick
    <3> QED BY <1>4, <3>1, <3>2, <3>3, <3>4 DEF Next
  <2> QED BY <2>1, <2>2, OrderKept
<1> QED BY <1>1, <1>2, <1>3, <1>4

LEMMA OrderInit == Init => RunsInv /\ OrderInv
<1> SUFFICES ASSUME Init  PROVE OrderInv
  BY RunsInit
<1>1. queue = <<>> /\ \A t \in Ticks : tick[t].pc = "idle"  BY DEF Init, NoTick
<1> QED BY <1>1 DEF OrderInv

\* The oldest pending job is taken first, although ticks claim what they read earlier and
\* restarts put jobs back (render.service.ts, findFirst by createdAt, then updateMany).
THEOREM OldestIsTakenFirst == Spec => OldestFirst
<1>1. RunsInv /\ OrderInv /\ [Next]_vars => (RunsInv /\ OrderInv)'  BY RunsStep, OrderStep
<1>2. RunsInv /\ OrderInv /\ [Next]_vars =>
         [\A i, k \in DOMAIN queue :
            i < k /\ status[queue[k]] = "pending" /\ status'[queue[k]] = "processing"
               => status[queue[i]] # "pending"]_vars
  <2> SUFFICES ASSUME RunsInv, OrderInv, [Next]_vars, NEW i \in DOMAIN queue, NEW k \in DOMAIN queue,
                      i < k, status[queue[k]] = "pending", status'[queue[k]] = "processing"
               PROVE  status[queue[i]] # "pending"
    OBVIOUS
  <2>1. queue[k] \in Jobs  BY DEF RunsInv, TypeOK
  <2>2. PICK t \in Ticks : TickClaims(t) /\ tick[t].job = queue[k]  BY <2>1, StatusMoves
  <2>3. tick[t].pc = "claim"  BY <2>2 DEF TickClaims
  <2> QED BY <2>2, <2>3 DEF OrderInv
<1> QED BY <1>1, <1>2, OrderInit, PTL DEF Spec, OldestFirst

\* No late process, cancellation or restart changes an outcome (render.service.ts, cancel,
\* process and onModuleInit).
THEOREM OutcomesAreFinal == Spec => EndedStaysEnded
<1>1. RunsInv /\ [Next]_vars => RunsInv'  BY RunsStep
<1>2. RunsInv /\ [Next]_vars =>
         [\A j \in Jobs : status[j] \in Terminal => status'[j] = status[j]]_vars
  BY StatusMoves DEF Terminal
<1> QED BY <1>1, <1>2, RunsInit, PTL DEF Spec, EndedStaysEnded

-----------------------------------------------------------------------------
(* The numbers of versions *)

Early   == {"check", "project", "create", "number", "derive", "version"}
SaveRow == [pc : Early \cup {"idle", "audit", "saved", "failed"}, project : Nat, no : Nat, file : Nat]
Version == [project : Nat, no : Nat, file : Nat, job : Jobs \cup {Null}]

EditTypeOK == /\ projects \in Nat /\ derived \in Nat
              /\ versions \in Seq(Version) /\ save \in [Saves -> SaveRow]

Numbers(vs, p) == {vs[i].no : i \in {i \in DOMAIN vs : vs[i].project = p}}

\* The numbers of a project are an interval, and a call that has chosen its number has the one
\* after a number that is taken, or the first: others may have taken its own meanwhile.
Numbered ==
    /\ \A p \in Nat : \E n \in Nat : Numbers(versions, p) = 1..n
    /\ \A s \in Saves :
          save[s].pc \in {"derive", "version"} =>
             save[s].no = 1 \/ (save[s].no > 1 /\ save[s].no - 1 \in Numbers(versions, save[s].project))

EditInv == EditTypeOK /\ Numbered

LEMMA NextNumberIs ==
    ASSUME NEW p, NEW n \in Nat, Numbers(versions, p) = 1..n
    PROVE  NextNumber(p) = n + 1
<1> DEFINE S == (1..n) \cup {0}
<1>0. NumbersOf(p) = 1..n  BY DEF NumbersOf, VersionsOf, Numbers
<1>1. n \in S /\ \A y \in S : n >= y  OBVIOUS
<1>2. \A x \in S : (\A y \in S : x >= y) => x = n
  <2> SUFFICES ASSUME NEW x \in S, \A y \in S : x >= y  PROVE x = n
    OBVIOUS
  <2>1. x \in Nat /\ x <= n  OBVIOUS
  <2>2. x >= n  BY <1>1
  <2> QED BY <2>1, <2>2
<1> HIDE DEF S
<1>3. Max(S) = n  BY <1>1, <1>2 DEF Max
<1> QED BY <1>0, <1>3 DEF NextNumber, S

\* A version more adds its number to those of its project.
LEMMA AppendedNumbers ==
    ASSUME NEW vs \in Seq(Version), NEW row \in Version, NEW p
    PROVE  Numbers(Append(vs, row), p) = Numbers(vs, p) \cup (IF p = row.project THEN {row.no} ELSE {})
<1> DEFINE new == Append(vs, row)
<1>1. /\ Len(vs) \in Nat /\ DOMAIN new = DOMAIN vs \cup {Len(vs) + 1} /\ new[Len(vs) + 1] = row
      /\ \A i \in DOMAIN vs : new[i] = vs[i]
  OBVIOUS
<1> HIDE DEF new
<1>2. Numbers(new, p) = Numbers(vs, p) \cup (IF p = row.project THEN {row.no} ELSE {})
  BY <1>1 DEF Numbers
<1> QED BY <1>2 DEF new

\* The version that a call inserts for a job.
VersionFor(s, job) == [project |-> save[s].project, no |-> save[s].no, file |-> save[s].file, job |-> job]

\* A step that inserts nothing, and what it may do to the number of the call.
Inserts(s, job) == /\ versions' = Append(versions, VersionFor(s, job))
                   /\ save[s].pc = "version" /\ save'[s].pc = "audit"
                   /\ save'[s].file = save[s].file /\ VersionFor(s, job) \in Version
Goes(s) ==
    /\ versions' = versions /\ save'[s].pc # "audit"
    /\ save'[s].pc = "saved" => save[s].pc = "audit" /\ save'[s].file = save[s].file
    /\ save'[s].pc \in Early => save[s].pc \in Early \cup {"idle"}
    /\ save'[s].pc \in {"derive", "version"} =>
          /\ save'[s].project = save[s].project
          /\ \/ save'[s].no = save[s].no /\ save[s].pc = "derive"
             \/ save'[s].no = NextNumber(save[s].project)

\* What a step of a call of saveVersion may do.
LEMMA SaveEffect ==
    ASSUME EditInv, NEW s \in Saves, NEW job \in Jobs \cup {Null},
           SaveBegins(s) \/ SaveStep(s, job) \/ SaveFails(s)
    PROVE  EditTypeOK' /\ (\A x \in Saves \ {s} : save'[x] = save[x]) /\ (Goes(s) \/ Inserts(s, job))
<1>0. /\ projects \in Nat /\ derived \in Nat /\ versions \in Seq(Version)
      /\ save \in [Saves -> SaveRow] /\ save[s] \in SaveRow
  BY DEF EditInv, EditTypeOK
<1>1. ASSUME NEW row \in SaveRow, save' = [save EXCEPT ![s] = row], projects' \in Nat, derived' \in Nat,
             versions' \in Seq(Version)
      PROVE  EditTypeOK' /\ (\A x \in Saves \ {s} : save'[x] = save[x]) /\ save'[s] = row
  BY <1>0, <1>1 DEF EditTypeOK
<1>2. CASE SaveBegins(s) \/ SavePassesChecks(s)
  <2>1. PICK pc \in {"check", "project"} : save' = [save EXCEPT ![s].pc = pc]
    BY <1>2 DEF SaveBegins, SavePassesChecks
  <2> DEFINE row == [save[s] EXCEPT !.pc = pc]
  <2>2. row \in SaveRow /\ row.pc = pc /\ save' = [save EXCEPT ![s] = row]
    BY <1>0, <2>1 DEF SaveRow, Early
  <2> HIDE DEF row
  <2>3. UNCHANGED <<projects, versions, derived>> /\ save[s].pc \in {"idle", "check"}
    BY <1>2 DEF SaveBegins, SavePassesChecks
  <2> QED BY <1>0, <1>1, <2>2, <2>3 DEF Goes, Early
<1>3. CASE SaveFindsProject(s) \/ SaveCreatesProject(s)
  <2>1. PICK pc \in {"number", "create"}, p \in Nat : save' = [save EXCEPT ![s].pc = pc, ![s].project = p]
    <3>1. CASE SaveFindsProject(s) /\ projects > 0  BY <3>1 DEF SaveFindsProject
    <3>2. CASE SaveFindsProject(s) /\ ~(projects > 0)
      <4>1. save' = [save EXCEPT ![s].pc = "create", ![s].project = save[s].project]
        BY <1>0, <3>2 DEF SaveFindsProject, SaveRow
      <4> QED BY <1>0, <4>1 DEF SaveRow
    <3>3. CASE SaveCreatesProject(s)
      <4> DEFINE next == projects + 1
      <4>1. next \in Nat  BY <1>0
      <4>2. save' = [save EXCEPT ![s].pc = "number", ![s].project = next]
        BY <3>3 DEF SaveCreatesProject
      <4> HIDE DEF next
      <4> QED BY <4>1, <4>2
    <3> QED BY <1>3, <3>1, <3>2, <3>3
  <2> DEFINE row == [save[s] EXCEPT !.pc = pc, !.project = p]
  <2>2. row \in SaveRow /\ row.pc = pc /\ save' = [save EXCEPT ![s] = row]
    BY <1>0, <2>1 DEF SaveRow, Early
  <2> HIDE DEF row
  <2>3. projects' \in Nat /\ UNCHANGED <<versions, derived>> /\ save[s].pc \in {"project", "create"}
    BY <1>0, <1>3 DEF SaveFindsProject, SaveCreatesProject
  <2> QED BY <1>0, <1>1, <2>2, <2>3 DEF Goes, Early
<1>4. CASE SaveNumbers(s)
  <2> DEFINE no == NextNumber(save[s].project)
             row == [save[s] EXCEPT !.pc = "derive", !.no = no]
  <2>1. no \in Nat
    <3>1. PICK n \in Nat : Numbers(versions, save[s].project) = 1..n
      BY <1>0 DEF EditInv, Numbered, SaveRow
    <3> QED BY <3>1, NextNumberIs
  <2>2. save' = [save EXCEPT ![s] = row] /\ save[s].pc = "number" /\ UNCHANGED <<projects, versions, derived>>
    BY <1>4 DEF SaveNumbers
  <2> HIDE DEF no
  <2>3. row \in SaveRow /\ row.pc = "derive" /\ row.no = no /\ row.project = save[s].project
    BY <1>0, <2>1 DEF SaveRow, Early
  <2> HIDE DEF row
  <2> QED BY <1>0, <1>1, <2>2, <2>3 DEF Goes, Early, no
<1>5. CASE SaveDerives(s)
  <2> DEFINE file == derived + 1
             row == [save[s] EXCEPT !.pc = "version", !.file = file]
  <2>a. file \in Nat  BY <1>0
  <2>b. save' = [save EXCEPT ![s].pc = "version", ![s].file = file] /\ derived' = file
    BY <1>5 DEF SaveDerives
  <2> HIDE DEF file
  <2>0. file \in Nat /\ save' = [save EXCEPT ![s] = row] /\ derived' = file
    BY <1>0, <2>a, <2>b
  <2>1. /\ row \in SaveRow /\ row.pc = "version" /\ row.no = save[s].no
        /\ row.project = save[s].project
    BY <1>0, <2>0 DEF SaveRow, Early
  <2>2. save[s].pc = "derive" /\ UNCHANGED <<projects, versions>>
    BY <1>5 DEF SaveDerives
  <2> HIDE DEF row
  <2> QED BY <1>0, <1>1, <2>0, <2>1, <2>2 DEF Goes, Early
<1>6. CASE SaveInserts(s, job)
  <2> DEFINE row == [save[s] EXCEPT !.pc = "audit"]
  <2>1. row \in SaveRow /\ row.pc = "audit" /\ row.file = save[s].file  BY <1>0 DEF SaveRow, Early
  <2>2. VersionFor(s, job) \in Version  BY <1>0 DEF SaveRow, Version, VersionFor
  <2>3. /\ save' = [save EXCEPT ![s] = row] /\ save[s].pc = "version" /\ UNCHANGED <<projects, derived>>
        /\ versions' = Append(versions, VersionFor(s, job))
    BY <1>6 DEF SaveInserts, VersionFor
  <2> HIDE DEF row
  <2>4. versions' \in Seq(Version)  BY <1>0, <2>2, <2>3
  <2> QED BY <1>0, <1>1, <2>1, <2>2, <2>3, <2>4 DEF Inserts
<1>7. CASE SaveAudits(s)
  <2> DEFINE file == save[s].file
             row == [NoSave EXCEPT !.pc = "saved", !.file = file]
  <2>1. file \in Nat  BY <1>0 DEF SaveRow
  <2>2. save' = [save EXCEPT ![s] = row] /\ save[s].pc = "audit" /\ UNCHANGED <<projects, versions, derived>>
    BY <1>7 DEF SaveAudits
  <2> HIDE DEF file
  <2>3. row \in SaveRow /\ row.pc = "saved" /\ row.file = file  BY <2>1 DEF NoSave, SaveRow, Early
  <2> HIDE DEF row
  <2> QED BY <1>0, <1>1, <2>2, <2>3 DEF Goes, Early, file
<1>8. CASE SaveFails(s)
  <2> DEFINE row == [NoSave EXCEPT !.pc = "failed"]
  <2>1. row \in SaveRow /\ row.pc = "failed"  BY DEF NoSave, SaveRow, Early
  <2>2. save' = [save EXCEPT ![s] = row] /\ UNCHANGED <<projects, versions, derived>>
    BY <1>8 DEF SaveFails
  <2> HIDE DEF row
  <2> QED BY <1>0, <1>1, <2>1, <2>2 DEF Goes, Early
<1> QED BY <1>2, <1>3, <1>4, <1>5, <1>6, <1>7, <1>8 DEF SaveStep

LEMMA SaveKeepsNumbers ==
    ASSUME EditInv, NEW s \in Saves, NEW job \in Jobs \cup {Null},
           SaveBegins(s) \/ SaveStep(s, job) \/ SaveFails(s)
    PROVE  EditInv'
<1>0. EditTypeOK /\ EditTypeOK' /\ \A x \in Saves \ {s} : save'[x] = save[x]
  BY SaveEffect DEF EditInv
<1>1. /\ \A x \in Saves : save[x].project \in Nat /\ save[x].no \in Nat
      /\ versions \in Seq(Version)
  BY <1>0 DEF EditTypeOK, SaveRow
<1>2. PICK n \in Nat : Numbers(versions, save[s].project) = 1..n
  BY <1>1 DEF EditInv, Numbered
<1>3. CASE Goes(s)
  <2>1. versions' = versions  BY <1>3 DEF Goes
  <2>2. NextNumber(save[s].project) = n + 1  BY <1>2, NextNumberIs
  <2>3. ASSUME save'[s].pc \in {"derive", "version"}
        PROVE  save'[s].no = 1 \/ (save'[s].no > 1 /\ save'[s].no - 1 \in Numbers(versions, save'[s].project))
    <3>1. CASE save'[s].no = save[s].no /\ save[s].pc = "derive"
      BY <1>3, <2>3, <3>1 DEF Goes, EditInv, Numbered
    <3>2. CASE save'[s].no = n + 1
      <4>1. n = 0 \/ (n + 1 > 1 /\ n + 1 - 1 \in 1..n)  OBVIOUS
      <4> QED BY <1>2, <1>3, <2>3, <3>2, <4>1 DEF Goes
    <3> QED BY <1>3, <2>2, <2>3, <3>1, <3>2 DEF Goes
  <2> QED BY <1>0, <2>1, <2>3 DEF EditInv, Numbered
<1>4. CASE Inserts(s, job)
  <2> DEFINE row == VersionFor(s, job)
  <2>1. /\ row \in Version /\ row.project = save[s].project /\ row.no = save[s].no
        /\ versions' = Append(versions, row) /\ save[s].pc = "version" /\ save'[s].pc = "audit"
    BY <1>4 DEF Inserts, VersionFor
  <2> HIDE DEF row
  <2>2. \A p : Numbers(versions', p) = Numbers(versions, p) \cup (IF p = row.project THEN {row.no} ELSE {})
    BY <1>1, <2>1, AppendedNumbers
  <2>3. row.no = 1 \/ (row.no > 1 /\ row.no - 1 \in 1..n)
    BY <1>2, <2>1 DEF EditInv, Numbered
  <2>4. row.no \in 1..(n + 1)  BY <1>1, <2>1, <2>3
  <2>5. \E k \in Nat : Numbers(versions', row.project) = 1..k
    <3>1. Numbers(versions', row.project) = (1..n) \cup {row.no}  BY <1>2, <2>1, <2>2
    <3>2. CASE row.no = n + 1
      <4>1. (1..n) \cup {n + 1} = 1..(n + 1)  OBVIOUS
      <4> QED BY <3>1, <3>2, <4>1
    <3>3. CASE row.no # n + 1
      <4>1. row.no \in 1..n  BY <2>4, <3>3
      <4>2. (1..n) \cup {row.no} = 1..n  BY <4>1
      <4> QED BY <3>1, <4>2
    <3> QED BY <3>2, <3>3
  <2>6. \A p \in Nat : \E k \in Nat : Numbers(versions', p) = 1..k
    <3> SUFFICES ASSUME NEW p \in Nat  PROVE \E k \in Nat : Numbers(versions', p) = 1..k
      OBVIOUS
    <3>1. CASE p = row.project  BY <2>5, <3>1
    <3>2. CASE p # row.project
      <4>1. Numbers(versions', p) = Numbers(versions, p)  BY <2>2, <3>2
      <4> QED BY <4>1 DEF EditInv, Numbered
    <3> QED BY <3>1, <3>2
  <2>7. ASSUME NEW x \in Saves, save'[x].pc \in {"derive", "version"}
        PROVE  save'[x].no = 1 \/ (save'[x].no > 1 /\ save'[x].no - 1 \in Numbers(versions', save'[x].project))
    <3>1. x # s /\ save'[x] = save[x]  BY <1>0, <2>1, <2>7
    <3>2. Numbers(versions, save[x].project) \subseteq Numbers(versions', save[x].project)  BY <2>2
    <3> QED BY <2>7, <3>1, <3>2 DEF EditInv, Numbered
  <2> QED BY <1>0, <2>6, <2>7 DEF EditInv, Numbered
<1> QED BY <1>3, <1>4, SaveEffect

LEMMA EditStep == RunsInv /\ EditInv /\ [Next]_vars => EditInv'
<1> SUFFICES ASSUME RunsInv, EditInv, [Next]_vars  PROVE EditInv'
  OBVIOUS
<1>a. ASSUME UNCHANGED editVars  PROVE EditInv'
  BY <1>a DEF editVars, EditInv, EditTypeOK, Numbered
<1>b. ASSUME UNCHANGED <<projects, versions, derived>>, save' \in [Saves -> SaveRow],
             \A s \in Saves : save'[s] = save[s] \/ save'[s] = NoSave
      PROVE  EditInv'
  <2>1. NoSave.pc = "idle"  BY DEF NoSave
  <2> QED BY <1>b, <2>1 DEF EditInv, EditTypeOK, Numbered
<1>c. NoSave \in SaveRow  BY DEF NoSave, SaveRow
<1>1. ASSUME NEW s \in Editors, EditorSaves(s)  PROVE EditInv'
  BY <1>1, SaveKeepsNumbers DEF EditorSaves, Editors
<1>2. ASSUME NEW w \in Workers, ProcessCallsSave(w) \/ ProcessSaves(w)  PROVE EditInv'
  <2>1. w \in Saves /\ worker[w].job \in Jobs \cup {Null}
    BY QueueAssumption DEF RunsInv, TypeOK, Runs
  <2> QED BY <1>2, <2>1, SaveKeepsNumbers DEF ProcessCallsSave, ProcessSaves
<1>3. ASSUME NEW w \in Workers, ProcessEnds(w)  PROVE EditInv'
  BY <1>3, <1>b, <1>c DEF ProcessEnds, EditInv, EditTypeOK
<1>4. CASE Crash  BY <1>4, <1>b, <1>c DEF Crash
<1>5. ASSUME NEW w \in Workers, ProcessReports(w) \/ ReportIsLost(w)  PROVE EditInv'
  BY <1>5, <1>a DEF ProcessReports, ReportIsLost
<1>6. ASSUME NEW t \in Ticks, TickStep(t)  PROVE EditInv'
  BY <1>6, <1>a DEF TickStep, TickStarts, TickFinds, TickClaims, TickStartsProcess, TickFails
<1>7. CASE Recover \/ StartWithoutRecovery \/ UNCHANGED vars \/ \E j \in Jobs : Enqueue(j) \/ Cancel(j)
  BY <1>7, <1>a DEF Recover, StartWithoutRecovery, vars, Enqueue, Cancel
<1> QED BY <1>1, <1>2, <1>3, <1>4, <1>5, <1>6, <1>7 DEF Next, ProcessStep

LEMMA EditInitially == Init => EditInv
<1> SUFFICES ASSUME Init  PROVE EditInv
  OBVIOUS
<1>1. NoSave \in SaveRow /\ NoSave.pc = "idle"  BY DEF NoSave, SaveRow
<1>2. Numbered
  <2>1. \A p : Numbers(versions, p) = 1..0  BY DEF Init, EditInit, Numbers
  <2> QED BY <1>1, <2>1 DEF Init, EditInit, Numbered
<1>3. EditTypeOK  BY <1>1 DEF Init, EditInit, EditTypeOK
<1> QED BY <1>2, <1>3 DEF EditInv

\* Versions are numbered 1, 2, ... without a gap, however many calls number theirs at once and
\* however many fail in between (media.service.ts, saveVersion).
THEOREM NumbersHaveNoGap == Spec => []NumbersWithoutGap
<1>1. RunsInv /\ EditInv /\ [Next]_vars => (RunsInv /\ EditInv)'  BY RunsStep, EditStep
<1>2. EditInv => NumbersWithoutGap
  <2> SUFFICES ASSUME EditInv, NEW p \in 1..projects
               PROVE  NumbersOf(p) = 1..Cardinality(NumbersOf(p))
    BY DEF NumbersWithoutGap
  <2>1. p \in Nat  BY DEF EditInv, EditTypeOK
  <2>2. PICK n \in Nat : NumbersOf(p) = 1..n
    BY <2>1 DEF EditInv, Numbered, Numbers, NumbersOf, VersionsOf
  <2>3. Cardinality(1..n) = n  BY FS_Interval
  <2> QED BY <2>2, <2>3
<1> QED BY <1>1, <1>2, RunsInit, EditInitially, PTL DEF Spec

-----------------------------------------------------------------------------
(* What a job has to show for its runs *)

\* Nothing has been saved for the job since it was last put into the queue.
Unwritten(j) ==
    \/ status[j] \in {"none", "pending", "canceled"}
    \/ \E t \in Ticks : tick[t].pc = "won" /\ tick[t].job = j
    \/ \E w \in Workers : /\ worker[w].job = j
                          /\ \/ worker[w].pc = "load"
                             \/ worker[w].pc = "save" /\ save[w].pc \in Early

Made(j) == Cardinality(VersionsFor(j))

\* A run makes one version, and a run that is to come none yet.
MadeInv ==
    /\ requeued \in [Jobs -> Nat]
    /\ \A j \in Jobs : Made(j) <= requeued[j] + 1 /\ (Unwritten(j) => Made(j) <= requeued[j])

SavedFor(j, file) == \E i \in DOMAIN versions : versions[i].job = j /\ versions[i].file = file

\* The file a process is about to report is one that was saved for its job.
OutcomeInv ==
    /\ result \in [Jobs -> Nat]
    /\ \A w \in Workers : worker[w].pc = "save" /\ save[w].pc \in {"audit", "saved"}
                             => SavedFor(worker[w].job, save[w].file)
    /\ \A j \in Jobs : status[j] = "done" => SavedFor(j, result[j])

Inv == RunsInv /\ EditInv

LEMMA VersionsFinite ==
    ASSUME EditInv, NEW j
    PROVE  IsFiniteSet(VersionsFor(j)) /\ Made(j) \in Nat
<1>1. VersionsFor(j) \in SUBSET (1..Len(versions)) /\ Len(versions) \in Nat
  BY DEF VersionsFor, EditInv, EditTypeOK
<1>2. IsFiniteSet(1..Len(versions))  BY <1>1, FS_Interval
<1>3. IsFiniteSet(VersionsFor(j))  BY <1>1, <1>2, FS_Subset
<1> QED BY <1>3, FS_CardinalityType DEF Made

\* A version is inserted by a process for its job or by an editor for none.
LEMMA VersionsGrow ==
    ASSUME Inv, [Next]_vars
    PROVE  \/ versions' = versions
           \/ \E s \in Editors : Inserts(s, Null)
           \/ \E w \in Workers : /\ ProcessSaves(w) /\ Inserts(w, worker[w].job)
<1>1. ASSUME NEW s \in Editors, EditorSaves(s)  PROVE versions' = versions \/ Inserts(s, Null)
  BY <1>1, SaveEffect DEF EditorSaves, Editors, Goes, Inv
<1>2. ASSUME NEW w \in Workers, ProcessCallsSave(w)  PROVE versions' = versions
  BY <1>2 DEF ProcessCallsSave, SaveBegins
<1>3. ASSUME NEW w \in Workers, ProcessSaves(w)
      PROVE  versions' = versions \/ Inserts(w, worker[w].job)
  <2>1. w \in Saves /\ worker[w].job \in Jobs \cup {Null}
    BY QueueAssumption DEF Inv, RunsInv, TypeOK, Runs
  <2> QED BY <1>3, <2>1, SaveEffect DEF ProcessSaves, Goes, Inv
<1>4. ASSUME NEW w \in Workers, ProcessReports(w) \/ ReportIsLost(w) \/ ProcessEnds(w)
      PROVE  versions' = versions
  BY <1>4 DEF ProcessReports, ReportIsLost, ProcessEnds, editVars
<1>5. ASSUME NEW t \in Ticks, TickStep(t)  PROVE versions' = versions
  BY <1>5 DEF TickStep, TickStarts, TickFinds, TickClaims, TickStartsProcess, TickFails, editVars
<1>6. CASE Crash \/ Recover \/ StartWithoutRecovery \/ UNCHANGED vars \/ \E j \in Jobs : Enqueue(j) \/ Cancel(j)
  BY <1>6 DEF Crash, Recover, StartWithoutRecovery, vars, Enqueue, Cancel, editVars
<1> QED BY <1>1, <1>2, <1>3, <1>4, <1>5, <1>6 DEF Next, ProcessStep

\* How the versions of a job grow with a version more.
LEMMA AppendedFor ==
    ASSUME EditInv, NEW s \in Saves, NEW job \in Jobs \cup {Null}, Inserts(s, job), NEW j \in Jobs
    PROVE  /\ VersionsFor(j)' = VersionsFor(j) \cup (IF job = j THEN {Len(versions) + 1} ELSE {})
           /\ Len(versions) + 1 \notin VersionsFor(j)
<1>1. /\ versions \in Seq(Version) /\ versions' = Append(versions, VersionFor(s, job))
      /\ VersionFor(s, job).job = job
  BY DEF Inserts, VersionFor, EditInv, EditTypeOK
<1>2. /\ Len(versions) \in Nat /\ DOMAIN versions = 1..Len(versions)
      /\ DOMAIN versions' = DOMAIN versions \cup {Len(versions) + 1}
      /\ versions'[Len(versions) + 1].job = job
      /\ \A i \in DOMAIN versions : versions'[i] = versions[i]
  <2> DEFINE row == VersionFor(s, job)
  <2>1. row \in Version /\ row.job = job /\ versions' = Append(versions, row)  BY <1>1 DEF Inserts
  <2> HIDE DEF row
  <2> QED BY <1>1, <2>1
<1> QED BY <1>2 DEF VersionsFor

\* What a process has, and where its call stands, changes by its own steps, by the tick that
\* starts it, or by a crash.
LEMMA OwnSteps ==
    ASSUME Inv, [Next]_vars, NEW w \in Workers
    PROVE  \/ worker'[w] = worker[w] /\ save'[w] = save[w]
           \/ ProcessStep(w)
           \/ \E t \in Ticks : /\ tick[t].pc = "won"
                               /\ worker'[w] = [pc |-> "load", job |-> tick[t].job]
           \/ Crash
<1>0. /\ worker \in [Workers -> Runs] /\ save \in [Saves -> SaveRow] /\ w \in Saves
  BY QueueAssumption DEF Inv, RunsInv, TypeOK, EditInv, EditTypeOK
<1>1. ASSUME NEW t \in Ticks, TickStartsProcess(t)
      PROVE  \/ worker'[w] = worker[w] /\ save'[w] = save[w]
             \/ tick[t].pc = "won" /\ worker'[w] = [pc |-> "load", job |-> tick[t].job]
  <2>1. PICK x \in Workers : worker' = [worker EXCEPT ![x] = [pc |-> "load", job |-> tick[t].job]]
    BY <1>1 DEF TickStartsProcess
  <2>2. CASE x = w  BY <1>0, <1>1, <2>1, <2>2 DEF TickStartsProcess
  <2>3. CASE x # w  BY <1>0, <1>1, <2>1, <2>3 DEF TickStartsProcess, editVars
  <2> QED BY <2>2, <2>3
<1>2. ASSUME NEW t \in Ticks, TickStep(t), ~TickStartsProcess(t)
      PROVE  worker'[w] = worker[w] /\ save'[w] = save[w]
  BY <1>2 DEF TickStep, TickStarts, TickFinds, TickClaims, TickFails, editVars
<1>3. ASSUME NEW x \in Workers, ProcessStep(x), x # w
      PROVE  worker'[w] = worker[w] /\ save'[w] = save[w]
  <2>1. worker'[w] = worker[w]
    BY <1>0, <1>3 DEF ProcessStep, ProcessCallsSave, ProcessSaves, ProcessReports, ReportIsLost,
                      ProcessEnds, serverVars
  <2>2. CASE ProcessCallsSave(x) \/ ProcessSaves(x)
    <3>1. SaveBegins(x) \/ SaveStep(x, worker[x].job) \/ SaveFails(x)
      BY <2>2 DEF ProcessCallsSave, ProcessSaves
    <3>2. x \in Saves /\ worker[x].job \in Jobs \cup {Null}  BY <1>0, QueueAssumption DEF Runs
    <3> QED BY <1>0, <1>3, <2>1, <3>1, <3>2, SaveEffect DEF Inv
  <2>3. CASE ProcessReports(x) \/ ReportIsLost(x)
    BY <2>1, <2>3 DEF ProcessReports, ReportIsLost, editVars
  <2>4. CASE ProcessEnds(x)  BY <1>0, <1>3, <2>1, <2>4 DEF ProcessEnds
  <2> QED BY <1>3, <2>2, <2>3, <2>4 DEF ProcessStep
<1>4. ASSUME NEW s \in Editors, EditorSaves(s)  PROVE worker'[w] = worker[w] /\ save'[w] = save[w]
  <2>1. s \in Saves /\ s # w /\ worker' = worker /\ (SaveBegins(s) \/ SaveStep(s, Null) \/ SaveFails(s))
    BY <1>4 DEF EditorSaves, Editors, serverVars
  <2> QED BY <1>0, <2>1, SaveEffect DEF Inv
<1>5. CASE Recover \/ StartWithoutRecovery \/ UNCHANGED vars \/ \E k \in Jobs : Enqueue(k) \/ Cancel(k)
  BY <1>5 DEF Recover, StartWithoutRecovery, vars, Enqueue, Cancel, editVars, serverVars
<1> QED BY <1>1, <1>2, <1>3, <1>4, <1>5 DEF Next

\* A statement of saveVersion on behalf of a job.
LEMMA OwnSaves ==
    ASSUME Inv, NEW w \in Workers, ProcessSaves(w)
    PROVE  /\ worker'[w] = worker[w] /\ worker[w].pc = "save" /\ save[w].pc # "idle"
           /\ Goes(w) \/ Inserts(w, worker[w].job)
<1>1. w \in Saves /\ worker[w].job \in Jobs \cup {Null}
  BY QueueAssumption DEF Inv, RunsInv, TypeOK, Runs
<1>2. SaveStep(w, worker[w].job) \/ SaveFails(w)  BY DEF ProcessSaves
<1>3. save[w].pc # "idle"
  BY <1>2 DEF SaveStep, SavePassesChecks, SaveFindsProject, SaveCreatesProject, SaveNumbers,
              SaveDerives, SaveInserts, SaveAudits, SaveFails, Saving
<1>4. Goes(w) \/ Inserts(w, worker[w].job)  BY <1>1, <1>2, SaveEffect DEF Inv
<1> QED BY <1>3, <1>4 DEF ProcessSaves, serverVars

\* Whoever has something to save for a job has it from somebody who had.
LEMMA UnwrittenBefore ==
    ASSUME Inv, [Next]_vars, NEW j \in Jobs, Unwritten(j)'
    PROVE  Unwritten(j) \/ (Recover /\ status[j] = "processing")
<1>0. /\ tick \in [Ticks -> TickRows] /\ worker \in [Workers -> Runs] /\ save \in [Saves -> SaveRow]
      /\ Workers \subseteq Saves /\ j # Null
  BY QueueAssumption DEF Inv, RunsInv, TypeOK, EditInv, EditTypeOK
<1>1. CASE status'[j] \in {"none", "pending", "canceled"}
  BY <1>1, StatusMoves DEF Inv, Unwritten
<1>2. ASSUME NEW t \in Ticks, tick'[t].pc = "won", tick'[t].job = j
      PROVE  Unwritten(j)
  <2>1. CASE tick'[t] = tick[t]  BY <1>2, <2>1 DEF Unwritten
  <2>2. ASSUME NEW u \in Ticks, TickStep(u), tick'[t] # tick[t]  PROVE Unwritten(j)
    <3>1. TickClaims(u) /\ u = t /\ status[tick[t].job] = "pending" /\ tick'[t].job = tick[t].job
      BY <1>0, <1>2, <2>2 DEF TickStep, TickStarts, TickFinds, TickClaims, TickStartsProcess, TickFails,
                              NoTick, TickRows
    <3> QED BY <1>2, <3>1 DEF Unwritten
  <2>3. CASE \A u \in Ticks : ~TickStep(u)
    <3>1. tick' = tick \/ Crash
      BY <2>3 DEF Next, Enqueue, Cancel, EditorSaves, ProcessStep, ProcessCallsSave, ProcessSaves,
                  ProcessReports, ReportIsLost, ProcessEnds, Recover, StartWithoutRecovery, vars, serverVars
    <3>2. ~Crash  BY <1>2 DEF Crash, NoTick
    <3> QED BY <2>1, <3>1, <3>2
  <2> QED BY <2>1, <2>2, <2>3
<1>3. ASSUME NEW w \in Workers, worker'[w].job = j,
             worker'[w].pc = "load" \/ (worker'[w].pc = "save" /\ save'[w].pc \in Early)
      PROVE  Unwritten(j)
  <2>0. w \in Saves /\ worker[w] \in Runs  BY <1>0
  <2>1. CASE worker'[w] = worker[w] /\ save'[w] = save[w]  BY <1>3, <2>1 DEF Unwritten
  <2>2. ASSUME NEW t \in Ticks, tick[t].pc = "won", worker'[w] = [pc |-> "load", job |-> tick[t].job]
        PROVE  Unwritten(j)
    BY <1>3, <2>2 DEF Unwritten
  <2>3. CASE Crash  BY <1>3, <2>3 DEF Crash, NoWorker
  <2>4. CASE ProcessCallsSave(w)
    <3>1. worker[w].pc = "load" /\ worker'[w].job = worker[w].job
      BY <1>0, <2>0, <2>4 DEF ProcessCallsSave, Runs
    <3> QED BY <1>3, <3>1 DEF Unwritten
  <2>5. CASE ProcessSaves(w)
    <3>1. save'[w].pc \in Early => save[w].pc \in Early
      BY <2>5, OwnSaves DEF Goes, Inserts, Early
    <3> QED BY <1>3, <2>5, <3>1, OwnSaves DEF Unwritten
  <2>6. CASE ProcessReports(w) \/ ReportIsLost(w) \/ ProcessEnds(w)
    <3>1. worker'[w].pc \in {"end", "catch", "idle"}
      BY <1>0, <2>0, <2>6 DEF ProcessReports, ReportIsLost, ProcessEnds, NoWorker, Runs
    <3> QED BY <1>3, <3>1
  <2> QED BY <2>1, <2>2, <2>3, <2>4, <2>5, <2>6, OwnSteps DEF ProcessStep
<1> QED BY <1>1, <1>2, <1>3 DEF Unwritten

LEMMA MadeStep == Inv /\ MadeInv /\ [Next]_vars => MadeInv'
<1> SUFFICES ASSUME Inv, MadeInv, [Next]_vars  PROVE MadeInv'
  OBVIOUS
<1>0. RunsInv' /\ EditInv'  BY RunsStep, EditStep DEF Inv
<1>1. /\ requeued' \in [Jobs -> Nat]
      /\ \A j \in Jobs : /\ requeued'[j] \in Nat /\ requeued[j] \in Nat /\ requeued'[j] >= requeued[j]
                         /\ Recover /\ status[j] = "processing" => requeued'[j] = requeued[j] + 1
  <2>1. CASE Recover  BY <2>1 DEF Recover, MadeInv
  <2>2. CASE ~Recover
    <3>1. requeued' = requeued
      BY <2>2 DEF Next, Enqueue, Cancel, EditorSaves, TickStep, TickStarts, TickFinds, TickClaims,
                  TickStartsProcess, TickFails, ProcessStep, ProcessCallsSave, ProcessSaves, ProcessReports,
                  ReportIsLost, ProcessEnds, Crash, StartWithoutRecovery, vars, boundVars
    <3> QED BY <2>2, <3>1 DEF MadeInv
  <2> QED BY <2>1, <2>2
<1>2. ASSUME NEW j \in Jobs
      PROVE  Made(j)' <= requeued'[j] + 1 /\ (Unwritten(j)' => Made(j)' <= requeued'[j])
  <2>0. Made(j) \in Nat /\ IsFiniteSet(VersionsFor(j))  BY VersionsFinite DEF Inv
  <2>1. Made(j) <= requeued[j] + 1 /\ (Unwritten(j) => Made(j) <= requeued[j])  BY DEF MadeInv
  <2>2. CASE VersionsFor(j)' = VersionsFor(j)
    <3>1. Made(j)' = Made(j)  BY <2>2 DEF Made
    <3> QED BY <1>1, <2>0, <2>1, <3>1, UnwrittenBefore
  <2>3. ASSUME NEW w \in Workers, ProcessSaves(w), Inserts(w, worker[w].job), worker[w].job = j
        PROVE  Made(j)' <= requeued'[j] + 1 /\ (Unwritten(j)' => Made(j)' <= requeued'[j])
    <3>1. w \in Saves  BY QueueAssumption
    <3>2. VersionsFor(j)' = VersionsFor(j) \cup {Len(versions) + 1} /\ Len(versions) + 1 \notin VersionsFor(j)
      BY <2>3, <3>1, AppendedFor DEF Inv
    <3>3. Made(j)' = Made(j) + 1
      BY <2>0, <3>2, FS_AddElement DEF Made
    <3>4. Unwritten(j)
      <4>1. worker[w].pc = "save" /\ save[w].pc \in Early  BY <2>3 DEF ProcessSaves, Inserts, Early
      <4> QED BY <2>3, <4>1 DEF Unwritten
    <3>5. ~Unwritten(j)'
      <4>1. worker'[w].pc = "save" /\ worker'[w].job = j /\ save'[w].pc = "audit"
        BY <2>3 DEF ProcessSaves, Inserts, serverVars
      <4>2. status'[j] = "processing"
        BY <1>0, <4>1 DEF RunsInv, StatusHeld
      <4>3. \A t \in Ticks : ~(tick'[t].pc = "won" /\ tick'[t].job = j)
        BY <1>0, <4>1 DEF RunsInv, JobsApart
      <4>4. \A x \in Workers : worker'[x].job = j => x = w
        BY <1>0, <4>1 DEF RunsInv, JobsApart
      <4> QED BY <4>1, <4>2, <4>3, <4>4 DEF Unwritten, Early
    <3> QED BY <1>1, <2>0, <2>1, <3>3, <3>4, <3>5
  <2>4. CASE versions' = versions  BY <2>2, <2>4 DEF VersionsFor
  <2>5. ASSUME NEW s \in Saves, NEW job \in Jobs \cup {Null}, Inserts(s, job), job # j
        PROVE  VersionsFor(j)' = VersionsFor(j)
    BY <2>5, AppendedFor DEF Inv
  <2>6. ASSUME NEW s \in Editors, Inserts(s, Null)  PROVE VersionsFor(j)' = VersionsFor(j)
    BY <2>5, <2>6, QueueAssumption DEF Editors
  <2>7. ASSUME NEW w \in Workers, Inserts(w, worker[w].job), worker[w].job # j
        PROVE  VersionsFor(j)' = VersionsFor(j)
    <3>1. w \in Saves /\ worker[w].job \in Jobs \cup {Null}
      BY QueueAssumption DEF Inv, RunsInv, TypeOK, Runs
    <3> QED BY <2>5, <2>7, <3>1
  <2> QED BY <2>2, <2>3, <2>4, <2>6, <2>7, VersionsGrow
<1> QED BY <1>1, <1>2 DEF MadeInv

\* Apart from what crashes undo, a job is worked off once: no run makes two versions, and a
\* canceled job none (render.service.ts, cancel, tick and onModuleInit).
THEOREM OneVersionAtMost == Spec => []OneVersionPerRun
<1>1. Init => Inv /\ MadeInv
  <2> SUFFICES ASSUME Init  PROVE MadeInv
    BY RunsInit, EditInitially DEF Inv
  <2>1. \A j : VersionsFor(j) = {}  BY DEF Init, EditInit, VersionsFor
  <2>2. \A j : Made(j) = 0  BY <2>1, FS_EmptySet DEF Made
  <2> QED BY <2>2 DEF Init, MadeInv
<1>2. Inv /\ MadeInv /\ [Next]_vars => (Inv /\ MadeInv)'
  BY RunsStep, EditStep, MadeStep DEF Inv
<1>3. Inv /\ MadeInv => OneVersionPerRun
  BY DEF MadeInv, Unwritten, Made, OneVersionPerRun
<1> QED BY <1>1, <1>2, <1>3, PTL DEF Spec

\* Versions are only added.
LEMMA SavedForLasts ==
    ASSUME Inv, [Next]_vars, NEW j, NEW file, SavedFor(j, file)
    PROVE  \E i \in DOMAIN versions' : versions'[i].job = j /\ versions'[i].file = file
<1>1. ASSUME NEW row \in Version, versions' = Append(versions, row)
      PROVE  \E i \in DOMAIN versions' : versions'[i].job = j /\ versions'[i].file = file
  <2>1. versions \in Seq(Version)  BY DEF Inv, EditInv, EditTypeOK
  <2>2. \A i \in DOMAIN versions : i \in DOMAIN versions' /\ versions'[i] = versions[i]
    BY <1>1, <2>1
  <2> QED BY <2>2 DEF SavedFor
<1>2. CASE versions' = versions  BY <1>2 DEF SavedFor
<1> QED BY <1>1, <1>2, VersionsGrow DEF Inserts

LEMMA OutcomeStep == Inv /\ OutcomeInv /\ [Next]_vars => OutcomeInv'
<1> SUFFICES ASSUME Inv, OutcomeInv, [Next]_vars  PROVE OutcomeInv'
  OBVIOUS
<1>0. /\ worker \in [Workers -> Runs] /\ save \in [Saves -> SaveRow] /\ Workers \subseteq Saves
      /\ status \in [Jobs -> Statuses] /\ result \in [Jobs -> Nat]
      /\ \A s \in Saves : save[s].file \in Nat
  BY QueueAssumption DEF Inv, RunsInv, TypeOK, EditInv, EditTypeOK, SaveRow, OutcomeInv
<1> DEFINE SavedNow(j, file) == \E i \in DOMAIN versions' : versions'[i].job = j /\ versions'[i].file = file
<1>1. ASSUME NEW w \in Workers, worker'[w].pc = "save", save'[w].pc \in {"audit", "saved"}
      PROVE  SavedNow(worker'[w].job, save'[w].file)
  <2>1. CASE worker'[w] = worker[w] /\ save'[w] = save[w]
    BY <1>1, <2>1, SavedForLasts DEF OutcomeInv
  <2>2. CASE ProcessSaves(w) /\ Goes(w)
    <3>1. save[w].pc = "audit" /\ save'[w].file = save[w].file  BY <1>1, <2>2 DEF Goes
    <3> QED BY <2>2, <3>1, OwnSaves, SavedForLasts DEF OutcomeInv
  <2>3. CASE ProcessSaves(w) /\ Inserts(w, worker[w].job)
    <3> DEFINE row == VersionFor(w, worker[w].job)
    <3>1. /\ row \in Version /\ row.job = worker[w].job /\ row.file = save[w].file
          /\ versions' = Append(versions, row) /\ save'[w].file = save[w].file
      BY <2>3 DEF Inserts, VersionFor
    <3>2. versions \in Seq(Version)  BY DEF Inv, EditInv, EditTypeOK
    <3> HIDE DEF row
    <3>3. Len(versions) + 1 \in DOMAIN versions' /\ versions'[Len(versions) + 1] = row
      BY <3>1, <3>2
    <3>4. worker'[w] = worker[w]  BY <2>3, OwnSaves
    <3> QED BY <3>1, <3>3, <3>4
  <2>4. CASE ProcessCallsSave(w)
    <3>1. save'[w].pc = "check"  BY <1>0, <2>4 DEF ProcessCallsSave, SaveBegins, SaveRow
    <3> QED BY <1>1, <3>1
  <2>5. CASE ProcessReports(w) \/ ReportIsLost(w) \/ ProcessEnds(w)
    <3>1. worker'[w].pc \in {"end", "catch", "idle"}
      BY <1>0, <2>5 DEF ProcessReports, ReportIsLost, ProcessEnds, NoWorker, Runs
    <3> QED BY <1>1, <3>1
  <2>6. ~Crash  BY <1>1 DEF Crash, NoWorker
  <2>7. ASSUME NEW t \in Ticks, worker'[w] = [pc |-> "load", job |-> tick[t].job]  PROVE FALSE
    BY <1>1, <2>7
  <2> QED BY <2>1, <2>2, <2>3, <2>4, <2>5, <2>6, <2>7, OwnSteps, OwnSaves DEF ProcessStep
<1>2. ASSUME NEW w \in Workers, ProcessReports(w)
      PROVE  /\ result' \in [Jobs -> Nat]
             /\ \A j \in Jobs : status'[j] = "done" => SavedNow(j, result'[j])
  <2> DEFINE k == worker[w].job
  <2>1. k \in Jobs  BY <1>0, <1>2, QueueAssumption DEF ProcessReports, Inv, RunsInv, StatusHeld, Runs
  <2>2. CASE /\ worker[w].pc = "save" /\ save[w].pc = "saved"
             /\ status' = [status EXCEPT ![k] = "done"]
             /\ result' = [result EXCEPT ![k] = save[w].file]
    <3>1. result' \in [Jobs -> Nat]  BY <1>0, <2>2
    <3>2. SavedFor(k, save[w].file)  BY <2>2 DEF OutcomeInv
    <3> HIDE DEF k
    <3>3. \A j \in Jobs : status'[j] = "done" =>
             \/ j = k /\ result'[j] = save[w].file
             \/ status[j] = "done" /\ result'[j] = result[j]
      BY <1>0, <2>1, <2>2
    <3>4. \A j \in Jobs : status'[j] = "done" => SavedFor(j, result'[j])
      BY <3>2, <3>3 DEF OutcomeInv
    <3> QED BY <3>1, <3>4, SavedForLasts
  <2>3. CASE status' = [status EXCEPT ![k] = "failed"] /\ UNCHANGED result
    <3> HIDE DEF k
    <3>1. \A j \in Jobs : status'[j] = "done" => status[j] = "done"  BY <1>0, <2>1, <2>3
    <3> QED BY <1>0, <2>3, <3>1, SavedForLasts DEF OutcomeInv
  <2> QED BY <1>2, <2>2, <2>3 DEF ProcessReports
<1>3. ASSUME \A w \in Workers : ~ProcessReports(w)
      PROVE  /\ result' = result
             /\ \A j \in Jobs : status'[j] = "done" => status[j] = "done"
  <2>1. result' = result
    BY <1>3 DEF Next, Enqueue, Cancel, EditorSaves, TickStep, TickStarts, TickFinds, TickClaims,
                TickStartsProcess, TickFails, ProcessStep, ProcessCallsSave, ProcessSaves, ReportIsLost,
                ProcessEnds, Crash, Recover, StartWithoutRecovery, vars, jobVars
  <2>2. ASSUME NEW j \in Jobs, status'[j] = "done", status[j] # "done"  PROVE FALSE
    <3>1. CASE status' = status  BY <2>2, <3>1
    <3>2. CASE status' # status
      <4>1. \/ \E k \in Jobs : Enqueue(k) \/ Cancel(k)
            \/ \E t \in Ticks : TickClaims(t)
            \/ Recover
        BY <1>3, <3>2 DEF Next, EditorSaves, TickStep, TickStarts, TickFinds, TickStartsProcess, TickFails,
              ProcessStep, ProcessCallsSave, ProcessSaves, ReportIsLost, ProcessEnds, Crash,
              StartWithoutRecovery, vars, jobVars
      <4> QED BY <1>0, <2>2, <4>1 DEF Enqueue, Cancel, TickClaims, Recover
    <3> QED BY <3>1, <3>2
  <2> QED BY <2>1, <2>2
<1>4. result' \in [Jobs -> Nat] /\ \A j \in Jobs : status'[j] = "done" => SavedNow(j, result'[j])
  <2>1. CASE \E w \in Workers : ProcessReports(w)  BY <1>2, <2>1
  <2>2. CASE \A w \in Workers : ~ProcessReports(w)
    BY <1>0, <1>3, <2>2, SavedForLasts DEF OutcomeInv
  <2> QED BY <2>1, <2>2
<1> QED BY <1>1, <1>4 DEF OutcomeInv, SavedFor

\* A job that is done names a file that was saved for it (render.service.ts, process).
THEOREM DoneNamesItsVersion == Spec => []DoneHasVersion
<1>1. Init => Inv /\ OutcomeInv
  <2> SUFFICES ASSUME Init  PROVE OutcomeInv
    BY RunsInit, EditInitially DEF Inv
  <2>1. \A w \in Workers : worker[w].pc = "idle"  BY DEF Init, NoWorker
  <2> QED BY <2>1 DEF Init, OutcomeInv
<1>2. Inv /\ OutcomeInv /\ [Next]_vars => (Inv /\ OutcomeInv)'
  BY RunsStep, EditStep, OutcomeStep DEF Inv
<1>3. OutcomeInv => DoneHasVersion
  BY DEF OutcomeInv, SavedFor, VersionsFor, DoneHasVersion
<1> QED BY <1>1, <1>2, <1>3, PTL DEF Spec

-----------------------------------------------------------------------------
(* Recursion over the elements of a sequence *)

LEMMA LeastElement ==
    ASSUME NEW T, T \subseteq Nat, T # {}
    PROVE  \E x \in T : \A y \in T : x <= y
<1> DEFINE R == OpToRel(<, Nat)
<1>1. IsWellFoundedOn(R, Nat)  BY NatLessThanWellFounded
<1>2. \A x, y \in Nat : x < y => <<x, y>> \in R  BY DEF OpToRel
<1> HIDE DEF R
<1>3. PICK x \in T : \A y \in T : <<y, x>> \notin R  BY <1>1, WFMin
<1>4. ASSUME NEW y \in T PROVE x <= y
  <2>1. ~(y < x)  BY <1>2, <1>3
  <2>2. x \in Int /\ y \in Int  OBVIOUS
  <2> QED BY <2>1, <2>2
<1> QED BY <1>4

LEMMA Induction ==
    ASSUME NEW G, 0 \in G, \A n \in Nat : n \in G => n + 1 \in G
    PROVE  Nat \subseteq G
<1> SUFFICES ASSUME Nat \ G # {} PROVE FALSE  OBVIOUS
<1>1. PICK x \in Nat \ G : \A y \in Nat \ G : x <= y  BY LeastElement
<1>2. x - 1 \in Nat /\ x - 1 \in G  BY <1>1
<1> QED BY <1>2

\* What an element adds may depend on the element: F[n] is the n-th step.
LEMMA StepsRun ==
    ASSUME NEW X, NEW N \in Nat, NEW F \in [1..N -> [X -> X]], NEW a \in X
    PROVE  \E g \in [0..N -> X] : g[0] = a /\ \A n \in 1..N : g[n] = F[n][g[n - 1]]
<1> DEFINE Good(g, k) == /\ g \in [0..k -> X] /\ g[0] = a
                         /\ \A n \in 1..k : g[n] = F[n][g[n - 1]]
           G == {k \in Nat : k <= N => \E g : Good(g, k)}
<1>1. 0 \in G
  <2>1. Good([n \in 0..0 |-> a], 0)  OBVIOUS
  <2> QED BY <2>1
<1>2. ASSUME NEW k \in Nat, k \in G PROVE k + 1 \in G
  <2> SUFFICES ASSUME k + 1 <= N PROVE \E g : Good(g, k + 1)  OBVIOUS
  <2>1. PICK g : Good(g, k)  BY <1>2
  <2> DEFINE h == [n \in 0..(k + 1) |-> IF n = k + 1 THEN F[k + 1][g[k]] ELSE g[n]]
  <2>2. F[k + 1][g[k]] \in X
    <3>1. g[k] \in X /\ k + 1 \in 1..N  BY <2>1
    <3> QED BY <3>1
  <2>3. \A n \in 0..(k + 1) : n # k + 1 => n \in 0..k  OBVIOUS
  <2>4. h \in [0..(k + 1) -> X]  BY <2>1, <2>2, <2>3
  <2>5. h[0] = a  BY <2>1
  <2>6. ASSUME NEW n \in 1..(k + 1) PROVE h[n] = F[n][h[n - 1]]
    <3>1. n - 1 \in 0..(k + 1) /\ n - 1 # k + 1 /\ n \in 0..(k + 1)  OBVIOUS
    <3>2. h[n - 1] = g[n - 1]  BY <3>1
    <3>3. CASE n = k + 1  BY <3>1, <3>2, <3>3
    <3>4. CASE n # k + 1
      <4>1. n \in 1..k  BY <3>4
      <4> QED BY <2>1, <3>1, <3>2, <3>4, <4>1
    <3> QED BY <3>3, <3>4
  <2> HIDE DEF h
  <2>7. Good(h, k + 1)  BY <2>4, <2>5, <2>6
  <2> QED BY <2>7
<1> HIDE DEF G
<1>3. N \in G  BY <1>1, <1>2, Induction
<1> QED BY <1>3 DEF G

Runnable(X) == \A N \in Nat : \A F \in [1..N -> [X -> X]] : \A a \in X :
                  \E g \in [0..N -> X] : g[0] = a /\ \A n \in 1..N : g[n] = F[n][g[n - 1]]

LEMMA AllRunnable == \A X : Runnable(X)
BY StepsRun DEF Runnable

\* What the recursion of Picked goes through.
LEMMA PickedRuns ==
    ASSUME NEW S, NEW s \in Seq(S), NEW T
    PROVE  \E u : /\ Picked(s, T) = u[Len(s)] /\ u[0] = <<>>
                  /\ \A n \in 1..Len(s) :
                        u[n] = IF s[n] \in T THEN Append(u[n - 1], s[n]) ELSE u[n - 1]
<1> DEFINE N     == Len(s)
           X     == Seq(S)
           St(n, x) == IF s[n] \in T THEN Append(x, s[n]) ELSE x
           F     == [n \in 1..N |-> [x \in X |-> St(n, x)]]
           Eq(u) == u = [n \in 0..N |-> IF n = 0 THEN <<>>
                                        ELSE IF s[n] \in T THEN Append(u[n - 1], s[n]) ELSE u[n - 1]]
           picks == CHOOSE u : Eq(u)
<1>1. Picked(s, T) = picks[N]  BY DEF Picked
<1>2. N \in Nat /\ <<>> \in X  OBVIOUS
<1>3. F \in [1..N -> [X -> X]]
  <2>1. ASSUME NEW n \in 1..N, NEW x \in X PROVE St(n, x) \in X
    <3>1. s[n] \in S  OBVIOUS
    <3> QED BY <3>1
  <2> HIDE DEF St, X, N
  <2> QED BY <2>1
<1>4. \A n \in 1..N : \A x \in X : F[n][x] = St(n, x)  OBVIOUS
<1> HIDE DEF F, X
<1>5. PICK g \in [0..N -> X] : g[0] = <<>> /\ \A n \in 1..N : g[n] = F[n][g[n - 1]]
  <2>1. Runnable(X)  BY AllRunnable
  <2>2. \A M \in Nat : \A H \in [1..M -> [X -> X]] : \A a \in X :
          \E g \in [0..M -> X] : g[0] = a /\ \A n \in 1..M : g[n] = H[n][g[n - 1]]
    BY <2>1 DEF Runnable
  <2> HIDE DEF N
  <2>3. N \in Nat /\ <<>> \in X /\ F \in [1..N -> [X -> X]]  BY <1>2, <1>3
  <2> QED BY <2>2, <2>3
<1>6. ASSUME NEW n \in 1..N PROVE g[n] = St(n, g[n - 1])
  <2>1. n - 1 \in 0..N  BY <1>2
  <2> QED BY <1>4, <1>5, <2>1
<1>7. Eq(g)
  <2>1. \A n \in 0..N : n # 0 => n \in 1..N  BY <1>2
  <2> QED BY <1>5, <1>6, <2>1
<1> HIDE DEF Eq
<1>8. Eq(picks)  BY <1>7
<1> HIDE DEF picks
<1>9. picks[0] = <<>>  BY <1>2, <1>8 DEF Eq
<1>10. ASSUME NEW n \in 1..N PROVE picks[n] = St(n, picks[n - 1])
  <2>1. n \in 0..N /\ n # 0  BY <1>2
  <2> QED BY <1>8, <2>1 DEF Eq
<1> QED BY <1>1, <1>9, <1>10

\* The same for Burnt.
LEMMA BurntRuns ==
    ASSUME NEW S, NEW s \in Seq(S)
    PROVE  \E u : /\ Burnt(s) = u[Len(s)] /\ u[0] = <<>>
                  /\ \A n \in 1..Len(s) :
                        u[n] = IF Fits(s[n], u[n - 1]) THEN Append(u[n - 1], s[n]) ELSE u[n - 1]
<1> DEFINE N     == Len(s)
           X     == Seq(S)
           St(n, x) == IF Fits(s[n], x) THEN Append(x, s[n]) ELSE x
           F     == [n \in 1..N |-> [x \in X |-> St(n, x)]]
           Eq(u) == u = [n \in 0..N |-> IF n = 0 THEN <<>>
                                        ELSE IF Fits(s[n], u[n - 1]) THEN Append(u[n - 1], s[n]) ELSE u[n - 1]]
           burns == CHOOSE u : Eq(u)
<1>1. Burnt(s) = burns[N]  BY DEF Burnt
<1>2. N \in Nat /\ <<>> \in X  OBVIOUS
<1>3. F \in [1..N -> [X -> X]]
  <2>1. ASSUME NEW n \in 1..N, NEW x \in X PROVE St(n, x) \in X
    <3>1. s[n] \in S  OBVIOUS
    <3> QED BY <3>1
  <2> HIDE DEF St, X, N
  <2> QED BY <2>1
<1>4. \A n \in 1..N : \A x \in X : F[n][x] = St(n, x)  OBVIOUS
<1> HIDE DEF F, X
<1>5. PICK g \in [0..N -> X] : g[0] = <<>> /\ \A n \in 1..N : g[n] = F[n][g[n - 1]]
  <2>1. Runnable(X)  BY AllRunnable
  <2>2. \A M \in Nat : \A H \in [1..M -> [X -> X]] : \A a \in X :
          \E g \in [0..M -> X] : g[0] = a /\ \A n \in 1..M : g[n] = H[n][g[n - 1]]
    BY <2>1 DEF Runnable
  <2> HIDE DEF N
  <2>3. N \in Nat /\ <<>> \in X /\ F \in [1..N -> [X -> X]]  BY <1>2, <1>3
  <2> QED BY <2>2, <2>3
<1>6. ASSUME NEW n \in 1..N PROVE g[n] = St(n, g[n - 1])
  <2>1. n - 1 \in 0..N  BY <1>2
  <2> QED BY <1>4, <1>5, <2>1
<1>7. Eq(g)
  <2>1. \A n \in 0..N : n # 0 => n \in 1..N  BY <1>2
  <2> QED BY <1>5, <1>6, <2>1
<1> HIDE DEF Eq
<1>8. Eq(burns)  BY <1>7
<1> HIDE DEF burns
<1>9. burns[0] = <<>>  BY <1>2, <1>8 DEF Eq
<1>10. ASSUME NEW n \in 1..N PROVE burns[n] = St(n, burns[n - 1])
  <2>1. n \in 0..N /\ n # 0  BY <1>2
  <2> QED BY <1>8, <2>1 DEF Eq
<1> QED BY <1>1, <1>9, <1>10

-----------------------------------------------------------------------------
(* The operators of a recipe *)

LEMMA OfSeq ==
    ASSUME NEW S, NEW s \in Seq(S)
    PROVE  Len(s) \in Nat /\ DOMAIN s = 1..Len(s) /\ \A i \in 1..Len(s) : s[i] \in S
OBVIOUS

LEMMA FunctionIsSeq ==
    ASSUME NEW S, NEW n \in Nat, NEW f \in [1..n -> S]
    PROVE  f \in Seq(S)
OBVIOUS

\* Picked keeps the elements of T, and nothing twice that is not there twice.
LEMMA PickedElements ==
    ASSUME NEW S, NEW s \in Seq(S), NEW T
    PROVE  /\ Picked(s, T) \in Seq(S \cap T)
           /\ \A k \in 1..Len(s) : s[k] \in T =>
                 \E i \in 1..Len(Picked(s, T)) : Picked(s, T)[i] = s[k]
           /\ (\A i, j \in 1..Len(s) : s[i] = s[j] => i = j) =>
                 \A i, j \in 1..Len(Picked(s, T)) : Picked(s, T)[i] = Picked(s, T)[j] => i = j
<1>1. PICK u : /\ Picked(s, T) = u[Len(s)] /\ u[0] = <<>>
               /\ \A n \in 1..Len(s) :
                     u[n] = IF s[n] \in T THEN Append(u[n - 1], s[n]) ELSE u[n - 1]
  BY PickedRuns
<1> DEFINE Alone    == \A i, j \in 1..Len(s) : s[i] = s[j] => i = j
           Typed1(n) == u[n] \in Seq(S \cap T)
           From(n)  == \A i \in 1..Len(u[n]) : \E k \in 1..n : u[n][i] = s[k]
           All(n)   == \A k \in 1..n : s[k] \in T => \E i \in 1..Len(u[n]) : u[n][i] = s[k]
           Once(n)  == Alone => \A i, j \in 1..Len(u[n]) : u[n][i] = u[n][j] => i = j
           G        == {n \in Nat : n <= Len(s) => Typed1(n) /\ From(n) /\ All(n) /\ Once(n)}
<1>2. 0 \in G
  <2>1. u[0] = <<>> /\ Len(u[0]) = 0  BY <1>1
  <2>2. Typed1(0) /\ From(0) /\ All(0) /\ Once(0)  BY <2>1
  <2> HIDE DEF Typed1, From, All, Once
  <2> QED BY <2>2
<1>3. ASSUME NEW m \in Nat, m \in G PROVE m + 1 \in G
  <2> DEFINE n == m + 1
  <2> SUFFICES ASSUME n <= Len(s) PROVE Typed1(n) /\ From(n) /\ All(n) /\ Once(n)  OBVIOUS
  <2>1. Typed1(m) /\ From(m) /\ All(m) /\ Once(m) /\ n \in 1..Len(s) /\ n - 1 = m
    <3>1. Len(s) \in Nat  OBVIOUS
    <3>2. m <= Len(s) /\ n \in 1..Len(s) /\ n - 1 = m  BY <3>1
    <3> HIDE DEF Typed1, From, All, Once
    <3> QED BY <1>3, <3>2
  <2>2. u[n] = IF s[n] \in T THEN Append(u[m], s[n]) ELSE u[m]  BY <1>1, <2>1
  <2>3. s[n] \in S /\ \A k \in 1..n : k = n \/ k \in 1..m  BY <2>1
  <2>4. CASE s[n] \notin T
    <3>1. u[n] = u[m]  BY <2>2, <2>4
    <3>2. Typed1(n) /\ Once(n)  BY <2>1, <3>1
    <3>3. From(n)  BY <2>1, <3>1
    <3>4. All(n)  BY <2>1, <2>3, <2>4, <3>1
    <3> QED BY <3>2, <3>3, <3>4
  <2>5. CASE s[n] \in T
    <3> DEFINE L == Len(u[m])
    <3>1. /\ Typed1(n) /\ L \in Nat /\ Len(u[n]) = L + 1 /\ u[n][L + 1] = s[n]
          /\ \A i \in 1..L : u[n][i] = u[m][i]
      <4>1. u[m] \in Seq(S \cap T) /\ s[n] \in S \cap T /\ u[n] = Append(u[m], s[n])
        BY <2>1, <2>2, <2>3, <2>5
      <4> QED BY <4>1
    <3>2. \A i \in 1..(L + 1) : i = L + 1 \/ i \in 1..L  BY <3>1
    <3>3. From(n)
      <4>1. ASSUME NEW i \in 1..(L + 1) PROVE \E k \in 1..n : u[n][i] = s[k]
        <5>1. CASE i = L + 1  BY <2>1, <3>1, <5>1
        <5>2. CASE i \in 1..L
          <6>1. PICK k \in 1..m : u[m][i] = s[k]  BY <2>1, <5>2
          <6> QED BY <3>1, <5>2, <6>1
        <5> QED BY <3>2, <5>1, <5>2
      <4> QED BY <3>1, <4>1
    <3>4. All(n)
      <4>1. ASSUME NEW k \in 1..n, s[k] \in T PROVE \E i \in 1..(L + 1) : u[n][i] = s[k]
        <5>1. CASE k = n  BY <3>1, <5>1
        <5>2. CASE k \in 1..m
          <6>1. PICK i \in 1..L : u[m][i] = s[k]  BY <2>1, <4>1, <5>2
          <6> QED BY <3>1, <6>1
        <5> QED BY <2>3, <5>1, <5>2
      <4> QED BY <3>1, <4>1
    <3>5. Once(n)
      <4> SUFFICES ASSUME Alone, NEW i \in 1..(L + 1), NEW j \in 1..(L + 1), u[n][i] = u[n][j], i < j
                   PROVE  FALSE
        <5>1. \A i, j \in 1..(L + 1) : i < j \/ j < i \/ i = j  BY <3>1
        <5> QED BY <3>1, <5>1
      <4>1. i \in 1..L  BY <3>1
      <4>2. PICK k \in 1..m : u[m][i] = s[k]  BY <2>1, <4>1
      <4>3. CASE j \in 1..L  BY <2>1, <3>1, <4>1, <4>3
      <4>4. CASE j = L + 1
        <5>1. s[k] = s[n] /\ k \in 1..Len(s)  BY <2>1, <3>1, <4>1, <4>2, <4>4
        <5>2. k = n  BY <2>1, <5>1
        <5> QED BY <5>2
      <4> QED BY <3>2, <4>3, <4>4
    <3> QED BY <3>1, <3>3, <3>4, <3>5
  <2> QED BY <2>4, <2>5
<1> HIDE DEF G
<1>4. Len(s) \in G  BY <1>2, <1>3, Induction
<1>5. Typed1(Len(s)) /\ All(Len(s)) /\ Once(Len(s))  BY <1>4 DEF G
<1> QED BY <1>1, <1>5

LEMMA GeomOrderIsSeq ==
    /\ GeomOrder \in Seq(Geometry) /\ Len(GeomOrder) = 9
    /\ \A i, j \in 1..Len(GeomOrder) : GeomOrder[i] = GeomOrder[j] => i = j
    /\ \A kind \in Geometry : \E k \in 1..Len(GeomOrder) : GeomOrder[k] = kind
<1>1. DOMAIN GeomOrder = 1..9 /\ Len(GeomOrder) = 9 /\ GeomOrder = [k \in 1..9 |-> GeomOrder[k]]
  BY DEF GeomOrder
<1>2. \A i, j \in 1..9 : GeomOrder[i] = GeomOrder[j] => i = j
  <2>1. /\ GeomOrder[1] = "crop" /\ GeomOrder[2] = "rotate" /\ GeomOrder[3] = "flipH"
        /\ GeomOrder[4] = "flipV" /\ GeomOrder[5] = "resize" /\ GeomOrder[6] = "brightness"
        /\ GeomOrder[7] = "contrast" /\ GeomOrder[8] = "sharpen" /\ GeomOrder[9] = "grayscale"
    BY DEF GeomOrder
  <2>2. \A i \in 1..9 : i \in {1, 2, 3, 4, 5, 6, 7, 8, 9}  OBVIOUS
  <2> QED BY <2>1, <2>2
<1>3. Geometry = {GeomOrder[k] : k \in 1..9}  BY <1>1 DEF Geometry, Range
<1>4. GeomOrder \in [1..9 -> Geometry]  BY <1>1, <1>3
<1>5. GeomOrder \in Seq(Geometry)
  <2>1. 9 \in Nat  OBVIOUS
  <2> QED BY <1>4, <2>1, FunctionIsSeq
<1> QED BY <1>1, <1>2, <1>3, <1>5

LEMMA GeometryIs ==
    /\ Geometry = {"crop", "rotate", "flipH", "flipV", "resize", "brightness", "contrast", "sharpen", "grayscale"}
    /\ Geometry \cap Overlays = {} /\ "strip" \notin Geometry \cup Overlays
<1>1. DOMAIN GeomOrder = 1..9  BY DEF GeomOrder
<1>2. Geometry = {GeomOrder[k] : k \in 1..9}  BY <1>1 DEF Geometry, Range
<1>3. Geometry = {"crop", "rotate", "flipH", "flipV", "resize", "brightness", "contrast", "sharpen", "grayscale"}
  BY <1>2 DEF GeomOrder
<1> QED BY <1>3 DEF Overlays

\* The last index of a set of them.
LEMMA MaxIsLast ==
    ASSUME NEW N \in Nat, NEW T, T \subseteq 1..N, T # {}
    PROVE  Max(T) \in T /\ \A i \in T : i <= Max(T)
<1> DEFINE D == {n \in Nat : \E i \in T : n = N - i}
<1>1. D \subseteq Nat /\ D # {}
  <2>1. PICK i \in T : TRUE  OBVIOUS
  <2>2. i \in 1..N /\ N - i \in Nat  BY <2>1
  <2> QED BY <2>2
<1>2. PICK d \in D : \A e \in D : d <= e  BY <1>1, LeastElement
<1>3. PICK m \in T : d = N - m  BY <1>2
<1>4. ASSUME NEW i \in T PROVE m >= i
  <2>1. i \in 1..N /\ m \in 1..N  OBVIOUS
  <2>2. N - i \in D  BY <2>1
  <2> QED BY <1>2, <1>3, <2>1, <2>2
<1>5. \E x \in T : \A y \in T : x >= y  BY <1>4
<1>6. Max(T) \in T /\ \A y \in T : Max(T) >= y  BY <1>5 DEF Max
<1>7. \A i \in T : i \in Int  OBVIOUS
<1> QED BY <1>6, <1>7

LEMMA MinOfTwo ==
    ASSUME NEW a \in Nat, NEW b \in Nat
    PROVE  Min({a, b}) = IF a <= b THEN a ELSE b
<1> DEFINE m == IF a <= b THEN a ELSE b
<1>1. m \in {a, b} /\ \A y \in {a, b} : m <= y  OBVIOUS
<1>2. Min({a, b}) \in {a, b} /\ \A y \in {a, b} : Min({a, b}) <= y
  <2>1. \E x \in {a, b} : \A y \in {a, b} : x <= y  BY <1>1
  <2> QED BY <2>1 DEF Min
<1> QED BY <1>1, <1>2

\* What sanitizeRecipe returns is the geometric operations, one of a kind, in the fixed order, ...
InOrder(g) == \E K \in SUBSET Geometry :
    /\ Len(g) = Len(Picked(GeomOrder, K))
    /\ \A i \in 1..Len(g) : g[i].op = Picked(GeomOrder, K)[i] /\ g[i].val # "tiny"

\* ... then overlays, each of which had room when its turn came, ...
Layered(b) == \A i \in 1..Len(b) :
    /\ b[i].op \in Overlays /\ b[i].val # "tiny"
    /\ i <= IF b[i].op = "redact" THEN MaxRedact ELSE MaxOverlay

\* ... then the removal of the metadata, or nothing.
Whole(recipe) == \E g, b \in Seq(Operations), s \in {<<>>, <<Strip>>} :
    recipe = g \o b \o s /\ InOrder(g) /\ Layered(b)

LEMMA KindsOfOrder ==
    ASSUME NEW K \in SUBSET Geometry
    PROVE  /\ Picked(GeomOrder, K) \in Seq(K)
           /\ \A kind \in K : \E i \in 1..Len(Picked(GeomOrder, K)) : Picked(GeomOrder, K)[i] = kind
           /\ \A i, j \in 1..Len(Picked(GeomOrder, K)) :
                 Picked(GeomOrder, K)[i] = Picked(GeomOrder, K)[j] => i = j
<1>1. GeomOrder \in Seq(Geometry) /\ Geometry \cap K = K  BY GeomOrderIsSeq
<1>2. /\ Picked(GeomOrder, K) \in Seq(Geometry \cap K)
      /\ \A k \in 1..Len(GeomOrder) : GeomOrder[k] \in K =>
            \E i \in 1..Len(Picked(GeomOrder, K)) : Picked(GeomOrder, K)[i] = GeomOrder[k]
  BY <1>1, PickedElements
<1>3. \A i, j \in 1..Len(Picked(GeomOrder, K)) :
         Picked(GeomOrder, K)[i] = Picked(GeomOrder, K)[j] => i = j
  <2>1. \A i, j \in 1..Len(GeomOrder) : GeomOrder[i] = GeomOrder[j] => i = j  BY GeomOrderIsSeq
  <2> QED BY <1>1, <2>1, PickedElements
<1>4. \A kind \in K : \E i \in 1..Len(Picked(GeomOrder, K)) : Picked(GeomOrder, K)[i] = kind
  BY <1>2, GeomOrderIsSeq
<1> QED BY <1>1, <1>2, <1>3, <1>4

LEMMA LastOfEachInOrder ==
    ASSUME NEW recipe \in Seq(Operations)
    PROVE  /\ LastOfEach(recipe) \in Seq(Operations) /\ InOrder(LastOfEach(recipe))
           /\ \A i \in 1..Len(LastOfEach(recipe)) : LastOfEach(recipe)[i].op \in Geometry
<1> DEFINE N            == Len(recipe)
           usable(kind) == {i \in DOMAIN recipe : recipe[i].op = kind /\ recipe[i].val # "tiny"}
           K            == {kind \in Geometry : usable(kind) # {}}
           kinds        == Picked(GeomOrder, K)
           M            == Len(kinds)
           g            == [i \in DOMAIN kinds |-> recipe[Max(usable(kinds[i]))]]
<1>1. LastOfEach(recipe) = g  BY DEF LastOfEach
<1>2. N \in Nat /\ DOMAIN recipe = 1..N /\ \A i \in 1..N : recipe[i] \in Operations  BY OfSeq
<1>3. kinds \in Seq(K)  BY KindsOfOrder
<1>4. M \in Nat /\ DOMAIN kinds = 1..M /\ \A i \in 1..M : kinds[i] \in K  BY <1>3, OfSeq
<1>5. ASSUME NEW i \in 1..M PROVE g[i] \in Operations /\ g[i].op = kinds[i] /\ g[i].val # "tiny"
  <2>1. usable(kinds[i]) # {} /\ usable(kinds[i]) \subseteq 1..N  BY <1>2, <1>4
  <2>2. Max(usable(kinds[i])) \in usable(kinds[i])  BY <1>2, <2>1, MaxIsLast
  <2>3. g[i] = recipe[Max(usable(kinds[i]))]  BY <1>4
  <2> QED BY <1>2, <2>2, <2>3
<1>6. g \in Seq(Operations) /\ Len(g) = M
  <2>1. DOMAIN g = 1..M  BY <1>4
  <2> HIDE DEF M, kinds
  <2>2. g = [i \in 1..M |-> g[i]]  BY <2>1
  <2> HIDE DEF g
  <2>3. g \in [1..M -> Operations]  BY <1>5, <2>2
  <2>4. g \in Seq(Operations)  BY <1>4, <2>3, FunctionIsSeq
  <2> QED BY <1>4, <2>1, <2>4
<1>7. K \in SUBSET Geometry  OBVIOUS
<1> HIDE DEF g, K
<1>8. InOrder(g)  BY <1>5, <1>6, <1>7 DEF InOrder
<1>9. \A i \in 1..M : g[i].op \in Geometry  BY <1>4, <1>5, <1>7
<1> QED BY <1>1, <1>6, <1>8, <1>9

LEMMA BurntIsLayered ==
    ASSUME NEW recipe \in Seq(Operations)
    PROVE  Burnt(recipe) \in Seq(Operations) /\ Layered(Burnt(recipe))
<1>1. PICK u : /\ Burnt(recipe) = u[Len(recipe)] /\ u[0] = <<>>
               /\ \A n \in 1..Len(recipe) :
                     u[n] = IF Fits(recipe[n], u[n - 1]) THEN Append(u[n - 1], recipe[n]) ELSE u[n - 1]
  BY BurntRuns
<1> DEFINE Good(n) == u[n] \in Seq(Operations) /\ Layered(u[n])
           G       == {n \in Nat : n <= Len(recipe) => Good(n)}
<1>2. 0 \in G
  <2>1. u[0] = <<>> /\ Len(u[0]) = 0  BY <1>1
  <2>2. Good(0)  BY <2>1 DEF Layered
  <2> QED BY <2>2
<1>3. ASSUME NEW m \in Nat, m \in G PROVE m + 1 \in G
  <2> DEFINE n == m + 1
  <2> SUFFICES ASSUME n <= Len(recipe) PROVE Good(n)  OBVIOUS
  <2>1. Good(m) /\ n \in 1..Len(recipe) /\ n - 1 = m
    <3>1. Len(recipe) \in Nat  OBVIOUS
    <3>2. m <= Len(recipe) /\ n \in 1..Len(recipe) /\ n - 1 = m  BY <3>1
    <3> HIDE DEF Good
    <3> QED BY <1>3, <3>2
  <2>2. u[n] = IF Fits(recipe[n], u[m]) THEN Append(u[m], recipe[n]) ELSE u[m]  BY <1>1, <2>1
  <2>3. CASE ~Fits(recipe[n], u[m])  BY <2>1, <2>2, <2>3
  <2>4. CASE Fits(recipe[n], u[m])
    <3> DEFINE L == Len(u[m])
    <3>0. recipe[n] \in Operations  BY <2>1
    <3>1. /\ u[n] \in Seq(Operations) /\ L \in Nat /\ Len(u[n]) = L + 1 /\ u[n][L + 1] = recipe[n]
          /\ \A i \in 1..L : u[n][i] = u[m][i]
      BY <2>1, <2>2, <2>4, <3>0
    <3>2. ASSUME NEW i \in 1..(L + 1)
          PROVE  /\ u[n][i].op \in Overlays /\ u[n][i].val # "tiny"
                 /\ i <= IF u[n][i].op = "redact" THEN MaxRedact ELSE MaxOverlay
      <4>1. CASE i = L + 1
        <5>1. L < IF recipe[n].op = "redact" THEN MaxRedact ELSE MaxOverlay  BY <2>4 DEF Fits
        <5>2. MaxRedact \in Nat /\ MaxOverlay \in Nat  BY RecipeAssumption
        <5>3. i <= IF recipe[n].op = "redact" THEN MaxRedact ELSE MaxOverlay  BY <3>1, <4>1, <5>1, <5>2
        <5> QED BY <2>4, <3>1, <4>1, <5>3 DEF Fits
      <4>2. CASE i \in 1..L  BY <2>1, <3>1, <4>2 DEF Layered
      <4>3. i = L + 1 \/ i \in 1..L  BY <3>1
      <4> QED BY <4>1, <4>2, <4>3
    <3> QED BY <3>1, <3>2 DEF Layered
  <2> QED BY <2>3, <2>4
<1> HIDE DEF G
<1>4. Len(recipe) \in G  BY <1>2, <1>3, Induction
<1> QED BY <1>1, <1>4 DEF G

LEMMA TwoParts ==
    ASSUME NEW S, NEW g \in Seq(S), NEW b \in Seq(S)
    PROVE  /\ g \o b \in Seq(S) /\ Len(g \o b) = Len(g) + Len(b)
           /\ \A i \in 1..Len(g) : (g \o b)[i] = g[i]
           /\ \A i \in 1..Len(b) : (g \o b)[Len(g) + i] = b[i]
<1>1. g \o b \in Seq(S) /\ Len(g \o b) = Len(g) + Len(b)  OBVIOUS
<1>2. \A i \in 1..Len(g) : (g \o b)[i] = g[i]  OBVIOUS
<1>3. \A i \in 1..Len(b) : (g \o b)[Len(g) + i] = b[i]  OBVIOUS
<1> QED BY <1>1, <1>2, <1>3

LEMMA ThreeParts ==
    ASSUME NEW S, NEW g \in Seq(S), NEW b \in Seq(S), NEW s \in Seq(S)
    PROVE  /\ g \o b \o s \in Seq(S) /\ Len(g \o b \o s) = Len(g) + Len(b) + Len(s)
           /\ \A i \in 1..Len(g) : (g \o b \o s)[i] = g[i]
           /\ \A i \in 1..Len(b) : (g \o b \o s)[Len(g) + i] = b[i]
           /\ \A i \in 1..Len(s) : (g \o b \o s)[Len(g) + Len(b) + i] = s[i]
<1>1. PICK h \in Seq(S) : h = g \o b
  <2>1. g \o b \in Seq(S)  BY TwoParts
  <2> QED BY <2>1
<1>2. /\ Len(h) = Len(g) + Len(b) /\ Len(g) \in Nat /\ Len(b) \in Nat
      /\ \A i \in 1..Len(g) : h[i] = g[i]
      /\ \A i \in 1..Len(b) : h[Len(g) + i] = b[i]
  BY <1>1, TwoParts
<1>3. /\ h \o s \in Seq(S) /\ Len(h \o s) = Len(h) + Len(s)
      /\ \A i \in 1..Len(h) : (h \o s)[i] = h[i]
      /\ \A i \in 1..Len(s) : (h \o s)[Len(h) + i] = s[i]
  BY TwoParts
<1>4. \A i \in 1..Len(g) : i \in 1..Len(h)  BY <1>2
<1>5. \A i \in 1..Len(b) : Len(g) + i \in 1..Len(h)  BY <1>2
<1> QED BY <1>1, <1>2, <1>3, <1>4, <1>5

LEMMA StripIsOne == Strip \in Operations /\ Strip.op = "strip" /\ \A s \in {<<>>, <<Strip>>} : s \in Seq(Operations)
<1>1. Strip \in Operations /\ Strip.op = "strip"  BY RecipeAssumption DEF Strip, Op, Operations
<1>2. \A e \in Operations : <<e>> \in Seq(Operations)  OBVIOUS
<1>3. <<>> \in Seq(Operations)  OBVIOUS
<1> QED BY <1>1, <1>2, <1>3

\* The parts a whole recipe is made of.
Parts(x, g, b, s) ==
    /\ g \in Seq(Operations) /\ b \in Seq(Operations) /\ s \in {<<>>, <<Strip>>}
    /\ x = g \o b \o s /\ InOrder(g) /\ Layered(b)

LEMMA PartsAre ==
    ASSUME NEW x, NEW g, NEW b, NEW s, Parts(x, g, b, s)
    PROVE  /\ x \in Seq(Operations) /\ Len(g) \in Nat /\ Len(b) \in Nat
           /\ Len(x) = Len(g) + Len(b) + (IF s = <<>> THEN 0 ELSE 1)
           /\ \A i \in 1..Len(g) : x[i] = g[i] /\ x[i].op \in Geometry /\ x[i].val # "tiny"
           /\ \A i \in 1..Len(b) : x[Len(g) + i] = b[i]
           /\ \A i \in 1..Len(x) : i > Len(g) => x[i].op \notin Geometry
           /\ s # <<>> => x[Len(x)] = Strip
           /\ \A i \in 1..Len(x) : x[i].op = "strip" => s # <<>> /\ i = Len(x)
<1>1. g \in Seq(Operations) /\ b \in Seq(Operations) /\ s \in Seq(Operations)
  BY StripIsOne DEF Parts
<1>2. /\ x \in Seq(Operations) /\ Len(x) = Len(g) + Len(b) + Len(s)
      /\ \A i \in 1..Len(g) : x[i] = g[i]
      /\ \A i \in 1..Len(b) : x[Len(g) + i] = b[i]
      /\ \A i \in 1..Len(s) : x[Len(g) + Len(b) + i] = s[i]
  BY <1>1, ThreeParts DEF Parts
<1>3. Len(g) \in Nat /\ Len(b) \in Nat /\ Len(s) = IF s = <<>> THEN 0 ELSE 1
  BY <1>1 DEF Parts
<1>4. s # <<>> => s[1] = Strip  BY DEF Parts
<1>5. ASSUME NEW i \in 1..Len(g) PROVE x[i].op \in Geometry /\ x[i].val # "tiny"
  <2>1. PICK K \in SUBSET Geometry :
             /\ Len(g) = Len(Picked(GeomOrder, K))
             /\ \A j \in 1..Len(g) : g[j].op = Picked(GeomOrder, K)[j] /\ g[j].val # "tiny"
    BY DEF Parts, InOrder
  <2>2. Picked(GeomOrder, K)[i] \in K  BY <2>1, KindsOfOrder, OfSeq
  <2> QED BY <1>2, <2>1, <2>2
<1>6. ASSUME NEW i \in 1..Len(x), i > Len(g)
      PROVE  IF i <= Len(g) + Len(b) THEN x[i].op \in Overlays
             ELSE s # <<>> /\ i = Len(x) /\ x[i] = Strip
  <2>1. CASE i <= Len(g) + Len(b)
    <3> DEFINE j == i - Len(g)
    <3>1. j \in 1..Len(b) /\ Len(g) + j = i  BY <1>3, <1>6, <2>1
    <3>2. b[j].op \in Overlays  BY <3>1 DEF Parts, Layered
    <3>3. x[i] = b[j]  BY <1>2, <3>1
    <3> QED BY <2>1, <3>2, <3>3
  <2>2. CASE ~(i <= Len(g) + Len(b))
    <3>1. s # <<>> /\ Len(s) = 1 /\ i = Len(g) + Len(b) + 1 /\ i = Len(x)  BY <1>2, <1>3, <1>6, <2>2
    <3> QED BY <1>2, <1>4, <2>2, <3>1
  <2> QED BY <2>1, <2>2
<1>7. \A i \in 1..Len(x) : i > Len(g) => x[i].op \notin Geometry
  BY <1>6, GeometryIs, StripIsOne
<1>8. \A i \in 1..Len(x) : x[i].op = "strip" => s # <<>> /\ i = Len(x)
  <2>1. \A i \in 1..Len(x) : i > Len(g) \/ i \in 1..Len(g)  BY <1>2, <1>3
  <2> QED BY <1>5, <1>6, <2>1, GeometryIs
<1>9. s # <<>> => x[Len(x)] = Strip
  <2>1. s # <<>> => Len(x) \in 1..Len(x) /\ Len(x) > Len(g) /\ ~(Len(x) <= Len(g) + Len(b))  BY <1>2, <1>3
  <2> QED BY <1>6, <2>1
<1> QED BY <1>2, <1>3, <1>5, <1>7, <1>8, <1>9

LEMMA WholeLast ==
    ASSUME NEW x, NEW g, NEW b, NEW s, Parts(x, g, b, s)
    PROVE  LastOfEach(x) = g
<1> DEFINE usable(kind) == {i \in DOMAIN x : x[i].op = kind /\ x[i].val # "tiny"}
<1>1. PICK K \in SUBSET Geometry :
           /\ Len(g) = Len(Picked(GeomOrder, K))
           /\ \A i \in 1..Len(g) : g[i].op = Picked(GeomOrder, K)[i] /\ g[i].val # "tiny"
  BY DEF Parts, InOrder
<1> DEFINE P == Picked(GeomOrder, K)
<1>2. /\ P \in Seq(K)
      /\ \A kind \in K : \E i \in 1..Len(P) : P[i] = kind
      /\ \A i, j \in 1..Len(P) : P[i] = P[j] => i = j
  BY KindsOfOrder
<1>3. /\ x \in Seq(Operations) /\ Len(g) \in Nat /\ Len(x) \in Nat /\ Len(g) <= Len(x)
      /\ \A i \in 1..Len(g) : x[i] = g[i]
      /\ \A i \in 1..Len(x) : i > Len(g) => x[i].op \notin Geometry
  BY PartsAre
<1>4. DOMAIN x = 1..Len(x) /\ DOMAIN P = 1..Len(g)  BY <1>1, <1>2, <1>3, OfSeq
<1>5. ASSUME NEW i \in 1..Len(g) PROVE usable(P[i]) = {i} /\ P[i] \in K
  <2>1. P[i] \in K /\ i \in 1..Len(x)  BY <1>1, <1>2, <1>3
  <2>2. i \in usable(P[i])  BY <1>1, <1>3, <1>4, <2>1
  <2>3. ASSUME NEW j \in usable(P[i]) PROVE j = i
    <3>1. j \in 1..Len(x) /\ x[j].op = P[i]  BY <1>4
    <3>2. j \in 1..Len(g)
      <4>1. ~(j > Len(g))  BY <1>3, <2>1, <3>1
      <4> QED BY <1>3, <3>1, <4>1
    <3>3. P[j] = P[i]  BY <1>1, <1>3, <3>1, <3>2
    <3> QED BY <1>1, <1>2, <3>2, <3>3
  <2> QED BY <2>1, <2>2, <2>3
<1>6. {kind \in Geometry : usable(kind) # {}} = K
  <2>1. ASSUME NEW kind \in K PROVE usable(kind) # {}
    <3>1. PICK i \in 1..Len(g) : P[i] = kind  BY <1>1, <1>2
    <3> HIDE DEF usable, P
    <3> QED BY <1>5, <3>1
  <2>2. ASSUME NEW kind \in Geometry, NEW i \in usable(kind) PROVE kind \in K
    <3>1. i \in 1..Len(x) /\ x[i].op = kind  BY <1>4
    <3>2. i \in 1..Len(g)
      <4>1. ~(i > Len(g))  BY <1>3, <3>1
      <4> QED BY <1>3, <3>1, <4>1
    <3>3. kind = P[i]  BY <1>1, <1>3, <3>1, <3>2
    <3> QED BY <1>1, <1>2, <3>2, <3>3
  <2> HIDE DEF usable
  <2> QED BY <2>1, <2>2
<1>7. \A i \in 1..Len(g) : Max(usable(P[i])) = i
  <2> SUFFICES ASSUME NEW i \in 1..Len(g) PROVE Max(usable(P[i])) = i  OBVIOUS
  <2>1. usable(P[i]) = {i}  BY <1>5
  <2> HIDE DEF usable, P
  <2>2. {i} \subseteq 1..Len(g) /\ {i} # {}  OBVIOUS
  <2>3. Max({i}) \in {i}  BY <1>3, <2>2, MaxIsLast
  <2> QED BY <2>1, <2>3
<1>8. LastOfEach(x) = [i \in DOMAIN P |-> x[Max(usable(P[i]))]]  BY <1>6 DEF LastOfEach
<1>9. g = [i \in 1..Len(g) |-> g[i]]
  <2>1. g \in Seq(Operations)  BY DEF Parts
  <2> QED BY <2>1
<1> HIDE DEF usable, P
<1>10. LastOfEach(x) = [i \in 1..Len(g) |-> g[i]]  BY <1>3, <1>4, <1>7, <1>8
<1> QED BY <1>9, <1>10

LEMMA WholeBurnt ==
    ASSUME NEW x, NEW g, NEW b, NEW s, Parts(x, g, b, s)
    PROVE  Burnt(x) = b
<1>1. /\ x \in Seq(Operations) /\ Len(g) \in Nat /\ Len(b) \in Nat /\ b \in Seq(Operations)
      /\ Len(x) = Len(g) + Len(b) + (IF s = <<>> THEN 0 ELSE 1)
      /\ \A i \in 1..Len(g) : x[i].op \in Geometry
      /\ \A i \in 1..Len(b) : x[Len(g) + i] = b[i]
      /\ s # <<>> => x[Len(x)] = Strip
  <2>1. b \in Seq(Operations)  BY DEF Parts
  <2> QED BY <2>1, PartsAre
<1>2. PICK u : /\ Burnt(x) = u[Len(x)] /\ u[0] = <<>>
               /\ \A n \in 1..Len(x) :
                     u[n] = IF Fits(x[n], u[n - 1]) THEN Append(u[n - 1], x[n]) ELSE u[n - 1]
  BY <1>1, BurntRuns
<1> DEFINE Taken(n) == IF n <= Len(g) THEN 0 ELSE IF n <= Len(g) + Len(b) THEN n - Len(g) ELSE Len(b)
           G == {n \in Nat : n <= Len(x) => u[n] = SubSeq(b, 1, Taken(n))}
<1>3. 0 \in G
  <2>1. SubSeq(b, 1, 0) = <<>>  BY <1>1
  <2>2. Taken(0) = 0  BY <1>1
  <2> QED BY <1>2, <2>1, <2>2
<1>4. ASSUME NEW m \in Nat, m \in G PROVE m + 1 \in G
  <2> DEFINE n == m + 1
  <2> SUFFICES ASSUME n <= Len(x) PROVE u[n] = SubSeq(b, 1, Taken(n))  OBVIOUS
  <2>1. m <= Len(x) /\ n \in 1..Len(x) /\ n - 1 = m  BY <1>1
  <2>2. u[m] = SubSeq(b, 1, Taken(m))  BY <1>4, <2>1
  <2>3. u[n] = IF Fits(x[n], u[m]) THEN Append(u[m], x[n]) ELSE u[m]  BY <1>2, <2>1
  <2>4. CASE n <= Len(g)
    <3>1. n \in 1..Len(g) /\ Taken(n) = Taken(m)  BY <1>1, <2>4
    <3>2. ~Fits(x[n], u[m])  BY <1>1, <3>1, GeometryIs DEF Fits
    <3> QED BY <2>2, <2>3, <3>1, <3>2
  <2>5. CASE n > Len(g) /\ n <= Len(g) + Len(b)
    <3> DEFINE k == n - Len(g)
    <3>1. /\ k \in 1..Len(b) /\ Len(g) + k = n /\ Taken(n) = k /\ Taken(m) = k - 1 /\ k - 1 \in Nat
          /\ k - 1 <= Len(b)
      BY <1>1, <2>5
    <3>2. x[n] = b[k]  BY <1>1, <3>1
    <3> HIDE DEF k, Taken, n
    <3>3. Len(u[m]) = k - 1
      <4>1. \A j \in Nat : j <= Len(b) => Len(SubSeq(b, 1, j)) = j  BY <1>1
      <4> QED BY <2>2, <3>1, <4>1
    <3>4. Fits(x[n], u[m])
      <4>1. b[k].op \in Overlays /\ b[k].val # "tiny"
            /\ k <= IF b[k].op = "redact" THEN MaxRedact ELSE MaxOverlay
        BY <3>1 DEF Parts, Layered
      <4>2. MaxRedact \in Nat /\ MaxOverlay \in Nat /\ k \in Nat  BY <3>1, RecipeAssumption
      <4>3. Len(u[m]) < IF b[k].op = "redact" THEN MaxRedact ELSE MaxOverlay  BY <3>3, <4>1, <4>2
      <4> QED BY <3>2, <4>1, <4>3 DEF Fits
    <3>5. \A j \in 1..Len(b) : Append(SubSeq(b, 1, j - 1), b[j]) = SubSeq(b, 1, j)  BY <1>1
    <3> QED BY <2>2, <2>3, <3>1, <3>2, <3>4, <3>5
  <2>6. CASE n > Len(g) + Len(b)
    <3>1. n = Len(x) /\ s # <<>> /\ Taken(n) = Len(b) /\ Taken(m) = Len(b)
      <4>1. s # <<>>  BY <1>1, <2>1, <2>6
      <4>2. n = Len(x)
        <5>1. Len(x) = Len(g) + Len(b) + 1  BY <1>1, <4>1
        <5> QED BY <1>1, <2>6, <5>1
      <4>4. Taken(n) = Len(b)  BY <1>1, <2>6
      <4>3. Taken(m) = Len(b)  BY <1>1, <2>1, <2>6
      <4> QED BY <4>1, <4>2, <4>3, <4>4
    <3>2. ~Fits(x[n], u[m])  BY <1>1, <3>1, StripIsOne, GeometryIs DEF Fits
    <3> QED BY <2>2, <2>3, <3>1, <3>2
  <2> QED BY <1>1, <2>4, <2>5, <2>6
<1>5. Taken(Len(x)) = Len(b) /\ Len(x) \in Nat  BY <1>1
<1> HIDE DEF G
<1>6. Len(x) \in G  BY <1>3, <1>4, <1>5, Induction
<1>7. u[Len(x)] = SubSeq(b, 1, Len(b))  BY <1>5, <1>6 DEF G
<1>8. SubSeq(b, 1, Len(b)) = b  BY <1>1
<1> QED BY <1>2, <1>7, <1>8

\* A whole recipe that is looked at in full is kept as it is.
LEMMA WholeIsKept ==
    ASSUME NEW x, Whole(x), Len(x) <= MaxRecipe
    PROVE  x \in Seq(Operations) /\ Kept(x) = x
<1>1. PICK g, b \in Seq(Operations), s \in {<<>>, <<Strip>>} :
           x = g \o b \o s /\ InOrder(g) /\ Layered(b)
  BY DEF Whole
<1>2. Parts(x, g, b, s)  BY <1>1 DEF Parts
<1>3. x \in Seq(Operations) /\ Len(x) \in Nat  BY <1>2, PartsAre, OfSeq
<1> DEFINE raw == SubSeq(x, 1, Min({Len(x), MaxRecipe}))
<1>4. raw = x
  <2>1. Min({Len(x), MaxRecipe}) = Len(x)  BY <1>3, MinOfTwo, RecipeAssumption
  <2>2. SubSeq(x, 1, Len(x)) = x  BY <1>3
  <2> QED BY <2>1, <2>2
<1>5. (IF Strips(x) THEN <<Strip>> ELSE <<>>) = s
  <2>1. DOMAIN x = 1..Len(x)  BY <1>3, OfSeq
  <2>2. Strips(x) <=> \E i \in 1..Len(x) : x[i].op = "strip"  BY <2>1 DEF Strips, Range
  <2>3. s # <<>> => Len(x) \in 1..Len(x) /\ x[Len(x)] = Strip  BY <1>2, PartsAre
  <2>4. s # <<>> => Strips(x)  BY <2>2, <2>3, StripIsOne
  <2>5. Strips(x) => s # <<>>  BY <1>2, <2>2, PartsAre
  <2> QED BY <1>1, <2>4, <2>5
<1>6. LastOfEach(x) = g /\ Burnt(x) = b  BY <1>2, WholeLast, WholeBurnt
<1> QED BY <1>1, <1>3, <1>4, <1>5, <1>6 DEF Kept

\* What is looked at of a recipe.
LEMMA LookedAt ==
    ASSUME NEW recipe \in Seq(Operations)
    PROVE  LET raw == SubSeq(recipe, 1, Min({Len(recipe), MaxRecipe}))
           IN  /\ raw \in Seq(Operations)
               /\ \A i \in DOMAIN raw : i \in DOMAIN recipe /\ raw[i] = recipe[i]
<1>1. Len(recipe) \in Nat /\ MaxRecipe \in Nat  BY RecipeAssumption
<1>2. Min({Len(recipe), MaxRecipe}) \in Nat /\ Min({Len(recipe), MaxRecipe}) <= Len(recipe)
  BY <1>1, MinOfTwo
<1>3. \A n \in Nat : n <= Len(recipe) =>
          /\ SubSeq(recipe, 1, n) \in Seq(Operations) /\ DOMAIN SubSeq(recipe, 1, n) = 1..n
          /\ \A i \in 1..n : SubSeq(recipe, 1, n)[i] = recipe[i] /\ i \in DOMAIN recipe
  OBVIOUS
<1> QED BY <1>2, <1>3

\* What is kept of a recipe is whole.
LEMMA KeptIsWhole ==
    ASSUME NEW recipe \in Seq(Operations)
    PROVE  Whole(Kept(recipe)) /\ Kept(recipe) \in Seq(Operations)
<1> DEFINE raw == SubSeq(recipe, 1, Min({Len(recipe), MaxRecipe}))
<1>1. raw \in Seq(Operations)  BY LookedAt
<1> DEFINE g == LastOfEach(raw)
           b == Burnt(raw)
           s == IF Strips(raw) THEN <<Strip>> ELSE <<>>
<1>2. Kept(recipe) = g \o b \o s  BY DEF Kept
<1> HIDE DEF raw
<1>3. g \in Seq(Operations) /\ InOrder(g)  BY <1>1, LastOfEachInOrder
<1>4. b \in Seq(Operations) /\ Layered(b)  BY <1>1, BurntIsLayered
<1>5. s \in {<<>>, <<Strip>>} /\ s \in Seq(Operations)  BY StripIsOne
<1> HIDE DEF g, b, s
<1>6. Whole(g \o b \o s)  BY <1>3, <1>4, <1>5 DEF Whole
<1>7. g \o b \o s \in Seq(Operations)  BY <1>3, <1>4, <1>5, ThreeParts
<1> QED BY <1>2, <1>6, <1>7

\* A version as the program writes it: if it is looked at in full, it is kept as it is.
Stable(recipe) == recipe \in Seq(Operations) /\ (Len(recipe) <= MaxRecipe => Kept(recipe) = recipe)

LEMMA KeptIsStable ==
    ASSUME NEW recipe \in Seq(Operations)
    PROVE  Stable(Kept(recipe))
BY KeptIsWhole, WholeIsKept DEF Stable

LEMMA AppendToParts ==
    ASSUME NEW p \in Seq(Operations), NEW q \in Seq(Operations), NEW e \in Operations
    PROVE  Append(p \o q, e) = p \o Append(q, e)
<1>1. PICK h \in Seq(Operations) : h = p \o q  BY TwoParts
<1>2. PICK r \in Seq(Operations) : r = Append(q, e)
  <2>1. Append(q, e) \in Seq(Operations)  OBVIOUS
  <2> QED BY <2>1
<1>3. Len(r) = Len(q) + 1 /\ r[Len(q) + 1] = e /\ \A i \in 1..Len(q) : r[i] = q[i]  BY <1>2
<1>4. PICK k \in Seq(Operations) : k = p \o r  BY TwoParts
<1>5. PICK l \in Seq(Operations) : l = Append(h, e)
  <2>1. Append(h, e) \in Seq(Operations)  OBVIOUS
  <2> QED BY <2>1
<1>6. Len(l) = Len(h) + 1 /\ l[Len(h) + 1] = e /\ \A i \in 1..Len(h) : l[i] = h[i]  BY <1>5
<1>7. /\ Len(h) = Len(p) + Len(q) /\ Len(k) = Len(p) + Len(r) /\ Len(p) \in Nat /\ Len(q) \in Nat
      /\ \A i \in 1..Len(p) : h[i] = p[i] /\ k[i] = p[i]
      /\ \A i \in 1..Len(q) : h[Len(p) + i] = q[i]
      /\ \A i \in 1..Len(r) : k[Len(p) + i] = r[i]
  BY <1>1, <1>4, TwoParts
<1>8. ASSUME NEW i \in 1..Len(l) PROVE l[i] = k[i]
  <2>1. CASE i \in 1..Len(p)
    <3>1. i \in 1..Len(h)  BY <1>7, <2>1
    <3> QED BY <1>6, <1>7, <2>1, <3>1
  <2>2. CASE i > Len(p) /\ i <= Len(p) + Len(q)
    <3>1. i - Len(p) \in 1..Len(q) /\ i - Len(p) \in 1..Len(r) /\ i \in 1..Len(h)
          /\ Len(p) + (i - Len(p)) = i
      BY <1>3, <1>7, <2>2
    <3>2. h[i] = q[i - Len(p)] /\ k[i] = r[i - Len(p)]  BY <1>7, <3>1
    <3> QED BY <1>3, <1>6, <3>1, <3>2
  <2>3. CASE i > Len(p) + Len(q)
    <3>1. i = Len(h) + 1 /\ i = Len(p) + (Len(q) + 1) /\ Len(q) + 1 \in 1..Len(r)
      <4>1. Len(l) = Len(p) + Len(q) + 1 /\ Len(r) = Len(q) + 1 /\ Len(h) = Len(p) + Len(q)
        BY <1>3, <1>6, <1>7
      <4>2. Len(p) \in Nat /\ Len(q) \in Nat  OBVIOUS
      <4> QED BY <2>3, <4>1, <4>2
    <3>2. k[i] = r[Len(q) + 1]  BY <1>7, <3>1
    <3> QED BY <1>3, <1>6, <3>1, <3>2
  <2> QED BY <1>6, <1>7, <2>1, <2>2, <2>3
<1>9. Len(l) = Len(k)  BY <1>3, <1>6, <1>7
<1>10. l = k
  <2>1. l = [i \in 1..Len(l) |-> l[i]] /\ k = [i \in 1..Len(k) |-> k[i]]  OBVIOUS
  <2> QED BY <1>8, <1>9, <2>1
<1> QED BY <1>1, <1>2, <1>4, <1>5, <1>10

\* So is what is saved to be shared: there was room for the watermark among the overlays.
LEMMA SharedIsStable ==
    ASSUME NEW recipe \in Seq(Operations), ~Strips(recipe)
    PROVE  Stable(ForSharing(Kept(recipe), "note"))
<1> DEFINE raw  == SubSeq(recipe, 1, Min({Len(recipe), MaxRecipe}))
           ops  == Kept(recipe)
           mark == Op("watermark", "note")
<1>1. PICK g, b \in Seq(Operations), s \in {<<>>, <<Strip>>} :
           ops = g \o b \o s /\ InOrder(g) /\ Layered(b) /\ s = IF Strips(raw) THEN <<Strip>> ELSE <<>>
  <2>1. raw \in Seq(Operations)  BY LookedAt
  <2>2. ops = LastOfEach(raw) \o Burnt(raw) \o (IF Strips(raw) THEN <<Strip>> ELSE <<>>)  BY DEF Kept
  <2> HIDE DEF raw, ops
  <2> QED BY <2>1, <2>2, LastOfEachInOrder, BurntIsLayered
<1>2. ~Strips(raw)
  <2>1. \A i \in DOMAIN raw : i \in DOMAIN recipe /\ raw[i] = recipe[i]  BY LookedAt
  <2> HIDE DEF raw
  <2> QED BY <2>1 DEF Strips, Range
<1>3. s = <<>> /\ ops = g \o b
  <2>1. s = <<>>  BY <1>1, <1>2
  <2>2. g \o b \in Seq(Operations)  BY TwoParts
  <2>3. \A h \in Seq(Operations) : h \o <<>> = h  OBVIOUS
  <2> QED BY <1>1, <2>1, <2>2, <2>3
<1>4. ~Strips(ops)
  <2>1. Parts(ops, g, b, s)  BY <1>1 DEF Parts
  <2>2. \A i \in 1..Len(ops) : ops[i].op # "strip"  BY <1>3, <2>1, PartsAre
  <2>3. DOMAIN ops = 1..Len(ops)  BY <2>1, PartsAre, OfSeq
  <2> HIDE DEF ops
  <2> QED BY <2>2, <2>3 DEF Strips, Range
<1>5. mark \in Operations /\ mark.op = "watermark" /\ mark.val # "tiny" /\ mark.op \in Overlays
  BY RecipeAssumption DEF Op, Operations, Overlays
<1> HIDE DEF raw, ops, mark
<1> DEFINE c == Append(b, mark)
<1>6. /\ c \in Seq(Operations) /\ Len(b) \in Nat /\ Len(c) = Len(b) + 1 /\ c[Len(b) + 1] = mark
      /\ \A i \in 1..Len(b) : c[i] = b[i]
  BY <1>5
<1>7. Append(ops, mark) = g \o c
  <2>1. mark \in Operations  BY <1>5
  <2>2. Append(g \o b, mark) = g \o Append(b, mark)  BY <2>1, AppendToParts
  <2> QED BY <1>3, <2>2
<1> HIDE DEF c
<1>8. ForSharing(ops, "note") = g \o c \o <<Strip>>  BY <1>4, <1>7 DEF ForSharing, mark
<1>9. <<Strip>> \in Seq(Operations) /\ Len(<<Strip>>) = 1  BY StripIsOne
<1>10. /\ g \o c \o <<Strip>> \in Seq(Operations) /\ Len(g) \in Nat
       /\ Len(g \o c \o <<Strip>>) = Len(g) + Len(b) + 2
  <2>1. PICK t \in Seq(Operations) : t = <<Strip>> /\ Len(t) = 1  BY <1>9
  <2>2. /\ g \o c \o t \in Seq(Operations) /\ Len(g) \in Nat
        /\ Len(g \o c \o t) = Len(g) + Len(c) + Len(t)
    <3>1. c \in Seq(Operations)  BY <1>6
    <3> QED BY <3>1, ThreeParts
  <2> QED BY <1>6, <2>1, <2>2
<1>11. ASSUME Len(g \o c \o <<Strip>>) <= MaxRecipe PROVE Layered(c)
  <2>1. MaxRecipe \in Nat /\ MaxOverlay \in Nat /\ MaxRecipe <= MaxOverlay + 1  BY RecipeAssumption
  <2>2. Len(b) + 1 <= MaxOverlay  BY <1>6, <1>10, <1>11, <2>1
  <2>3. ASSUME NEW i \in 1..(Len(b) + 1)
        PROVE  /\ c[i].op \in Overlays /\ c[i].val # "tiny"
               /\ i <= IF c[i].op = "redact" THEN MaxRedact ELSE MaxOverlay
    <3>1. CASE i = Len(b) + 1  BY <1>5, <1>6, <2>2, <3>1
    <3>2. CASE i \in 1..Len(b)  BY <1>1, <1>6, <3>2 DEF Layered
    <3>3. i = Len(b) + 1 \/ i \in 1..Len(b)  BY <1>6
    <3> QED BY <3>1, <3>2, <3>3
  <2> QED BY <1>6, <2>3 DEF Layered
<1>12. ASSUME Len(g \o c \o <<Strip>>) <= MaxRecipe PROVE Whole(g \o c \o <<Strip>>)
  BY <1>1, <1>6, <1>11, <1>12 DEF Whole
<1>13. Stable(g \o c \o <<Strip>>)  BY <1>10, <1>12, WholeIsKept DEF Stable
<1> QED BY <1>8, <1>13 DEF ops

-----------------------------------------------------------------------------
(* The controls of the editor *)

OpsOf(kinds) == {o \in Operations : o.op \in kinds}

ControlTypes == [geom : SUBSET OpsOf(Geometry), areas : Seq(OpsOf({"redact"})),
                 marks : Seq(OpsOf({"text", "arrow", "frame"}))]

LEMMA RecipeTyped ==
    ASSUME NEW controls \in ControlTypes
    PROVE  RecipeOf(controls) \in Seq(Operations) /\ ~Strips(RecipeOf(controls))
<1> DEFINE K     == {o.op : o \in controls.geom}
           kinds == Picked(GeomOrder, K)
           M     == Len(kinds)
           g     == [i \in DOMAIN kinds |-> CHOOSE o \in controls.geom : o.op = kinds[i]]
           Plain == OpsOf(Geometry \cup Overlays)
<1>1. /\ controls.geom \in SUBSET OpsOf(Geometry) /\ controls.areas \in Seq(OpsOf({"redact"}))
      /\ controls.marks \in Seq(OpsOf({"text", "arrow", "frame"}))
  BY DEF ControlTypes
<1>2. K \in SUBSET Geometry  BY <1>1 DEF OpsOf
<1>3. kinds \in Seq(K)  BY <1>2, KindsOfOrder
<1>4. M \in Nat /\ DOMAIN kinds = 1..M /\ \A i \in 1..M : kinds[i] \in K  BY <1>3, OfSeq
<1>5. g \in Seq(Plain)
  <2>1. ASSUME NEW i \in 1..M PROVE g[i] \in Plain
    <3>1. \E o \in controls.geom : o.op = kinds[i]  BY <1>4
    <3>2. g[i] \in controls.geom  BY <1>4, <3>1
    <3> QED BY <1>1, <3>2 DEF OpsOf
  <2> HIDE DEF M, kinds, Plain
  <2>2. g = [i \in 1..M |-> g[i]]  BY <1>4
  <2> HIDE DEF g
  <2>3. g \in [1..M -> Plain]  BY <2>1, <2>2
  <2> QED BY <1>4, <2>3, FunctionIsSeq
<1>6. controls.areas \in Seq(Plain) /\ controls.marks \in Seq(Plain)
  <2>1. OpsOf({"redact"}) \subseteq Plain /\ OpsOf({"text", "arrow", "frame"}) \subseteq Plain
    BY DEF OpsOf, Overlays
  <2>2. \A A, B : A \subseteq B => \A t \in Seq(A) : t \in Seq(B)  OBVIOUS
  <2> HIDE DEF Plain
  <2> QED BY <1>1, <2>1, <2>2
<1>7. RecipeOf(controls) = g \o controls.areas \o controls.marks  BY DEF RecipeOf
<1> HIDE DEF g
<1>8. RecipeOf(controls) \in Seq(Plain)  BY <1>5, <1>6, <1>7, ThreeParts
<1>9. \A t \in Seq(Plain) : t \in Seq(Operations)
  <2>1. Plain \subseteq Operations  BY DEF OpsOf
  <2>2. \A A, B : A \subseteq B => \A t \in Seq(A) : t \in Seq(B)  OBVIOUS
  <2> HIDE DEF Plain
  <2> QED BY <2>1, <2>2
<1>10. ~Strips(RecipeOf(controls))
  <2>1. \A i \in DOMAIN RecipeOf(controls) : RecipeOf(controls)[i] \in Plain  BY <1>8, OfSeq
  <2>2. \A o \in Plain : o.op # "strip"  BY GeometryIs DEF OpsOf
  <2> HIDE DEF Plain
  <2> QED BY <2>1, <2>2 DEF Strips, Range
<1> QED BY <1>8, <1>9, <1>10

LEMMA UntouchedIsEmpty == RecipeOf(Untouched) = <<>> /\ Untouched \in ControlTypes
<1> DEFINE P == Picked(GeomOrder, {o.op : o \in Untouched.geom})
           g == [i \in DOMAIN P |-> CHOOSE o \in Untouched.geom : o.op = P[i]]
<1>1. /\ Untouched.geom = {} /\ Untouched.areas = <<>> /\ Untouched.marks = <<>>
      /\ Untouched = [geom |-> {}, areas |-> <<>>, marks |-> <<>>]
  BY DEF Untouched
<1>2. P \in Seq({})
  <2>1. {o.op : o \in Untouched.geom} = {}  BY <1>1
  <2> QED BY <2>1, KindsOfOrder
<1>3. P = <<>>
  <2> HIDE DEF P
  <2>1. Len(P) \in Nat /\ \A i \in 1..Len(P) : P[i] \in {}  BY <1>2, OfSeq
  <2>2. Len(P) = 0
    <3>1. Len(P) # 0 => 1 \in 1..Len(P)  BY <2>1
    <3> QED BY <2>1, <3>1
  <2> QED BY <1>2, <2>2
<1>4. g = <<>>
  <2> HIDE DEF P
  <2>1. DOMAIN P = {}  BY <1>3
  <2>2. DOMAIN g = {} /\ g = [i \in {} |-> g[i]]  BY <2>1
  <2> QED BY <2>2
<1>5. RecipeOf(Untouched) = g \o Untouched.areas \o Untouched.marks  BY DEF RecipeOf
<1> HIDE DEF g
<1>6. RecipeOf(Untouched) = <<>> \o <<>> \o <<>>  BY <1>1, <1>4, <1>5
<1>7. <<>> \o <<>> \o <<>> = <<>>  OBVIOUS
<1>8. Untouched \in ControlTypes
  <2>1. \A S : <<>> \in Seq(S)  OBVIOUS
  <2> QED BY <1>1, <2>1 DEF ControlTypes
<1> QED BY <1>6, <1>7, <1>8

LEMMA ControlsTypedOf ==
    ASSUME NEW recipe \in Seq(Operations)
    PROVE  ControlsOf(recipe) \in ControlTypes
<1>1. Range(LastOfEach(recipe)) \in SUBSET OpsOf(Geometry)
  <2>1. /\ LastOfEach(recipe) \in Seq(Operations)
        /\ \A i \in 1..Len(LastOfEach(recipe)) : LastOfEach(recipe)[i].op \in Geometry
    BY LastOfEachInOrder
  <2>2. \A i \in DOMAIN LastOfEach(recipe) : LastOfEach(recipe)[i] \in OpsOf(Geometry)
    BY <2>1, OfSeq DEF OpsOf
  <2> QED BY <2>2 DEF Range
<1>2. ASSUME NEW kinds PROVE Of(recipe, kinds) \in Seq(OpsOf(kinds))
  <2> DEFINE T == {o \in Range(recipe) : o.op \in kinds}
  <2>1. Picked(recipe, T) \in Seq(Operations \cap T)  BY PickedElements
  <2>2. Operations \cap T \subseteq OpsOf(kinds)  BY DEF OpsOf
  <2>3. \A A, B : A \subseteq B => \A t \in Seq(A) : t \in Seq(B)  OBVIOUS
  <2>4. Picked(recipe, T) \in Seq(OpsOf(kinds))  BY <2>1, <2>2, <2>3
  <2> QED BY <2>4 DEF Of
<1>3. Of(recipe, {"redact"}) \in Seq(OpsOf({"redact"}))  BY <1>2
<1>4. Of(recipe, {"text", "arrow", "frame"}) \in Seq(OpsOf({"text", "arrow", "frame"}))  BY <1>2
<1> QED BY <1>1, <1>3, <1>4 DEF ControlsOf, ControlTypes

-----------------------------------------------------------------------------
(* The invariant of FilesPage: the details pane *)

PaneIsOfItsFile ==
    /\ pane = [file |-> pane.file, details |-> pane.details, preview |-> pane.preview, state |-> pane.state]
    /\ pane.file # None /\ ~mixed =>
          /\ {pane.details, pane.preview} \subseteq {None, pane.file}
          /\ \A a \in asked : a.file = pane.file

-----------------------------------------------------------------------------
(* The invariant: the list *)

ReloadingOps == {"upload", "delete", "edit"}

\* The fields of the page, of its requests and of its work.
IsScreen(s) ==
    s = [ready |-> s.ready, where |-> s.where, settled |-> s.settled, sort |-> s.sort,
         order |-> s.order, page |-> s.page, result |-> s.result, loading |-> s.loading,
         uploading |-> s.uploading, known |-> s.known, chosen |-> s.chosen]

ScreenRecord == IsScreen(screen)

AreCalls(cs) ==
    cs = [s \in Slots |-> [pc |-> cs[s].pc, kind |-> cs[s].kind, query |-> cs[s].query,
                           answer |-> cs[s].answer, alive |-> cs[s].alive, work |-> cs[s].work]]

CallRecords == AreCalls(calls)

WorkRecords ==
    work = [w \in Works |-> [op |-> work[w].op, pc |-> work[w].pc, target |-> work[w].target,
                             query |-> work[w].query]]

PageFields ==
    ScreenRecord /\ CallRecords /\ WorkRecords /\ screen.ready \in BOOLEAN /\ doubt \in BOOLEAN

AliveFetches == {s \in Slots : calls[s].kind = "fetch" /\ calls[s].alive}

\* Before the page is ready nothing runs; a call is the effect's, of which one is alive and asks
\* for what the controls show, or the reload of a work that waits for it alone.
CallsAreOfThePage ==
    /\ ~screen.ready => calls = [s \in Slots |-> NoCall] /\ work = [w \in Works |-> NoWork]
    /\ \A s \in Slots : \/ calls[s] = NoCall
                        \/ calls[s].pc \in {"sent", "served"} /\ calls[s].kind \in {"fetch", "reload"}
    /\ \A s \in Slots : calls[s].kind = "fetch" => calls[s].work = None
    /\ \A s \in Slots : calls[s].kind = "reload" =>
          /\ calls[s].work \in Reloading /\ work[calls[s].work].pc = "reload"
    /\ \A s, t \in Slots : calls[s].kind = "reload" /\ calls[t].kind = "reload"
                              /\ calls[s].work = calls[t].work => s = t
    /\ \A s \in AliveFetches : calls[s].query = Query
    /\ \A s, t \in AliveFetches : s = t

Current     == screen.result = ListFiles(Query) /\ ~screen.loading
Truthful(s) == calls[s].pc = "served" => calls[s].answer = ListFiles(calls[s].query)

\* With nothing to reload, the list is current or the alive request will make it so.
IdleIsCurrent ==
    ~doubt /\ screen.ready /\ Reloading = {} =>
        /\ AliveFetches # {} \/ Current
        /\ \A s \in AliveFetches : Truthful(s)

\* A work that will reload ran beside nothing else, and its reload is the only call.
ReloadIsCurrent ==
    ~doubt => \A w \in Reloading :
        /\ \A v \in Reloading : v = w
        /\ work[w].query = Query
        /\ work[w].pc \in {"sent", "done", "reload"}
        /\ work[w].pc = "sent" => Current
        /\ work[w].pc \in {"sent", "done"} => \A s \in Slots : calls[s] = NoCall
        /\ work[w].pc = "reload" => \A s \in Slots : \/ calls[s] = NoCall
                                                     \/ /\ calls[s].kind = "reload" /\ calls[s].work = w
                                                        /\ calls[s].query = Query /\ Truthful(s)

\* The requests of the effect but the one in n are cut off; the others are left alone.
CutOff(cs, n) ==
    \A s \in Slots \ {n} :
        \/ calls[s].kind # "fetch" /\ cs[s] = calls[s]
        \/ /\ cs[s].kind = "fetch" /\ cs[s].pc \in {"sent", "served"}
           /\ cs[s].alive = FALSE /\ cs[s].work = None

\* What a step may have made of the state before the effects run.
Rendering(next, busy) ==
    /\ IsScreen(next) /\ next.ready \in BOOLEAN /\ (screen.ready => next.ready)
    /\ next.result = screen.result /\ next.loading = screen.loading
    /\ WorkRecords' /\ Reloading' = busy
    /\ \A w \in Works : \/ work'[w] = work[w]
                        \/ w \in Reloading /\ work[w].pc = "done" /\ work'[w] = NoWork
    /\ ~doubt => work' = work \/ (next.page = 1 /\ screen.page # 1)

\* What the list shows and asks for stays.
SameList ==
    /\ ScreenRecord' /\ screen'.ready = screen.ready /\ Query' = Query
    /\ screen'.result = screen.result /\ screen'.loading = screen.loading

ListInv == PageFields /\ CallsAreOfThePage /\ IdleIsCurrent /\ ReloadIsCurrent

-----------------------------------------------------------------------------
(* The invariant: the editor *)

EditorRecord ==
    editor = [file |-> editor.file, no |-> editor.no, controls |-> editor.controls,
              dragging |-> editor.dragging, base |-> editor.base, due |-> editor.due,
              preview |-> editor.preview, loading |-> editor.loading, saving |-> editor.saving,
              copying |-> editor.copying, shown |-> editor.shown, compare |-> editor.compare,
              compared |-> editor.compared]

ListingRecords == \A l \in listings : l = [no |-> l.no, of |-> l.of, served |-> l.served, shown |-> l.shown]

EditorFields ==
    /\ EditorRecord /\ ListingRecords
    /\ \A p \in previews : p = [recipe |-> p.recipe, alive |-> p.alive]
    /\ \A c \in comparing : c = [version |-> c.version, alive |-> c.alive]

ClosedIsEmpty == ~Open => editor = NoEditor /\ previews = {} /\ listings = {} /\ comparing = {}

PreviewsAreOfTheRecipe ==
    /\ \A p \in previews : p.alive => /\ p.recipe = Recipe /\ Recipe # <<>>
                                      /\ ~editor.due /\ editor.loading
    /\ editor.due => Recipe # <<>> /\ editor.loading

ComparedIsChosen ==
    /\ \A c \in comparing : c.alive => c.version = editor.compare
    /\ editor.compared \in {None, editor.compare}

EditorInv == EditorFields /\ ClosedIsEmpty /\ PreviewsAreOfTheRecipe /\ PreviewIsExact /\ ComparedIsChosen

\* A step that leaves alone what the preview and the comparison are made of.
SameView ==
    /\ EditorRecord' /\ ListingRecords'
    /\ editor'.file = editor.file /\ editor'.controls = editor.controls /\ editor'.due = editor.due
    /\ editor'.preview = editor.preview /\ editor'.loading = editor.loading
    /\ editor'.compare = editor.compare /\ editor'.compared = editor.compared
    /\ UNCHANGED <<previews, comparing, failed>>
    /\ Open \/ (editor' = editor /\ listings' = {})

EditsAreUnderWay ==
    /\ edit = [w \in Works |-> [of |-> edit[w].of, no |-> edit[w].no, recipe |-> edit[w].recipe,
                                share |-> edit[w].share, copyOf |-> edit[w].copyOf]]
    /\ \A w \in Works : work[w].op = "edit" /\ work[w].pc \in {"sent", "done"} => edit[w].of # None
    /\ \A w \in Works : work[w].op = "queue" => edit[w].of # None

Told == ~\E w \in Works : work[w].op = "edit" /\ work[w].pc = "done"

ListingsAreTrue ==
    Open /\ ~behind =>
        /\ \A l, m \in listings : l = m
        /\ \A l \in listings : l.of = editor.file
        /\ Told => /\ listings = {} => editor.shown = VersionsSaved(editor.file)
                   /\ \A l \in listings : l.served => l.shown = VersionsSaved(l.of)

-----------------------------------------------------------------------------
(* The invariant: the versions *)

VersionRows ==
    /\ version = [v \in Versions |-> [of |-> version[v].of, recipe |-> version[v].recipe,
                                      result |-> version[v].result, copyOf |-> version[v].copyOf]]
    /\ Cardinality(Saved) \in Nat /\ Saved = 1..Cardinality(Saved)
    /\ \A v \in Saved : Stable(version[v].recipe) /\ version[v].copyOf \in Saved \cup {None}

ShownAreSaved == editor.shown \subseteq Saved /\ \A l \in listings : l.shown \subseteq Saved

ControlsTyped == editor.controls \in ControlTypes

\* What is to be saved is the recipe of the controls, or the one of a version.
EditIsOf(todo) ==
    /\ todo.recipe \in Seq(Operations)
    /\ todo.share => todo.copyOf = None /\ ~Strips(todo.recipe)
    /\ todo.copyOf # None => todo.copyOf \in Saved /\ todo.recipe = version[todo.copyOf].recipe

EditsAreOf ==
    /\ \A w \in Works : EditIsOf(edit[w])
    /\ \E T : jobs \in Seq(T) /\ \A todo \in T : EditIsOf(todo)

VersionsInv == VersionRows /\ ShownAreSaved /\ ControlsTyped /\ EditsAreOf /\ DuplicateKeepsRecipe

ScreensInv == PaneIsOfItsFile /\ ListInv /\ EditorInv /\ EditsAreUnderWay /\ ListingsAreTrue /\ VersionsInv

-----------------------------------------------------------------------------
(* The details pane *)

LEMMA PaneKept ==
    ASSUME PaneIsOfItsFile, ScreensNext
    PROVE  PaneIsOfItsFile'
<1>1. CASE UNCHANGED paneVars  BY <1>1 DEF PaneIsOfItsFile, paneVars
<1>2. ASSUME NEW f, DetailsOpened(f)  PROVE PaneIsOfItsFile'
  <2>1. /\ pane'.file = f /\ pane'.details = None /\ pane'.preview = None
        /\ pane' = [file |-> pane'.file, details |-> pane'.details,
                    preview |-> pane'.preview, state |-> pane'.state]
    BY <1>2 DEF DetailsOpened
  <2>2. \A a \in asked' : a \in asked \/ a.file = f
    BY <1>2 DEF DetailsOpened, Ask
  <2>3. ~mixed' => \A a \in asked : a.file = f  BY <1>2 DEF DetailsOpened
  <2> QED BY <2>1, <2>2, <2>3 DEF PaneIsOfItsFile
<1>3. CASE PreviewAskedFor
  <2>1. /\ pane' = [pane EXCEPT !.state = "loading"] /\ mixed' = mixed
        /\ asked' = asked \cup {Ask("preview", pane.file)}
    BY <1>3 DEF PreviewAskedFor
  <2>2. /\ pane'.file = pane.file /\ pane'.details = pane.details /\ pane'.preview = pane.preview
        /\ pane' = [file |-> pane'.file, details |-> pane'.details,
                    preview |-> pane'.preview, state |-> pane'.state]
    BY <2>1 DEF PaneIsOfItsFile
  <2>3. Ask("preview", pane.file).file = pane.file  BY DEF Ask
  <2> QED BY <2>1, <2>2, <2>3 DEF PaneIsOfItsFile
<1>4. CASE pane' = Closed  BY <1>4 DEF PaneIsOfItsFile, Closed
<1>5. ASSUME NEW a \in asked, NEW ok \in BOOLEAN, PaneAnswered(a, ok)  PROVE PaneIsOfItsFile'
  <2>1. asked' \subseteq asked /\ mixed' = mixed  BY <1>5 DEF PaneAnswered
  <2>2. /\ pane'.file = pane.file
        /\ pane'.details \in {pane.details, a.file} /\ pane'.preview \in {pane.preview, a.file}
        /\ pane' = [file |-> pane'.file, details |-> pane'.details,
                    preview |-> pane'.preview, state |-> pane'.state]
    BY <1>5 DEF PaneAnswered, PaneIsOfItsFile
  <2> QED BY <2>1, <2>2 DEF PaneIsOfItsFile
<1> QED BY <1>1, <1>2, <1>3, <1>4, <1>5
        DEF ScreensNext, PageUsed, PageAnswered, EditorStep, PaneOpened, PaneClosed, FileDeletedFromPane

-----------------------------------------------------------------------------
(* The preview and the comparison *)

LEMMA EditorAside ==
    ASSUME EditorInv, SameView
    PROVE  EditorInv'
<1>0. EditorFields'  BY DEF SameView, EditorInv, EditorFields
<1>1. Open' = Open /\ Recipe' = Recipe  BY DEF Open, Recipe, SameView
<1>2. ClosedIsEmpty'
  <2>1. CASE Open  BY <1>1, <2>1 DEF ClosedIsEmpty
  <2>2. CASE ~Open  BY <1>1, <2>2 DEF SameView, EditorInv, ClosedIsEmpty
  <2> QED BY <2>1, <2>2
<1>3. PreviewsAreOfTheRecipe'  BY <1>1 DEF SameView, EditorInv, PreviewsAreOfTheRecipe
<1>4. PreviewIsExact'  BY <1>1 DEF SameView, EditorInv, PreviewIsExact
<1>5. ComparedIsChosen'  BY DEF SameView, EditorInv, ComparedIsChosen
<1> QED BY <1>0, <1>2, <1>3, <1>4, <1>5 DEF EditorInv

\* The listings keep their fields.
LEMMA ListingFields ==
    ASSUME EditorInv, NEW no, NEW f, listings' = listings \/ Refreshes(no, f)
    PROVE  ListingRecords'
BY DEF EditorInv, EditorFields, ListingRecords, Refreshes, Listing

LEMMA EditorOpens ==
    ASSUME EditorInv, NEW f \in Files, EditorOpened(f)
    PROVE  EditorInv'
<1>1. /\ editor' = [NoEditor EXCEPT !.file = f, !.no = left["editor"], !.base = TRUE] /\ ~Open
      /\ Refreshes(0, f) /\ failed' = FALSE /\ UNCHANGED <<previews, comparing>>
  BY DEF EditorOpened
<1>2. previews' = {} /\ comparing' = {}  BY <1>1 DEF EditorInv, ClosedIsEmpty
<1>3. /\ editor' = [file |-> f, no |-> left["editor"], controls |-> Untouched, dragging |-> FALSE,
                    base |-> TRUE, due |-> FALSE, preview |-> None, loading |-> FALSE, saving |-> FALSE,
                    copying |-> {}, shown |-> {}, compare |-> None, compared |-> None]
  BY <1>1 DEF NoEditor
<1>4. /\ editor'.file = f /\ editor'.controls = Untouched /\ editor'.due = FALSE
      /\ editor'.preview = None /\ editor'.compare = None /\ editor'.compared = None
  BY <1>3
<1>5. EditorFields'
  <2>1. ListingRecords'  BY <1>1, ListingFields
  <2>2. EditorRecord'  BY <1>3 DEF EditorRecord
  <2> QED BY <1>2, <2>1, <2>2 DEF EditorFields
<1>6. Recipe' = <<>> /\ Open'
  BY <1>4, UntouchedIsEmpty, ScreenAssumption DEF Recipe, Open
<1>7. ClosedIsEmpty' /\ PreviewsAreOfTheRecipe' /\ PreviewIsExact' /\ ComparedIsChosen'
  BY <1>2, <1>4, <1>6 DEF ClosedIsEmpty, PreviewsAreOfTheRecipe, PreviewIsExact, ComparedIsChosen
<1> QED BY <1>5, <1>7 DEF EditorInv

LEMMA EditorCloses ==
    ASSUME EditorInv, EditorClosed
    PROVE  EditorInv'
<1>1. editor' = NoEditor /\ previews' = {} /\ listings' = {} /\ comparing' = {}  BY DEF EditorClosed
<1>2. /\ NoEditor.file = None /\ NoEditor.due = FALSE /\ NoEditor.compare = None /\ NoEditor.compared = None
      /\ NoEditor.controls = Untouched
  BY DEF NoEditor
<1>3. EditorFields'  BY <1>1 DEF EditorFields, EditorRecord, ListingRecords, NoEditor
<1>4. ~Open'  BY <1>1, <1>2 DEF Open
<1> QED BY <1>1, <1>2, <1>3, <1>4
        DEF EditorInv, ClosedIsEmpty, PreviewsAreOfTheRecipe, PreviewIsExact, ComparedIsChosen

\* The recipe changes with the controls, and what was shown or asked for of the last one goes.
LEMMA EditorBecomes ==
    ASSUME EditorInv, Open, NEW next, Becomes(next), UNCHANGED <<listings, comparing>>,
           \E controls, dragging :
              next = [editor EXCEPT !.controls = controls, !.dragging = dragging]
    PROVE  EditorInv'
<1>1. PICK controls, dragging : next = [editor EXCEPT !.controls = controls, !.dragging = dragging]
  OBVIOUS
<1> DEFINE changed == RecipeOf(controls) # Recipe
           empty   == RecipeOf(controls) = <<>>
<1>2. EditorRecord  BY DEF EditorInv, EditorFields
<1>3. next = [file |-> editor.file, no |-> editor.no, controls |-> controls,
              dragging |-> dragging, base |-> editor.base, due |-> editor.due,
              preview |-> editor.preview, loading |-> editor.loading, saving |-> editor.saving,
              copying |-> editor.copying, shown |-> editor.shown, compare |-> editor.compare,
              compared |-> editor.compared]
  BY <1>1, <1>2 DEF EditorRecord
<1>4. next.controls = controls  BY <1>3
<1>5. CASE ~changed
  <2>1. editor' = next /\ UNCHANGED <<previews, failed>>  BY <1>4, <1>5 DEF Becomes
  <2>2. Recipe' = Recipe /\ Open'  BY <1>3, <1>5, <2>1 DEF Recipe, Open
  <2>3. EditorFields'  BY <1>3, <2>1 DEF EditorInv, EditorFields, EditorRecord, ListingRecords
  <2>4. /\ editor'.due = editor.due /\ editor'.preview = editor.preview /\ editor'.loading = editor.loading
        /\ editor'.compare = editor.compare /\ editor'.compared = editor.compared
    BY <1>3, <2>1
  <2> QED BY <2>1, <2>2, <2>3, <2>4
          DEF EditorInv, ClosedIsEmpty, PreviewsAreOfTheRecipe, PreviewIsExact, ComparedIsChosen
<1>6. CASE changed
  <2> DEFINE due     == ~empty
             loading == next.loading \/ ~empty
             preview == IF empty THEN None ELSE next.preview
  <2>1. /\ editor' = [next EXCEPT !.due = due, !.loading = loading, !.preview = preview]
        /\ previews' = {[p EXCEPT !.alive = FALSE] : p \in previews}
    BY <1>4, <1>6 DEF Becomes
  <2>2. editor' = [file |-> editor.file, no |-> editor.no, controls |-> controls,
                   dragging |-> dragging, base |-> editor.base, due |-> due, preview |-> preview,
                   loading |-> loading, saving |-> editor.saving, copying |-> editor.copying,
                   shown |-> editor.shown, compare |-> editor.compare, compared |-> editor.compared]
    <3> HIDE DEF due, loading, preview
    <3> QED BY <1>3, <2>1
  <2>3. Recipe' = RecipeOf(controls) /\ Open'  BY <2>2 DEF Recipe, Open
  <2>4. \A p \in previews' : p = [recipe |-> p.recipe, alive |-> p.alive] /\ ~p.alive
    BY <2>1 DEF EditorInv, EditorFields
  <2>5. EditorFields'
    <3> HIDE DEF due, loading, preview
    <3> QED BY <2>2, <2>4 DEF EditorInv, EditorFields, EditorRecord, ListingRecords
  <2>6. /\ editor'.due = due /\ editor'.preview = preview /\ editor'.loading = loading
        /\ editor'.compare = editor.compare /\ editor'.compared = editor.compared
    BY <2>2
  <2> QED BY <2>3, <2>4, <2>5, <2>6
          DEF EditorInv, ClosedIsEmpty, PreviewsAreOfTheRecipe, PreviewIsExact, ComparedIsChosen
<1> QED BY <1>5, <1>6

LEMMA EditorDraws ==
    ASSUME EditorInv, NEW controls, Draws(controls)
    PROVE  EditorInv'
<1>1. [editor EXCEPT !.controls = controls]
         = [editor EXCEPT !.controls = controls, !.dragging = editor.dragging]
  BY DEF EditorInv, EditorFields, EditorRecord
<1> QED BY <1>1, EditorBecomes DEF Draws

LEMMA EditorCrops ==
    ASSUME EditorInv, CropBegins \/ CropEnds
    PROVE  EditorInv'
<1>1. EditorRecord
  BY DEF EditorInv, EditorFields, EditorRecord, ListingRecords
<1>2. ASSUME NEW d, NEW geom,
             Open, Becomes([editor EXCEPT !.dragging = d, !.controls.geom = geom]),
             UNCHANGED <<listings, comparing>>
      PROVE  EditorInv'
  <2> DEFINE controls == [editor.controls EXCEPT !.geom = geom]
             next     == [editor EXCEPT !.dragging = d, !.controls.geom = geom]
  <2>1. next = [editor EXCEPT !.controls = controls, !.dragging = d]  BY <1>1 DEF EditorRecord
  <2>2. Becomes(next)  BY <1>2
  <2> HIDE DEF next, controls
  <2> QED BY <1>2, <2>1, <2>2, EditorBecomes
<1>3. CASE CropBegins  BY <1>2, <1>3 DEF CropBegins
<1>4. CASE CropEnds
  <2>1. NoEditor.dragging = FALSE  BY DEF NoEditor
  <2>2. Open  BY <1>4, <2>1 DEF CropEnds, EditorInv, ClosedIsEmpty
  <2> QED BY <1>2, <1>4, <2>2 DEF CropEnds
<1> QED BY <1>3, <1>4

LEMMA PreviewIsAsked ==
    ASSUME EditorInv, PreviewAsked
    PROVE  EditorInv'
<1>1. /\ editor' = [editor EXCEPT !.due = FALSE] /\ editor.due
      /\ previews' = previews \cup {[recipe |-> Recipe, alive |-> TRUE]}
      /\ UNCHANGED <<listings, comparing, failed>>
  BY DEF PreviewAsked
<1>2. Open /\ Recipe # <<>> /\ editor.loading /\ \A p \in previews : ~p.alive
  BY <1>1 DEF EditorInv, ClosedIsEmpty, NoEditor, PreviewsAreOfTheRecipe
<1>3. EditorFields'
  <2>1. EditorRecord'  BY <1>1 DEF EditorInv, EditorFields, EditorRecord
  <2>2. ListingRecords'  BY <1>1 DEF EditorInv, EditorFields, ListingRecords
  <2>3. \A p \in previews' : p = [recipe |-> p.recipe, alive |-> p.alive]
    BY <1>1 DEF EditorInv, EditorFields
  <2> QED BY <1>1, <2>1, <2>2, <2>3 DEF EditorInv, EditorFields
<1>4. /\ editor'.file = editor.file /\ editor'.controls = editor.controls /\ editor'.due = FALSE
      /\ editor'.preview = editor.preview /\ editor'.loading = editor.loading
      /\ editor'.compare = editor.compare /\ editor'.compared = editor.compared
  BY <1>1 DEF EditorInv, EditorFields, EditorRecord
<1>5. Recipe' = Recipe /\ Open'  BY <1>2, <1>4 DEF Recipe, Open
<1>6. \A p \in previews' : p.alive => p.recipe = Recipe  BY <1>1, <1>2
<1> QED BY <1>1, <1>2, <1>3, <1>4, <1>5, <1>6
        DEF EditorInv, ClosedIsEmpty, PreviewsAreOfTheRecipe, PreviewIsExact, ComparedIsChosen

LEMMA PreviewIsAnswered ==
    ASSUME EditorInv, NEW p, NEW ok \in BOOLEAN, PreviewAnswered(p, ok)
    PROVE  EditorInv'
<1>0. p \in previews /\ previews' = previews \ {p} /\ UNCHANGED <<listings, comparing>>
  BY DEF PreviewAnswered
<1>1. p \in previews /\ previews' = previews \ {p} /\ UNCHANGED <<listings, comparing>> /\ Open
  BY <1>0 DEF EditorInv, ClosedIsEmpty
<1>2. CASE ~p.alive
  <2>1. UNCHANGED <<editor, failed>>  BY <1>2 DEF PreviewAnswered
  <2>2. Recipe' = Recipe /\ Open'  BY <1>1, <2>1 DEF Recipe, Open
  <2> QED BY <1>1, <2>1, <2>2
          DEF EditorInv, EditorFields, EditorRecord, ListingRecords, ClosedIsEmpty, PreviewsAreOfTheRecipe, PreviewIsExact, ComparedIsChosen
<1>3. CASE p.alive
  <2> DEFINE shown == IF ok THEN Picture(Kept(p.recipe)) ELSE editor.preview
  <2>1. editor' = [editor EXCEPT !.loading = FALSE, !.preview = shown] /\ failed' = ~ok
    BY <1>3 DEF PreviewAnswered
  <2>2. p.recipe = Recipe /\ Recipe # <<>> /\ ~editor.due
    BY <1>1, <1>3 DEF EditorInv, PreviewsAreOfTheRecipe
  <2> HIDE DEF shown
  <2>3. EditorFields'  BY <1>1, <2>1 DEF EditorInv, EditorFields, EditorRecord, ListingRecords
  <2>4. /\ editor'.file = editor.file /\ editor'.controls = editor.controls /\ editor'.due = editor.due
        /\ editor'.preview = shown /\ editor'.loading = FALSE
        /\ editor'.compare = editor.compare /\ editor'.compared = editor.compared
    BY <2>1 DEF EditorInv, EditorFields, EditorRecord, ListingRecords
  <2>5. Recipe' = Recipe /\ Open'  BY <1>1, <2>4 DEF Recipe, Open
  <2>6. \A q \in previews' : ~q.alive
    <3> SUFFICES ASSUME NEW q \in previews', q.alive PROVE FALSE  OBVIOUS
    <3>1. q \in previews /\ q # p  BY <1>1
    <3>2. q.recipe = Recipe  BY <3>1 DEF EditorInv, PreviewsAreOfTheRecipe
    <3>3. q.alive = TRUE /\ p.alive = TRUE
      BY <1>1, <1>3, <3>1 DEF EditorInv, EditorFields, EditorRecord, ListingRecords
    <3> QED BY <1>1, <2>2, <3>1, <3>2, <3>3 DEF EditorInv, EditorFields, EditorRecord, ListingRecords
  <2>7. ~failed' => editor'.preview = Picture(Kept(Recipe))  BY <2>1, <2>2, <2>4 DEF shown
  <2> QED BY <1>1, <2>2, <2>3, <2>4, <2>5, <2>6, <2>7
          DEF EditorInv, ClosedIsEmpty, PreviewsAreOfTheRecipe, PreviewIsExact, ComparedIsChosen
<1> QED BY <1>2, <1>3

\* The picture compared is the one that was chosen last.
LEMMA ComparisonKept ==
    ASSUME EditorInv,
           \/ \E v : CompareOpened(v)
           \/ \E c : \E ok \in BOOLEAN : CompareAnswered(c, ok)
           \/ CompareClosed
    PROVE  EditorInv'
<1>1. ASSUME NEW compare, NEW compared,
             editor' = [editor EXCEPT !.compare = compare, !.compared = compared],
             UNCHANGED <<previews, listings, failed>>, Open,
             \A c \in comparing' : /\ c = [version |-> c.version, alive |-> c.alive]
                                   /\ c.alive => c.version = compare,
             compared \in {None, compare}
      PROVE  EditorInv'
  <2>1. EditorFields'  BY <1>1 DEF EditorInv, EditorFields, EditorRecord, ListingRecords
  <2>2. /\ editor'.file = editor.file /\ editor'.controls = editor.controls /\ editor'.due = editor.due
        /\ editor'.preview = editor.preview /\ editor'.loading = editor.loading
        /\ editor'.compare = compare /\ editor'.compared = compared
    BY <1>1 DEF EditorInv, EditorFields, EditorRecord, ListingRecords
  <2>3. Recipe' = Recipe /\ Open'  BY <1>1, <2>2 DEF Recipe, Open
  <2> QED BY <1>1, <2>1, <2>2, <2>3
          DEF EditorInv, ClosedIsEmpty, PreviewsAreOfTheRecipe, PreviewIsExact, ComparedIsChosen
<1>2. /\ \A c \in comparing : c = [version |-> c.version, alive |-> c.alive]
      /\ EditorRecord
  BY DEF EditorInv, EditorFields, EditorRecord, ListingRecords
<1>3. \A c \in {[c EXCEPT !.alive = FALSE] : c \in comparing} :
          c = [version |-> c.version, alive |-> c.alive] /\ ~c.alive
  BY <1>2
<1>4. ASSUME NEW v, CompareOpened(v) PROVE EditorInv'
  <2>1. /\ v \in editor.shown /\ editor.compare = None /\ editor' = [editor EXCEPT !.compare = v]
        /\ comparing' = {[c EXCEPT !.alive = FALSE] : c \in comparing} \cup {[version |-> v, alive |-> TRUE]}
        /\ UNCHANGED <<previews, listings, failed>>
    BY <1>4 DEF CompareOpened
  <2>2. Open  BY <2>1 DEF EditorInv, ClosedIsEmpty, NoEditor
  <2>3. editor.compared = None  BY <2>1 DEF EditorInv, ComparedIsChosen
  <2>4. editor' = [editor EXCEPT !.compare = v, !.compared = None]  BY <1>2, <2>1, <2>3 DEF EditorRecord
  <2>5. \A c \in comparing' : /\ c = [version |-> c.version, alive |-> c.alive]
                              /\ c.alive => c.version = v
    BY <1>3, <2>1
  <2> QED BY <1>1, <2>1, <2>2, <2>4, <2>5
<1>5. ASSUME NEW c, NEW ok \in BOOLEAN, CompareAnswered(c, ok) PROVE EditorInv'
  <2> DEFINE found == IF ok THEN c.version ELSE None
  <2>1. /\ c \in comparing /\ comparing' = comparing \ {c} /\ UNCHANGED <<previews, listings, failed>>
        /\ c.alive => editor' = [editor EXCEPT !.compared = found]
        /\ ~c.alive => editor' = editor
    BY <1>5 DEF CompareAnswered
  <2>2. Open  BY <2>1 DEF EditorInv, ClosedIsEmpty
  <2>3. PICK compared \in {None, editor.compare} :
             editor' = [editor EXCEPT !.compare = editor.compare, !.compared = compared]
    <3>1. CASE c.alive
      <4>1. c.version = editor.compare  BY <2>1, <3>1 DEF EditorInv, ComparedIsChosen
      <4>2. found \in {None, editor.compare}  BY <4>1
      <4> HIDE DEF found
      <4>3. editor' = [editor EXCEPT !.compare = editor.compare, !.compared = found]
        BY <1>2, <2>1, <3>1 DEF EditorRecord
      <4> QED BY <4>2, <4>3
    <3>2. CASE ~c.alive
      <4>1. editor' = editor /\ editor.compared \in {None, editor.compare}
        BY <2>1, <3>2 DEF EditorInv, ComparedIsChosen
      <4>2. editor' = [editor EXCEPT !.compare = editor.compare, !.compared = editor.compared]
        BY <1>2, <4>1 DEF EditorRecord
      <4> QED BY <4>1, <4>2
    <3> QED BY <3>1, <3>2
  <2>4. \A d \in comparing' : /\ d = [version |-> d.version, alive |-> d.alive]
                              /\ d.alive => d.version = editor.compare
    BY <1>2, <2>1 DEF EditorInv, ComparedIsChosen
  <2> QED BY <1>1, <2>1, <2>2, <2>3, <2>4
<1>6. CASE CompareClosed
  <2>1. /\ editor.compare # None /\ editor' = [editor EXCEPT !.compare = None, !.compared = None]
        /\ comparing' = {[c EXCEPT !.alive = FALSE] : c \in comparing}
        /\ UNCHANGED <<previews, listings, failed>>
    BY <1>6 DEF CompareClosed
  <2>2. Open  BY <2>1 DEF EditorInv, ClosedIsEmpty, NoEditor
  <2> QED BY <1>1, <1>3, <2>1, <2>2
<1> QED BY <1>4, <1>5, <1>6

\* The base picture, the listings and the saving touch neither.
LEMMA AsideSteps ==
    ASSUME EditorInv, BaseAnswered \/ JobSaved
                      \/ (\E l : ListingServed(l) \/ \E ok \in BOOLEAN : ListingAnswered(l, ok))
    PROVE  SameView
<1>1. EditorRecord /\ ListingRecords /\ (~Open => editor = NoEditor /\ listings = {})
  BY DEF EditorInv, EditorFields, ClosedIsEmpty
<1>2. CASE BaseAnswered
  <2>1. editor.base /\ editor' = [editor EXCEPT !.base = FALSE]
        /\ UNCHANGED <<previews, listings, comparing, failed>>
    BY <1>2 DEF BaseAnswered, requestVars
  <2>2. Open  BY <1>1, <2>1 DEF NoEditor
  <2>3. EditorRecord' /\ ListingRecords'  BY <1>1, <2>1 DEF EditorRecord, ListingRecords
  <2> QED BY <1>1, <2>1, <2>2, <2>3 DEF SameView, EditorRecord
<1>3. ASSUME NEW l, ListingServed(l) PROVE SameView
  <2> DEFINE now == VersionsSaved(l.of)
  <2> PICK m : m = [l EXCEPT !.served = TRUE, !.shown = now]  OBVIOUS
  <2>1. l \in listings /\ UNCHANGED <<editor, previews, comparing, failed>>
        /\ listings' = (listings \ {l}) \cup {m}
    BY <1>3 DEF ListingServed
  <2> HIDE DEF now
  <2>2. m = [no |-> l.no, of |-> l.of, served |-> TRUE, shown |-> now]
    <3>1. l = [no |-> l.no, of |-> l.of, served |-> l.served, shown |-> l.shown]
      BY <1>1, <2>1 DEF ListingRecords
    <3> QED BY <3>1
  <2>3. EditorRecord' /\ Open  BY <1>1, <2>1 DEF EditorRecord
  <2>4. ListingRecords'  BY <1>1, <2>1, <2>2 DEF ListingRecords
  <2> QED BY <1>1, <2>1, <2>3, <2>4 DEF SameView
<1>4. ASSUME NEW l, NEW ok \in BOOLEAN, ListingAnswered(l, ok) PROVE SameView
  <2>1. /\ l \in listings /\ UNCHANGED <<previews, comparing, failed>> /\ listings' = listings \ {l}
        /\ editor' = IF ok THEN [editor EXCEPT !.shown = l.shown] ELSE editor
    BY <1>4 DEF ListingAnswered
  <2>2. EditorRecord' /\ ListingRecords'  BY <1>1, <2>1 DEF EditorRecord, ListingRecords
  <2> QED BY <1>1, <2>1, <2>2 DEF SameView, EditorRecord
<1>5. CASE JobSaved
  BY <1>1, <1>5 DEF JobSaved, requestVars, SameView, EditorRecord, ListingRecords
<1> QED BY <1>2, <1>3, <1>4, <1>5

LEMMA SavingAside ==
    ASSUME EditorInv, NEW w \in Works,
           \/ \E share \in BOOLEAN : SaveClicked(w, share)
           \/ \E v \in Versions : DuplicateClicked(w, v)
           \/ QueueClicked(w) \/ EditServed(w) \/ EditAnswered(w) \/ RefreshedLater(w) \/ EditRefused(w)
    PROVE  SameView
<1>1. EditorRecord /\ ListingRecords /\ (~Open => editor = NoEditor /\ listings = {})
  BY DEF EditorInv, EditorFields, ClosedIsEmpty
<1>2. ASSUME NEW op, NEW todo, NEW next, NEW kind, EditStarts(w, op, todo, next, kind),
             \/ next = [editor EXCEPT !.saving = TRUE]
             \/ \E v : next = [editor EXCEPT !.copying = editor.copying \cup {v}]
      PROVE  SameView
  <2>1. Open /\ editor' = next /\ UNCHANGED <<previews, listings, comparing, failed>>
    BY <1>2 DEF EditStarts, requestVars
  <2>2. EditorRecord' /\ ListingRecords'  BY <1>1, <1>2, <2>1 DEF EditorRecord, ListingRecords
  <2> QED BY <1>1, <1>2, <2>1, <2>2 DEF SameView, EditorRecord
<1>3. ASSUME NEW share \in BOOLEAN, SaveClicked(w, share) PROVE SameView
  BY <1>2, <1>3 DEF SaveClicked
<1>4. CASE QueueClicked(w)  BY <1>2, <1>4 DEF QueueClicked
<1>5. ASSUME NEW v, DuplicateClicked(w, v) PROVE SameView  BY <1>2, <1>5 DEF DuplicateClicked
<1>6. CASE EditServed(w)
  BY <1>1, <1>6 DEF EditServed, requestVars, SameView, EditorRecord, ListingRecords
<1>7. CASE RefreshedLater(w)
  <2>1. UNCHANGED <<editor, previews, comparing, failed>>  BY <1>7 DEF RefreshedLater
  <2>2. listings' = listings \/ (Open /\ Refreshes(w, editor.file))  BY <1>7 DEF RefreshedLater, Mine
  <2>3. ListingRecords'  BY <2>2, ListingFields
  <2> QED BY <1>1, <2>1, <2>2, <2>3 DEF SameView, EditorRecord
<1>8. CASE EditAnswered(w)
  <2>1. UNCHANGED <<previews, comparing, failed>>  BY <1>8 DEF EditAnswered
  <2>2. listings' = listings \/ (Open /\ Refreshes(w, editor.file))  BY <1>8 DEF EditAnswered, Mine
  <2>3. ListingRecords'  BY <2>2, ListingFields
  <2>4. \/ editor' = editor
        \/ Open /\ editor' = [editor EXCEPT !.copying = editor.copying \ {edit[w].copyOf}]
        \/ Open /\ editor' = [editor EXCEPT !.saving = FALSE]
    BY <1>8 DEF EditAnswered, Mine
  <2>5. EditorRecord'  BY <1>1, <2>4 DEF EditorRecord
  <2>6. /\ editor'.file = editor.file /\ editor'.controls = editor.controls /\ editor'.due = editor.due
        /\ editor'.preview = editor.preview /\ editor'.loading = editor.loading
        /\ editor'.compare = editor.compare /\ editor'.compared = editor.compared
    BY <1>1, <2>4 DEF EditorRecord
  <2> QED BY <1>1, <2>1, <2>2, <2>3, <2>4, <2>5, <2>6 DEF SameView
<1>9. CASE EditRefused(w)
  <2> DEFINE saving  == editor.saving /\ (~Mine(edit[w]) \/ edit[w].copyOf # None)
             copying == IF Mine(edit[w]) THEN editor.copying \ {edit[w].copyOf} ELSE editor.copying
  <2>1. /\ editor' = [editor EXCEPT !.saving = saving, !.copying = copying]
        /\ UNCHANGED <<previews, listings, comparing, failed>>
    BY <1>9 DEF EditRefused, requestVars
  <2>2. ~Open => copying = editor.copying /\ saving = FALSE /\ editor.saving = FALSE
    BY <1>1 DEF Mine, NoEditor
  <2> HIDE DEF saving, copying
  <2>3. ~Open => editor' = editor  BY <1>1, <2>1, <2>2 DEF EditorRecord
  <2>4. EditorRecord' /\ ListingRecords'  BY <1>1, <2>1 DEF EditorRecord, ListingRecords
  <2>5. /\ editor'.file = editor.file /\ editor'.controls = editor.controls /\ editor'.due = editor.due
        /\ editor'.preview = editor.preview /\ editor'.loading = editor.loading
        /\ editor'.compare = editor.compare /\ editor'.compared = editor.compared
    BY <1>1, <2>1 DEF EditorRecord
  <2> QED BY <1>1, <2>1, <2>3, <2>4, <2>5 DEF SameView
<1> QED BY <1>3, <1>4, <1>5, <1>6, <1>7, <1>8, <1>9

LEMMA EditorKept ==
    ASSUME EditorInv, ScreensNext
    PROVE  EditorInv'
<1>1. CASE UNCHANGED editorVars
  <2>1. /\ UNCHANGED <<editor, previews, listings, comparing, failed>>
    BY <1>1 DEF editorVars, requestVars
  <2> QED BY <2>1 DEF EditorInv, EditorFields, EditorRecord, ListingRecords, ClosedIsEmpty, PreviewsAreOfTheRecipe, PreviewIsExact,
                      ComparedIsChosen, Open, Recipe
<1>2. CASE EditorStep
  <2>1. CASE ControlStep
    <3>1. ASSUME NEW o, ControlSet(o) PROVE EditorInv'  BY <3>1, EditorDraws DEF ControlSet
    <3>2. CASE StrokeRemoved  BY <3>2, EditorDraws DEF StrokeRemoved
    <3>3. CASE ControlsReset  BY <3>3, EditorDraws DEF ControlsReset
    <3>4. ASSUME NEW v, RecipeLoaded(v) PROVE EditorInv'  BY <3>4, EditorDraws DEF RecipeLoaded
    <3> QED BY <2>1, <3>1, <3>2, <3>3, <3>4, EditorCrops, ComparisonKept DEF ControlStep
  <2>2. CASE AnswerStep
    <3>1. ASSUME NEW p, NEW ok \in BOOLEAN, PreviewAnswered(p, ok) PROVE EditorInv'
      BY <3>1, PreviewIsAnswered
    <3>2. ASSUME NEW c, NEW ok \in BOOLEAN, CompareAnswered(c, ok) PROVE EditorInv'
      BY <3>2, ComparisonKept
    <3>3. ASSUME NEW l, ListingServed(l) \/ \E ok \in BOOLEAN : ListingAnswered(l, ok) PROVE EditorInv'
      BY <3>3, AsideSteps, EditorAside
    <3>4. CASE BaseAnswered  BY <3>4, AsideSteps, EditorAside
    <3> QED BY <2>2, <3>1, <3>2, <3>3, <3>4, PreviewIsAsked DEF AnswerStep
  <2>3. CASE SavingStep
    <3>1. CASE JobSaved  BY <3>1, AsideSteps, EditorAside
    <3> QED BY <2>3, <3>1, SavingAside, EditorAside DEF SavingStep
  <2> QED BY <1>2, <2>1, <2>2, <2>3, EditorOpens, EditorCloses DEF EditorStep
<1> QED BY <1>1, <1>2 DEF ScreensNext

-----------------------------------------------------------------------------
(* The list *)

\* What the archive answers is of the rows alone.
LEMMA SameAnswers ==
    ASSUME active' = active, NEW q
    PROVE  ListFiles(q)' = ListFiles(q)
<1>1. Found(q.where)' = Found(q.where)  BY DEF Found
<1> QED BY <1>1 DEF ListFiles

\* Numbers are compared one way or the other.
LEMMA Below ==
    ASSUME NEW T, T \subseteq Nat, NEW s \in T, NEW t \in T
    PROVE  /\ t < s <=> ~(s <= t)
           /\ s <= t /\ s # t => s < t
<1>1. s \in Int /\ t \in Int  OBVIOUS
<1> QED BY <1>1

\* The slots a request takes are free, and two requests take two.
LEMMA FreeSlotsTaken ==
    /\ FreeSlots # {} => FreeSlot(0) \in FreeSlots
    /\ Cardinality(FreeSlots) > 1 =>
          FreeSlot(0) \in FreeSlots /\ FreeSlot(1) \in FreeSlots /\ FreeSlot(0) # FreeSlot(1)
<1>1. FreeSlots \subseteq Nat  BY ScreenAssumption DEF FreeSlots
<1>2. ASSUME FreeSlots # {}
      PROVE  /\ FreeSlot(0) \in FreeSlots /\ {t \in FreeSlots : t < FreeSlot(0)} = {}
             /\ \A t \in FreeSlots : t # FreeSlot(0) => FreeSlot(0) < t
  <2>1. PICK s \in FreeSlots : \A t \in FreeSlots : s <= t  BY <1>1, <1>2, LeastElement
  <2>2. {t \in FreeSlots : t < s} = {}  BY <1>1, <2>1, Below
  <2>3. Cardinality({t \in FreeSlots : t < s}) = 0  BY <2>2, FS_EmptySet
  <2>4. FreeSlot(0) \in FreeSlots /\ Cardinality({t \in FreeSlots : t < FreeSlot(0)}) = 0
    BY <2>3 DEF FreeSlot
  <2>5. IsFiniteSet({t \in FreeSlots : t < FreeSlot(0)})
    BY ScreenAssumption, FS_Subset DEF FreeSlots
  <2>6. {t \in FreeSlots : t < FreeSlot(0)} = {}  BY <2>4, <2>5, FS_EmptySet
  <2>7. ASSUME NEW t \in FreeSlots, t # FreeSlot(0) PROVE FreeSlot(0) < t
    <3>1. ~(t < FreeSlot(0))  BY <2>6
    <3> QED BY <1>1, <2>4, <2>7, <3>1, Below
  <2> QED BY <2>4, <2>6, <2>7
<1>3. ASSUME Cardinality(FreeSlots) > 1
      PROVE  FreeSlot(0) \in FreeSlots /\ FreeSlot(1) \in FreeSlots /\ FreeSlot(0) # FreeSlot(1)
  <2>1. FreeSlots # {}  BY <1>3, FS_EmptySet
  <2>2. /\ FreeSlot(0) \in FreeSlots /\ {t \in FreeSlots : t < FreeSlot(0)} = {}
        /\ \A t \in FreeSlots : t # FreeSlot(0) => FreeSlot(0) < t
    BY <1>2, <2>1
  <2>3. FreeSlots # {FreeSlot(0)}  BY <1>3, FS_Singleton
  <2>4. FreeSlots \ {FreeSlot(0)} \subseteq Nat /\ FreeSlots \ {FreeSlot(0)} # {}  BY <1>1, <2>2, <2>3
  <2>5. PICK s \in FreeSlots \ {FreeSlot(0)} : \A t \in FreeSlots \ {FreeSlot(0)} : s <= t
    BY <2>4, LeastElement
  <2>6. {t \in FreeSlots : t < s} = {FreeSlot(0)}
    <3>1. FreeSlot(0) < s  BY <2>2, <2>5
    <3>2. ASSUME NEW t \in FreeSlots, t # FreeSlot(0) PROVE ~(t < s)
      BY <1>1, <2>5, <3>2, Below
    <3> QED BY <2>2, <3>1, <3>2
  <2>7. Cardinality({t \in FreeSlots : t < s}) = 1  BY <2>6, FS_Singleton
  <2>8. FreeSlot(1) \in FreeSlots /\ Cardinality({t \in FreeSlots : t < FreeSlot(1)}) = 1
    BY <2>7 DEF FreeSlot
  <2>9. Cardinality({t \in FreeSlots : t < FreeSlot(0)}) = 0  BY <2>2, FS_EmptySet
  <2> QED BY <2>2, <2>8, <2>9
<1> QED BY <1>2, <1>3

LEMMA NothingIs ==
    /\ NoCall.pc = "none" /\ NoCall.kind = "none" /\ NoCall.work = None
    /\ NoWork.op = "none" /\ NoWork.pc = "none"
BY DEF NoCall, NoWork

\* A step that leaves the list, its requests and what reloads it alone.
LEMMA ListAside ==
    ASSUME ListInv, SameList, WorkRecords', UNCHANGED <<calls, doubt, active>>,
           Reloading' = Reloading, \A w \in Reloading : work'[w] = work[w],
           ~screen.ready => work' = work
    PROVE  ListInv'
<1>1. PageFields'  BY DEF ListInv, PageFields, SameList, CallRecords, AreCalls
<1>2. AliveFetches' = AliveFetches  BY DEF AliveFetches
<1>3. CallsAreOfThePage'  BY <1>2 DEF ListInv, CallsAreOfThePage, SameList
<1>4. \A s : Truthful(s)' <=> Truthful(s)  BY SameAnswers DEF Truthful
<1>5. Current' <=> Current  BY SameAnswers DEF Current, SameList
<1>6. IdleIsCurrent'  BY <1>2, <1>4, <1>5 DEF ListInv, IdleIsCurrent, SameList
<1>7. ReloadIsCurrent'  BY <1>4, <1>5 DEF ListInv, ReloadIsCurrent, SameList
<1> QED BY <1>1, <1>3, <1>6, <1>7 DEF ListInv

\* The archive has taken up a change: the list is not read again yet.
LEMMA ListOutdated ==
    ASSUME ListInv, NEW w \in Reloading, work[w].pc = "sent",
           work' = [work EXCEPT ![w].pc = "done"], UNCHANGED <<screen, calls, doubt>>
    PROVE  ListInv'
<1>1. /\ work'[w].pc = "done" /\ work'[w].op = work[w].op /\ work'[w].query = work[w].query
      /\ \A v \in Works : v # w => work'[v] = work[v]
      /\ WorkRecords'
  BY DEF ListInv, PageFields, WorkRecords, Reloading
<1>2. PageFields'  BY <1>1 DEF ListInv, PageFields, ScreenRecord, CallRecords, AreCalls
<1>3. AliveFetches' = AliveFetches /\ Query' = Query  BY DEF AliveFetches, Query
<1>4. Reloading' = Reloading  BY <1>1 DEF Reloading
<1>5. screen.ready  BY NothingIs DEF ListInv, CallsAreOfThePage, Reloading
<1>6. CallsAreOfThePage'  BY <1>1, <1>3, <1>4, <1>5 DEF ListInv, CallsAreOfThePage, Reloading
<1>7. IdleIsCurrent'  BY <1>4 DEF IdleIsCurrent
<1>8. ~doubt => Reloading = {w} /\ work[w].query = Query /\ \A s \in Slots : calls[s] = NoCall
  BY DEF ListInv, ReloadIsCurrent
<1>9. ReloadIsCurrent'
  <2> SUFFICES ASSUME ~doubt' PROVE ReloadIsCurrent'  BY DEF ReloadIsCurrent
  <2>1. Reloading' = {w} /\ work'[w].query = Query' /\ \A s \in Slots : calls'[s] = NoCall
    BY <1>1, <1>3, <1>4, <1>8
  <2> QED BY <1>1, <2>1 DEF ReloadIsCurrent
<1> QED BY <1>2, <1>6, <1>7, <1>9 DEF ListInv

\* A change was refused: the list is what it was.
LEMMA ListSpared ==
    ASSUME ListInv, SameList, NEW w \in Reloading, work[w].pc = "sent",
           work' = [work EXCEPT ![w] = NoWork], UNCHANGED <<calls, doubt, active>>
    PROVE  ListInv'
<1>1. /\ work'[w] = NoWork /\ \A v \in Works : v # w => work'[v] = work[v]
      /\ WorkRecords'
  BY DEF ListInv, PageFields, WorkRecords, Reloading, NoWork
<1>2. PageFields'  BY <1>1 DEF ListInv, PageFields, SameList, CallRecords, AreCalls
<1>3. AliveFetches' = AliveFetches  BY DEF AliveFetches
<1>4. Reloading' = Reloading \ {w}  BY <1>1, NothingIs DEF Reloading
<1>5. screen.ready  BY NothingIs DEF ListInv, CallsAreOfThePage, Reloading
<1>6. CallsAreOfThePage'  BY <1>1, <1>3, <1>4, <1>5 DEF ListInv, CallsAreOfThePage, Reloading, SameList
<1>7. ~doubt => Reloading = {w} /\ Current /\ \A s \in Slots : calls[s] = NoCall
  BY DEF ListInv, ReloadIsCurrent
<1>8. Current' <=> Current  BY SameAnswers DEF Current, SameList
<1>9. IdleIsCurrent'  BY <1>3, <1>7, <1>8, NothingIs DEF IdleIsCurrent, AliveFetches
<1>10. ReloadIsCurrent'  BY <1>4, <1>7 DEF ReloadIsCurrent
<1> QED BY <1>2, <1>6, <1>9, <1>10 DEF ListInv

\* What reloads the list is started beside nothing else, or the list is in doubt.
LEMMA ListStarts ==
    ASSUME ListInv, SameList, NEW w \in Works, NEW op, NEW target, Starts(w, op, target),
           UNCHANGED <<calls, active>>
    PROVE  ListInv'
<1> DEFINE job == [op |-> op, pc |-> "sent", target |-> target, query |-> Query]
<1>1. /\ screen.ready /\ work[w] = NoWork /\ work' = [work EXCEPT ![w] = job]
      /\ doubt' = (doubt \/ (op \in ReloadingOps /\ (Reloading # {} \/ FreeSlots # Slots)))
  BY DEF Starts, ReloadingOps
<1>2. job.op = op /\ job.pc = "sent" /\ job.query = Query
      /\ job = [op |-> job.op, pc |-> job.pc, target |-> job.target, query |-> job.query]
  OBVIOUS
<1> HIDE DEF job
<1>3. /\ work'[w] = job /\ \A v \in Works : v # w => work'[v] = work[v]
      /\ WorkRecords' /\ w \notin Reloading
  BY <1>1, <1>2, NothingIs DEF ListInv, PageFields, WorkRecords, Reloading
<1>4. CASE op \notin ReloadingOps
  <2>1. Reloading' = Reloading  BY <1>2, <1>3, <1>4 DEF Reloading, ReloadingOps
  <2>2. doubt' = doubt  BY <1>1, <1>4 DEF ListInv, PageFields
  <2> QED BY <1>1, <1>3, <2>1, <2>2, ListAside
<1>5. CASE op \in ReloadingOps
  <2>1. Reloading' = Reloading \cup {w}  BY <1>2, <1>3, <1>5 DEF Reloading, ReloadingOps
  <2>2. doubt' \in BOOLEAN /\ (~doubt' => ~doubt /\ Reloading = {} /\ FreeSlots = Slots)
    BY <1>1, <1>5 DEF ListInv, PageFields
  <2>3. PageFields'  BY <1>3, <2>2 DEF ListInv, PageFields, SameList, CallRecords, AreCalls
  <2>4. AliveFetches' = AliveFetches  BY DEF AliveFetches
  <2>5. CallsAreOfThePage'
    BY <1>1, <1>3, <2>1, <2>4 DEF ListInv, CallsAreOfThePage, Reloading, SameList
  <2>6. IdleIsCurrent'  BY <2>1 DEF IdleIsCurrent
  <2>7. ReloadIsCurrent'
    <3> SUFFICES ASSUME ~doubt' PROVE ReloadIsCurrent'  BY DEF ReloadIsCurrent
    <3>1. \A s \in Slots : calls[s] = NoCall
      BY <2>2, NothingIs DEF FreeSlots, ListInv, CallsAreOfThePage
    <3>2. Current  BY <1>1, <2>2, <3>1, NothingIs DEF ListInv, IdleIsCurrent, AliveFetches
    <3>3. Current'  BY <3>2, SameAnswers DEF Current, SameList
    <3>4. Reloading' = {w} /\ work'[w].query = Query' /\ work'[w].pc = "sent"
      BY <1>2, <1>3, <2>1, <2>2 DEF SameList
    <3> QED BY <3>1, <3>3, <3>4 DEF ReloadIsCurrent
  <2> QED BY <2>3, <2>5, <2>6, <2>7 DEF ListInv
<1> QED BY <1>4, <1>5

\* The list is asked for by what has changed it.
LEMMA ListReloads ==
    ASSUME ListInv, NEW w \in Reloading, work[w].pc = "done", ReloadSent(w), UNCHANGED active
    PROVE  ListInv'
<1> PICK n, call : n = FreeSlot(0) /\ call = Sent("reload", work[w].query, w)  OBVIOUS
<1>1. /\ n \in FreeSlots /\ calls' = [calls EXCEPT ![n] = call]
      /\ work' = [work EXCEPT ![w].pc = "reload"] /\ screen' = [screen EXCEPT !.loading = TRUE]
      /\ doubt' = doubt
  BY FreeSlotsTaken DEF ReloadSent
<1>2. /\ call.pc = "sent" /\ call.kind = "reload" /\ call.query = work[w].query /\ call.work = w
      /\ call = [pc |-> call.pc, kind |-> call.kind, query |-> call.query, answer |-> call.answer,
                 alive |-> call.alive, work |-> call.work]
  BY DEF Sent
<1>3. n \in Slots /\ calls[n].pc = "none" /\ calls[n] = NoCall
  BY <1>1 DEF FreeSlots, ListInv, CallsAreOfThePage
<1>4. /\ calls'[n] = call /\ \A s \in Slots : s # n => calls'[s] = calls[s]
      /\ CallRecords'
  BY <1>1, <1>2, <1>3 DEF ListInv, PageFields, CallRecords, AreCalls
<1>5. /\ work'[w].pc = "reload" /\ work'[w].op = work[w].op /\ work'[w].query = work[w].query
      /\ \A v \in Works : v # w => work'[v] = work[v]
      /\ WorkRecords'
  BY <1>1 DEF ListInv, PageFields, WorkRecords, Reloading
<1>6. screen'.ready = screen.ready /\ Query' = Query /\ ScreenRecord'
  BY <1>1 DEF ListInv, PageFields, ScreenRecord, IsScreen, Query, QueryOf
<1>7. Reloading' = Reloading  BY <1>5 DEF Reloading
<1>8. AliveFetches' = AliveFetches  BY <1>2, <1>3, <1>4, NothingIs DEF AliveFetches
<1>9. screen.ready  BY NothingIs DEF ListInv, CallsAreOfThePage, Reloading
<1>10. CallsAreOfThePage'
  <2>1. \A s \in Slots : calls'[s].kind = "reload" /\ s # n =>
            calls[s].kind = "reload" /\ calls'[s] = calls[s] /\ calls[s].work # w
    BY <1>4 DEF ListInv, CallsAreOfThePage
  <2>2. \A s \in Slots : calls'[s].kind = "reload" =>
            calls'[s].work \in Reloading' /\ work'[calls'[s].work].pc = "reload"
    BY <1>2, <1>4, <1>5, <1>7, <2>1 DEF ListInv, CallsAreOfThePage, Reloading
  <2>3. \A s, t \in Slots : calls'[s].kind = "reload" /\ calls'[t].kind = "reload"
                              /\ calls'[s].work = calls'[t].work => s = t
    BY <1>2, <1>4, <2>1 DEF ListInv, CallsAreOfThePage
  <2> QED BY <1>2, <1>3, <1>4, <1>6, <1>8, <1>9, <2>2, <2>3 DEF ListInv, CallsAreOfThePage, AliveFetches
<1>11. IdleIsCurrent'  BY <1>7 DEF IdleIsCurrent
<1>12. ReloadIsCurrent'
  <2> SUFFICES ASSUME ~doubt PROVE ReloadIsCurrent'  BY <1>1 DEF ReloadIsCurrent
  <2>1. Reloading' = {w} /\ work[w].query = Query /\ \A s \in Slots : calls[s] = NoCall
    BY <1>7 DEF ListInv, ReloadIsCurrent
  <2>2. \A s \in Slots : \/ calls'[s] = NoCall
                         \/ s = n /\ calls'[s] = call
    BY <1>4, <2>1
  <2>3. Truthful(n)'  BY <1>2, <1>4 DEF Truthful
  <2> QED BY <1>2, <1>5, <1>6, <2>1, <2>2, <2>3 DEF ReloadIsCurrent
<1> QED BY <1>1, <1>4, <1>5, <1>6, <1>10, <1>11, <1>12 DEF ListInv, PageFields

\* The answer is what the archive holds when it is asked.
LEMMA ListIsServed ==
    ASSUME ListInv, NEW s \in Slots, ListServed(s), UNCHANGED active
    PROVE  ListInv'
<1> PICK answer : answer = ListFiles(calls[s].query)  OBVIOUS
<1> PICK call : call = [calls[s] EXCEPT !.pc = "served", !.answer = answer]  OBVIOUS
<1>0. /\ calls[s].pc = "sent" /\ UNCHANGED <<screen, work, doubt>>
      /\ calls' = [calls EXCEPT ![s] = call]
  BY DEF ListServed
<1>1. call = [pc |-> "served", kind |-> calls[s].kind, query |-> calls[s].query, answer |-> answer,
              alive |-> calls[s].alive, work |-> calls[s].work]
  <2>1. calls[s] = [pc |-> calls[s].pc, kind |-> calls[s].kind, query |-> calls[s].query,
                    answer |-> calls[s].answer, alive |-> calls[s].alive, work |-> calls[s].work]
    BY DEF ListInv, PageFields, CallRecords, AreCalls
  <2> QED BY <2>1
<1>2. /\ calls'[s].pc = "served" /\ calls'[s].answer = answer /\ calls'[s].kind = calls[s].kind
      /\ calls'[s].query = calls[s].query /\ calls'[s].alive = calls[s].alive /\ calls'[s].work = calls[s].work
      /\ \A t \in Slots : t # s => calls'[t] = calls[t]
      /\ CallRecords'
  BY <1>0, <1>1 DEF ListInv, PageFields, CallRecords, AreCalls
<1>3. Query' = Query /\ Reloading' = Reloading /\ AliveFetches' = AliveFetches
  <2>1. Query' = Query /\ Reloading' = Reloading  BY <1>0 DEF Query, Reloading
  <2>2. \A t \in Slots : calls'[t].kind = calls[t].kind /\ calls'[t].alive = calls[t].alive  BY <1>2
  <2> QED BY <2>1, <2>2 DEF AliveFetches
<1>4. calls[s] # NoCall  BY <1>0, NothingIs
<1>5. CallsAreOfThePage'  BY <1>0, <1>2, <1>3, <1>4 DEF ListInv, CallsAreOfThePage
<1>6. \A t \in Slots : Truthful(t) => Truthful(t)'
  BY <1>2, SameAnswers DEF Truthful
<1>7. Current' <=> Current  BY <1>0, <1>3, SameAnswers DEF Current
<1>8. IdleIsCurrent'  BY <1>0, <1>3, <1>6, <1>7 DEF ListInv, IdleIsCurrent, AliveFetches
<1>9. ReloadIsCurrent'  BY <1>0, <1>2, <1>3, <1>4, <1>6, <1>7 DEF ListInv, ReloadIsCurrent
<1> QED BY <1>0, <1>2, <1>5, <1>8, <1>9 DEF ListInv, PageFields, ScreenRecord, WorkRecords

\* An answer that counts is the one to what the controls show, unless the list is in doubt.
LEMMA ListIsAnswered ==
    ASSUME ListInv, NEW s \in Slots, NEW ok \in BOOLEAN, ListAnswered(s, ok), UNCHANGED active
    PROVE  ListInv'
<1> PICK call : call = calls[s]  OBVIOUS
<1>1. calls[s].pc = "served" /\ calls' = [calls EXCEPT ![s] = NoCall]  BY DEF ListAnswered
<1>2. /\ calls'[s] = NoCall /\ \A t \in Slots : t # s => calls'[t] = calls[t]
      /\ CallRecords'
  BY <1>1 DEF ListInv, PageFields, CallRecords, AreCalls, NoCall
<1>3. /\ call.kind \in {"fetch", "reload"} /\ screen.ready /\ call # NoCall
      /\ call.kind = "fetch" => call.work = None
      /\ call.kind = "reload" => call.work \in Reloading /\ work[call.work].pc = "reload"
  BY <1>1, NothingIs DEF ListInv, CallsAreOfThePage
<1>4. AliveFetches' = AliveFetches \ {s}
  <2>1. s \notin AliveFetches'  BY <1>2, NothingIs DEF AliveFetches
  <2>2. \A t \in Slots : t # s => (t \in AliveFetches' <=> t \in AliveFetches)  BY <1>2 DEF AliveFetches
  <2> QED BY <2>1, <2>2 DEF AliveFetches
<1>5. CASE call.kind = "fetch" /\ ~call.alive
  <2>1. UNCHANGED <<screen, doubt, work>>
    BY <1>3, <1>5 DEF ListAnswered, Counts
  <2>2. Query' = Query /\ Reloading' = Reloading /\ s \notin AliveFetches
    BY <1>5, <2>1 DEF Query, Reloading, AliveFetches
  <2>3. PageFields'  BY <1>2, <2>1 DEF ListInv, PageFields, ScreenRecord, WorkRecords
  <2>4. AliveFetches' = AliveFetches  BY <1>4, <2>2
  <2>5. CallsAreOfThePage'
    BY <1>2, <1>3, <2>1, <2>2, <2>4, NothingIs DEF ListInv, CallsAreOfThePage, AliveFetches
  <2>6. Current' <=> Current  BY <2>1, <2>2, SameAnswers DEF Current
  <2>7. \A t \in Slots : Truthful(t) => Truthful(t)'
    BY <1>2, NothingIs, SameAnswers DEF Truthful
  <2>8. IdleIsCurrent'  BY <2>1, <2>2, <2>4, <2>6, <2>7 DEF ListInv, IdleIsCurrent, AliveFetches
  <2>9. ReloadIsCurrent'
    BY <1>2, <2>1, <2>2, <2>6, <2>7, NothingIs DEF ListInv, ReloadIsCurrent
  <2> QED BY <2>3, <2>5, <2>8, <2>9 DEF ListInv
<1>6. ASSUME NEW uploading, Counts(call),
             screen' = [screen EXCEPT !.loading = FALSE, !.result = IF ok THEN call.answer ELSE @,
                                      !.uploading = uploading]
      PROVE  /\ ScreenRecord' /\ Query' = Query /\ screen'.ready = screen.ready
             /\ screen'.loading = FALSE /\ (ok => screen'.result = call.answer)
  BY <1>6 DEF ListInv, PageFields, ScreenRecord, IsScreen, Query, QueryOf
<1>7. CASE Counts(call)
  <2> DEFINE uploading == screen.uploading /\ ~(call.work \in Works /\ work[call.work].op = "upload")
  <2>1. /\ screen' = [screen EXCEPT !.loading = FALSE, !.result = IF ok THEN call.answer ELSE @,
                                    !.uploading = uploading]
        /\ doubt' = (doubt \/ ~ok)
    BY <1>7 DEF ListAnswered
  <2> HIDE DEF uploading
  <2>2. /\ ScreenRecord' /\ Query' = Query /\ screen'.ready = screen.ready
        /\ screen'.loading = FALSE /\ (ok => screen'.result = call.answer)
    BY <1>6, <1>7, <2>1
  <2>3. doubt' \in BOOLEAN /\ (~doubt' => ~doubt /\ ok)  BY <2>1 DEF ListInv, PageFields
  <2>4. ASSUME ~doubt', call.query = Query, Truthful(s) PROVE Current'
    <3>1. call.answer = ListFiles(Query)  BY <1>1, <2>4 DEF Truthful
    <3>2. ListFiles(Query)' = ListFiles(Query)  BY <2>2, SameAnswers
    <3> QED BY <2>2, <2>3, <2>4, <3>1, <3>2 DEF Current
  <2>5. CASE call.kind = "fetch"
    <3>1. call.alive /\ s \in AliveFetches  BY <1>7, <2>5 DEF Counts, AliveFetches
    <3>2. work' = work  BY <1>3, <2>5 DEF ListAnswered
    <3>3. Reloading' = Reloading /\ AliveFetches' = {} /\ call.query = Query
      BY <1>4, <3>1, <3>2 DEF Reloading, ListInv, CallsAreOfThePage
    <3>4. PageFields'  BY <1>2, <2>2, <2>3, <3>2 DEF ListInv, PageFields, WorkRecords
    <3>5. CallsAreOfThePage'
      BY <1>2, <1>3, <2>2, <3>2, <3>3, NothingIs DEF ListInv, CallsAreOfThePage
    <3>6. ~doubt => Reloading = {}
      BY <1>1, <1>3, <2>5, NothingIs DEF ListInv, ReloadIsCurrent
    <3>7. IdleIsCurrent'
      <4> SUFFICES ASSUME ~doubt' PROVE IdleIsCurrent'  BY DEF IdleIsCurrent
      <4>1. Truthful(s)  BY <1>3, <2>3, <3>1, <3>6 DEF ListInv, IdleIsCurrent
      <4>2. Current'  BY <2>4, <3>3, <4>1
      <4> QED BY <3>3, <4>2 DEF IdleIsCurrent
    <3>8. ReloadIsCurrent'  BY <2>3, <3>3, <3>6 DEF ReloadIsCurrent
    <3> QED BY <3>4, <3>5, <3>7, <3>8 DEF ListInv
  <2>6. CASE call.kind = "reload"
    <3> PICK w \in Reloading : w = call.work  BY <1>3, <2>6
    <3>1. w # None /\ w \in Works /\ work' = [work EXCEPT ![w] = NoWork]
      BY ScreenAssumption DEF ListAnswered, Reloading
    <3>2. /\ work'[w] = NoWork /\ \A v \in Works : v # w => work'[v] = work[v]
          /\ WorkRecords'
      BY <3>1 DEF ListInv, PageFields, WorkRecords, NoWork
    <3>3. Reloading' = Reloading \ {w}  BY <3>2, NothingIs DEF Reloading
    <3>4. PageFields'  BY <1>2, <2>2, <2>3, <3>2 DEF ListInv, PageFields
    <3>5. \A t \in Slots : calls'[t].kind = "reload" =>
              /\ calls'[t] = calls[t] /\ calls[t].kind = "reload"
              /\ calls[t].work # w /\ calls[t].work \in Reloading /\ work[calls[t].work].pc = "reload"
      BY <1>2, <2>6, NothingIs DEF ListInv, CallsAreOfThePage
    <3>6. CallsAreOfThePage'
      <4>1. \A t \in Slots : calls'[t].kind = "reload" =>
                calls'[t].work \in Reloading' /\ work'[calls'[t].work].pc = "reload"
        BY <3>2, <3>3, <3>5 DEF Reloading
      <4>2. \A t, u \in Slots : calls'[t].kind = "reload" /\ calls'[u].kind = "reload"
                                   /\ calls'[t].work = calls'[u].work => t = u
        BY <3>5 DEF ListInv, CallsAreOfThePage
      <4> QED BY <1>2, <1>3, <1>4, <2>2, <4>1, <4>2, NothingIs DEF ListInv, CallsAreOfThePage, AliveFetches
    <3>7. ~doubt => /\ Reloading = {w} /\ call.query = Query /\ Truthful(s)
                    /\ \A t \in Slots : calls[t] = NoCall \/ (calls[t].work = w /\ calls[t].kind = "reload")
      BY <1>1, <1>3, NothingIs DEF ListInv, ReloadIsCurrent
    <3>8. IdleIsCurrent'
      <4> SUFFICES ASSUME ~doubt' PROVE IdleIsCurrent'  BY DEF IdleIsCurrent
      <4>1. Current'  BY <2>3, <2>4, <3>7
      <4>2. \A t \in Slots : calls'[t].kind # "fetch"  BY <1>2, <2>3, <3>7, NothingIs
      <4> QED BY <4>1, <4>2 DEF IdleIsCurrent, AliveFetches
    <3>9. ReloadIsCurrent'  BY <2>3, <3>3, <3>7 DEF ReloadIsCurrent
    <3> QED BY <3>4, <3>6, <3>8, <3>9 DEF ListInv
  <2> QED BY <1>3, <2>5, <2>6
<1> QED BY <1>3, <1>5, <1>7 DEF Counts

\* The effect that asks for the list cuts off the requests it has sent before.
LEMMA EffectAsks ==
    ASSUME ListInv, NEW next, NEW busy, Renders(next, busy), NEW final,
           final = IF [QueryOf(next) EXCEPT !.page = 1] # [Query EXCEPT !.page = 1]
                   THEN [next EXCEPT !.page = 1] ELSE next,
           ~(~next.ready \/ (screen.ready /\ QueryOf(final) = Query))
    PROVE  /\ screen' = [final EXCEPT !.loading = TRUE] /\ doubt' = (busy # {})
           /\ CallRecords'
           /\ \E n \in Slots : /\ calls'[n] = Sent("fetch", QueryOf(final), None)
                               /\ CutOff(calls', n)
<1> PICK fetch, cut, zero, one :
        /\ fetch = Sent("fetch", QueryOf(final), None)
        /\ cut = Cut(calls) /\ zero = FreeSlot(0) /\ one = FreeSlot(1)
  OBVIOUS
<1>0. PICK first : first = [Sent("fetch", QueryOf(next), None) EXCEPT !.alive = FALSE]
  OBVIOUS
<1>1. /\ screen' = [final EXCEPT !.loading = TRUE] /\ doubt' = (busy # {})
      /\ \/ /\ Cardinality(FreeSlots) > 1
            /\ calls' = [cut EXCEPT ![zero] = first, ![one] = fetch]
         \/ FreeSlots # {} /\ calls' = [cut EXCEPT ![zero] = fetch]
  BY <1>0 DEF Renders
<1>2. fetch = [pc |-> fetch.pc, kind |-> fetch.kind, query |-> fetch.query, answer |-> fetch.answer,
               alive |-> fetch.alive, work |-> fetch.work]
  BY DEF Sent
<1>3. /\ first.kind = "fetch" /\ first.pc \in {"sent", "served"} /\ first.alive = FALSE /\ first.work = None
      /\ first = [pc |-> first.pc, kind |-> first.kind, query |-> first.query, answer |-> first.answer,
                  alive |-> first.alive, work |-> first.work]
  <2>1. first = [pc |-> "sent", kind |-> "fetch", query |-> QueryOf(next), answer |-> None, alive |-> FALSE,
                 work |-> None]
    BY <1>0 DEF Sent
  <2> QED BY <2>1
<1>4. AreCalls(cut) /\ \A n : CutOff(cut, n)
  <2>1. ASSUME NEW s \in Slots
        PROVE  /\ cut[s] = [pc |-> cut[s].pc, kind |-> cut[s].kind, query |-> cut[s].query,
                            answer |-> cut[s].answer, alive |-> cut[s].alive, work |-> cut[s].work]
               /\ \/ calls[s].kind # "fetch" /\ cut[s] = calls[s]
                  \/ /\ cut[s].kind = "fetch" /\ cut[s].pc \in {"sent", "served"}
                     /\ cut[s].alive = FALSE /\ cut[s].work = None
    <3>1. calls[s] = [pc |-> calls[s].pc, kind |-> calls[s].kind, query |-> calls[s].query,
                      answer |-> calls[s].answer, alive |-> calls[s].alive, work |-> calls[s].work]
      BY DEF ListInv, PageFields, CallRecords, AreCalls
    <3>2. calls[s].kind = "fetch" => calls[s].pc \in {"sent", "served"} /\ calls[s].work = None
      BY NothingIs DEF ListInv, CallsAreOfThePage
    <3>3. CASE calls[s].kind = "fetch"
      <4>1. cut[s] = [calls[s] EXCEPT !.alive = FALSE]  BY <3>3 DEF Cut
      <4> QED BY <3>1, <3>2, <3>3, <4>1
    <3>4. CASE calls[s].kind # "fetch"
      <4>1. cut[s] = calls[s]  BY <3>4 DEF Cut
      <4> QED BY <3>1, <3>4, <4>1
    <3> QED BY <3>3, <3>4
  <2>2. cut = [s \in Slots |-> cut[s]]  BY DEF Cut
  <2>3. AreCalls(cut)  BY <2>1, <2>2 DEF AreCalls
  <2> QED BY <2>1, <2>3 DEF CutOff
<1>5. ASSUME NEW n \in Slots, NEW cs, calls' = [cs EXCEPT ![n] = fetch], AreCalls(cs), CutOff(cs, n)
      PROVE  CallRecords' /\ calls'[n] = fetch /\ CutOff(calls', n)
  <2>1. calls'[n] = fetch /\ \A s \in Slots \ {n} : calls'[s] = cs[s]  BY <1>5 DEF AreCalls
  <2>2. CallRecords'  BY <1>2, <1>5 DEF CallRecords, AreCalls
  <2> QED BY <1>5, <2>1, <2>2 DEF CutOff
<1>6. \E n \in Slots : CallRecords' /\ calls'[n] = fetch /\ CutOff(calls', n)
  <2>1. CASE FreeSlots # {} /\ calls' = [cut EXCEPT ![zero] = fetch]
    <3>1. zero \in Slots  BY <2>1, FreeSlotsTaken DEF FreeSlots
    <3> QED BY <1>4, <1>5, <2>1, <3>1
  <2>2. CASE Cardinality(FreeSlots) > 1 /\ calls' = [cut EXCEPT ![zero] = first, ![one] = fetch]
    <3> PICK other : other = [cut EXCEPT ![zero] = first]  OBVIOUS
    <3>1. zero \in Slots /\ one \in Slots  BY <2>2, FreeSlotsTaken DEF FreeSlots
    <3>2. calls' = [other EXCEPT ![one] = fetch]  BY <2>2
    <3>3. other[zero] = first /\ \A s \in Slots : s # zero => other[s] = cut[s]
      BY <1>4, <3>1 DEF AreCalls
    <3>4. AreCalls(other)
      <4>1. first = [pc |-> first.pc, kind |-> first.kind, query |-> first.query, answer |-> first.answer,
                     alive |-> first.alive, work |-> first.work]
        BY <1>3
      <4> QED BY <1>4, <3>1, <4>1 DEF AreCalls
    <3>5. CutOff(other, one)
      <4> SUFFICES ASSUME NEW s \in Slots
                   PROVE  \/ calls[s].kind # "fetch" /\ other[s] = calls[s]
                          \/ /\ other[s].kind = "fetch" /\ other[s].pc \in {"sent", "served"}
                             /\ other[s].alive = FALSE /\ other[s].work = None
        BY DEF CutOff
      <4>1. CASE s = zero  BY <1>3, <3>3, <4>1
      <4>2. CASE s # zero
        <5>1. other[s] = cut[s] /\ CutOff(cut, zero)  BY <1>4, <3>3, <4>2
        <5> QED BY <4>2, <5>1 DEF CutOff
      <4> QED BY <4>1, <4>2
    <3> QED BY <1>5, <3>1, <3>2, <3>4, <3>5
  <2> QED BY <1>1, <2>1, <2>2
<1> QED BY <1>1, <1>6

\* The list is what is shown or what is asked for, whatever a render has changed.
LEMMA ListIsRendered ==
    ASSUME ListInv, NEW next, NEW busy, Renders(next, busy), Rendering(next, busy), UNCHANGED active
    PROVE  ListInv'
<1>1. PICK final : final = IF [QueryOf(next) EXCEPT !.page = 1] # [Query EXCEPT !.page = 1]
                           THEN [next EXCEPT !.page = 1] ELSE next
  OBVIOUS
<1>2. /\ IsScreen(final) /\ final.ready = next.ready /\ final.result = screen.result
      /\ final.loading = screen.loading /\ (next.page = 1 => final.page = 1)
  <2>1. CASE final = next  BY <2>1 DEF Rendering
  <2>2. CASE final = [next EXCEPT !.page = 1]  BY <2>2 DEF Rendering, IsScreen
  <2> QED BY <1>1, <2>1, <2>2
<1>3. /\ WorkRecords' /\ Reloading' = busy
      /\ \A w \in Works : w \in Reloading /\ work[w].pc # "done" => work'[w] = work[w]
  BY DEF Rendering, Reloading
<1>4. \A s \in Slots : calls[s].kind = "reload" =>
          LET w == calls[s].work
          IN  w \in Reloading' /\ work'[w] = work[w] /\ work'[w].pc = "reload"
  BY <1>3 DEF ListInv, CallsAreOfThePage, Reloading
<1>5. CASE ~(~next.ready \/ (screen.ready /\ QueryOf(final) = Query))
  <2>1. /\ screen' = [final EXCEPT !.loading = TRUE] /\ doubt' = (busy # {})
        /\ CallRecords'
    BY <1>1, <1>5, EffectAsks
  <2>2. PICK n \in Slots : calls'[n] = Sent("fetch", QueryOf(final), None) /\ CutOff(calls', n)
    BY <1>1, <1>5, EffectAsks
  <2>3. ScreenRecord' /\ screen'.ready = TRUE /\ Query' = QueryOf(final)
    BY <1>2, <1>5, <2>1 DEF Rendering, ScreenRecord, IsScreen, Query, QueryOf
  <2>4. PageFields'  BY <1>3, <2>1, <2>3 DEF PageFields
  <2>5. /\ calls'[n].pc = "sent" /\ calls'[n].kind = "fetch" /\ calls'[n].alive = TRUE
        /\ calls'[n].query = Query' /\ calls'[n].work = None
    BY <2>2, <2>3 DEF Sent
  <2>6. \A s \in Slots : calls'[s].kind = "reload" => s # n /\ calls'[s] = calls[s]
    BY <2>2, <2>5 DEF CutOff
  <2>7. AliveFetches' = {n}
    <3>1. \A s \in Slots : s # n => ~(calls'[s].kind = "fetch" /\ calls'[s].alive)
      BY <2>2 DEF CutOff
    <3> QED BY <2>5, <3>1 DEF AliveFetches
  <2>8. CallsAreOfThePage'
    <3>1. \A s \in Slots : \/ calls'[s] = NoCall
                           \/ calls'[s].pc \in {"sent", "served"} /\ calls'[s].kind \in {"fetch", "reload"}
      BY <2>2, <2>5 DEF CutOff, ListInv, CallsAreOfThePage
    <3>2. \A s \in Slots : calls'[s].kind = "fetch" => calls'[s].work = None
      BY <2>2, <2>5 DEF CutOff
    <3>3. \A s \in Slots : calls'[s].kind = "reload" =>
              calls'[s].work \in Reloading' /\ work'[calls'[s].work].pc = "reload"
      BY <1>4, <2>6
    <3>4. \A s, t \in Slots : calls'[s].kind = "reload" /\ calls'[t].kind = "reload"
                                /\ calls'[s].work = calls'[t].work => s = t
      BY <2>6 DEF ListInv, CallsAreOfThePage
    <3> QED BY <2>3, <2>5, <2>7, <3>1, <3>2, <3>3, <3>4 DEF CallsAreOfThePage
  <2>9. IdleIsCurrent'  BY <2>5, <2>7 DEF IdleIsCurrent, Truthful
  <2>10. ReloadIsCurrent'  BY <1>3, <2>1 DEF ReloadIsCurrent
  <2> QED BY <2>4, <2>8, <2>9, <2>10 DEF ListInv
<1>6. CASE ~next.ready \/ (screen.ready /\ QueryOf(final) = Query)
  <2>1. screen' = final /\ UNCHANGED <<calls, doubt>>  BY <1>1, <1>6 DEF Renders
  <2>2. ScreenRecord' /\ Query' = QueryOf(final) /\ screen'.ready = next.ready
    BY <1>2, <2>1 DEF ScreenRecord, Query
  <2>3. PageFields'  BY <1>3, <2>1, <2>2 DEF Rendering, ListInv, PageFields, CallRecords, AreCalls
  <2>4. AliveFetches' = AliveFetches  BY <2>1 DEF AliveFetches
  <2>5. CASE ~next.ready
    <3>1. ~screen.ready /\ calls = [s \in Slots |-> NoCall] /\ work = [w \in Works |-> NoWork]
      BY <2>5 DEF Rendering, ListInv, PageFields, CallsAreOfThePage
    <3>2. Reloading = {} /\ AliveFetches = {}  BY <3>1, NothingIs DEF Reloading, AliveFetches
    <3>3. \A w \in Works : work'[w] = work[w]  BY <3>2 DEF Rendering
    <3>4. work' = [w \in Works |-> NoWork]  BY <1>3, <3>1, <3>3 DEF WorkRecords
    <3>5. Reloading' = {}  BY <3>4, NothingIs DEF Reloading
    <3>6. CallsAreOfThePage'
      BY <2>1, <2>4, <3>1, <3>2, <3>4, NothingIs DEF CallsAreOfThePage
    <3>7. IdleIsCurrent'  BY <2>2, <2>5 DEF IdleIsCurrent
    <3>8. ReloadIsCurrent'  BY <3>5 DEF ReloadIsCurrent
    <3> QED BY <2>3, <3>6, <3>7, <3>8 DEF ListInv
  <2>6. CASE next.ready /\ doubt
    <3>1. Query' = Query /\ screen'.ready  BY <1>6, <2>2, <2>6
    <3>2. CallsAreOfThePage'
      BY <1>4, <2>1, <2>4, <3>1 DEF ListInv, CallsAreOfThePage
    <3>3. IdleIsCurrent' /\ ReloadIsCurrent'  BY <2>1, <2>6 DEF IdleIsCurrent, ReloadIsCurrent
    <3> QED BY <2>3, <3>2, <3>3 DEF ListInv
  <2>7. CASE next.ready /\ ~doubt
    <3>1. screen.ready /\ Query' = Query  BY <1>6, <2>2, <2>7
    <3>2. final.page = screen.page  BY <3>1, <2>2 DEF Query, QueryOf
    <3>3. work' = work  BY <1>2, <2>7, <3>2 DEF Rendering
    <3>4. SameList  BY <1>2, <2>1, <2>2, <2>7, <3>1 DEF SameList, Rendering, ListInv, PageFields
    <3>5. Reloading' = Reloading  BY <3>3 DEF Reloading
    <3> QED BY <1>3, <2>1, <3>3, <3>4, <3>5, ListAside
  <2> QED BY <2>5, <2>6, <2>7
<1> QED BY <1>5, <1>6

LEMMA SameScreen ==
    ASSUME ListInv, UNCHANGED screen
    PROVE  SameList
BY DEF ListInv, PageFields, SameList, ScreenRecord, Query

\* What the list does not depend on: the form, the collections.
LEMMA SameBut ==
    ASSUME ListInv, NEW uploading, NEW known, NEW chosen,
           screen' = [screen EXCEPT !.uploading = uploading, !.known = known, !.chosen = chosen]
    PROVE  SameList
BY DEF ListInv, PageFields, SameList, ScreenRecord, IsScreen, Query, QueryOf

LEMMA FormIsAside ==
    ASSUME ListInv,
           \/ \E uploading : screen' = [screen EXCEPT !.uploading = uploading]
           \/ \E known, chosen : screen' = [screen EXCEPT !.known = known, !.chosen = chosen]
           \/ \E chosen : screen' = [screen EXCEPT !.chosen = chosen]
    PROVE  SameList
<1>1. IsScreen(screen)  BY DEF ListInv, PageFields, ScreenRecord
<1>2. ASSUME NEW uploading, screen' = [screen EXCEPT !.uploading = uploading] PROVE SameList
  <2>1. screen' = [screen EXCEPT !.uploading = uploading, !.known = screen.known, !.chosen = screen.chosen]
    BY <1>1, <1>2 DEF IsScreen
  <2> QED BY <2>1, SameBut
<1>3. ASSUME NEW known, NEW chosen, screen' = [screen EXCEPT !.known = known, !.chosen = chosen] PROVE SameList
  <2>1. screen' = [screen EXCEPT !.uploading = screen.uploading, !.known = known, !.chosen = chosen]
    BY <1>1, <1>3 DEF IsScreen
  <2> QED BY <2>1, SameBut
<1>4. ASSUME NEW chosen, screen' = [screen EXCEPT !.chosen = chosen] PROVE SameList
  <2>1. screen' = [screen EXCEPT !.uploading = screen.uploading, !.known = screen.known, !.chosen = chosen]
    BY <1>1, <1>4 DEF IsScreen
  <2> QED BY <2>1, SameBut
<1> QED BY <1>2, <1>3, <1>4

\* A control of the page, its start, the timer of a typed field.
LEMMA ControlsUsed ==
    ASSUME ListInv, UNCHANGED active, ControlUsed \/ Mounts \/ TypingSettles
    PROVE  ListInv'
<1> DEFINE Controls(next) == /\ IsScreen(next) /\ next.ready \in BOOLEAN /\ (screen.ready => next.ready)
                             /\ next.result = screen.result /\ next.loading = screen.loading
<1>1. IsScreen(screen) /\ screen.ready \in BOOLEAN
  BY DEF ListInv, PageFields, ScreenRecord
<1>2. ASSUME NEW next, Renders(next, Reloading), Controls(next), work' = work
      PROVE  ListInv'
  <2>1. WorkRecords' /\ Reloading' = Reloading  BY <1>2 DEF ListInv, PageFields, WorkRecords, Reloading
  <2>2. Rendering(next, Reloading)  BY <1>2, <2>1 DEF Rendering
  <2> QED BY <1>2, <2>2, ListIsRendered
<1>3. ASSUME NEW c, CriterionToggled(c) PROVE ListInv'
  <2>1. PICK where, next : Changes(next) /\ next = [screen EXCEPT !.where = where]
    BY <1>3 DEF CriterionToggled
  <2>2. Controls(next)  BY <1>1, <2>1 DEF IsScreen
  <2> QED BY <1>2, <2>1, <2>2 DEF Changes
<1>4. ASSUME NEW c, QuickView(c) PROVE ListInv'
  <2>1. CASE c = "new"
    <3>1. PICK next : Changes(next) /\ next = [screen EXCEPT !.where = {}, !.chosen = None, !.sort = "createdAt",
                                                             !.order = "desc"]
      BY <1>4, <2>1 DEF QuickView
    <3>2. Controls(next)  BY <1>1, <3>1 DEF IsScreen
    <3> QED BY <1>2, <3>1, <3>2 DEF Changes
  <2>2. CASE c # "new"
    <3>1. PICK next : Changes(next) /\ next = [screen EXCEPT !.where = {c}, !.chosen = None]
      BY <1>4, <2>2 DEF QuickView
    <3>2. Controls(next)  BY <1>1, <3>1 DEF IsScreen
    <3> QED BY <1>2, <3>1, <3>2 DEF Changes
  <2> QED BY <2>1, <2>2
<1>5. CASE FiltersCleared
  <2>1. PICK where, next : Changes(next) /\ next = [screen EXCEPT !.where = where]
    BY <1>5 DEF FiltersCleared
  <2>2. Controls(next)  BY <1>1, <2>1 DEF IsScreen
  <2> QED BY <1>2, <2>1, <2>2 DEF Changes
<1>6. ASSUME NEW field, SortedBy(field) PROVE ListInv'
  <2>1. PICK order, next : Changes(next) /\ next = [screen EXCEPT !.sort = field, !.order = order]
    BY <1>6 DEF SortedBy
  <2>2. Controls(next)  BY <1>1, <2>1 DEF IsScreen
  <2> QED BY <1>2, <2>1, <2>2 DEF Changes
<1>7. ASSUME NEW forward, PageTurned(forward) PROVE ListInv'
  <2>1. PICK page, next : Changes(next) /\ next = [screen EXCEPT !.page = page]
    BY <1>7 DEF PageTurned
  <2>2. Controls(next)  BY <1>1, <2>1 DEF IsScreen
  <2> QED BY <1>2, <2>1, <2>2 DEF Changes
<1>8. ASSUME NEW c, CollectionOpened(c) PROVE ListInv'
  <2>1. PICK where, sort, order, next :
           Changes(next) /\ next = [screen EXCEPT !.chosen = c, !.where = where, !.sort = sort, !.order = order]
    BY <1>8 DEF CollectionOpened
  <2>2. Controls(next)  BY <1>1, <2>1 DEF IsScreen
  <2> QED BY <1>2, <2>1, <2>2 DEF Changes
<1>9. CASE Mounts
  <2>1. PICK next : next = [screen EXCEPT !.ready = TRUE] /\ Renders(next, Reloading) /\ work' = work
    BY <1>9 DEF Mounts
  <2>2. Controls(next)  BY <1>1, <2>1 DEF IsScreen
  <2> QED BY <1>2, <2>1, <2>2
<1>10. CASE TypingSettles
  <2>1. PICK settled, next : /\ next = [screen EXCEPT !.settled = settled] /\ Renders(next, Reloading)
                             /\ work' = work
    BY <1>10 DEF TypingSettles
  <2>2. Controls(next)  BY <1>1, <2>1 DEF IsScreen
  <2> QED BY <1>2, <2>1, <2>2
<1> QED BY <1>3, <1>4, <1>5, <1>6, <1>7, <1>8, <1>9, <1>10 DEF ControlUsed

\* The steps of what was started.
LEMMA WorkKeepsTheList ==
    ASSUME ListInv, NEW w \in Works,
           \/ WorkStarted(w) \/ WorkServed(w) \/ WorkRefused(w)
           \/ UNCHANGED active /\ (UploadShown(w) \/ DeletionShown(w) \/ NamesListed(w))
    PROVE  ListInv'
<1>1. ASSUME WorkStarted(w) PROVE ListInv'
  <2>1. ASSUME NEW f, UploadStarted(w, f) PROVE ListInv'
    <3>1. Starts(w, "upload", f) /\ UNCHANGED <<calls, active>> /\ screen' = [screen EXCEPT !.uploading = TRUE]
      BY <2>1 DEF UploadStarted, archiveVars
    <3> QED BY <3>1, FormIsAside, ListStarts
  <2>2. ASSUME NEW f, DeletionStarted(w, f) PROVE ListInv'
    <3>1. Starts(w, "delete", f) /\ UNCHANGED <<screen, calls, active>>
      BY <2>2 DEF DeletionStarted, archiveVars
    <3> QED BY <3>1, SameScreen, ListStarts
  <2>3. ASSUME NEW c, SearchSaved(w, c) PROVE ListInv'
    <3>1. Starts(w, "saveSearch", c) /\ UNCHANGED <<screen, calls, active>>
      BY <2>3 DEF SearchSaved, CollectionCreated
    <3> QED BY <3>1, SameScreen, ListStarts
  <2>4. CASE SearchDropped(w)
    <3>1. CASE Starts(w, "dropSearch", screen.chosen) /\ UNCHANGED <<calls, active>>
               /\ screen' = [screen EXCEPT !.chosen = None]
      BY <3>1, FormIsAside, ListStarts
    <3>2. CASE UNCHANGED <<screen, calls, work, doubt, active>>
      <4>1. WorkRecords' /\ Reloading' = Reloading  BY <3>2 DEF ListInv, PageFields, WorkRecords, Reloading
      <4> QED BY <3>2, <4>1, SameScreen, ListAside
    <3> QED BY <2>4, <3>1, <3>2 DEF SearchDropped, CollectionRemoved, archiveVars
  <2> QED BY <1>1, <2>1, <2>2, <2>3, <2>4 DEF WorkStarted, FileDeletedFromList
<1>2. ASSUME WorkServed(w) PROVE ListInv'
  <2>1. w \in Reloading  BY <1>2 DEF WorkServed, Reloading
  <2> QED BY <1>2, <2>1, ListOutdated DEF WorkServed
<1>3. ASSUME WorkRefused(w) PROVE ListInv'
  <2>1. w \in Reloading /\ work[w].pc = "sent" /\ work' = [work EXCEPT ![w] = NoWork]
        /\ UNCHANGED <<calls, doubt, active>>
    BY <1>3 DEF WorkRefused, Reloading, archiveVars
  <2>2. SameList
    <3>1. PICK uploading : screen' = [screen EXCEPT !.uploading = uploading]  BY <1>3 DEF WorkRefused
    <3> QED BY <3>1, FormIsAside
  <2> QED BY <2>1, <2>2, ListSpared
<1>4. ASSUME UploadShown(w), UNCHANGED active PROVE ListInv'
  <2>1. w \in Reloading /\ work[w].pc = "done"  BY <1>4 DEF UploadShown, Reloading
  <2>2. CASE work[w].query.page = 1  BY <1>4, <2>1, <2>2, ListReloads DEF UploadShown
  <2>3. CASE work[w].query.page # 1
    <3>1. PICK next : /\ next = [screen EXCEPT !.uploading = FALSE, !.page = 1]
                      /\ Renders(next, Reloading \ {w}) /\ work' = [work EXCEPT ![w] = NoWork]
      BY <1>4, <2>3 DEF UploadShown
    <3>2. /\ IsScreen(next) /\ next.ready = screen.ready /\ next.page = 1
          /\ next.result = screen.result /\ next.loading = screen.loading
      BY <3>1 DEF ListInv, PageFields, ScreenRecord, IsScreen
    <3>3. /\ work'[w] = NoWork /\ \A v \in Works : v # w => work'[v] = work[v]
          /\ WorkRecords'
      BY <3>1 DEF ListInv, PageFields, WorkRecords, NoWork
    <3>4. Reloading' = Reloading \ {w}  BY <3>3, NothingIs DEF Reloading
    <3>5. ~doubt => screen.page # 1
      <4>1. ~doubt => work[w].query = Query  BY <2>1 DEF ListInv, ReloadIsCurrent
      <4> QED BY <2>3, <4>1 DEF Query, QueryOf
    <3>6. Rendering(next, Reloading \ {w})
      BY <2>1, <3>2, <3>3, <3>4, <3>5 DEF Rendering, ListInv, PageFields
    <3> QED BY <1>4, <3>1, <3>6, ListIsRendered
  <2> QED BY <2>2, <2>3
<1>5. ASSUME DeletionShown(w), UNCHANGED active PROVE ListInv'
  <2>1. w \in Reloading /\ work[w].pc = "done"  BY <1>5 DEF DeletionShown, Reloading
  <2> QED BY <1>5, <2>1, ListReloads DEF DeletionShown
<1>6. ASSUME NamesListed(w), UNCHANGED active PROVE ListInv'
  <2>1. /\ work[w].op \in {"saveSearch", "dropSearch"} /\ work' = [work EXCEPT ![w] = NoWork]
        /\ UNCHANGED <<calls, doubt>>
    BY <1>6 DEF NamesListed
  <2>2. /\ work'[w] = NoWork /\ \A v \in Works : v # w => work'[v] = work[v]
        /\ WorkRecords' /\ w \notin Reloading
    BY <2>1 DEF ListInv, PageFields, WorkRecords, NoWork, Reloading
  <2>3. Reloading' = Reloading  BY <2>2, NothingIs DEF Reloading
  <2>4. screen.ready  BY <2>1, NothingIs DEF ListInv, CallsAreOfThePage
  <2>5. SameList
    <3>1. PICK known, chosen : screen' = [screen EXCEPT !.known = known, !.chosen = chosen]
      BY <1>6 DEF NamesListed
    <3> QED BY <3>1, FormIsAside
  <2> QED BY <1>6, <2>1, <2>2, <2>3, <2>4, <2>5, ListAside DEF Reloading
<1> QED BY <1>1, <1>2, <1>3, <1>4, <1>5, <1>6

\* What has been sent to the render queue reloads nothing.
LEMMA QueueIsAside ==
    ASSUME ListInv, NEW w \in Works, work[w].op = "queue", UNCHANGED <<screen, calls, doubt, active>>,
           work' = [work EXCEPT ![w] = NoWork] \/ \E pc : work' = [work EXCEPT ![w].pc = pc]
    PROVE  ListInv'
<1>1. w \notin Reloading /\ screen.ready
  BY NothingIs DEF Reloading, ListInv, CallsAreOfThePage
<1>2. WorkRecords' /\ work'[w].op \notin ReloadingOps /\ \A v \in Works : v # w => work'[v] = work[v]
  <2>1. CASE work' = [work EXCEPT ![w] = NoWork]
    <3>1. work'[w] = NoWork /\ \A v \in Works : v # w => work'[v] = work[v]
      BY <2>1 DEF ListInv, PageFields, WorkRecords
    <3>2. WorkRecords'  BY <2>1 DEF ListInv, PageFields, WorkRecords, NoWork
    <3> QED BY <3>1, <3>2, NothingIs DEF ReloadingOps
  <2>2. ASSUME NEW pc, work' = [work EXCEPT ![w].pc = pc]
        PROVE  WorkRecords' /\ work'[w].op \notin ReloadingOps /\ \A v \in Works : v # w => work'[v] = work[v]
    BY <2>2 DEF ListInv, PageFields, WorkRecords, ReloadingOps
  <2> QED BY <2>1, <2>2
<1>3. Reloading' = Reloading  BY <1>1, <1>2 DEF Reloading, ReloadingOps
<1> QED BY <1>1, <1>2, <1>3, SameScreen, ListAside DEF Reloading

LEMMA SavingKeepsTheList ==
    ASSUME ListInv, SavingStep
    PROVE  ListInv'
<1>1. ASSUME NEW w \in Works, NEW op, NEW todo, NEW next, NEW kind, EditStarts(w, op, todo, next, kind)
      PROVE  ListInv'
  <2>1. Starts(w, op, None) /\ UNCHANGED <<screen, calls, active>>  BY <1>1 DEF EditStarts, archiveVars
  <2> QED BY <2>1, SameScreen, ListStarts
<1>2. ASSUME NEW w \in Works, EditServed(w) PROVE ListInv'
  <2>1. /\ work[w].op \in {"edit", "queue"} /\ work[w].pc = "sent" /\ work' = [work EXCEPT ![w].pc = "done"]
        /\ UNCHANGED <<screen, calls, doubt>> /\ (work[w].op = "queue" => UNCHANGED active)
    BY <1>2 DEF EditServed
  <2>2. CASE work[w].op = "edit"
    <3>1. w \in Reloading  BY <2>2 DEF Reloading
    <3> QED BY <2>1, <3>1, ListOutdated
  <2> QED BY <2>1, <2>2, QueueIsAside
<1>3. ASSUME NEW w \in Works, EditAnswered(w) PROVE ListInv'
  <2>1. work[w].op \in {"edit", "queue"} /\ work[w].pc = "done" /\ UNCHANGED active
    BY <1>3 DEF EditAnswered, archiveVars
  <2>2. CASE work[w].op = "edit"
    <3>1. w \in Reloading /\ ReloadSent(w)  BY <1>3, <2>2 DEF EditAnswered, Reloading
    <3> QED BY <2>1, <3>1, ListReloads
  <2>3. CASE work[w].op = "queue"
    <3>1. work' = [work EXCEPT ![w].pc = "later"] /\ UNCHANGED <<screen, calls, doubt>>
      BY <1>3, <2>3 DEF EditAnswered
    <3> QED BY <2>1, <2>3, <3>1, QueueIsAside
  <2> QED BY <2>1, <2>2, <2>3
<1>4. ASSUME NEW w \in Works, RefreshedLater(w) PROVE ListInv'
  <2>1. work[w].op = "queue" /\ work' = [work EXCEPT ![w] = NoWork] /\ UNCHANGED <<screen, calls, doubt, active>>
    BY <1>4 DEF RefreshedLater, archiveVars
  <2> QED BY <2>1, QueueIsAside
<1>5. ASSUME NEW w \in Works, EditRefused(w) PROVE ListInv'
  <2>1. /\ work[w].op \in {"edit", "queue"} /\ work[w].pc = "sent" /\ work' = [work EXCEPT ![w] = NoWork]
        /\ UNCHANGED <<screen, calls, doubt, active>>
    BY <1>5 DEF EditRefused, archiveVars
  <2>2. CASE work[w].op = "edit"
    <3>1. w \in Reloading  BY <2>2 DEF Reloading
    <3> QED BY <2>1, <3>1, SameScreen, ListSpared
  <2> QED BY <2>1, <2>2, QueueIsAside
<1>6. CASE JobSaved
  <2>1. doubt' = TRUE /\ UNCHANGED <<screen, calls, work>>  BY <1>6 DEF JobSaved
  <2>2. PageFields' /\ CallsAreOfThePage'
    BY <2>1 DEF ListInv, PageFields, ScreenRecord, CallRecords, AreCalls, WorkRecords, CallsAreOfThePage,
                AliveFetches, Query, Reloading
  <2> QED BY <2>1, <2>2 DEF ListInv, IdleIsCurrent, ReloadIsCurrent
<1>7. ASSUME NEW w \in Works, NEW v, NEW share, SaveClicked(w, share) \/ DuplicateClicked(w, v) \/ QueueClicked(w)
      PROVE  ListInv'
  BY <1>1, <1>7 DEF SaveClicked, DuplicateClicked, QueueClicked
<1> QED BY <1>2, <1>3, <1>4, <1>5, <1>6, <1>7 DEF SavingStep

LEMMA ListKept ==
    ASSUME ListInv, ScreensNext
    PROVE  ListInv'
<1>1. ASSUME UNCHANGED <<screen, calls, work, doubt, active>> PROVE ListInv'
  <2>1. WorkRecords' /\ Reloading' = Reloading  BY <1>1 DEF ListInv, PageFields, WorkRecords, Reloading
  <2> QED BY <1>1, <2>1, SameScreen, ListAside
<1>2. CASE PageUsed
  <2>1. CASE ControlUsed /\ UNCHANGED archiveVars  BY <2>1, ControlsUsed DEF archiveVars
  <2>2. CASE \E w \in Works : WorkStarted(w)  BY <2>2, WorkKeepsTheList
  <2>3. ASSUME NEW i, PaneOpened(i), UNCHANGED archiveVars PROVE ListInv'
    BY <1>1, <2>3 DEF PaneOpened, screenVars, archiveVars
  <2>4. CASE PreviewAskedFor /\ UNCHANGED archiveVars
    BY <1>1, <2>4 DEF PreviewAskedFor, screenVars, archiveVars
  <2>5. CASE PaneClosed  BY <1>1, <2>5 DEF PaneClosed, screenVars, archiveVars
  <2>6. ASSUME NEW w \in Works, FileDeletedFromPane(w) PROVE ListInv'
    <3>1. Starts(w, "delete", pane.file) /\ UNCHANGED <<screen, calls, active>>
      BY <2>6 DEF FileDeletedFromPane, DeletionStarted, archiveVars
    <3> QED BY <3>1, SameScreen, ListStarts
  <2> QED BY <1>2, <2>1, <2>2, <2>3, <2>4, <2>5, <2>6 DEF PageUsed
<1>3. CASE PageAnswered
  <2>1. CASE (Mounts \/ TypingSettles) /\ UNCHANGED archiveVars  BY <2>1, ControlsUsed DEF archiveVars
  <2>2. CASE RequestStep /\ UNCHANGED archiveVars
    BY <2>2, ListIsServed, ListIsAnswered DEF RequestStep, archiveVars
  <2>3. CASE WorkStep /\ UNCHANGED archiveVars  BY <2>3, WorkKeepsTheList DEF WorkStep, archiveVars
  <2>4. CASE \E w \in Works : WorkServed(w) \/ WorkRefused(w)  BY <2>4, WorkKeepsTheList
  <2>5. ASSUME NEW a \in asked, NEW ok \in BOOLEAN, PaneAnswered(a, ok), UNCHANGED archiveVars PROVE ListInv'
    BY <1>1, <2>5 DEF PaneAnswered, screenVars, archiveVars
  <2> QED BY <1>3, <2>1, <2>2, <2>3, <2>4, <2>5 DEF PageAnswered
<1>4. CASE EditorStep
  <2>1. CASE UNCHANGED <<archiveVars, screenVars>>  BY <1>1, <2>1 DEF screenVars, archiveVars
  <2>2. CASE SavingStep  BY <2>2, SavingKeepsTheList
  <2> QED BY <1>4, <2>1, <2>2 DEF EditorStep
<1> QED BY <1>2, <1>3, <1>4 DEF ScreensNext

-----------------------------------------------------------------------------
(* The versions listed *)

LEMMA SameVersions ==
    ASSUME version' = version
    PROVE  Saved' = Saved /\ \A f : VersionsSaved(f)' = VersionsSaved(f)
BY DEF Saved, VersionsSaved

\* No saving of the editor is at stake in what the page does.
PageWork ==
    /\ edit' = edit
    /\ \A w \in Works : \/ work'[w] = work[w]
                        \/ /\ work'[w].op \notin {"edit", "queue"}
                           /\ ~(work[w].op = "edit" /\ work[w].pc = "done")

LEMMA EditsAside ==
    ASSUME EditsAreUnderWay, PageWork
    PROVE  EditsAreUnderWay' /\ (Told' <=> Told)
<1>1. EditsAreUnderWay'  BY DEF EditsAreUnderWay, PageWork
<1>2. \A w \in Works : work'[w].op = "edit" /\ work'[w].pc = "done" <=> work[w].op = "edit" /\ work[w].pc = "done"
  BY DEF PageWork
<1> QED BY <1>1, <1>2 DEF Told

LEMMA ListingsAside ==
    ASSUME ListingsAreTrue, UNCHANGED <<listings, version, behind>>, Told' => Told,
           editor'.file = editor.file /\ editor'.shown = editor.shown
    PROVE  ListingsAreTrue'
BY SameVersions DEF ListingsAreTrue, Open

LEMMA ListingFresh ==
    ASSUME NEW no, NEW f
    PROVE  Listing(no, f).of = f /\ Listing(no, f).served = FALSE
BY DEF Listing

\* The versions are asked for anew, and by nothing else.
LEMMA ListingsAnew ==
    ASSUME Open' /\ ~behind' => \E no : listings' = {Listing(no, editor'.file)}
    PROVE  ListingsAreTrue'
<1> SUFFICES ASSUME Open' /\ ~behind' PROVE ListingsAreTrue'  BY DEF ListingsAreTrue
<1>1. PICK no : listings' = {Listing(no, editor'.file)}  OBVIOUS
<1>2. PICK l, f : f = editor'.file /\ l = Listing(no, f) /\ listings' = {l}  BY <1>1
<1>3. l.of = f /\ l.served = FALSE  BY <1>2, ListingFresh
<1> QED BY <1>2, <1>3 DEF ListingsAreTrue

LEMMA PageWorks ==
    ASSUME ListInv, edit' = edit, PageUsed \/ PageAnswered
    PROVE  PageWork
<1>1. work = [w \in Works |-> work[w]]  BY DEF ListInv, PageFields, WorkRecords
<1>2. CASE work' = work  BY <1>2 DEF PageWork
<1>3. ASSUME NEW w \in Works, NEW job, work' = [work EXCEPT ![w] = job], job.op \notin {"edit", "queue"},
             ~(work[w].op = "edit" /\ work[w].pc = "done")
      PROVE  PageWork
  BY <1>1, <1>3 DEF PageWork
<1>4. ASSUME NEW w \in Works, NEW op, NEW target, Starts(w, op, target), op \notin {"edit", "queue"}
      PROVE  PageWork
  <2> DEFINE job == [op |-> op, pc |-> "sent", target |-> target, query |-> Query]
  <2>1. work' = [work EXCEPT ![w] = job] /\ work[w] = NoWork  BY <1>4 DEF Starts
  <2>2. job.op = op  OBVIOUS
  <2> HIDE DEF job
  <2> QED BY <1>3, <1>4, <2>1, <2>2, NothingIs
<1>5. ASSUME NEW w \in Works, work' = [work EXCEPT ![w] = NoWork], ~(work[w].op = "edit" /\ work[w].pc = "done")
      PROVE  PageWork
  BY <1>3, <1>5, NothingIs
<1>6. ASSUME NEW w \in Works, work[w].op \notin {"edit", "queue"}, NEW pc, work' = [work EXCEPT ![w].pc = pc]
      PROVE  PageWork
  BY <1>6 DEF PageWork, ListInv, PageFields, WorkRecords
<1>7. ASSUME NEW w \in Works, WorkStarted(w) PROVE PageWork
  <2>1. ASSUME NEW f, DeletionStarted(w, f) PROVE PageWork  BY <1>4, <2>1 DEF DeletionStarted
  <2>2. ASSUME NEW f, UploadStarted(w, f) PROVE PageWork  BY <1>4, <2>2 DEF UploadStarted
  <2>3. ASSUME NEW c, SearchSaved(w, c) PROVE PageWork  BY <1>4, <2>3 DEF SearchSaved
  <2>4. CASE SearchDropped(w)
    <3>1. Starts(w, "dropSearch", screen.chosen) \/ work' = work  BY <2>4 DEF SearchDropped
    <3> QED BY <1>2, <1>4, <3>1
  <2> QED BY <1>7, <2>1, <2>2, <2>3, <2>4 DEF WorkStarted, FileDeletedFromList
<1>8. CASE PageUsed
  <2>1. CASE ControlUsed
    BY <1>2, <2>1 DEF ControlUsed, CriterionToggled, QuickView, FiltersCleared, SortedBy, PageTurned,
                      CollectionOpened, Changes
  <2>2. ASSUME NEW w \in Works, FileDeletedFromPane(w) PROVE PageWork
    BY <1>4, <2>2 DEF FileDeletedFromPane, DeletionStarted
  <2> QED BY <1>2, <1>7, <1>8, <2>1, <2>2 DEF PageUsed, PaneOpened, PreviewAskedFor, PaneClosed, screenVars
<1>9. CASE PageAnswered
  <2>1. CASE Mounts \/ TypingSettles  BY <1>2, <2>1 DEF Mounts, TypingSettles
  <2>2. CASE RequestStep
    <3>1. ASSUME NEW s \in Slots, NEW ok \in BOOLEAN, ListAnswered(s, ok) PROVE PageWork
      <4>1. CASE calls[s].work = None  BY <1>2, <3>1, <4>1 DEF ListAnswered
      <4>2. CASE calls[s].work # None
        <5>1. calls[s].kind = "reload"
          BY <3>1, <4>2, NothingIs DEF ListAnswered, ListInv, CallsAreOfThePage
        <5>2. calls[s].work \in Works /\ work[calls[s].work].pc = "reload"
          BY <5>1 DEF ListInv, CallsAreOfThePage, Reloading
        <5> QED BY <1>5, <3>1, <4>2, <5>2 DEF ListAnswered
      <4> QED BY <4>1, <4>2
    <3> QED BY <1>2, <2>2, <3>1 DEF RequestStep, ListServed
  <2>3. ASSUME NEW w \in Works, UploadShown(w) \/ DeletionShown(w) \/ NamesListed(w) PROVE PageWork
    BY <1>5, <1>6, <2>3 DEF UploadShown, DeletionShown, NamesListed, ReloadSent
  <2>4. ASSUME NEW w \in Works, WorkServed(w) \/ WorkRefused(w) PROVE PageWork
    BY <1>5, <1>6, <2>4 DEF WorkServed, WorkRefused
  <2>5. ASSUME NEW a \in asked, NEW ok \in BOOLEAN, PaneAnswered(a, ok) PROVE PageWork
    BY <1>2, <2>5 DEF PaneAnswered, screenVars
  <2> QED BY <1>9, <2>1, <2>2, <2>3, <2>4, <2>5 DEF PageAnswered, WorkStep
<1> QED BY <1>8, <1>9

LEMMA BecomesKeeps ==
    ASSUME EditorRecord, NEW next, Becomes(next),
           \E controls, dragging : next = [editor EXCEPT !.controls = controls, !.dragging = dragging]
    PROVE  editor'.file = editor.file /\ editor'.shown = editor.shown /\ editor'.controls = next.controls
<1>1. next.file = editor.file /\ next.shown = editor.shown
      /\ next = [file |-> next.file, no |-> next.no, controls |-> next.controls,
                 dragging |-> next.dragging, base |-> next.base, due |-> next.due,
                 preview |-> next.preview, loading |-> next.loading, saving |-> next.saving,
                 copying |-> next.copying, shown |-> next.shown, compare |-> next.compare,
                 compared |-> next.compared]
  BY DEF EditorRecord
<1>2. CASE editor' = next  BY <1>1, <1>2
<1>3. ASSUME NEW due, NEW loading, NEW preview,
             editor' = [next EXCEPT !.due = due, !.loading = loading, !.preview = preview]
      PROVE  editor'.file = editor.file /\ editor'.shown = editor.shown /\ editor'.controls = next.controls
  BY <1>1, <1>3
<1>4. CASE RecipeOf(next.controls) = Recipe
  BY <1>2, <1>4 DEF Becomes
<1>5. CASE RecipeOf(next.controls) # Recipe
  <2> DEFINE empty   == RecipeOf(next.controls) = <<>>
             due     == ~empty
             loading == next.loading \/ ~empty
             preview == IF empty THEN None ELSE next.preview
  <2>1. editor' = [next EXCEPT !.due = due, !.loading = loading, !.preview = preview]
    BY <1>5 DEF Becomes
  <2> HIDE DEF due, loading, preview
  <2> QED BY <1>3, <2>1
<1> QED BY <1>4, <1>5

\* The controls and the preview are about another part of the editor.
LEMMA DrawingIsAside ==
    ASSUME EditorRecord, ControlStep \/ BaseAnswered \/ PreviewAsked
                         \/ (\E p : \E ok \in BOOLEAN : PreviewAnswered(p, ok))
                         \/ (\E c : \E ok \in BOOLEAN : CompareAnswered(c, ok))
    PROVE  /\ editor'.file = editor.file /\ editor'.shown = editor.shown
           /\ UNCHANGED <<listings, version, behind, edit, jobs>>
<1>1. ASSUME NEW controls, Draws(controls)
      PROVE  /\ editor'.file = editor.file /\ editor'.shown = editor.shown
             /\ UNCHANGED <<listings, version, behind, edit, jobs>>
  <2>1. [editor EXCEPT !.controls = controls]
           = [editor EXCEPT !.controls = controls, !.dragging = editor.dragging]
    BY DEF EditorRecord
  <2>2. Becomes([editor EXCEPT !.controls = controls])  BY <1>1 DEF Draws
  <2>3. UNCHANGED <<listings, version, behind, edit, jobs>>  BY <1>1 DEF Draws, mediaVars
  <2> QED BY <2>1, <2>2, <2>3, BecomesKeeps
<1>2. ASSUME NEW d, NEW geom, Becomes([editor EXCEPT !.dragging = d, !.controls.geom = geom])
      PROVE  editor'.file = editor.file /\ editor'.shown = editor.shown
  <2> DEFINE controls == [editor.controls EXCEPT !.geom = geom]
             next     == [editor EXCEPT !.dragging = d, !.controls.geom = geom]
  <2>1. next = [editor EXCEPT !.controls = controls, !.dragging = d]  BY DEF EditorRecord
  <2>2. Becomes(next)  BY <1>2
  <2> HIDE DEF next, controls
  <2> QED BY <2>1, <2>2, BecomesKeeps
<1>3. ASSUME \/ \E compare, compared : editor' = [editor EXCEPT !.compare = compare, !.compared = compared]
             \/ \E compare : editor' = [editor EXCEPT !.compare = compare]
             \/ \E compared : editor' = [editor EXCEPT !.compared = compared]
             \/ \E base : editor' = [editor EXCEPT !.base = base]
             \/ \E due : editor' = [editor EXCEPT !.due = due]
             \/ \E loading, preview : editor' = [editor EXCEPT !.loading = loading, !.preview = preview]
             \/ editor' = editor
      PROVE  editor'.file = editor.file /\ editor'.shown = editor.shown
  BY <1>3 DEF EditorRecord
<1>4. CASE ControlStep
  <2>1. ASSUME NEW o, ControlSet(o)
        PROVE  \E controls : Draws(controls)
    BY <2>1 DEF ControlSet
  <2>2. ASSUME StrokeRemoved \/ ControlsReset \/ \E v : RecipeLoaded(v)
        PROVE  \E controls : Draws(controls)
    BY <2>2 DEF StrokeRemoved, ControlsReset, RecipeLoaded
  <2>3. CASE CropBegins \/ CropEnds
    <3>1. UNCHANGED <<listings, version, behind, edit, jobs>>  BY <2>3 DEF CropBegins, CropEnds, mediaVars
    <3> QED BY <1>2, <2>3, <3>1 DEF CropBegins, CropEnds
  <2>4. ASSUME CompareClosed \/ \E v : CompareOpened(v)
        PROVE  /\ editor'.file = editor.file /\ editor'.shown = editor.shown
               /\ UNCHANGED <<listings, version, behind, edit, jobs>>
    BY <1>3, <2>4 DEF CompareClosed, CompareOpened, mediaVars
  <2> QED BY <1>1, <1>4, <2>1, <2>2, <2>3, <2>4 DEF ControlStep
<1>5. CASE BaseAnswered  BY <1>3, <1>5 DEF BaseAnswered, requestVars, mediaVars
<1>6. CASE PreviewAsked  BY <1>3, <1>6 DEF PreviewAsked, mediaVars
<1>7. ASSUME NEW p, NEW ok \in BOOLEAN, PreviewAnswered(p, ok)
      PROVE  /\ editor'.file = editor.file /\ editor'.shown = editor.shown
             /\ UNCHANGED <<listings, version, behind, edit, jobs>>
  BY <1>3, <1>7 DEF PreviewAnswered, mediaVars
<1>8. ASSUME NEW c, NEW ok \in BOOLEAN, CompareAnswered(c, ok)
      PROVE  /\ editor'.file = editor.file /\ editor'.shown = editor.shown
             /\ UNCHANGED <<listings, version, behind, edit, jobs>>
  BY <1>3, <1>8 DEF CompareAnswered, mediaVars
<1> QED BY <1>4, <1>5, <1>6, <1>7, <1>8

\* Opening, closing, the listings and the controls: nothing is being saved.
LEMMA ListingsLooked ==
    ASSUME EditorInv, ListingsAreTrue, Told' <=> Told,
           \/ (\E f \in Files : EditorOpened(f)) \/ EditorClosed \/ ControlStep \/ AnswerStep
    PROVE  ListingsAreTrue' /\ edit' = edit
<1>1. EditorRecord /\ ListingRecords /\ (~Open => listings = {})
  BY DEF EditorInv, EditorFields, ClosedIsEmpty
<1>2. ASSUME NEW f \in Files, EditorOpened(f) PROVE ListingsAreTrue' /\ edit' = edit
  <2>1. /\ ~Open /\ editor' = [NoEditor EXCEPT !.file = f, !.no = left["editor"], !.base = TRUE]
        /\ Refreshes(0, f) /\ edit' = edit
    BY <1>2 DEF EditorOpened, mediaVars
  <2>2. editor'.file = f  BY <2>1 DEF NoEditor
  <2>3. listings' = {Listing(0, editor'.file)}  BY <1>1, <2>1, <2>2 DEF Refreshes
  <2> QED BY <2>1, <2>3, ListingsAnew
<1>3. CASE EditorClosed
  <2>1. editor' = NoEditor /\ edit' = edit  BY <1>3 DEF EditorClosed, mediaVars
  <2>2. ~Open'  BY <2>1 DEF Open, NoEditor
  <2> QED BY <2>1, <2>2, ListingsAnew
<1>4. ASSUME ControlStep \/ BaseAnswered \/ PreviewAsked
                         \/ (\E p : \E ok \in BOOLEAN : PreviewAnswered(p, ok))
                         \/ (\E c : \E ok \in BOOLEAN : CompareAnswered(c, ok))
      PROVE  ListingsAreTrue' /\ edit' = edit
  BY <1>1, <1>4, DrawingIsAside, ListingsAside
<1>5. ASSUME NEW l, ListingServed(l) PROVE ListingsAreTrue' /\ edit' = edit
  <2>1. PICK now, m : now = VersionsSaved(l.of) /\ m = [l EXCEPT !.served = TRUE, !.shown = now]  OBVIOUS
  <2>2. /\ l \in listings /\ listings' = (listings \ {l}) \cup {m}
        /\ UNCHANGED <<editor, edit, version, behind>>
    BY <1>5, <2>1 DEF ListingServed, mediaVars
  <2>3. m.of = l.of /\ m.shown = now
    <3>1. l = [no |-> l.no, of |-> l.of, served |-> l.served, shown |-> l.shown]
      BY <1>1, <2>2 DEF ListingRecords
    <3> QED BY <2>1, <3>1
  <2>4. m.shown = VersionsSaved(m.of)' /\ Open' = Open  BY <2>1, <2>2, <2>3, SameVersions DEF Open
  <2>5. Open /\ ~behind => listings' = {m} /\ m.of = editor.file
    BY <2>2, <2>3 DEF ListingsAreTrue
  <2> QED BY <2>2, <2>4, <2>5 DEF ListingsAreTrue
<1>6. ASSUME NEW l, NEW ok \in BOOLEAN, ListingAnswered(l, ok) PROVE ListingsAreTrue' /\ edit' = edit
  <2>1. /\ l \in listings /\ l.served /\ listings' = listings \ {l}
        /\ editor' = IF ok THEN [editor EXCEPT !.shown = l.shown] ELSE editor
        /\ behind' = (behind \/ ~ok) /\ UNCHANGED <<edit, version>>
    BY <1>6 DEF ListingAnswered, mediaVars
  <2> SUFFICES ASSUME Open', ~behind' PROVE ListingsAreTrue'  BY <2>1 DEF ListingsAreTrue
  <2>2. ok /\ ~behind  BY <2>1
  <2>3. editor'.file = editor.file /\ editor'.shown = l.shown  BY <1>1, <2>1, <2>2 DEF EditorRecord
  <2>4. Open  BY <2>3 DEF Open
  <2>5. listings' = {} /\ l.of = editor.file /\ (Told => l.shown = VersionsSaved(l.of))
    BY <2>1, <2>2, <2>4 DEF ListingsAreTrue
  <2>6. Told' => editor'.shown = VersionsSaved(editor.file)  BY <2>3, <2>5
  <2>7. \A f : VersionsSaved(f)' = VersionsSaved(f)  BY <2>1, SameVersions
  <2> QED BY <2>3, <2>5, <2>6, <2>7 DEF ListingsAreTrue
<1> QED BY <1>2, <1>3, <1>4, <1>5, <1>6 DEF AnswerStep

\* One saving goes on.
LEMMA EditGoesOn ==
    ASSUME ListInv, EditsAreUnderWay, NEW w \in Works, NEW job, NEW todo,
           work' = [work EXCEPT ![w] = job], edit' = [edit EXCEPT ![w] = todo],
           todo = [of |-> todo.of, no |-> todo.no, recipe |-> todo.recipe, share |-> todo.share,
                   copyOf |-> todo.copyOf],
           (job.op = "edit" /\ job.pc \in {"sent", "done"}) \/ job.op = "queue" => todo.of # None
    PROVE  /\ EditsAreUnderWay'
           /\ job.op = "edit" /\ job.pc = "done" => ~Told'
           /\ ~(work[w].op = "edit" /\ work[w].pc = "done") /\ ~(job.op = "edit" /\ job.pc = "done")
                 => (Told' <=> Told)
<1>1. work'[w] = job /\ \A v \in Works : v # w => work'[v] = work[v]
  BY DEF ListInv, PageFields, WorkRecords
<1>2. edit'[w] = todo /\ \A v \in Works : v # w => edit'[v] = edit[v]
  BY DEF EditsAreUnderWay
<1>3. edit' = [v \in Works |-> [of |-> edit'[v].of, no |-> edit'[v].no, recipe |-> edit'[v].recipe,
                                share |-> edit'[v].share, copyOf |-> edit'[v].copyOf]]
  BY <1>2 DEF EditsAreUnderWay
<1>4. EditsAreUnderWay'  BY <1>1, <1>2, <1>3 DEF EditsAreUnderWay
<1> QED BY <1>1, <1>4 DEF Told

LEMMA NoEditFields ==
    /\ NoEdit.of = None /\ NoEdit.recipe = <<>> /\ NoEdit.share = FALSE /\ NoEdit.copyOf = None
    /\ NoEdit = [of |-> NoEdit.of, no |-> NoEdit.no, recipe |-> NoEdit.recipe, share |-> NoEdit.share,
                 copyOf |-> NoEdit.copyOf]
BY DEF NoEdit

LEMMA SavingKeepsListings ==
    ASSUME ListInv, EditorInv, EditsAreUnderWay, ListingsAreTrue, SavingStep
    PROVE  EditsAreUnderWay' /\ ListingsAreTrue'
<1>1. EditorRecord  BY DEF EditorInv, EditorFields
<1>2. \A w \in Works : /\ work[w] = [op |-> work[w].op, pc |-> work[w].pc, target |-> work[w].target,
                                     query |-> work[w].query]
                       /\ edit[w] = [of |-> edit[w].of, no |-> edit[w].no, recipe |-> edit[w].recipe,
                                     share |-> edit[w].share, copyOf |-> edit[w].copyOf]
                       /\ work[w].op = "edit" /\ work[w].pc \in {"sent", "done"} => edit[w].of # None
                       /\ work[w].op = "queue" => edit[w].of # None
                       /\ edit = [edit EXCEPT ![w] = edit[w]]
  BY DEF ListInv, PageFields, WorkRecords, EditsAreUnderWay
<1>3. ASSUME NEW w \in Works, NEW op, NEW todo, NEW next, NEW kind, EditStarts(w, op, todo, next, kind),
             todo = [of |-> todo.of, no |-> todo.no, recipe |-> todo.recipe, share |-> todo.share,
                     copyOf |-> todo.copyOf],
             todo.of = editor.file,
             \/ next = [editor EXCEPT !.saving = TRUE]
             \/ \E v : next = [editor EXCEPT !.copying = editor.copying \cup {v}]
      PROVE  EditsAreUnderWay' /\ ListingsAreTrue'
  <2>1. PICK job : job = [op |-> op, pc |-> "sent", target |-> None, query |-> Query]  OBVIOUS
  <2>2. /\ Open /\ editor' = next /\ work[w] = NoWork /\ work' = [work EXCEPT ![w] = job]
        /\ edit' = [edit EXCEPT ![w] = todo] /\ UNCHANGED <<listings, version, behind>>
    BY <1>3, <2>1 DEF EditStarts, Starts, requestVars
  <2>3. job.pc = "sent"  BY <2>1
  <2>4. editor'.file = editor.file /\ editor'.shown = editor.shown  BY <1>1, <1>3, <2>2 DEF EditorRecord
  <2>5. todo.of # None  BY <1>3, <2>2 DEF Open
  <2>6. EditsAreUnderWay' /\ (Told' <=> Told)  BY <1>3, <2>2, <2>3, <2>5, EditGoesOn, NothingIs
  <2> QED BY <2>2, <2>4, <2>6, ListingsAside
<1>4. ASSUME NEW w \in Works, NEW share, SaveClicked(w, share) PROVE EditsAreUnderWay' /\ ListingsAreTrue'
  <2> PICK todo : todo = [of |-> editor.file, no |-> editor.no, recipe |-> Recipe, share |-> share, copyOf |-> None]
    OBVIOUS
  <2>1. /\ todo = [of |-> todo.of, no |-> todo.no, recipe |-> todo.recipe, share |-> todo.share,
                   copyOf |-> todo.copyOf]
        /\ todo.of = editor.file
    OBVIOUS
  <2> QED BY <1>3, <1>4, <2>1 DEF SaveClicked
<1>5. ASSUME NEW w \in Works, QueueClicked(w) PROVE EditsAreUnderWay' /\ ListingsAreTrue'
  <2> PICK todo : todo = [of |-> editor.file, no |-> editor.no, recipe |-> Recipe, share |-> FALSE, copyOf |-> None]
    OBVIOUS
  <2>1. /\ todo = [of |-> todo.of, no |-> todo.no, recipe |-> todo.recipe, share |-> todo.share,
                   copyOf |-> todo.copyOf]
        /\ todo.of = editor.file
    OBVIOUS
  <2> QED BY <1>3, <1>5, <2>1 DEF QueueClicked
<1>6. ASSUME NEW w \in Works, NEW v, DuplicateClicked(w, v) PROVE EditsAreUnderWay' /\ ListingsAreTrue'
  <2> PICK todo : todo = [of |-> editor.file, no |-> editor.no, recipe |-> version[v].recipe, share |-> FALSE,
                          copyOf |-> v]
    OBVIOUS
  <2>1. /\ todo = [of |-> todo.of, no |-> todo.no, recipe |-> todo.recipe, share |-> todo.share,
                   copyOf |-> todo.copyOf]
        /\ todo.of = editor.file
    OBVIOUS
  <2> QED BY <1>3, <1>6, <2>1 DEF DuplicateClicked
<1>7. ASSUME NEW w \in Works, EditServed(w) PROVE EditsAreUnderWay' /\ ListingsAreTrue'
  <2>1. PICK job : job = [work[w] EXCEPT !.pc = "done"]  OBVIOUS
  <2>2. /\ work[w].op \in {"edit", "queue"} /\ work[w].pc = "sent" /\ work' = [work EXCEPT ![w] = job]
        /\ UNCHANGED <<editor, listings, edit, behind>> /\ (work[w].op = "queue" => UNCHANGED version)
    BY <1>7, <2>1 DEF EditServed, requestVars
  <2>3. job.op = work[w].op /\ job.pc = "done"  BY <1>2, <2>1
  <2>4. edit' = [edit EXCEPT ![w] = edit[w]]  BY <1>2, <2>2
  <2>5. edit[w].of # None /\ edit[w] = [of |-> edit[w].of, no |-> edit[w].no, recipe |-> edit[w].recipe,
                                       share |-> edit[w].share, copyOf |-> edit[w].copyOf]
    BY <1>7, <2>2 DEF EditsAreUnderWay
  <2>6. CASE work[w].op = "queue"
    <3>1. job.op = "queue"  BY <2>3, <2>6
    <3>2. EditsAreUnderWay' /\ (Told' <=> Told)  BY <2>2, <2>4, <2>5, <2>6, <3>1, EditGoesOn
    <3> QED BY <2>2, <2>6, <3>2, ListingsAside
  <2>7. CASE work[w].op = "edit"
    <3>1. job.op = "edit" /\ job.pc = "done"  BY <2>3, <2>7
    <3>2. EditsAreUnderWay' /\ ~Told'  BY <2>2, <2>4, <2>5, <3>1, EditGoesOn
    <3> QED BY <2>2, <3>2 DEF ListingsAreTrue, Open
  <2> QED BY <2>2, <2>6, <2>7
<1>8. ASSUME NEW w \in Works, EditAnswered(w) PROVE EditsAreUnderWay' /\ ListingsAreTrue'
  <2>1. work[w].op \in {"edit", "queue"} /\ work[w].pc = "done" /\ version' = version
    BY <1>8 DEF EditAnswered
  <2>2. editor'.file = editor.file /\ editor'.shown = editor.shown
    <3>1. \/ editor' = editor
          \/ editor' = [editor EXCEPT !.copying = editor.copying \ {edit[w].copyOf}]
          \/ editor' = [editor EXCEPT !.saving = FALSE]
      BY <1>8 DEF EditAnswered
    <3> QED BY <1>1, <3>1 DEF EditorRecord
  <2>3. CASE work[w].op = "queue"
    <3>1. PICK job : job = [work[w] EXCEPT !.pc = "later"]  OBVIOUS
    <3>2. work' = [work EXCEPT ![w] = job] /\ UNCHANGED <<edit, listings, behind>>
      BY <1>8, <2>3, <3>1 DEF EditAnswered
    <3>3. job.op = "queue"  BY <1>2, <2>3, <3>1
    <3>4. edit' = [edit EXCEPT ![w] = edit[w]]  BY <1>2, <3>2
    <3>5. EditsAreUnderWay' /\ (Told' <=> Told)  BY <1>2, <2>3, <3>2, <3>3, <3>4, EditGoesOn
    <3> QED BY <2>1, <2>2, <3>2, <3>5, ListingsAside
  <2>4. CASE work[w].op = "edit"
    <3>1. PICK job : job = [work[w] EXCEPT !.pc = "reload"]  OBVIOUS
    <3>2. /\ work' = [work EXCEPT ![w] = job] /\ edit' = [edit EXCEPT ![w] = NoEdit]
          /\ Refreshes(w, editor.file) \/ behind' = TRUE
      BY <1>8, <2>4, <3>1 DEF EditAnswered, ReloadSent
    <3>3. job.op = "edit" /\ job.pc = "reload"  BY <1>2, <2>4, <3>1
    <3>4. EditsAreUnderWay'  BY <3>2, <3>3, EditGoesOn, NoEditFields
    <3>5. ~behind' => listings' = {Listing(w, editor'.file)}  BY <2>2, <3>2 DEF Refreshes
    <3> QED BY <3>4, <3>5, ListingsAnew
  <2> QED BY <2>1, <2>3, <2>4
<1>9. ASSUME NEW w \in Works, RefreshedLater(w) PROVE EditsAreUnderWay' /\ ListingsAreTrue'
  <2>1. /\ work[w].op = "queue" /\ work' = [work EXCEPT ![w] = NoWork] /\ edit' = [edit EXCEPT ![w] = NoEdit]
        /\ UNCHANGED <<editor, version>>
        /\ Refreshes(w, editor.file) \/ UNCHANGED <<listings, behind>>
    BY <1>9 DEF RefreshedLater
  <2>2. EditsAreUnderWay' /\ (Told' <=> Told)  BY <2>1, EditGoesOn, NoEditFields, NothingIs
  <2>3. CASE Refreshes(w, editor.file)
    <3>1. ~behind' => listings' = {Listing(w, editor'.file)}  BY <2>1, <2>3 DEF Refreshes
    <3> QED BY <2>2, <3>1, ListingsAnew
  <2>4. CASE UNCHANGED <<listings, behind>>  BY <2>1, <2>2, <2>4, ListingsAside
  <2> QED BY <2>1, <2>3, <2>4
<1>10. ASSUME NEW w \in Works, EditRefused(w) PROVE EditsAreUnderWay' /\ ListingsAreTrue'
  <2> DEFINE saving  == editor.saving /\ (~Mine(edit[w]) \/ edit[w].copyOf # None)
             copying == IF Mine(edit[w]) THEN editor.copying \ {edit[w].copyOf} ELSE editor.copying
  <2>1. /\ work[w].pc = "sent" /\ work' = [work EXCEPT ![w] = NoWork] /\ edit' = [edit EXCEPT ![w] = NoEdit]
        /\ UNCHANGED <<version, listings, behind>>
        /\ editor' = [editor EXCEPT !.saving = saving, !.copying = copying]
    BY <1>10 DEF EditRefused, requestVars
  <2> HIDE DEF saving, copying
  <2>2. EditsAreUnderWay' /\ (Told' <=> Told)  BY <2>1, EditGoesOn, NoEditFields, NothingIs
  <2>3. editor'.file = editor.file /\ editor'.shown = editor.shown  BY <1>1, <2>1 DEF EditorRecord
  <2> QED BY <2>1, <2>2, <2>3, ListingsAside
<1>11. CASE JobSaved
  <2>1. behind' = TRUE /\ UNCHANGED <<work, edit>>  BY <1>11 DEF JobSaved
  <2>2. EditsAreUnderWay'  BY <2>1 DEF EditsAreUnderWay
  <2> QED BY <2>1, <2>2 DEF ListingsAreTrue
<1> QED BY <1>4, <1>5, <1>6, <1>7, <1>8, <1>9, <1>10, <1>11 DEF SavingStep

LEMMA ListingsKept ==
    ASSUME ListInv, EditorInv, EditsAreUnderWay, ListingsAreTrue, ScreensNext
    PROVE  EditsAreUnderWay' /\ ListingsAreTrue'
<1>1. CASE (PageUsed \/ PageAnswered) /\ UNCHANGED editorVars
  <2>1. UNCHANGED <<editor, listings, edit, version, behind>>
    BY <1>1 DEF editorVars, requestVars, mediaVars
  <2>2. EditsAreUnderWay' /\ (Told' <=> Told)  BY <1>1, <2>1, PageWorks, EditsAside
  <2> QED BY <2>1, <2>2, ListingsAside
<1>2. CASE SavingStep  BY <1>2, SavingKeepsListings
<1>3. CASE /\ (\E f \in Files : EditorOpened(f)) \/ EditorClosed \/ ControlStep \/ AnswerStep
           /\ UNCHANGED screenVars
  <2>1. Told' <=> Told  BY <1>3 DEF Told, screenVars
  <2>2. ListingsAreTrue' /\ edit' = edit  BY <1>3, <2>1, ListingsLooked
  <2>3. EditsAreUnderWay'  BY <1>3, <2>2 DEF EditsAreUnderWay, screenVars
  <2> QED BY <2>2, <2>3
<1> QED BY <1>1, <1>2, <1>3 DEF ScreensNext, EditorStep

-----------------------------------------------------------------------------
(* The versions saved *)

\* A step that changes no version keeps what is said of an edit; so does one that adds a version.
RowsGrow == Saved \subseteq Saved' /\ \A v \in Saved : version'[v] = version[v]

LEMMA NothingSaved ==
    ASSUME version' = version
    PROVE  /\ RowsGrow /\ Saved' = Saved
           /\ VersionRows => VersionRows'
           /\ DuplicateKeepsRecipe => DuplicateKeepsRecipe'
<1>1. Saved' = Saved  BY SameVersions
<1> QED BY <1>1 DEF RowsGrow, VersionRows, DuplicateKeepsRecipe

LEMMA EditStaysOf ==
    ASSUME RowsGrow
    PROVE  \A todo : EditIsOf(todo) => EditIsOf(todo)'
BY DEF RowsGrow, EditIsOf

LEMMA NoEditIsOf == EditIsOf(NoEdit)
<1>1. <<>> \in Seq(Operations)  OBVIOUS
<1> QED BY <1>1, NoEditFields DEF EditIsOf

\* What saveVersion writes is stable, and a copy of what it copies.
LEMMA VersionIsSaved ==
    ASSUME VersionRows, DuplicateKeepsRecipe, NEW todo, EditIsOf(todo), SavesVersion(todo)
    PROVE  VersionRows' /\ DuplicateKeepsRecipe' /\ RowsGrow
<1> DEFINE n   == Cardinality(Saved)
           ops == IF todo.share THEN ForSharing(Kept(todo.recipe), "note") ELSE Kept(todo.recipe)
<1>1. Stable(ops)
  <2>1. CASE todo.share  BY <2>1, SharedIsStable DEF EditIsOf
  <2>2. CASE ~todo.share  BY <2>2, KeptIsStable DEF EditIsOf
  <2> QED BY <2>1, <2>2
<1>2. PICK kept : /\ n + 1 \in Versions /\ ops # <<>>
                    /\ version' = [version EXCEPT ![n + 1] = [of |-> todo.of, recipe |-> ops, result |-> kept,
                                                              copyOf |-> todo.copyOf]]
  BY DEF SavesVersion
<1>3. todo.copyOf # None => todo.copyOf \in Saved
                            /\ (Len(version[todo.copyOf].recipe) <= MaxRecipe => ops = version[todo.copyOf].recipe)
  BY DEF EditIsOf, VersionRows, Stable
<1> HIDE DEF ops
<1>4. n \in Nat /\ Saved = 1..n  BY DEF VersionRows
<1> HIDE DEF n
<1>5. /\ \A v \in Versions \ {n + 1} : version'[v] = version[v]
      /\ version'[n + 1] = [of |-> todo.of, recipe |-> ops, result |-> kept, copyOf |-> todo.copyOf]
  BY <1>2 DEF VersionRows
<1>6. version'[n + 1] # NoVersion
  <2>1. version'[n + 1].recipe # NoVersion.recipe  BY <1>2, <1>5 DEF NoVersion
  <2> QED BY <2>1
<1>7. Saved' = Saved \cup {n + 1}  BY <1>2, <1>5, <1>6 DEF Saved
<1>8. Saved' = 1..(n + 1)  BY <1>4, <1>7
<1>9. Cardinality(Saved') = n + 1
  <2>1. n + 1 \in Int /\ 1 \in Int  BY <1>4
  <2>2. \A b \in Int : Cardinality(1..b) = IF 1 > b THEN 0 ELSE b - 1 + 1  BY FS_Interval
  <2> QED BY <1>4, <1>8, <2>1, <2>2
<1>10. \A v \in Saved : v # n + 1 /\ v \in Versions  BY <1>4 DEF Saved
<1>11. version' = [v \in Versions |-> [of |-> version'[v].of, recipe |-> version'[v].recipe,
                                       result |-> version'[v].result, copyOf |-> version'[v].copyOf]]
  <2>1. \A v \in Versions : version'[v] = [of |-> version'[v].of, recipe |-> version'[v].recipe,
                                           result |-> version'[v].result, copyOf |-> version'[v].copyOf]
    BY <1>5 DEF VersionRows
  <2>2. version' = [v \in Versions |-> version'[v]]  BY <1>2 DEF VersionRows
  <2> QED BY <2>1, <2>2
<1>12. todo.copyOf \in Saved \cup {None}  BY <1>3
<1>13. \A v \in Saved' : Stable(version'[v].recipe) /\ version'[v].copyOf \in Saved' \cup {None}
  BY <1>1, <1>5, <1>7, <1>10, <1>12 DEF VersionRows
<1>14. VersionRows'  BY <1>4, <1>8, <1>9, <1>11, <1>13 DEF VersionRows
<1>15. RowsGrow  BY <1>5, <1>7, <1>10 DEF RowsGrow
<1>16. DuplicateKeepsRecipe'
  <2> SUFFICES ASSUME NEW v \in Saved', version'[v].copyOf # None,
                      Len(version'[version'[v].copyOf].recipe) <= MaxRecipe
               PROVE  version'[v].recipe = version'[version'[v].copyOf].recipe
    BY DEF DuplicateKeepsRecipe
  <2>1. CASE v = n + 1
    <3>1. version'[v].copyOf = todo.copyOf /\ version'[v].recipe = ops  BY <1>5, <2>1
    <3>2. version'[todo.copyOf] = version[todo.copyOf]  BY <1>3, <1>5, <1>10, <3>1
    <3> QED BY <1>3, <3>1, <3>2
  <2>2. CASE v # n + 1
    <3>1. v \in Saved /\ version'[v] = version[v]  BY <1>5, <1>7, <1>10, <2>2
    <3>2. version[v].copyOf \in Saved  BY <3>1 DEF VersionRows
    <3>3. version'[version[v].copyOf] = version[version[v].copyOf]  BY <1>5, <1>10, <3>2
    <3> QED BY <3>1, <3>3 DEF DuplicateKeepsRecipe
  <2> QED BY <2>1, <2>2
<1> QED BY <1>14, <1>15, <1>16

LEMMA WithoutOne ==
    ASSUME NEW S, NEW s \in Seq(S), NEW i \in DOMAIN s
    PROVE  RemoveAt(s, i) \in Seq(S)
<1>1. i \in 1..Len(s) /\ Len(s) \in Nat  OBVIOUS
<1>2. SubSeq(s, 1, i - 1) \in Seq(S)
  <2>1. 1 \in 1..(Len(s) + 1) /\ i - 1 \in 0..Len(s)  BY <1>1
  <2> QED BY <1>1, <2>1
<1>3. SubSeq(s, i + 1, Len(s)) \in Seq(S)  BY <1>1
<1>4. \A a, b \in Seq(S) : a \o b \in Seq(S)  OBVIOUS
<1>5. RemoveAt(s, i) = SubSeq(s, 1, i - 1) \o SubSeq(s, i + 1, Len(s))  BY DEF RemoveAt
<1> QED BY <1>2, <1>3, <1>4, <1>5

LEMMA ControlParts ==
    ASSUME NEW c \in ControlTypes, NEW d
    PROVE  /\ c = [geom |-> c.geom, areas |-> c.areas, marks |-> c.marks]
           /\ c.geom \subseteq OpsOf(Geometry) /\ c.areas \in Seq(OpsOf({"redact"}))
           /\ c.marks \in Seq(OpsOf({"text", "arrow", "frame"}))
           /\ d \subseteq OpsOf(Geometry) => [c EXCEPT !.geom = d] \in ControlTypes
           /\ d \in Seq(OpsOf({"redact"})) => [c EXCEPT !.areas = d] \in ControlTypes
           /\ d \in Seq(OpsOf({"text", "arrow", "frame"})) => [c EXCEPT !.marks = d] \in ControlTypes
BY DEF ControlTypes

\* A control that is used makes controls of the same types.
LEMMA DrawnTyped ==
    ASSUME EditorRecord, ControlsTyped, NEW controls \in ControlTypes, Draws(controls)
    PROVE  ControlsTyped'
<1> DEFINE next == [editor EXCEPT !.controls = controls]
<1>1. next = [editor EXCEPT !.controls = controls, !.dragging = editor.dragging]  BY DEF EditorRecord
<1>2. Becomes(next)  BY DEF Draws
<1>3. next.controls = controls  BY DEF EditorRecord
<1> HIDE DEF next
<1> QED BY <1>1, <1>2, <1>3, BecomesKeeps DEF ControlsTyped

LEMMA CropTyped ==
    ASSUME EditorRecord, ControlsTyped, NEW d, NEW geom \in SUBSET OpsOf(Geometry),
           Becomes([editor EXCEPT !.dragging = d, !.controls.geom = geom])
    PROVE  ControlsTyped'
<1> DEFINE controls == [editor.controls EXCEPT !.geom = geom]
           next     == [editor EXCEPT !.dragging = d, !.controls.geom = geom]
<1>1. controls \in ControlTypes  BY ControlParts DEF ControlsTyped
<1>2. next = [editor EXCEPT !.controls = controls, !.dragging = d] /\ next.controls = controls
  BY DEF EditorRecord
<1>3. Becomes(next)  OBVIOUS
<1> HIDE DEF next, controls
<1> QED BY <1>1, <1>2, <1>3, BecomesKeeps DEF ControlsTyped

LEMMA ControlsStayTyped ==
    ASSUME EditorRecord, VersionRows, ShownAreSaved, ControlsTyped, ControlStep
    PROVE  ControlsTyped'
<1> DEFINE c == editor.controls
<1>0. /\ c \in ControlTypes /\ c.geom \subseteq OpsOf(Geometry)
      /\ c.areas \in Seq(OpsOf({"redact"})) /\ c.marks \in Seq(OpsOf({"text", "arrow", "frame"}))
  BY ControlParts DEF ControlsTyped
<1>1. ASSUME NEW o \in Strokes, ControlSet(o) PROVE ControlsTyped'
  <2>0. o \in Operations  BY EditorAssumption
  <2>1. CASE /\ o.op \in Geometry \ {"crop"}
             /\ Draws([c EXCEPT !.geom = {p \in @ : p.op # o.op} \cup ({o} \ @)])
    <3>1. PICK geom : geom = {p \in c.geom : p.op # o.op} \cup ({o} \ c.geom)  OBVIOUS
    <3>2. o \in OpsOf(Geometry)  BY <2>0, <2>1 DEF OpsOf
    <3>3. geom \subseteq OpsOf(Geometry)  BY <1>0, <3>1, <3>2
    <3>4. Draws([c EXCEPT !.geom = geom])  BY <2>1, <3>1
    <3>5. [c EXCEPT !.geom = geom] \in ControlTypes  BY <1>0, <3>3, ControlParts
    <3> QED BY <3>4, <3>5, DrawnTyped
  <2>2. CASE o.op = "redact" /\ Draws([c EXCEPT !.areas = Append(@, o)])
    <3>1. PICK areas : areas = Append(c.areas, o)  OBVIOUS
    <3>2. o \in OpsOf({"redact"})  BY <2>0, <2>2 DEF OpsOf
    <3>3. areas \in Seq(OpsOf({"redact"}))  BY <1>0, <3>1, <3>2
    <3>4. Draws([c EXCEPT !.areas = areas])  BY <2>2, <3>1
    <3>5. [c EXCEPT !.areas = areas] \in ControlTypes  BY <1>0, <3>3, ControlParts
    <3> QED BY <3>4, <3>5, DrawnTyped
  <2>3. CASE o.op \in {"text", "arrow", "frame"} /\ Draws([c EXCEPT !.marks = Append(@, o)])
    <3>1. PICK marks : marks = Append(c.marks, o)  OBVIOUS
    <3>2. o \in OpsOf({"text", "arrow", "frame"})  BY <2>0, <2>3 DEF OpsOf
    <3>3. marks \in Seq(OpsOf({"text", "arrow", "frame"}))  BY <1>0, <3>1, <3>2
    <3>4. Draws([c EXCEPT !.marks = marks])  BY <2>3, <3>1
    <3>5. [c EXCEPT !.marks = marks] \in ControlTypes  BY <1>0, <3>3, ControlParts
    <3> QED BY <3>4, <3>5, DrawnTyped
  <2> QED BY <1>1, <2>1, <2>2, <2>3 DEF ControlSet
<1>2. CASE StrokeRemoved
  <2>1. ASSUME NEW i \in DOMAIN c.areas, Draws([c EXCEPT !.areas = RemoveAt(@, i)]) PROVE ControlsTyped'
    <3>1. PICK areas : areas = RemoveAt(c.areas, i)  OBVIOUS
    <3>2. areas \in Seq(OpsOf({"redact"}))  BY <1>0, <3>1, WithoutOne
    <3>3. Draws([c EXCEPT !.areas = areas])  BY <2>1, <3>1
    <3>4. [c EXCEPT !.areas = areas] \in ControlTypes  BY <1>0, <3>2, ControlParts
    <3> QED BY <3>3, <3>4, DrawnTyped
  <2>2. ASSUME NEW i \in DOMAIN c.marks, Draws([c EXCEPT !.marks = RemoveAt(@, i)]) PROVE ControlsTyped'
    <3>1. PICK marks : marks = RemoveAt(c.marks, i)  OBVIOUS
    <3>2. marks \in Seq(OpsOf({"text", "arrow", "frame"}))  BY <1>0, <3>1, WithoutOne
    <3>3. Draws([c EXCEPT !.marks = marks])  BY <2>2, <3>1
    <3>4. [c EXCEPT !.marks = marks] \in ControlTypes  BY <1>0, <3>2, ControlParts
    <3> QED BY <3>3, <3>4, DrawnTyped
  <2> QED BY <1>2, <2>1, <2>2 DEF StrokeRemoved
<1>3. CASE ControlsReset  BY <1>3, UntouchedIsEmpty, DrawnTyped DEF ControlsReset
<1>4. ASSUME NEW v, RecipeLoaded(v) PROVE ControlsTyped'
  <2>1. v \in Saved /\ Draws(ControlsOf(version[v].recipe))  BY <1>4 DEF RecipeLoaded, ShownAreSaved
  <2>2. version[v].recipe \in Seq(Operations)  BY <2>1 DEF VersionRows, Stable
  <2> QED BY <2>1, <2>2, ControlsTypedOf, DrawnTyped
<1>5. CASE CropBegins
  <2>1. PICK geom : geom = {p \in c.geom : p.op # "crop"} \cup {Op("crop", "tiny")}  OBVIOUS
  <2>2. Op("crop", "tiny") \in OpsOf(Geometry)
    <3>1. "crop" \in Geometry /\ "tiny" \in Values  BY GeometryIs, RecipeAssumption
    <3> QED BY <3>1 DEF OpsOf, Operations, Op
  <2>3. geom \in SUBSET OpsOf(Geometry)  BY <1>0, <2>1, <2>2
  <2>4. Becomes([editor EXCEPT !.dragging = TRUE, !.controls.geom = geom])  BY <1>5, <2>1 DEF CropBegins
  <2> QED BY <2>3, <2>4, CropTyped
<1>6. CASE CropEnds
  <2>1. PICK crop : /\ crop \in {{}} \cup {{o} : o \in {p \in Strokes : p.op = "crop"}}
                    /\ Becomes([editor EXCEPT !.dragging = FALSE,
                                  !.controls.geom = {p \in @ : p.op # "crop"} \cup crop])
    BY <1>6 DEF CropEnds
  <2>2. PICK geom : geom = {p \in c.geom : p.op # "crop"} \cup crop  OBVIOUS
  <2>3. crop \subseteq OpsOf(Geometry)  BY <2>1, EditorAssumption, GeometryIs DEF OpsOf
  <2>4. geom \in SUBSET OpsOf(Geometry)  BY <1>0, <2>2, <2>3
  <2>5. Becomes([editor EXCEPT !.dragging = FALSE, !.controls.geom = geom])  BY <2>1, <2>2
  <2> QED BY <2>4, <2>5, CropTyped
<1>7. ASSUME CompareClosed \/ \E v : CompareOpened(v) PROVE ControlsTyped'
  <2>1. editor'.controls = editor.controls
    BY <1>7 DEF CompareClosed, CompareOpened, EditorRecord
  <2> QED BY <2>1 DEF ControlsTyped
<1> QED BY <1>1, <1>2, <1>3, <1>4, <1>5, <1>6, <1>7 DEF ControlStep

LEMMA NoEditorTyped == NoEditor.controls \in ControlTypes /\ NoEditor.shown = {}
BY UntouchedIsEmpty DEF NoEditor

\* Without a saving the versions stay as they are, and what is shown of them is there.
LEMMA VersionsLooked ==
    ASSUME EditorInv, VersionsInv,
           \/ (\E f \in Files : EditorOpened(f)) \/ EditorClosed \/ ControlStep \/ AnswerStep
    PROVE  ShownAreSaved' /\ ControlsTyped' /\ UNCHANGED <<version, edit, jobs>>
<1>0. EditorRecord /\ ListingRecords /\ VersionRows /\ ShownAreSaved /\ ControlsTyped
  BY DEF EditorInv, EditorFields, VersionsInv
<1>1. ASSUME UNCHANGED version, editor'.shown \subseteq Saved, \A l \in listings' : l.shown \subseteq Saved
      PROVE  ShownAreSaved'
  BY <1>1, SameVersions DEF ShownAreSaved
<1>2. ASSUME NEW f \in Files, EditorOpened(f)
      PROVE  ShownAreSaved' /\ ControlsTyped' /\ UNCHANGED <<version, edit, jobs>>
  <2>1. /\ editor' = [NoEditor EXCEPT !.file = f, !.no = left["editor"], !.base = TRUE]
        /\ listings' = listings \cup {Listing(0, f)} /\ UNCHANGED <<version, edit, jobs>>
    BY <1>2 DEF EditorOpened, Refreshes, mediaVars
  <2>2. editor'.controls = NoEditor.controls /\ editor'.shown = NoEditor.shown  BY <2>1 DEF NoEditor
  <2>3. Listing(0, f).shown = {}  BY DEF Listing
  <2>4. \A l \in listings' : l.shown \subseteq Saved  BY <1>0, <2>1, <2>3 DEF ShownAreSaved
  <2> QED BY <1>1, <2>1, <2>2, <2>4, NoEditorTyped DEF ControlsTyped
<1>3. CASE EditorClosed
  <2>1. editor' = NoEditor /\ listings' = {} /\ UNCHANGED <<version, edit, jobs>>
    BY <1>3 DEF EditorClosed, mediaVars
  <2>2. editor'.shown = {} /\ editor'.controls \in ControlTypes  BY <2>1, NoEditorTyped
  <2> QED BY <1>1, <2>1, <2>2 DEF ControlsTyped
<1>4. CASE ControlStep
  <2>1. editor'.shown = editor.shown /\ UNCHANGED <<listings, version, edit, jobs>>
    BY <1>0, <1>4, DrawingIsAside
  <2> QED BY <1>0, <1>1, <1>4, <2>1, ControlsStayTyped DEF ShownAreSaved
<1>5. ASSUME \/ BaseAnswered \/ PreviewAsked
             \/ (\E p : \E ok \in BOOLEAN : PreviewAnswered(p, ok))
             \/ (\E c : \E ok \in BOOLEAN : CompareAnswered(c, ok))
      PROVE  ShownAreSaved' /\ ControlsTyped' /\ UNCHANGED <<version, edit, jobs>>
  <2>1. editor'.shown = editor.shown /\ UNCHANGED <<listings, version, edit, jobs>>
    BY <1>0, <1>5, DrawingIsAside
  <2>2. editor'.controls = editor.controls
    <3>1. ASSUME \/ \E base : editor' = [editor EXCEPT !.base = base]
                 \/ \E due : editor' = [editor EXCEPT !.due = due]
                 \/ \E loading, preview : editor' = [editor EXCEPT !.loading = loading, !.preview = preview]
                 \/ \E compared : editor' = [editor EXCEPT !.compared = compared]
                 \/ editor' = editor
          PROVE  editor'.controls = editor.controls
      BY <1>0, <3>1 DEF EditorRecord
    <3>2. CASE BaseAnswered  BY <3>1, <3>2 DEF BaseAnswered
    <3>3. CASE PreviewAsked  BY <3>1, <3>3 DEF PreviewAsked
    <3>4. ASSUME NEW p, NEW ok \in BOOLEAN, PreviewAnswered(p, ok) PROVE editor'.controls = editor.controls
      BY <3>1, <3>4 DEF PreviewAnswered
    <3>5. ASSUME NEW c, NEW ok \in BOOLEAN, CompareAnswered(c, ok) PROVE editor'.controls = editor.controls
      BY <3>1, <3>5 DEF CompareAnswered
    <3> QED BY <1>5, <3>2, <3>3, <3>4, <3>5
  <2> QED BY <1>0, <1>1, <2>1, <2>2 DEF ShownAreSaved, ControlsTyped
<1>6. ASSUME NEW l, ListingServed(l)
      PROVE  ShownAreSaved' /\ ControlsTyped' /\ UNCHANGED <<version, edit, jobs>>
  <2>1. PICK now, m : now = VersionsSaved(l.of) /\ m = [l EXCEPT !.served = TRUE, !.shown = now]  OBVIOUS
  <2>2. /\ l \in listings /\ listings' = (listings \ {l}) \cup {m}
        /\ UNCHANGED <<editor, edit, version, jobs>>
    BY <1>6, <2>1 DEF ListingServed, mediaVars
  <2>3. m.shown = now
    <3>1. l = [no |-> l.no, of |-> l.of, served |-> l.served, shown |-> l.shown]
      BY <1>0, <2>2 DEF ListingRecords
    <3> QED BY <2>1, <3>1
  <2>4. m.shown \subseteq Saved  BY <2>1, <2>3 DEF VersionsSaved
  <2> QED BY <1>0, <1>1, <2>2, <2>4 DEF ShownAreSaved, ControlsTyped
<1>7. ASSUME NEW l, NEW ok \in BOOLEAN, ListingAnswered(l, ok)
      PROVE  ShownAreSaved' /\ ControlsTyped' /\ UNCHANGED <<version, edit, jobs>>
  <2>1. /\ l \in listings /\ listings' = listings \ {l}
        /\ editor' = IF ok THEN [editor EXCEPT !.shown = l.shown] ELSE editor
        /\ UNCHANGED <<edit, version, jobs>>
    BY <1>7 DEF ListingAnswered, mediaVars
  <2>2. editor'.controls = editor.controls /\ editor'.shown \in {l.shown, editor.shown}
    BY <1>0, <2>1 DEF EditorRecord
  <2> QED BY <1>0, <1>1, <2>1, <2>2 DEF ShownAreSaved, ControlsTyped
<1> QED BY <1>2, <1>3, <1>4, <1>5, <1>6, <1>7 DEF AnswerStep

\* What is shown of the versions stays there when versions are added.
LEMMA ShownStaySaved ==
    ASSUME EditorRecord, ShownAreSaved, ControlsTyped, RowsGrow, NEW no,
           listings' = listings \/ listings' = listings \cup {Listing(no, editor.file)},
           editor'.shown = editor.shown /\ editor'.controls = editor.controls
    PROVE  ShownAreSaved' /\ ControlsTyped'
<1>1. Listing(no, editor.file).shown = {}  BY DEF Listing
<1> QED BY <1>1 DEF ShownAreSaved, ControlsTyped, RowsGrow

\* What is saved of the controls, or of a version, is an edit to be saved.
LEMMA EditIsMade ==
    ASSUME VersionRows, ShownAreSaved, ControlsTyped, NEW f, NEW n, NEW share
    PROVE  /\ EditIsOf([of |-> f, no |-> n, recipe |-> Recipe, share |-> share, copyOf |-> None])
           /\ \A v \in editor.shown :
                 EditIsOf([of |-> f, no |-> n, recipe |-> version[v].recipe, share |-> FALSE, copyOf |-> v])
<1>1. Recipe \in Seq(Operations) /\ ~Strips(Recipe)  BY RecipeTyped DEF Recipe, ControlsTyped
<1>2. \A v \in editor.shown : v \in Saved /\ version[v].recipe \in Seq(Operations)
  BY DEF ShownAreSaved, VersionRows, Stable
<1> QED BY <1>1, <1>2 DEF EditIsOf

\* One work's edit may change, and what waits in the queue may grow or lose its head.
LEMMA EditsGoOn ==
    ASSUME EditsAreUnderWay, EditsAreOf, RowsGrow, NEW w \in Works, NEW todo, EditIsOf(todo),
           edit' = edit \/ edit' = [edit EXCEPT ![w] = todo],
           jobs' = jobs \/ jobs' = Append(jobs, edit[w]) \/ (jobs # <<>> /\ jobs' = Tail(jobs))
    PROVE  EditsAreOf'
<1>1. \A x : EditIsOf(x) => EditIsOf(x)'  BY EditStaysOf
<1>2. \A v \in Works : edit'[v] = edit[v] \/ edit'[v] = todo  BY DEF EditsAreUnderWay
<1>3. (\A v \in Works : EditIsOf(edit[v]))'
  <2>1. \A v \in Works : \E x : x = edit'[v] /\ EditIsOf(x)  BY <1>2 DEF EditsAreOf
  <2>2. \A v \in Works : \E x : x = edit'[v] /\ EditIsOf(x)'  BY <1>1, <2>1
  <2> QED BY <2>2 DEF EditIsOf
<1>4. (\E T : jobs \in Seq(T) /\ \A x \in T : EditIsOf(x))'
  <2>1. PICK S : jobs \in Seq(S) /\ \A x \in S : EditIsOf(x)  BY DEF EditsAreOf
  <2>2. PICK e : e = edit[w]  OBVIOUS
  <2>3. EditIsOf(e)  BY <2>2 DEF EditsAreOf
  <2>4. jobs' \in Seq(S \cup {e})
    <3>1. jobs \in Seq(S \cup {e})  BY <2>1
    <3>2. Append(jobs, e) \in Seq(S \cup {e})  BY <3>1
    <3>3. jobs # <<>> => Tail(jobs) \in Seq(S \cup {e})  BY <3>1
    <3> QED BY <2>2, <3>1, <3>2, <3>3
  <2> QED BY <1>1, <2>1, <2>3, <2>4
<1> QED BY <1>3, <1>4 DEF EditsAreOf

\* What a saving does to the editor and to the edits, but for the version it may write.
LEMMA SavingOfTheEditor ==
    ASSUME EditorRecord, VersionRows, ShownAreSaved, ControlsTyped, EditsAreOf, NEW w \in Works,
           \/ \E share \in BOOLEAN : SaveClicked(w, share)
           \/ \E v \in Versions : DuplicateClicked(w, v)
           \/ QueueClicked(w) \/ EditServed(w) \/ EditAnswered(w) \/ RefreshedLater(w) \/ EditRefused(w)
    PROVE  /\ editor'.shown = editor.shown /\ editor'.controls = editor.controls
           /\ \E no : listings' = listings \/ listings' = listings \cup {Listing(no, editor.file)}
           /\ \E todo : EditIsOf(todo) /\ (edit' = edit \/ edit' = [edit EXCEPT ![w] = todo])
           /\ jobs' = jobs \/ jobs' = Append(jobs, edit[w])
           /\ version' = version \/ SavesVersion(edit[w])
<1>1. ASSUME \/ \E saving : editor' = [editor EXCEPT !.saving = saving]
             \/ \E copying : editor' = [editor EXCEPT !.copying = copying]
             \/ \E saving, copying : editor' = [editor EXCEPT !.saving = saving, !.copying = copying]
             \/ editor' = editor
      PROVE  editor'.shown = editor.shown /\ editor'.controls = editor.controls
  BY <1>1 DEF EditorRecord
<1>2. ASSUME NEW op, NEW todo, NEW next, NEW kind, EditStarts(w, op, todo, next, kind), EditIsOf(todo),
             \/ next = [editor EXCEPT !.saving = TRUE]
             \/ \E copying : next = [editor EXCEPT !.copying = copying]
      PROVE  /\ editor'.shown = editor.shown /\ editor'.controls = editor.controls
             /\ listings' = listings /\ jobs' = jobs /\ version' = version
             /\ EditIsOf(todo) /\ edit' = [edit EXCEPT ![w] = todo]
  <2>1. /\ editor' = next /\ edit' = [edit EXCEPT ![w] = todo]
        /\ listings' = listings /\ jobs' = jobs /\ version' = version
    BY <1>2 DEF EditStarts, requestVars
  <2> QED BY <1>1, <1>2, <2>1
<1>3. ASSUME NEW share \in BOOLEAN, SaveClicked(w, share)
      PROVE  /\ editor'.shown = editor.shown /\ editor'.controls = editor.controls
             /\ listings' = listings /\ jobs' = jobs /\ version' = version
             /\ \E todo : EditIsOf(todo) /\ edit' = [edit EXCEPT ![w] = todo]
  <2>1. PICK todo : todo = [of |-> editor.file, no |-> editor.no, recipe |-> Recipe, share |-> share, copyOf |-> None]
    OBVIOUS
  <2>2. EditIsOf(todo)  BY <2>1, EditIsMade
  <2>3. EditStarts(w, "edit", todo, [editor EXCEPT !.saving = TRUE], "save")  BY <1>3, <2>1 DEF SaveClicked
  <2> QED BY <1>2, <2>2, <2>3
<1>4. ASSUME QueueClicked(w)
      PROVE  /\ editor'.shown = editor.shown /\ editor'.controls = editor.controls
             /\ listings' = listings /\ jobs' = jobs /\ version' = version
             /\ \E todo : EditIsOf(todo) /\ edit' = [edit EXCEPT ![w] = todo]
  <2>1. PICK todo : todo = [of |-> editor.file, no |-> editor.no, recipe |-> Recipe, share |-> FALSE, copyOf |-> None]
    OBVIOUS
  <2>2. EditIsOf(todo)  BY <2>1, EditIsMade
  <2>3. EditStarts(w, "queue", todo, [editor EXCEPT !.saving = TRUE], "queue")  BY <1>4, <2>1 DEF QueueClicked
  <2> QED BY <1>2, <2>2, <2>3
<1>5. ASSUME NEW v \in Versions, DuplicateClicked(w, v)
      PROVE  /\ editor'.shown = editor.shown /\ editor'.controls = editor.controls
             /\ listings' = listings /\ jobs' = jobs /\ version' = version
             /\ \E todo : EditIsOf(todo) /\ edit' = [edit EXCEPT ![w] = todo]
  <2>1. PICK todo, copying :
           /\ todo = [of |-> editor.file, no |-> editor.no, recipe |-> version[v].recipe, share |-> FALSE, copyOf |-> v]
           /\ copying = editor.copying \cup {v}
    OBVIOUS
  <2>2. v \in editor.shown  BY <1>5 DEF DuplicateClicked
  <2>3. EditIsOf(todo)  BY <2>1, <2>2, EditIsMade
  <2>4. EditStarts(w, "edit", todo, [editor EXCEPT !.copying = copying], "copy")
    BY <1>5, <2>1 DEF DuplicateClicked
  <2> QED BY <1>2, <2>3, <2>4
<1>6. CASE EditServed(w)
  <2>1. UNCHANGED <<editor, listings, edit>> /\ EditIsOf(edit[w])
    BY <1>6 DEF EditServed, requestVars, EditsAreOf
  <2>2. jobs' = jobs \/ jobs' = Append(jobs, edit[w])  BY <1>6 DEF EditServed
  <2>3. version' = version \/ SavesVersion(edit[w])  BY <1>6 DEF EditServed
  <2> QED BY <2>1, <2>2, <2>3
<1>7. CASE EditAnswered(w)
  <2>1. UNCHANGED <<version, jobs>> /\ (edit' = edit \/ edit' = [edit EXCEPT ![w] = NoEdit])
    BY <1>7 DEF EditAnswered
  <2>2. listings' = listings \/ listings' = listings \cup {Listing(w, editor.file)}
    BY <1>7 DEF EditAnswered, Refreshes
  <2>3. PICK copying : copying = editor.copying \ {edit[w].copyOf}  OBVIOUS
  <2>4. \/ editor' = editor \/ editor' = [editor EXCEPT !.copying = copying]
        \/ editor' = [editor EXCEPT !.saving = FALSE]
    BY <1>7, <2>3 DEF EditAnswered
  <2>5. editor'.shown = editor.shown /\ editor'.controls = editor.controls  BY <1>1, <2>4
  <2> QED BY <2>1, <2>2, <2>5, NoEditIsOf
<1>8. CASE RefreshedLater(w)
  <2>1. UNCHANGED <<version, jobs, editor>> /\ edit' = [edit EXCEPT ![w] = NoEdit]
    BY <1>8 DEF RefreshedLater
  <2>2. listings' = listings \/ listings' = listings \cup {Listing(w, editor.file)}
    BY <1>8 DEF RefreshedLater, Refreshes
  <2> QED BY <2>1, <2>2, NoEditIsOf
<1>9. CASE EditRefused(w)
  <2>1. UNCHANGED <<version, jobs, listings>> /\ edit' = [edit EXCEPT ![w] = NoEdit]
    BY <1>9 DEF EditRefused, requestVars
  <2> DEFINE saving  == editor.saving /\ (~Mine(edit[w]) \/ edit[w].copyOf # None)
             copying == IF Mine(edit[w]) THEN editor.copying \ {edit[w].copyOf} ELSE editor.copying
  <2>2. editor' = [editor EXCEPT !.saving = saving, !.copying = copying]  BY <1>9 DEF EditRefused
  <2> HIDE DEF saving, copying
  <2>3. editor'.shown = editor.shown /\ editor'.controls = editor.controls  BY <1>1, <2>2
  <2> QED BY <2>1, <2>3, NoEditIsOf
<1> QED BY <1>3, <1>4, <1>5, <1>6, <1>7, <1>8, <1>9

LEMMA VersionsKept ==
    ASSUME EditorInv, EditsAreUnderWay, VersionsInv, ScreensNext
    PROVE  VersionsInv'
<1>0. /\ EditorRecord /\ VersionRows /\ ShownAreSaved /\ ControlsTyped /\ EditsAreOf /\ DuplicateKeepsRecipe
  BY DEF EditorInv, EditorFields, VersionsInv
<1>1. ASSUME UNCHANGED <<version, edit, jobs>> PROVE VersionRows' /\ EditsAreOf' /\ DuplicateKeepsRecipe'
  <2>1. RowsGrow /\ VersionRows' /\ DuplicateKeepsRecipe'  BY <1>0, <1>1, NothingSaved
  <2>2. \A todo : EditIsOf(todo)' <=> EditIsOf(todo)
    BY <1>1, SameVersions DEF EditIsOf
  <2>3. EditsAreOf'  BY <1>0, <1>1, <2>2 DEF EditsAreOf
  <2> QED BY <2>1, <2>3
<1>2. CASE UNCHANGED editorVars
  <2>1. UNCHANGED <<editor, listings, version, edit, jobs>>  BY <1>2 DEF editorVars, requestVars, mediaVars
  <2>2. ShownAreSaved' /\ ControlsTyped'  BY <1>0, <2>1, SameVersions DEF ShownAreSaved, ControlsTyped
  <2> QED BY <1>1, <2>1, <2>2 DEF VersionsInv
<1>3. CASE (\E f \in Files : EditorOpened(f)) \/ EditorClosed \/ ControlStep \/ AnswerStep
  BY <1>1, <1>3, VersionsLooked DEF VersionsInv
<1>4. CASE JobSaved
  <2>1. /\ jobs # <<>> /\ SavesVersion(Head(jobs)) /\ jobs' = Tail(jobs)
        /\ UNCHANGED <<editor, listings, edit>>
    BY <1>4 DEF JobSaved, requestVars
  <2>2. EditIsOf(Head(jobs))
    <3>1. PICK S : jobs \in Seq(S) /\ \A x \in S : EditIsOf(x)  BY <1>0 DEF EditsAreOf
    <3>2. Head(jobs) \in S  BY <2>1, <3>1
    <3> QED BY <3>1, <3>2
  <2>3. VersionRows' /\ DuplicateKeepsRecipe' /\ RowsGrow  BY <1>0, <2>1, <2>2, VersionIsSaved
  <2>4. ShownAreSaved' /\ ControlsTyped'  BY <1>0, <2>1, <2>3, ShownStaySaved
  <2>5. EditsAreOf'
    <3>1. CASE Works = {}
      <4>1. PICK S : jobs \in Seq(S) /\ \A x \in S : EditIsOf(x)  BY <1>0 DEF EditsAreOf
      <4>2. Tail(jobs) \in Seq(S)  BY <2>1, <4>1
      <4> QED BY <2>1, <2>3, <3>1, <4>1, <4>2, EditStaysOf DEF EditsAreOf
    <3>2. CASE Works # {}  BY <1>0, <2>1, <2>3, <3>2, NoEditIsOf, EditsGoOn
    <3> QED BY <3>1, <3>2
  <2> QED BY <2>3, <2>4, <2>5 DEF VersionsInv
<1>5. ASSUME NEW w \in Works,
             \/ \E share \in BOOLEAN : SaveClicked(w, share)
             \/ \E v \in Versions : DuplicateClicked(w, v)
             \/ QueueClicked(w) \/ EditServed(w) \/ EditAnswered(w) \/ RefreshedLater(w) \/ EditRefused(w)
      PROVE  VersionsInv'
  <2>1. /\ editor'.shown = editor.shown /\ editor'.controls = editor.controls
        /\ \E no : listings' = listings \/ listings' = listings \cup {Listing(no, editor.file)}
        /\ \E todo : EditIsOf(todo) /\ (edit' = edit \/ edit' = [edit EXCEPT ![w] = todo])
        /\ jobs' = jobs \/ jobs' = Append(jobs, edit[w])
        /\ version' = version \/ SavesVersion(edit[w])
    BY <1>0, <1>5, SavingOfTheEditor
  <2>2. EditIsOf(edit[w])  BY <1>0 DEF EditsAreOf
  <2>3. VersionRows' /\ DuplicateKeepsRecipe' /\ RowsGrow
    BY <1>0, <2>1, <2>2, NothingSaved, VersionIsSaved
  <2>4. ShownAreSaved' /\ ControlsTyped'  BY <1>0, <2>1, <2>3, ShownStaySaved
  <2>5. EditsAreOf'  BY <1>0, <2>1, <2>3, EditsGoOn
  <2> QED BY <2>3, <2>4, <2>5 DEF VersionsInv
<1> QED BY <1>2, <1>3, <1>4, <1>5 DEF ScreensNext, EditorStep, SavingStep

-----------------------------------------------------------------------------
(* The page and its editor *)

LEMMA NothingStarted ==
    ASSUME ScreensInit
    PROVE  PaneIsOfItsFile /\ ListInv /\ EditorInv /\ EditsAreUnderWay /\ ListingsAreTrue
<1>1. PICK s \in Scenarios : PageInit(s.user, s.rows, s.kept, s.landing, s.budget) /\ EditorInit(s.edited)
  BY DEF ScreensInit
<1>2. PaneIsOfItsFile  BY <1>1 DEF PageInit, PaneIsOfItsFile, Closed
<1>3. /\ screen.ready = FALSE /\ doubt = FALSE /\ ScreenRecord
      /\ calls = [t \in Slots |-> NoCall] /\ work = [w \in Works |-> NoWork]
  BY <1>1 DEF PageInit, ScreenRecord, IsScreen
<1>4. ListInv
  <2>1. /\ NoCall = [pc |-> NoCall.pc, kind |-> NoCall.kind, query |-> NoCall.query,
                     answer |-> NoCall.answer, alive |-> NoCall.alive, work |-> NoCall.work]
        /\ NoWork = [op |-> NoWork.op, pc |-> NoWork.pc, target |-> NoWork.target, query |-> NoWork.query]
        /\ NoCall.kind \notin {"fetch", "reload"} /\ NoWork.op \notin {"upload", "delete", "edit"}
    BY DEF NoCall, NoWork
  <2>2. (\A t \in Slots : calls[t] = NoCall) /\ \A w \in Works : work[w] = NoWork  BY <1>3
  <2>3. CallRecords /\ WorkRecords  BY <1>3, <2>1, <2>2 DEF CallRecords, AreCalls, WorkRecords
  <2>4. AliveFetches = {} /\ Reloading = {}  BY <2>1, <2>2 DEF AliveFetches, Reloading
  <2>5. PageFields  BY <1>3, <2>3 DEF PageFields
  <2>6. CallsAreOfThePage  BY <1>3, <2>1, <2>2, <2>4 DEF CallsAreOfThePage
  <2> QED BY <1>3, <2>4, <2>5, <2>6 DEF ListInv, IdleIsCurrent, ReloadIsCurrent
<1>5. /\ editor = NoEditor /\ previews = {} /\ listings = {} /\ comparing = {}
      /\ edit = [w \in Works |-> NoEdit]
  BY <1>1 DEF EditorInit
<1>6. ~Open /\ EditorRecord /\ editor.due = FALSE /\ editor.compared = None  BY <1>5 DEF Open, EditorRecord, NoEditor
<1>7. EditorInv
  BY <1>5, <1>6 DEF EditorInv, EditorFields, ListingRecords, ClosedIsEmpty, PreviewsAreOfTheRecipe,
                    PreviewIsExact, ComparedIsChosen
<1>8. EditsAreUnderWay
  <2>1. \A w \in Works : edit[w] = NoEdit /\ work[w].op = "none"  BY <1>3, <1>5 DEF NoWork
  <2>2. edit = [w \in Works |-> edit[w]]  BY <1>5
  <2>3. \A w \in Works : edit[w] = [of |-> edit[w].of, no |-> edit[w].no, recipe |-> edit[w].recipe,
                                    share |-> edit[w].share, copyOf |-> edit[w].copyOf]
    BY <2>1, NoEditFields
  <2> QED BY <2>1, <2>2, <2>3 DEF EditsAreUnderWay
<1> QED BY <1>2, <1>4, <1>6, <1>7, <1>8 DEF ListingsAreTrue

\* The versions of a start are rows the program has written.
LEMMA VersionsAtTheStart ==
    ASSUME ScreensInit
    PROVE  VersionsInv
<1>1. PICK s \in Scenarios : EditorInit(s.edited)  BY DEF ScreensInit
<1> DEFINE rows == s.edited
           Row  == [of : Files, recipe : Seq(Operations), result : Files, copyOf : Versions \cup {None}]
<1>2. /\ rows \in Seq(Row) /\ DOMAIN rows \subseteq Versions
      /\ \A v \in DOMAIN rows :
            /\ Len(rows[v].recipe) <= MaxRecipe => Kept(rows[v].recipe) = rows[v].recipe
            /\ rows[v].copyOf # None =>
                  /\ rows[v].copyOf \in DOMAIN rows
                  /\ Len(rows[rows[v].copyOf].recipe) <= MaxRecipe => rows[v].recipe = rows[rows[v].copyOf].recipe
  BY ScenarioAssumption
<1>3. /\ editor = NoEditor /\ listings = {} /\ edit = [w \in Works |-> NoEdit] /\ jobs = <<>>
      /\ version = [v \in Versions |-> IF v \in DOMAIN rows THEN rows[v] ELSE NoVersion]
  BY <1>1 DEF EditorInit
<1> HIDE DEF rows
<1>4. Len(rows) \in Nat /\ DOMAIN rows = 1..Len(rows) /\ \A v \in DOMAIN rows : rows[v] \in Row
  BY <1>2, OfSeq
<1>5. Saved = DOMAIN rows
  <2>1. \A row \in Row : row # NoVersion  BY ScreenAssumption DEF NoVersion
  <2> QED BY <1>2, <1>3, <1>4, <2>1 DEF Saved
<1>6. \A v \in Saved : version[v] = rows[v]  BY <1>2, <1>3, <1>5
<1>7. Cardinality(Saved) = Len(rows)
  <2>1. \A b \in Int : Cardinality(1..b) = IF 1 > b THEN 0 ELSE b - 1 + 1  BY FS_Interval
  <2> QED BY <1>4, <1>5, <2>1
<1>8. version = [v \in Versions |-> [of |-> version[v].of, recipe |-> version[v].recipe,
                                     result |-> version[v].result, copyOf |-> version[v].copyOf]]
  <2>1. \A v \in Versions : version[v] = [of |-> version[v].of, recipe |-> version[v].recipe,
                                          result |-> version[v].result, copyOf |-> version[v].copyOf]
    BY <1>3, <1>4 DEF NoVersion
  <2>2. version = [v \in Versions |-> version[v]]  BY <1>3
  <2> QED BY <2>1, <2>2
<1>9. \A v \in Saved : Stable(version[v].recipe) /\ version[v].copyOf \in Saved \cup {None}
  BY <1>2, <1>4, <1>5, <1>6 DEF Stable
<1>10. VersionRows  BY <1>4, <1>5, <1>7, <1>8, <1>9 DEF VersionRows
<1>11. DuplicateKeepsRecipe  BY <1>2, <1>5, <1>6 DEF DuplicateKeepsRecipe
<1>12. ShownAreSaved /\ ControlsTyped  BY <1>3, NoEditorTyped DEF ShownAreSaved, ControlsTyped
<1>13. EditsAreOf
  <2>1. jobs \in Seq({}) /\ \A w \in Works : edit[w] = NoEdit  BY <1>3
  <2> QED BY <2>1, NoEditIsOf DEF EditsAreOf
<1> QED BY <1>10, <1>11, <1>12, <1>13 DEF VersionsInv

\* A step that changes nothing.
LEMMA NothingDone ==
    ASSUME ScreensInv, UNCHANGED screensVars
    PROVE  ScreensInv'
<1>1. UNCHANGED <<screen, calls, work, doubt, pane, asked, mixed, active,
                  editor, previews, listings, comparing, edit, version, jobs, failed, behind>>
  BY DEF screensVars, pageVars, archiveVars, screenVars, paneVars, editorVars, requestVars, mediaVars
<1>2. PaneIsOfItsFile'  BY <1>1 DEF ScreensInv, PaneIsOfItsFile
<1>3. ListInv'
  <2>1. WorkRecords' /\ Reloading' = Reloading
    BY <1>1 DEF ScreensInv, ListInv, PageFields, WorkRecords, Reloading
  <2> QED BY <1>1, <2>1, SameScreen, ListAside DEF ScreensInv
<1>4. EditorInv'
  BY <1>1 DEF ScreensInv, EditorInv, EditorFields, EditorRecord, ListingRecords, ClosedIsEmpty,
              PreviewsAreOfTheRecipe, PreviewIsExact, ComparedIsChosen, Open, Recipe
<1>5. EditsAreUnderWay'  BY <1>1 DEF ScreensInv, EditsAreUnderWay
<1>6. ListingsAreTrue'
  <2>1. Told' <=> Told  BY <1>1 DEF Told
  <2> QED BY <1>1, <2>1, ListingsAside DEF ScreensInv
<1>7. VersionsInv'
  <2>1. Saved' = Saved  BY <1>1, SameVersions
  <2>2. \A todo : EditIsOf(todo)' <=> EditIsOf(todo)  BY <1>1, <2>1 DEF EditIsOf
  <2>3. EditsAreOf'  BY <1>1, <2>2 DEF ScreensInv, VersionsInv, EditsAreOf
  <2> QED BY <1>1, <2>1, <2>3, NothingSaved DEF ScreensInv, VersionsInv, ShownAreSaved, ControlsTyped
<1> QED BY <1>2, <1>3, <1>4, <1>5, <1>6, <1>7 DEF ScreensInv

\* The invariant of the page with its editor.
THEOREM ScreensHold == ScreensSpec => []ScreensInv
<1>1. ScreensInit => ScreensInv  BY NothingStarted, VersionsAtTheStart DEF ScreensInv
<1>2. ScreensInv /\ ScreensNext => ScreensInv'
  BY PaneKept, ListKept, EditorKept, ListingsKept, VersionsKept DEF ScreensInv
<1>3. ScreensInv /\ [ScreensNext]_screensVars => ScreensInv'  BY <1>2, NothingDone
<1> QED BY <1>1, <1>3, PTL DEF ScreensSpec

\* When nothing is under way the list is what the archive answers to what the controls show,
\* whatever order the answers came in (the clean-up of the effect, files/page.tsx).
THEOREM ListShowsItsQuery == ScreensSpec => []ListIsCurrent
<1>1. ScreensInv => ListIsCurrent
  <2> SUFFICES ASSUME ListInv, screen.ready, Quiet, ~doubt PROVE screen.result = ListFiles(Query) /\ ~screen.loading
    BY DEF ScreensInv, ListIsCurrent
  <2>1. AliveFetches = {} /\ Reloading = {}  BY DEF Quiet, AliveFetches, NoCall
  <2> QED BY <2>1 DEF ListInv, IdleIsCurrent, Current
<1> QED BY <1>1, ScreensHold, PTL

\* The pane never shows the details or the preview of another file than the one it names,
\* unless two openings of it overlapped (openDetails clears what was shown).
THEOREM PaneShowsItsFile == ScreensSpec => []DetailsAreOfTheFile
<1>1. ScreensInv => DetailsAreOfTheFile
  BY DEF ScreensInv, PaneIsOfItsFile, DetailsAreOfTheFile
<1> QED BY <1>1, ScreensHold, PTL

\* The editor shows the picture of its recipe, the versions that are saved and the version that
\* was chosen: an answer to an earlier recipe or choice is never taken for it (ImageEditor.tsx).
THEOREM EditorIsTruthful == ScreensSpec => []EditorShowsTruth
<1>1. ScreensInv => EditorShowsTruth
  <2>1. ScreensInv => PreviewIsExact /\ editor.compared \in {None, editor.compare}
    BY DEF ScreensInv, EditorInv, ComparedIsChosen
  <2>2. ASSUME ScreensInv, Open, listings = {}, ~behind, \A w \in Works : edit[w] = NoEdit
        PROVE  editor.shown = VersionsSaved(editor.file)
    <3>1. Told  BY <2>2, NoEditFields DEF ScreensInv, EditsAreUnderWay, Told
    <3> QED BY <2>2, <3>1 DEF ScreensInv, ListingsAreTrue
  <2> QED BY <2>1, <2>2 DEF EditorShowsTruth, VersionsAreListed
<1> QED BY <1>1, ScreensHold, PTL

\* A copy of a version has its recipe if that is looked at whole, however many versions and
\* whatever operations: sanitizeRecipe gives back what it once gave (MediaService.saveVersion).
THEOREM CopyKeepsRecipe == ScreensSpec => []DuplicateKeepsRecipe
<1>1. ScreensInv => DuplicateKeepsRecipe  BY DEF ScreensInv, VersionsInv
<1> QED BY <1>1, ScreensHold, PTL
=============================================================================
