------------------------------ MODULE RenderQueue ------------------------------
(***************************************************************************)
(* RenderService: a queue of edit jobs kept in the RenderJob table and a   *)
(* worker inside the server.  A timer calls tick every POLL_MS; each call  *)
(* is a chain of awaits of its own, so calls overlap when the database is  *)
(* slow.  A claimed job runs saveVersion (EditVersions), side by side with *)
(* the editors who save without the queue.  The server may die at any time *)
(* and is started again by the container runtime; the tables survive.      *)
(***************************************************************************)
EXTENDS EditVersions

CONSTANTS Jobs,       \* RenderJob rows
          Ticks,      \* calls of tick that may be under way at once
          Workers,    \* calls of process that may be under way at once
          Bounds      \* what a behaviour may have at most: records of the jobs and the calls
                      \* of tick it uses, its slots for processes and editors, its crashes,
                      \* and its failed statements on RenderJob

\* Every running process saves through a slot of its own; the other slots are editors'.
ASSUME QueueAssumption ==
    /\ Workers \subseteq Saves /\ IsFiniteSet(Workers)
    /\ Null \notin Jobs
    /\ \A b \in Bounds : b.crashes \in Nat /\ b.faults \in Nat

VARIABLES
    queue,    \* the jobs in the order of their createdAt
    status,   \* RenderJob.status, "none" before the job exists
    result,   \* RenderJob.resultFileId, 0 for null
    up,       \* the server runs and its timer is set
    running,  \* RenderService.running
    tick,     \* the calls of tick
    worker,   \* the calls of process
    bound,    \* the bounds of this behaviour
    crashes,  \* crashes so far
    faults,   \* failed statements so far
    requeued  \* history: how often a restart has put the job back

jobVars    == <<queue, status, result>>
serverVars == <<up, running, tick, worker>>
boundVars  == <<bound, crashes, faults, requeued>>
vars       == <<editVars, jobVars, serverVars, boundVars>>

MAX_CONCURRENCY == 1

Editors  == Saves \ Workers
Terminal == {"done", "failed", "canceled"}

NoTick   == [pc |-> "idle", job |-> Null]
NoWorker == [pc |-> "idle", job |-> Null]

Init == /\ EditInit
        /\ queue = <<>>
        /\ status = [j \in Jobs |-> "none"]
        /\ result = [j \in Jobs |-> 0]
        /\ up = TRUE /\ running = 0
        /\ tick = [t \in Ticks |-> NoTick]
        /\ worker = [w \in Workers |-> NoWorker]
        /\ bound \in Bounds /\ crashes = 0 /\ faults = 0
        /\ requeued = [j \in Jobs |-> 0]

-----------------------------------------------------------------------------
(* The HTTP side                                                           *)

Enqueue(j) == /\ up /\ j \in bound.jobs
              /\ status[j] = "none"
              /\ status' = [status EXCEPT ![j] = "pending"]
              /\ queue' = Append(queue, j)
              /\ UNCHANGED <<editVars, result, serverVars, boundVars>>

\* Faulty: cancels whatever has not ended yet.
CancelUnended(j) == /\ up
                    /\ status[j] \in {"pending", "processing"}
                    /\ status' = [status EXCEPT ![j] = "canceled"]
                    /\ UNCHANGED <<editVars, queue, result, serverVars, boundVars>>

\* updateMany where status = pending; nothing changes if it hits no row.
Cancel(j) == /\ up
             /\ status[j] = "pending"
             /\ status' = [status EXCEPT ![j] = "canceled"]
             /\ UNCHANGED <<editVars, queue, result, serverVars, boundVars>>

\* POST /media/edits, and duplicateVersion, which runs the same call.
EditorSaves(s) == /\ up /\ s \in bound.slots
                  /\ \/ SaveBegins(s)
                     \/ SaveStep(s, Null)
                     \/ SaveFails(s)
                  /\ UNCHANGED <<jobVars, serverVars, boundVars>>

-----------------------------------------------------------------------------
(* tick                                                                    *)

\* The places in the queue of the pending jobs.
Pending == {i \in DOMAIN queue : status[queue[i]] = "pending"}

TickStarts(t) == /\ up /\ t \in bound.ticks
                 /\ tick[t].pc = "idle"
                 /\ running < MAX_CONCURRENCY
                 /\ tick' = [tick EXCEPT ![t].pc = "find"]
                 /\ UNCHANGED <<editVars, jobVars, up, running, worker, boundVars>>

\* Faulty: takes the newest pending job.
TickFindsNewest(t) ==
    /\ tick[t].pc = "find"
    /\ \/ Pending = {} /\ tick' = [tick EXCEPT ![t] = NoTick]
       \/ \E i \in Pending :
             /\ \A k \in Pending : k <= i
             /\ tick' = [tick EXCEPT ![t] = [pc |-> "claim", job |-> queue[i]]]
    /\ UNCHANGED <<editVars, jobVars, up, running, worker, boundVars>>

\* findFirst: the pending job with the least createdAt.
TickFinds(t) ==
    /\ tick[t].pc = "find"
    /\ \/ Pending = {} /\ tick' = [tick EXCEPT ![t] = NoTick]
       \/ \E i \in Pending :
             /\ \A k \in Pending : i <= k
             /\ tick' = [tick EXCEPT ![t] = [pc |-> "claim", job |-> queue[i]]]
    /\ UNCHANGED <<editVars, jobVars, up, running, worker, boundVars>>

\* Faulty: takes the job it has read whatever its status is now.
TickClaimsRead(t) ==
    /\ tick[t].pc = "claim"
    /\ status' = [status EXCEPT ![tick[t].job] = "processing"]
    /\ tick' = [tick EXCEPT ![t].pc = "won"]
    /\ UNCHANGED <<editVars, queue, result, up, running, worker, boundVars>>

\* updateMany where the job is still pending.
TickClaims(t) ==
    LET j == tick[t].job
    IN  /\ tick[t].pc = "claim"
        /\ IF status[j] = "pending"
           THEN /\ status' = [status EXCEPT ![j] = "processing"]
                /\ tick' = [tick EXCEPT ![t].pc = "won"]
           ELSE /\ tick' = [tick EXCEPT ![t] = NoTick]
                /\ UNCHANGED status
        /\ UNCHANGED <<editVars, queue, result, up, running, worker, boundVars>>

\* The claim's answer is back: running is counted and process(id) called without awaiting it.
TickStartsProcess(t) ==
    /\ tick[t].pc = "won"
    /\ \E w \in Workers \cap bound.slots :
          /\ worker[w].pc = "idle" /\ save[w].pc = "idle"
          /\ worker' = [worker EXCEPT ![w] = [pc |-> "load", job |-> tick[t].job]]
    /\ running' = running + 1
    /\ tick' = [tick EXCEPT ![t] = NoTick]
    /\ UNCHANGED <<editVars, jobVars, up, boundVars>>

\* The read or the update fails: the call of tick is over, the timer goes on.
TickFails(t) == /\ tick[t].pc \in {"find", "claim"}
                /\ faults < bound.faults
                /\ faults' = faults + 1
                /\ tick' = [tick EXCEPT ![t] = NoTick]
                /\ UNCHANGED <<editVars, jobVars, up, running, worker, bound, crashes, requeued>>

-----------------------------------------------------------------------------
(* process                                                                 *)

\* The job is read again, its progress set, and saveVersion called.
ProcessCallsSave(w) ==
    /\ worker[w].pc = "load"
    /\ SaveBegins(w)
    /\ worker' = [worker EXCEPT ![w].pc = "save"]
    /\ UNCHANGED <<jobVars, up, running, tick, boundVars>>

ProcessSaves(w) == /\ worker[w].pc = "save"
                   /\ SaveStep(w, worker[w].job) \/ SaveFails(w)
                   /\ UNCHANGED <<jobVars, serverVars, boundVars>>

\* Faulty: the job names the newest derived file.
ProcessReportsNewest(w) ==
    LET j == worker[w].job
    IN  /\ worker[w].pc = "save" /\ save[w].pc = "saved"
        /\ status' = [status EXCEPT ![j] = "done"]
        /\ result' = [result EXCEPT ![j] = derived]
        /\ worker' = [worker EXCEPT ![w].pc = "end"]
        /\ UNCHANGED <<editVars, queue, up, running, tick, boundVars>>

\* The job is updated to done with the derived file, or to failed by the catch clause.
ProcessReports(w) ==
    LET j == worker[w].job
    IN  /\ \/ /\ worker[w].pc = "save" /\ save[w].pc = "saved"
              /\ status' = [status EXCEPT ![j] = "done"]
              /\ result' = [result EXCEPT ![j] = save[w].file]
           \/ /\ \/ worker[w].pc = "save" /\ save[w].pc = "failed"
                 \/ worker[w].pc = "catch"
              /\ status' = [status EXCEPT ![j] = "failed"]
              /\ UNCHANGED result
        /\ worker' = [worker EXCEPT ![w].pc = "end"]
        /\ UNCHANGED <<editVars, queue, up, running, tick, boundVars>>

\* The update to done fails and is caught; the update to failed fails and is not, and
\* neither is the first read.  Either leaves the job processing until the next restart.
ReportIsLost(w) ==
    /\ faults < bound.faults
    /\ faults' = faults + 1
    /\ \/ /\ worker[w].pc = "load"
          /\ worker' = [worker EXCEPT ![w].pc = "end"]
       \/ /\ worker[w].pc = "save" /\ save[w].pc = "saved"
          /\ worker' = [worker EXCEPT ![w].pc = "catch"]
       \/ /\ \/ worker[w].pc = "save" /\ save[w].pc = "failed"
             \/ worker[w].pc = "catch"
          /\ worker' = [worker EXCEPT ![w].pc = "end"]
    /\ UNCHANGED <<editVars, jobVars, up, running, tick, bound, crashes, requeued>>

\* Faulty: running goes down only after a job that is done.
ProcessEndsIfDone(w) ==
    /\ worker[w].pc = "end"
    /\ worker' = [worker EXCEPT ![w] = NoWorker]
    /\ save' = [save EXCEPT ![w] = NoSave]
    /\ running' = IF status[worker[w].job] = "done" THEN running - 1 ELSE running
    /\ UNCHANGED <<projects, versions, derived, jobVars, up, tick, boundVars>>

\* finally: running goes down however the call ended.
ProcessEnds(w) ==
    /\ worker[w].pc = "end"
    /\ worker' = [worker EXCEPT ![w] = NoWorker]
    /\ save' = [save EXCEPT ![w] = NoSave]
    /\ running' = running - 1
    /\ UNCHANGED <<projects, versions, derived, jobVars, up, tick, boundVars>>

-----------------------------------------------------------------------------
(* The server dies and is started again                                    *)

Crash ==
    /\ up
    /\ crashes < bound.crashes
    /\ crashes' = crashes + 1
    /\ up' = FALSE
    /\ running' = 0
    /\ tick' = [t \in Ticks |-> NoTick]
    /\ worker' = [w \in Workers |-> NoWorker]
    /\ save' = [s \in Saves |-> NoSave]
    /\ UNCHANGED <<projects, versions, derived, jobVars, bound, faults, requeued>>

\* Faulty: a job that had already produced its file is put back as well.
RecoverEverything ==
    /\ ~up
    /\ up' = TRUE
    /\ status' = [j \in Jobs |-> IF status[j] \in {"processing", "done", "failed"}
                                 THEN "pending" ELSE status[j]]
    /\ requeued' = [j \in Jobs |-> IF status[j] = "processing" THEN requeued[j] + 1
                                   ELSE requeued[j]]
    /\ UNCHANGED <<editVars, queue, result, running, tick, worker, bound, crashes, faults>>

\* Faulty: what was being processed is left alone.
RecoverNothing ==
    /\ ~up
    /\ up' = TRUE
    /\ UNCHANGED <<editVars, jobVars, running, tick, worker, boundVars>>

\* onModuleInit: jobs found processing go back to the queue, then the timer is set and,
\* after every module's init, the port opened.
Recover ==
    /\ ~up
    /\ up' = TRUE
    /\ status' = [j \in Jobs |-> IF status[j] = "processing" THEN "pending" ELSE status[j]]
    /\ requeued' = [j \in Jobs |-> IF status[j] = "processing" THEN requeued[j] + 1
                                   ELSE requeued[j]]
    /\ UNCHANGED <<editVars, queue, result, running, tick, worker, bound, crashes, faults>>

\* The update fails, which onModuleInit swallows: the timer is set all the same.
StartWithoutRecovery ==
    /\ ~up
    /\ faults < bound.faults
    /\ faults' = faults + 1
    /\ up' = TRUE
    /\ UNCHANGED <<editVars, jobVars, running, tick, worker, bound, crashes, requeued>>

-----------------------------------------------------------------------------

TickStep(t) == \/ TickStarts(t) \/ TickFinds(t) \/ TickClaims(t) \/ TickStartsProcess(t)
               \/ TickFails(t)

ProcessStep(w) == \/ ProcessCallsSave(w) \/ ProcessSaves(w) \/ ProcessReports(w)
                  \/ ReportIsLost(w) \/ ProcessEnds(w)

Next == \/ \E j \in Jobs : Enqueue(j) \/ Cancel(j)
        \/ \E s \in Editors : EditorSaves(s)
        \/ \E t \in Ticks : TickStep(t)
        \/ \E w \in Workers : ProcessStep(w)
        \/ Crash \/ Recover \/ StartWithoutRecovery

Spec == Init /\ [][Next]_vars

\* setInterval keeps calling tick, every await is answered or fails, and the container
\* runtime starts the server again.  Nobody has to enqueue, cancel or save.
Fairness == /\ \A t \in Ticks : WF_vars(TickStep(t))
            /\ \A w \in Workers : WF_vars(ProcessStep(w))
            /\ WF_vars(Recover)

FairSpec == Spec /\ Fairness

-----------------------------------------------------------------------------
(* Properties                                                              *)

HoldersOf(j) == {t \in Ticks : tick[t].pc = "won" /\ tick[t].job = j}
RunsOf(j)    == {w \in Workers : worker[w].job = j}

\* A job that two ticks have read is taken by one of them: no job is run twice at once, and
\* a running job is marked so until its outcome is written.
OneRunPerJob ==
    \A j \in Jobs :
        /\ Cardinality(HoldersOf(j)) + Cardinality(RunsOf(j)) <= 1
        /\ HoldersOf(j) # {} \/ (\E w \in RunsOf(j) : worker[w].pc # "end")
              => status[j] = "processing"

\* The in-memory counter that throttles the ticks agrees with the runs under way, however
\* runs end and whenever the server is restarted.
RunningCounts == running = Cardinality({w \in Workers : worker[w].pc # "idle"})

VersionsFor(j) == {i \in DOMAIN versions : versions[i].job = j}

\* A job produces a version once per run: crashes aside never two, and none at all if it
\* was canceled before a run or never left the queue.
OneVersionPerRun ==
    \A j \in Jobs :
        Cardinality(VersionsFor(j))
            <= requeued[j] + (IF status[j] \in {"none", "pending", "canceled"} THEN 0 ELSE 1)

\* A job that is done names the derived file of a version that was saved for it.
DoneHasVersion ==
    \A j \in Jobs :
        status[j] = "done" => \E i \in VersionsFor(j) : versions[i].file = result[j]

\* Jobs are claimed in the order they were queued, although a claim acts on an older read
\* and jobs are put back after a crash.
OldestFirst ==
    [][\A i, k \in DOMAIN queue :
          i < k /\ status[queue[k]] = "pending" /\ status'[queue[k]] = "processing"
             => status[queue[i]] # "pending"]_vars

\* What has ended stays ended: a late worker never overwrites a cancellation and a restart
\* never revives a finished job.
EndedStaysEnded ==
    [][\A j \in Jobs : status[j] \in Terminal => status'[j] = status[j]]_vars

\* A pending job does not wait for ever: failed runs, failed statements and crashes of the server
\* leave the queue able to take the next job.
EveryJobIsTaken == \A j \in Jobs : status[j] = "pending" ~> status[j] # "pending"

\* Unless a statement on RenderJob fails, every queued job ends, across crashes too.
EveryJobEnds == \A j \in Jobs : status[j] = "pending" ~> status[j] \in Terminal \/ faults > 0
=============================================================================
