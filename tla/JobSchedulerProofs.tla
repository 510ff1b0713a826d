------------------------- MODULE JobSchedulerProofs -------------------------
(***************************************************************************)
(* Proofs about JobScheduler, for every set of jobs with any schedules,    *)
(* any number of runs, registrations, failures and crashes.                *)
(***************************************************************************)
EXTENDS JobScheduler, OrderFacts

\* CronSchedule.Next answers zero or an instant of the schedule that is ahead.
LEMMA NextRunAhead ==
  ASSUME NEW j \in Job, NEW t \in Time
  PROVE  /\ NextRun(j, t) \in Time
         /\ NextRun(j, t) # 0 => NextRun(j, t) \in DueAt[j] /\ NextRun(j, t) > t
  <1> DEFINE later == {d \in DueAt[j] : d > t}
  <1>1. DueAt[j] \subseteq 1..MaxTime /\ MaxTime \in Nat
    BY ConstantsAssumption
  <1>2. CASE later = {}
    BY <1>1, <1>2 DEF NextRun, Time
  <1>3. CASE later # {}
    <2>1. later \in SUBSET Nat
      BY <1>1
    <2>2. \E d \in later : \A e \in later : d <= e
      BY <1>3, <2>1, LeastExists
    <2>3. NextRun(j, t) \in later
      BY <1>3, <2>2 DEF NextRun
    <2> QED
      BY <1>1, <2>3 DEF Time
  <1> QED
    BY <1>2, <1>3

LEMMA NewEntryType ==
  ASSUME NEW j \in Job, NEW t \in Time
  PROVE  /\ NewEntry(j, t) \in Entry /\ NewEntry(j, t).next \in DueAt[j] \cup {0}
         /\ Idle \in Entry /\ Idle.next = 0
  BY NextRunAhead, ConstantsAssumption DEF NewEntry, Idle, Entry, Time

LEMMA NewRunType ==
  ASSUME NEW j \in Job, NEW by \in {"schedule", "trigger"}, NEW g \in Generation,
         NEW d \in Time, NEW live \in BOOLEAN
  PROVE  NewRun(j, by, g, d, live) \in RunRecord
  BY DEF NewRun, RunRecord

LEMMA GenerationZero == 0 \in Generation /\ 0 \in Time
  BY ConstantsAssumption DEF Generation, Time

\* A record of a run with some of its fields changed is one.
LEMMA RecordUpdates ==
  ASSUME NEW x \in RunRecord
  PROVE  /\ \A a \in {"wait", "save", "upsert", "remove", "finish"} :
              [x EXCEPT !.at = a] \in RunRecord
         /\ \A a \in {"done", "dead"} : [x EXCEPT !.at = a, !.ctx = FALSE] \in RunRecord
         /\ [x EXCEPT !.at = "start", !.cont = "created", !.known = TRUE] \in RunRecord
         /\ \A c \in {"none", "created", "running"} :
              [x EXCEPT !.at = "save", !.status = "failed", !.cont = c] \in RunRecord
         /\ [x EXCEPT !.at = "wait", !.cont = "running"] \in RunRecord
         /\ \A s \in {"succeeded", "failed"} :
              [x EXCEPT !.at = "save", !.status = s] \in RunRecord
         /\ [x EXCEPT !.at = "finish", !.cont = "none"] \in RunRecord
         /\ [x EXCEPT !.cont = "none"] \in RunRecord
         /\ [x EXCEPT !.ctx = FALSE] \in RunRecord
         /\ \A c \in {0, 1} : [x EXCEPT !.cont = "exited", !.code = c] \in RunRecord
  BY DEF RunRecord

\* Once RunOnce has something to save it knows how the run ended.
Over == {"save", "upsert", "remove", "finish", "done"}
ResultKnown == \A r \in Run : runs[r].at \in Over => runs[r].status # "running"
TypeInv == TypeOK /\ ResultKnown

\* What a step of the goroutine of a run does to the record of that run.
LEMMA RunStepEffect ==
  ASSUME TypeInv, NEW r \in Run, RunStep(r)
  PROVE  \E x \in RunRecord :
           /\ runs' = [runs EXCEPT ![r] = x]
           /\ x.at \in Over => x.status # "running"
           /\ Active(r) /\ x.at \notin {"unused", "create", "dead"}
           /\ x.job = runs[r].job /\ x.by = runs[r].by
           /\ x.gen = runs[r].gen /\ x.due = runs[r].due
  <1> DEFINE R == runs[r]
             Goal(x) == /\ runs' = [runs EXCEPT ![r] = x]
                        /\ x.at \in Over => x.status # "running"
                        /\ Active(r) /\ x.at \notin {"unused", "create", "dead"}
                        /\ x.job = R.job /\ x.by = R.by /\ x.gen = R.gen /\ x.due = R.due
  <1>0. R \in RunRecord
    BY DEF TypeInv, TypeOK
  <1> USE <1>0 DEF TypeInv, TypeOK, ResultKnown, Over, Active
  <1>1. CASE CreateContainer(r)
    <2>1. Goal([R EXCEPT !.at = "start", !.cont = "created", !.known = TRUE])
      BY <1>1 DEF CreateContainer, RunRecord
    <2>2. [R EXCEPT !.at = "start", !.cont = "created", !.known = TRUE] \in RunRecord
      BY RecordUpdates
    <2> QED
      BY <2>1, <2>2
  <1>2. CASE CreateFails(r)
    <2>1. PICK c \in {"none", "created"} :
            runs' = [runs EXCEPT ![r].at = "save", ![r].status = "failed", ![r].cont = c]
      BY <1>2 DEF CreateFails
    <2>2. Goal([R EXCEPT !.at = "save", !.status = "failed", !.cont = c])
      BY <1>2, <2>1 DEF CreateFails, RunRecord
    <2>3. [R EXCEPT !.at = "save", !.status = "failed", !.cont = c] \in RunRecord
      BY RecordUpdates
    <2> QED
      BY <2>2, <2>3
  <1>3. CASE StartContainer(r)
    <2>1. Goal([R EXCEPT !.at = "wait", !.cont = "running"])
      BY <1>3 DEF StartContainer, RunRecord
    <2>2. [R EXCEPT !.at = "wait", !.cont = "running"] \in RunRecord
      BY RecordUpdates
    <2> QED
      BY <2>1, <2>2
  <1>11. CASE StartFails(r)
    <2>1. PICK c \in {"created", "running"} :
            runs' = [runs EXCEPT ![r].at = "save", ![r].status = "failed", ![r].cont = c]
      BY <1>11 DEF StartFails
    <2>2. Goal([R EXCEPT !.at = "save", !.status = "failed", !.cont = c])
      BY <1>11, <2>1 DEF StartFails, RunRecord
    <2>3. [R EXCEPT !.at = "save", !.status = "failed", !.cont = c] \in RunRecord
      BY RecordUpdates
    <2> QED
      BY <2>2, <2>3
  <1>4. CASE WaitFails(r)
    <2>1. Goal([R EXCEPT !.at = "save", !.status = "failed"])
      BY <1>4 DEF WaitFails, RunRecord
    <2>2. [R EXCEPT !.at = "save", !.status = "failed"] \in RunRecord
      BY RecordUpdates
    <2> QED
      BY <2>1, <2>2
  <1>5. CASE WaitContainer(r)
    <2> DEFINE s == IF R.code = 0 THEN "succeeded" ELSE "failed"
    <2>1. Goal([R EXCEPT !.at = "save", !.status = s])
      BY <1>5 DEF WaitContainer, RunRecord
    <2>2. [R EXCEPT !.at = "save", !.status = s] \in RunRecord
      BY RecordUpdates
    <2> QED
      BY <2>1, <2>2
  <1>6. CASE SaveExecution(r)
    <2>1. Goal([R EXCEPT !.at = "upsert"])
      BY <1>6 DEF SaveExecution, RunRecord
    <2>2. [R EXCEPT !.at = "upsert"] \in RunRecord
      BY RecordUpdates
    <2> QED
      BY <2>1, <2>2
  <1>7. CASE UpsertJob(r)
    <2>1. Goal([R EXCEPT !.at = AfterUpsert(r)])
      BY <1>7 DEF UpsertJob, AfterUpsert, RunRecord
    <2>2. [R EXCEPT !.at = AfterUpsert(r)] \in RunRecord
      BY RecordUpdates DEF AfterUpsert
    <2> QED
      BY <2>1, <2>2
  <1>8. CASE StoreFails(r)
    <2>1. Goal([R EXCEPT !.at = IF @ = "save" THEN "upsert" ELSE AfterUpsert(r)])
      BY <1>8 DEF StoreFails, AfterUpsert, RunRecord
    <2>2. [R EXCEPT !.at = IF @ = "save" THEN "upsert" ELSE AfterUpsert(r)] \in RunRecord
      BY RecordUpdates DEF AfterUpsert
    <2> QED
      BY <2>1, <2>2
  <1>9. CASE RemoveContainer(r)
    <2>1. Goal([R EXCEPT !.at = "finish", !.cont = "none"]) \/ Goal([R EXCEPT !.at = "finish"])
      BY <1>9 DEF RemoveContainer, RunRecord
    <2>2. /\ [R EXCEPT !.at = "finish", !.cont = "none"] \in RunRecord
          /\ [R EXCEPT !.at = "finish"] \in RunRecord
      BY RecordUpdates
    <2> QED
      BY <2>1, <2>2
  <1>10. CASE FinishScheduled(r) \/ FinishTriggered(r)
    <2>1. Goal([R EXCEPT !.at = "done", !.ctx = FALSE])
      BY <1>10 DEF FinishScheduled, FinishTriggered, RunRecord
    <2>2. [R EXCEPT !.at = "done", !.ctx = FALSE] \in RunRecord
      BY RecordUpdates
    <2> QED
      BY <2>1, <2>2
  <1> QED
    BY <1>1, <1>2, <1>3, <1>4, <1>5, <1>6, <1>7, <1>8, <1>9, <1>10, <1>11 DEF RunStep

\* The same for the types of all that the step changes.
LEMMA RunStepType ==
  ASSUME TypeInv, NEW r \in Run, RunStep(r) PROVE TypeInv'
  <1> USE DEF TypeInv
  <1>1. runs' \in [Run -> RunRecord] /\ ResultKnown'
    <2>1. PICK x \in RunRecord : /\ runs' = [runs EXCEPT ![r] = x]
                                 /\ x.at \in Over => x.status # "running"
      BY RunStepEffect
    <2> QED
      BY <2>1 DEF TypeOK, ResultKnown
  <1>2. UNCHANGED <<now, proc, registered, gen, asking, asked, registers>>
    BY DEF RunStep, CreateContainer, CreateFails, StartContainer, StartFails, WaitContainer,
           WaitFails, SaveExecution, UpsertJob, StoreFails, RemoveContainer, FinishScheduled,
           FinishTriggered, RunnerOnly, scheduler
  <1>3. faults' \in 0..MaxFaults
    <2>1. faults' = faults \/ (faults < MaxFaults /\ faults' = faults + 1)
      BY DEF RunStep, CreateContainer, CreateFails, StartContainer, StartFails, WaitContainer,
             WaitFails, SaveExecution, UpsertJob, StoreFails, RemoveContainer, FinishScheduled,
             FinishTriggered, Failing
    <2> QED
      BY <2>1, ConstantsAssumption DEF TypeOK
  <1>4. runs[r] \in RunRecord
    BY DEF TypeOK
  <1>5. /\ executions' \in [Run -> Status]
        /\ jobRow' \in [Job -> [status : Status, run : Run \cup {None}]]
        /\ entries' \in [Job -> [Generation -> Entry]]
        /\ \A j \in Job, g \in Generation : entries'[j][g].next \in DueAt[j] \cup {0}
    <2>1. CASE SaveExecution(r)
      <3>1. executions' = [executions EXCEPT ![r] = runs[r].status] /\ UNCHANGED <<jobRow, entries>>
        BY <2>1 DEF SaveExecution, scheduler
      <3>2. runs[r].status \in Status
        BY <1>4, <2>1 DEF SaveExecution, ResultKnown, Over, RunRecord, Status
      <3> QED
        BY <3>1, <3>2 DEF TypeOK
    <2>2. CASE UpsertJob(r)
      <3> DEFINE row == [status |-> runs[r].status, run |-> r]
      <3>1. jobRow' = [jobRow EXCEPT ![runs[r].job] = row] /\ UNCHANGED <<executions, entries>>
        BY <2>2 DEF UpsertJob, scheduler
      <3>2. runs[r].status \in Status /\ runs[r].job \in Job
        BY <1>4, <2>2 DEF UpsertJob, ResultKnown, Over, RunRecord, Status
      <3>3. row \in [status : Status, run : Run \cup {None}]
        BY <3>2
      <3> HIDE DEF row
      <3> QED
        BY <3>1, <3>2, <3>3 DEF TypeOK
    <2>3. CASE FinishScheduled(r)
      <3> DEFINE j == runs[r].job
                 g == runs[r].gen
                 n == NextRun(j, now)
                 e == [next |-> n, running |-> FALSE, active |-> entries[j][g].active /\ n # 0]
      <3>1. /\ entries' = [entries EXCEPT ![j] = [entries[j] EXCEPT ![g] = e]]
            /\ UNCHANGED <<executions, jobRow>>
        BY <2>3 DEF FinishScheduled, store
      <3>2. j \in Job /\ g \in Generation
        BY <1>4 DEF RunRecord
      <3>3. e \in Entry /\ e.next \in DueAt[j] \cup {0}
        BY <3>2, NextRunAhead DEF Entry, TypeOK
      <3> HIDE DEF e, n
      <3> QED
        BY <3>1, <3>2, <3>3 DEF TypeOK
    <2>4. CASE ~SaveExecution(r) /\ ~UpsertJob(r) /\ ~FinishScheduled(r)
      <3>1. UNCHANGED <<executions, jobRow, entries>>
        BY <2>4 DEF RunStep, CreateContainer, CreateFails, StartContainer, StartFails,
             WaitContainer, WaitFails, StoreFails, RemoveContainer, FinishTriggered, RunnerOnly,
             scheduler, store
      <3> QED
        BY <3>1 DEF TypeOK
    <2> QED
      BY <2>1, <2>2, <2>3, <2>4
  <1> QED
    BY <1>1, <1>2, <1>3, <1>5 DEF TypeOK

LEMMA InitialRuns ==
  ASSUME Init
  PROVE  /\ runs \in [Run -> RunRecord]
         /\ \A r \in Run : runs[r].at = "unused" /\ runs[r].status = "running"
  <1> DEFINE Blank(j) == [NewRun(j, "schedule", 0, 0, FALSE) EXCEPT !.at = "unused"]
  <1>1. \A j \in Job : Blank(j) \in RunRecord /\ Blank(j).at = "unused"
                     /\ Blank(j).status = "running"
    BY GenerationZero DEF NewRun, RunRecord
  <1> HIDE DEF Blank
  <1>2. runs \in [Run -> {Blank(j) : j \in Job}]
    BY DEF Init, Blank
  <1> QED
    BY <1>1, <1>2

LEMMA TypeInit == Init => TypeInv
  <1> SUFFICES ASSUME Init PROVE TypeInv
    OBVIOUS
  <1>3. runs \in [Run -> RunRecord] /\ \A r \in Run : runs[r].at = "unused"
    BY InitialRuns
  <1>4. ResultKnown
    BY <1>3 DEF ResultKnown, Over
  <1>5. [status |-> "none", run |-> None] \in [status : Status, run : Run \cup {None}]
    BY DEF Status
  <1>6. jobRow \in [Job -> [status : Status, run : Run \cup {None}]]
    BY <1>5 DEF Init
  <1>7. Idle \in Entry /\ Idle.next = 0
    BY GenerationZero DEF Idle, Entry
  <1> QED
    BY <1>3, <1>4, <1>6, <1>7, GenerationZero, ConstantsAssumption
    DEF Init, TypeInv, TypeOK, Time, Status, NoCalls

\* The end of a process: its goroutines are gone, its results are not.
LEMMA EndedType ==
  ASSUME TypeInv, Ended, faults' \in 0..MaxFaults PROVE TypeInv'
  <1> USE DEF TypeInv
  <1>1. \A r \in Run : runs[r] \in RunRecord /\ runs'[r] \in {runs[r], [runs[r] EXCEPT !.at = "dead", !.ctx = FALSE]}
    BY DEF TypeOK, Ended
  <1>2. \A r \in Run : runs'[r] \in RunRecord
    BY <1>1, RecordUpdates
  <1>3. runs' \in [Run -> RunRecord]
    BY <1>2 DEF Ended
  <1>4. \A r \in Run : runs'[r].at \in {runs[r].at, "dead"} /\ runs'[r].status = runs[r].status
    BY <1>1 DEF RunRecord
  <1>5. ResultKnown'
    BY <1>4 DEF ResultKnown, Over
  <1>6. Idle \in Entry /\ Idle.next = 0
    BY GenerationZero DEF Idle, Entry
  <1> QED
    BY <1>3, <1>5, <1>6 DEF Ended, TypeOK, store, NoCalls

\* A round of the loop, with the jobs it finds due.
LEMMA DispatchMeans ==
  ASSUME TypeOK, DispatchDue
  PROVE  \E t \in Time :
           /\ t <= now /\ DueJobs(t) # {} /\ Dispatch(DueJobs(t))
           /\ \A j \in DueJobs(t) : Due(j, t) /\ j \in Job
  <1>1. PICK t \in 0..now : DueJobs(t) # {} /\ Dispatch(DueJobs(t))
    BY DEF DispatchDue
  <1>2. t \in Time /\ t <= now
    BY <1>1, ConstantsAssumption DEF TypeOK, Time
  <1> QED
    BY <1>1, <1>2 DEF DueJobs

LEMMA DispatchType ==
  ASSUME TypeInv, DispatchDue PROVE TypeInv'
  <1> USE DEF TypeInv
  <1>0. PICK t \in Time : /\ t <= now /\ DueJobs(t) # {} /\ Dispatch(DueJobs(t))
                          /\ \A j \in DueJobs(t) : Due(j, t) /\ j \in Job
    BY DispatchMeans
  <1> DEFINE due == DueJobs(t)
  <1>1. PICK run \in [due -> Unused] :
          runs' = [r \in Run |->
              IF \E j \in due : run[j] = r
              THEN LET j == CHOOSE j \in due : run[j] = r
                   IN NewRun(j, "schedule", gen[j], entries[j][gen[j]].next, proc = "up")
              ELSE runs[r]]
    BY <1>0 DEF Dispatch
  <1>8. entries' = [j \in Job |-> IF j \in due
                                  THEN [entries[j] EXCEPT ![gen[j]].running = TRUE]
                                  ELSE entries[j]]
    BY <1>0 DEF Dispatch
  <1>9. due \subseteq Job
    BY DEF DueJobs
  <1> HIDE DEF due
  <1>2. \A j \in Job : gen[j] \in Generation /\ entries[j][gen[j]] \in Entry
    BY DEF TypeOK
  <1>3. \A j \in Job :
          NewRun(j, "schedule", gen[j], entries[j][gen[j]].next, proc = "up") \in RunRecord
    BY <1>2, NewRunType DEF Entry
  <1>4. ASSUME NEW r \in Run
        PROVE  runs'[r] \in RunRecord /\ (runs'[r].at \in Over => runs'[r].status # "running")
    <2>1. CASE \E j \in due : run[j] = r
      <3> DEFINE j == CHOOSE j \in due : run[j] = r
      <3>1. j \in due /\ j \in Job
        BY <1>9, <2>1
      <3>2. runs'[r] = NewRun(j, "schedule", gen[j], entries[j][gen[j]].next, proc = "up")
        BY <1>1, <2>1
      <3> HIDE DEF j
      <3> QED
        BY <1>3, <3>1, <3>2 DEF NewRun, Over
    <2>2. CASE ~ \E j \in due : run[j] = r
      <3>1. runs'[r] = runs[r]
        BY <1>1, <2>2
      <3> QED
        BY <3>1 DEF TypeOK, ResultKnown
    <2> QED
      BY <2>1, <2>2
  <1>5. runs' \in [Run -> RunRecord] /\ ResultKnown'
    BY <1>1, <1>4 DEF ResultKnown
  <1>6. ASSUME NEW j \in Job
        PROVE  /\ entries'[j] \in [Generation -> Entry]
               /\ \A g \in Generation : entries'[j][g].next = entries[j][g].next
    <2> DEFINE e == [entries[j][gen[j]] EXCEPT !.running = TRUE]
    <2>1. e \in Entry /\ e.next = entries[j][gen[j]].next
      BY <1>2 DEF Entry
    <2>2. entries'[j] \in {entries[j], [entries[j] EXCEPT ![gen[j]] = e]}
      BY <1>8
    <2>3. entries[j] \in [Generation -> Entry]
      BY DEF TypeOK
    <2> HIDE DEF e
    <2> QED
      BY <2>1, <2>2, <2>3
  <1>7. /\ entries' \in [Job -> [Generation -> Entry]]
        /\ \A j \in Job, g \in Generation : entries'[j][g].next \in DueAt[j] \cup {0}
    BY <1>6, <1>8 DEF TypeOK
  <1> QED
    BY <1>5, <1>7 DEF DispatchDue, TypeOK, store

\* A call of Register that awaits the lock has read the clock, in the past, and
\* found a next run; so had every call that has made an entry.
Readings ==
  /\ \A j \in Job : asking[j] # None =>
       gen[j] < MaxRegisters /\ asking[j] <= now /\ NextRun(j, asking[j]) # 0
  /\ \A j \in Job, g \in Generation : asked[j][g] <= now

LEMMA ReadingsStep ==
  ASSUME TypeInv, Readings, [Next]_vars PROVE Readings'
  <1>0. /\ now \in Nat /\ now <= now /\ gen \in [Job -> Generation] /\ None \notin Time
        /\ asking \in [Job -> Time \cup {None}] /\ asked \in [Job -> [Generation -> Time]]
        /\ \A t \in Time : t \in Nat
    BY ConstantsAssumption DEF TypeInv, TypeOK, Time
  <1>1. CASE UNCHANGED <<now, gen, asking, asked>>
    BY <1>1 DEF Readings
  <1>2. CASE Ended /\ UNCHANGED now
    BY <1>2 DEF Ended, NoCalls, Readings
  <1>3. CASE Tick
    BY <1>0, <1>3 DEF Tick, scheduler, Readings
  <1>4. ASSUME NEW j \in Job, RegisterAsks(j) PROVE Readings'
    BY <1>0, <1>4 DEF RegisterAsks, Readings
  <1>5. ASSUME NEW j \in Job, Register(j) PROVE Readings'
    <2> DEFINE t == asking[j]
    <2>1. t \in Time /\ t <= now
      BY <1>0, <1>5 DEF Register, Readings
    <2>2. /\ asked' = [asked EXCEPT ![j] = [asked[j] EXCEPT ![gen[j] + 1] = t]]
          /\ asking' = [asking EXCEPT ![j] = None]
          /\ gen' = [gen EXCEPT ![j] = gen[j] + 1]
          /\ UNCHANGED now
      BY <1>5 DEF Register
    <2> HIDE DEF t
    <2>3. \A k \in Job : asking'[k] # None => asking'[k] = asking[k] /\ gen'[k] = gen[k]
      BY <1>0, <2>2
    <2>4. \A k \in Job, g \in Generation : asked'[k][g] \in {asked[k][g], t}
      BY <1>0, <2>2
    <2> QED
      BY <2>1, <2>2, <2>3, <2>4 DEF Readings
  <1> QED
    BY <1>1, <1>2, <1>3, <1>4, <1>5
    DEF Next, vars, scheduler, StartDaemon, Cancel, CloseStore, Exit, Crash, Ended, DispatchDue,
        Unregister, Trigger, RunStep, CreateContainer, CreateFails, StartContainer, StartFails,
        WaitContainer, WaitFails, SaveExecution, UpsertJob, StoreFails, RemoveContainer,
        FinishScheduled, FinishTriggered, ContainerExits, TimeoutExpires, ClientLeaves,
        EndContext, RunnerOnly

LEMMA TypeStep ==
  ASSUME TypeInv, Readings, [Next]_vars PROVE TypeInv'
  <1> USE DEF TypeInv
  <1>1. CASE StartDaemon
    <2>1. PICK pruned \in [Job -> Run \cup {None}] :
            runs' = [r \in Run |-> IF r = pruned[runs[r].job]
                                   THEN [runs[r] EXCEPT !.cont = "none"] ELSE runs[r]]
      BY <1>1 DEF StartDaemon
    <2>2. \A r \in Run : runs[r] \in RunRecord
      BY DEF TypeOK
    <2>3. \A r \in Run : runs'[r] \in {runs[r], [runs[r] EXCEPT !.cont = "none"]}
      BY <2>1
    <2>4. runs' \in [Run -> RunRecord]
      BY <2>1, <2>2, RecordUpdates
    <2>5. ResultKnown'
      BY <2>2, <2>3 DEF ResultKnown, Over, RunRecord
    <2>6. jobRow' \in [Job -> [status : Status, run : Run \cup {None}]]
      <3> DEFINE row == [status |-> "pending", run |-> None]
      <3>1. row \in [status : Status, run : Run \cup {None}]
        BY DEF Status
      <3>2. jobRow' = [j \in Job |-> row]
        BY <1>1 DEF StartDaemon
      <3> HIDE DEF row
      <3> QED
        BY <3>1, <3>2
    <2>7. /\ proc' \in {"down", "up"} /\ registered' \subseteq Job
          /\ entries' \in [Job -> [Generation -> Entry]]
          /\ \A j \in Job, g \in Generation : entries'[j][g].next \in DueAt[j] \cup {0}
      <3> DEFINE e(j) == NewEntry(j, now)
      <3>1. \A j \in Job : /\ e(j) \in Entry /\ e(j).next \in DueAt[j] \cup {0}
                           /\ Idle \in Entry /\ Idle.next = 0
        BY NewEntryType DEF TypeOK
      <3>2. CASE entries' = entries
        BY <1>1, <3>2 DEF StartDaemon, TypeOK
      <3>3. CASE entries' = [j \in Job |-> [g \in Generation |->
                                IF g = gen[j] THEN e(j) ELSE Idle]]
        <4> HIDE DEF e
        <4>1. /\ entries' \in [Job -> [Generation -> Entry]]
              /\ \A j \in Job, g \in Generation : entries'[j][g].next \in DueAt[j] \cup {0}
          BY <3>1, <3>3
        <4> QED
          BY <1>1, <4>1 DEF StartDaemon, TypeOK
      <3> QED
        BY <1>1, <3>2, <3>3 DEF StartDaemon
    <2> QED
      BY <1>1, <2>4, <2>5, <2>6, <2>7 DEF StartDaemon, TypeOK
  <1>2. CASE Cancel
    <2>1. \A r \in Run : runs[r] \in RunRecord /\ runs'[r] \in {runs[r], [runs[r] EXCEPT !.ctx = FALSE]}
      BY <1>2 DEF TypeOK, Cancel
    <2>2. runs' \in [Run -> RunRecord]
      BY <1>2, <2>1, RecordUpdates DEF Cancel
    <2>3. ResultKnown'
      BY <2>1 DEF ResultKnown, Over, RunRecord
    <2> QED
      BY <1>2, <2>2, <2>3 DEF Cancel, TypeOK, scheduler, store
  <1>3. CASE CloseStore
    BY <1>3 DEF CloseStore, TypeOK, ResultKnown, scheduler, store
  <1>4. CASE Exit
    BY <1>4, EndedType DEF Exit, TypeOK
  <1>5. CASE Crash
    <2>1. faults' \in 0..MaxFaults
      BY <1>5, ConstantsAssumption DEF Crash, TypeOK
    <2> QED
      BY <1>5, <2>1, EndedType DEF Crash
  <1>6. CASE DispatchDue
    BY <1>6, DispatchType
  <1>7. CASE Tick
    BY <1>7, ConstantsAssumption DEF Tick, TypeOK, Time, ResultKnown, scheduler, store
  <1>8. ASSUME NEW j \in Job, Register(j) PROVE TypeInv'
    <2> DEFINE t == asking[j]
    <2>0. t \in Time
      BY <1>8 DEF Register, TypeOK
    <2>1. gen[j] + 1 \in Generation /\ gen' \in [Job -> Generation]
      BY <1>8, ConstantsAssumption DEF Register, TypeOK, Readings, Generation
    <2>2. registered' \subseteq Job
      BY <1>8 DEF Register, TypeOK
    <2>3. /\ entries' \in [Job -> [Generation -> Entry]]
          /\ \A k \in Job, g \in Generation : entries'[k][g].next \in DueAt[k] \cup {0}
      <3> DEFINE e == NewEntry(j, t)
      <3>1. e \in Entry /\ e.next \in DueAt[j] \cup {0}
        BY <2>0, NewEntryType
      <3>2. entries' = [entries EXCEPT ![j] = [entries[j] EXCEPT ![gen[j] + 1] = e]]
        BY <1>8 DEF Register
      <3> HIDE DEF e
      <3> QED
        BY <2>1, <3>1, <3>2 DEF TypeOK
    <2>4. asked' = [asked EXCEPT ![j] = [asked[j] EXCEPT ![gen[j] + 1] = t]]
      BY <1>8 DEF Register
    <2> HIDE DEF t
    <2>5. asked' \in [Job -> [Generation -> Time]]
      BY <2>0, <2>1, <2>4 DEF TypeOK
    <2>6. asking' \in [Job -> Time \cup {None}]
      BY <1>8 DEF Register, TypeOK
    <2> QED
      BY <1>8, <2>1, <2>2, <2>3, <2>5, <2>6 DEF Register, TypeOK, ResultKnown, store
  <1>9. ASSUME NEW j \in Job, Unregister(j) PROVE TypeInv'
    BY <1>9, ConstantsAssumption DEF Unregister, TypeOK, ResultKnown, store
  <1>10. ASSUME NEW j \in Job, Trigger(j) PROVE TypeInv'
    <2> DEFINE n == NewRun(j, "trigger", 0, 0, TRUE)
    <2>1. n \in RunRecord /\ n.at = "create"
      BY NewRunType, GenerationZero DEF NewRun
    <2>2. PICK r \in Unused : runs' = [runs EXCEPT ![r] = n]
      BY <1>10 DEF Trigger
    <2> HIDE DEF n
    <2>3. runs' \in [Run -> RunRecord] /\ ResultKnown'
      BY <2>1, <2>2 DEF TypeOK, ResultKnown, Over, Unused
    <2> QED
      BY <1>10, <2>3 DEF Trigger, TypeOK, scheduler, store
  <1>11. ASSUME NEW r \in Run, RunStep(r) PROVE TypeInv'
    BY <1>11, RunStepType
  <1>12. ASSUME NEW r \in Run, ContainerExits(r) PROVE TypeInv'
    <2>1. PICK c \in {0, 1} : runs' = [runs EXCEPT ![r].cont = "exited", ![r].code = c]
      BY <1>12 DEF ContainerExits
    <2> DEFINE x == [runs[r] EXCEPT !.cont = "exited", !.code = c]
    <2>2. runs[r] \in RunRecord
      BY DEF TypeOK
    <2>3. x \in RunRecord
      BY <2>2, RecordUpdates
    <2>4. x.at = runs[r].at /\ x.status = runs[r].status
      BY <2>2 DEF RunRecord
    <2>5. runs' = [runs EXCEPT ![r] = x]
      BY <2>1 DEF TypeOK
    <2> HIDE DEF x
    <2> QED
      BY <1>12, <2>3, <2>4, <2>5 DEF ContainerExits, RunnerOnly, TypeOK, ResultKnown, scheduler, store
  <1>13. ASSUME NEW r \in Run, EndContext(r) PROVE TypeInv'
    <2> DEFINE x == [runs[r] EXCEPT !.ctx = FALSE]
    <2>1. runs[r] \in RunRecord
      BY DEF TypeOK
    <2>2. x \in RunRecord
      BY <2>1, RecordUpdates
    <2>3. x.at = runs[r].at /\ x.status = runs[r].status
      BY <2>1 DEF RunRecord
    <2>4. runs' = [runs EXCEPT ![r] = x]
      BY <1>13 DEF EndContext
    <2> HIDE DEF x
    <2> QED
      BY <1>13, <2>2, <2>3, <2>4 DEF EndContext, RunnerOnly, TypeOK, ResultKnown, scheduler, store
  <1>14. ASSUME NEW j \in Job, RegisterAsks(j) PROVE TypeInv'
    BY <1>14, ConstantsAssumption DEF RegisterAsks, TypeOK, ResultKnown, store
  <1>15. CASE UNCHANGED vars
    BY <1>15 DEF vars, TypeOK, ResultKnown, scheduler, store
  <1> QED
    BY <1>1, <1>2, <1>3, <1>4, <1>5, <1>6, <1>7, <1>8, <1>9, <1>10, <1>11, <1>12, <1>13, <1>14, <1>15
    DEF Next, TimeoutExpires, ClientLeaves

LEMMA TypeInvariant == Spec => [](TypeInv /\ Readings)
  <1>1. Init => Readings
    BY GenerationZero DEF Init, NoCalls, Readings
  <1> QED
    BY <1>1, TypeInit, TypeStep, ReadingsStep, PTL DEF Spec

\* TypeOK holds in every reachable state: in particular the next run of an entry
\* is zero or an instant of the schedule of its job, whichever goroutine wrote
\* it and however old the reading of the clock it came from.
THEOREM TypeCorrect == Spec => []TypeOK
  <1>1. TypeInv => TypeOK
    BY DEF TypeInv
  <1> QED
    BY <1>1, TypeInvariant, PTL

-----------------------------------------------------------------------------
(* The scheduler: entries and the runs started for them *)

Holder(r, j, g) ==
  Scheduled(r) /\ Active(r) /\ runs[r].job = j /\ runs[r].gen = g

\* RunningMeansOneRun without the sets.
Held ==
  \A j \in Job, g \in Generation :
    /\ entries[j][g].running <=> \E r \in Run : Holder(r, j, g)
    /\ \A r, s \in Run : Holder(r, j, g) /\ Holder(s, j, g) => r = s

LEMMA HeldMeans == Held <=> RunningMeansOneRun
  <1> DEFINE holders(j, g) == {r \in Run : Scheduled(r) /\ Active(r)
                                           /\ runs[r].job = j /\ runs[r].gen = g}
  <1>1. \A j, g : /\ holders(j, g) # {} <=> \E r \in Run : Holder(r, j, g)
                  /\ \A r : r \in holders(j, g) <=> r \in Run /\ Holder(r, j, g)
    BY DEF Holder
  <1>2. RunningMeansOneRun <=>
          \A j \in Job, g \in Generation :
            /\ entries[j][g].running <=> holders(j, g) # {}
            /\ \A r, s \in holders(j, g) : r = s
    BY DEF RunningMeansOneRun
  <1> HIDE DEF holders
  <1> QED
    BY <1>1, <1>2 DEF Held

\* A scheduled run lives no longer than its process ...
HoldersLive == \A r \in Run : Scheduled(r) /\ Active(r) => proc # "down"

\* ... and is of the present or an earlier generation of its job's entry.
GenerationsPast == \A r \in Run : Scheduled(r) => runs[r].gen <= gen[runs[r].job]

\* The instant an armed entry waits for is later than the time at which it was
\* asked for, and than all that were served since.
ArmedAhead ==
  \A j \in Job :
    LET e == entries[j][gen[j]]
    IN e.active /\ ~e.running =>
         /\ e.next \in DueAt[j] /\ asked[j][gen[j]] < e.next
         /\ \A r \in Run : Scheduled(r) /\ runs[r].job = j /\ runs[r].gen = gen[j]
                           => runs[r].due < e.next

\* What was started was due, later than its registration asked, and started
\* once only for that registration.
ServedWhenDue == \A r \in Run : Scheduled(r) => runs[r].due \in DueAt[runs[r].job] /\ runs[r].due <= now
ServedAfter == \A r \in Run : Scheduled(r) => asked[runs[r].job][runs[r].gen] < runs[r].due
ServedOnce == \A r, s \in Run : Scheduled(r) /\ Scheduled(s) /\ runs[s].job = runs[r].job
                          /\ runs[s].gen = runs[r].gen /\ runs[s].due = runs[r].due => r = s

LEMMA InstantsMeans ==
  ASSUME TypeInv, ServedWhenDue, ServedAfter, ServedOnce PROVE EachInstantOnce
  <1>1. \A r \in Run : runs[r].gen \in Nat
    BY ConstantsAssumption DEF TypeInv, TypeOK, RunRecord, Generation
  <1>2. ASSUME NEW r \in Run, NEW s \in Run, Scheduled(r), Scheduled(s), r # s,
               runs[s].job = runs[r].job, runs[s].due = runs[r].due,
               runs[r].gen <= runs[s].gen
        PROVE  /\ runs[r].gen < runs[s].gen
               /\ asked[runs[s].job][runs[s].gen] < runs[s].due
    <2>1. runs[r].gen # runs[s].gen
      BY <1>2 DEF ServedOnce
    <2> QED
      BY <1>1, <1>2, <2>1 DEF ServedAfter
  <1> QED
    BY <1>2 DEF ServedWhenDue, EachInstantOnce

ScheduleInv ==
  /\ Held /\ HoldersLive /\ GenerationsPast
  /\ ArmedAhead /\ ServedWhenDue /\ ServedAfter /\ ServedOnce

\* The scheduled runs of a step and of the state before it are the same.
SameSchedule ==
  \A r \in Run : /\ Scheduled(r)' <=> Scheduled(r)
                 /\ Scheduled(r) => /\ runs'[r].job = runs[r].job
                                    /\ runs'[r].gen = runs[r].gen
                                    /\ runs'[r].due = runs[r].due

\* A step that does not concern the entries of the scheduler.
Aside ==
  /\ SameSchedule
  /\ \A r \in Run : Scheduled(r) => (Active(r)' <=> Active(r))
  /\ UNCHANGED <<entries, gen, asked>>
  /\ proc' = "down" <=> proc = "down"
  /\ now' \in Time /\ now <= now'

LEMMA AsideStep ==
  ASSUME TypeInv, ScheduleInv, Aside PROVE ScheduleInv'
  <1> USE DEF Aside, SameSchedule, ScheduleInv
  <1>1. \A r \in Run : \A j, g : Holder(r, j, g)' <=> Holder(r, j, g)
    BY DEF Holder
  <1>2. Held'
    BY <1>1 DEF Held
  <1>3. HoldersLive'
    BY DEF HoldersLive
  <1>4. GenerationsPast'
    BY DEF GenerationsPast
  <1>5. ArmedAhead'
    BY DEF ArmedAhead
  <1>6. ServedWhenDue'
    <2>1. ASSUME NEW r \in Run, Scheduled(r) PROVE runs[r].due <= now'
      <3>1. runs[r].due \in Nat /\ now \in Nat /\ now' \in Nat
        BY ConstantsAssumption DEF TypeInv, TypeOK, RunRecord, Time
      <3> QED
        BY <2>1, <3>1 DEF ServedWhenDue
    <2> QED
      BY <2>1 DEF ServedWhenDue
  <1>7. ServedOnce' /\ ServedAfter'
    BY DEF ServedOnce, ServedAfter
  <1> QED
    BY <1>2, <1>3, <1>4, <1>5, <1>6, <1>7

\* A run's own step keeps the run in the schedule, and other runs as they are.
LEMMA RunStepSchedule ==
  ASSUME TypeInv, NEW r \in Run, RunStep(r)
  PROVE  SameSchedule /\ \A s \in Run \ {r} : runs'[s] = runs[s]
  <1>1. PICK x \in RunRecord :
          /\ runs' = [runs EXCEPT ![r] = x]
          /\ Active(r) /\ x.at \notin {"unused", "create", "dead"}
          /\ x.job = runs[r].job /\ x.by = runs[r].by
          /\ x.gen = runs[r].gen /\ x.due = runs[r].due
    BY RunStepEffect
  <1>2. runs \in [Run -> RunRecord]
    BY DEF TypeInv, TypeOK
  <1>3. runs'[r] = x /\ \A s \in Run \ {r} : runs'[s] = runs[s]
    BY <1>1, <1>2
  <1> QED
    BY <1>1, <1>3 DEF SameSchedule, Scheduled, Active

LEMMA RunStepAside ==
  ASSUME TypeInv, NEW r \in Run, RunStep(r), ~FinishScheduled(r) PROVE Aside
  <1>1. SameSchedule /\ \A s \in Run \ {r} : runs'[s] = runs[s]
    BY RunStepSchedule
  <1>2. UNCHANGED <<entries, gen, asked, proc, now>>
    BY DEF RunStep, CreateContainer, CreateFails, StartContainer, StartFails, WaitContainer,
           WaitFails, SaveExecution, UpsertJob, StoreFails, RemoveContainer, FinishScheduled,
           FinishTriggered, RunnerOnly, scheduler
  <1>3. Scheduled(r) => Active(r) /\ runs'[r].at \notin {"unused", "done", "dead"}
    <2>1. CASE FinishTriggered(r)
      BY <2>1 DEF FinishTriggered, Scheduled
    <2>2. CASE ~FinishTriggered(r)
      <3>1. runs[r] \in RunRecord
        BY DEF TypeInv, TypeOK
      <3>2. Active(r)
        BY RunStepEffect
      <3>3. runs'[r].at \notin {"unused", "done", "dead"}
        BY <2>2, <3>1 DEF RunStep, CreateContainer, CreateFails, StartContainer, StartFails,
           WaitContainer, WaitFails, SaveExecution, UpsertJob, StoreFails, RemoveContainer,
           AfterUpsert, TypeInv, TypeOK, RunRecord
      <3> QED
        BY <3>2, <3>3
    <2> QED
      BY <2>1, <2>2
  <1>4. now \in Time /\ now <= now
    BY ConstantsAssumption DEF TypeInv, TypeOK, Time
  <1> QED
    BY <1>1, <1>2, <1>3, <1>4 DEF Aside, Active

\* Most steps do not concern the schedule.
LEMMA StepKinds ==
  ASSUME TypeInv, [Next]_vars
  PROVE  \/ Aside
         \/ StartDaemon \/ DispatchDue \/ Exit \/ Crash
         \/ \E j \in Job : Register(j)
         \/ \E r \in Run : FinishScheduled(r)
  <1>1. runs \in [Run -> RunRecord]
    BY DEF TypeInv, TypeOK
  <1>2. now \in Time /\ now \in Nat /\ now <= now
    BY ConstantsAssumption DEF TypeInv, TypeOK, Time
  <1> DEFINE KeepsRuns == \A r \in Run : /\ runs'[r].at = runs[r].at
                                         /\ runs'[r].by = runs[r].by
                                         /\ runs'[r].job = runs[r].job
                                         /\ runs'[r].gen = runs[r].gen
                                         /\ runs'[r].due = runs[r].due
  <1>3. ASSUME KeepsRuns, UNCHANGED <<entries, gen, asked, now>>, proc' = "down" <=> proc = "down"
        PROVE  Aside
    BY <1>2, <1>3 DEF Aside, SameSchedule, Scheduled, Active
  <1>4. CASE Cancel
    <2>1. KeepsRuns
      BY <1>1, <1>4 DEF Cancel, RunRecord
    <2> QED
      BY <1>3, <1>4, <2>1 DEF Cancel, scheduler
  <1>5. CASE CloseStore
    BY <1>3, <1>5 DEF CloseStore, scheduler
  <1>6. CASE Tick
    <2>1. now' \in Time /\ now <= now'
      BY <1>2, <1>6, ConstantsAssumption DEF Tick, Time
    <2> QED
      BY <1>6, <2>1 DEF Tick, scheduler, Aside, SameSchedule, Scheduled, Active
  <1>7. ASSUME NEW j \in Job, Unregister(j) \/ RegisterAsks(j) PROVE Aside
    BY <1>3, <1>7 DEF Unregister, RegisterAsks
  <1>8. ASSUME NEW j \in Job, Trigger(j) PROVE Aside
    <2>1. PICK r \in Unused : runs' = [runs EXCEPT ![r] = NewRun(j, "trigger", 0, 0, TRUE)]
      BY <1>8 DEF Trigger
    <2>2. ~Scheduled(r) /\ r \in Run
      BY DEF Unused, Scheduled
    <2>3. ~Scheduled(r)'
      BY <1>1, <2>1, <2>2 DEF Scheduled, NewRun
    <2>4. \A s \in Run \ {r} : runs'[s] = runs[s]
      BY <1>1, <2>1
    <2> QED
      BY <1>2, <1>8, <2>2, <2>3, <2>4 DEF Trigger, scheduler, Aside, SameSchedule, Scheduled, Active
  <1>9. ASSUME NEW r \in Run, RunStep(r), ~FinishScheduled(r) PROVE Aside
    BY <1>9, RunStepAside
  <1>10. ASSUME NEW r \in Run, ContainerExits(r) \/ EndContext(r) PROVE Aside
    <2>1. KeepsRuns
      BY <1>1, <1>10 DEF ContainerExits, EndContext, RunRecord
    <2> QED
      BY <1>3, <1>10, <2>1 DEF ContainerExits, EndContext, RunnerOnly, scheduler
  <1>11. CASE UNCHANGED vars
    BY <1>3, <1>11 DEF vars, scheduler
  <1> QED
    BY <1>4, <1>5, <1>6, <1>7, <1>8, <1>9, <1>10, <1>11
    DEF Next, TimeoutExpires, ClientLeaves

LEMMA StartSchedule ==
  ASSUME TypeInv, Readings, ScheduleInv, StartDaemon PROVE ScheduleInv'
  <1> USE DEF ScheduleInv
  <1>0. runs \in [Run -> RunRecord] /\ now \in Time
    BY DEF TypeInv, TypeOK
  <1>1. \A r \in Run : runs'[r] \in {runs[r], [runs[r] EXCEPT !.cont = "none"]}
    BY DEF StartDaemon
  <1>2. SameSchedule /\ \A r \in Run : Active(r)' <=> Active(r)
    BY <1>0, <1>1 DEF SameSchedule, Scheduled, Active, RunRecord
  <1>3. \A r \in Run : ~(Scheduled(r)' /\ Active(r)')
    BY <1>2 DEF StartDaemon, HoldersLive, SameSchedule
  <1>4. UNCHANGED <<now, gen, asked>>
    BY DEF StartDaemon
  <1>5. \A j \in Job : gen[j] \in Generation
    BY DEF TypeInv, TypeOK
  <1>6. GenerationsPast' /\ ServedWhenDue' /\ ServedAfter' /\ ServedOnce'
    BY <1>2, <1>4 DEF GenerationsPast, ServedWhenDue, ServedAfter, ServedOnce, SameSchedule
  <1>7. HoldersLive'
    BY <1>3 DEF HoldersLive
  <1>8. \A r \in Run : \A j, g : ~Holder(r, j, g)' /\ ~Holder(r, j, g)
    BY <1>2, <1>3 DEF Holder, SameSchedule
  <1>9. CASE entries' = entries
    <2>1. Held'
      BY <1>8, <1>9 DEF Held
    <2>2. ArmedAhead'
      BY <1>2, <1>4, <1>9 DEF ArmedAhead, SameSchedule
    <2> QED
      BY <1>6, <1>7, <2>1, <2>2
  <1>10. CASE /\ \A j \in Job : NextRun(j, now) # 0
              /\ entries' = [j \in Job |-> [g \in Generation |->
                                IF g = gen[j] THEN NewEntry(j, now) ELSE Idle]]
    <2>1. \A j \in Job, g \in Generation : ~entries'[j][g].running
      BY <1>10 DEF NewEntry, Idle
    <2>2. Held'
      BY <1>8, <2>1 DEF Held
    <2>3. \A j \in Job : entries'[j][gen[j]].next = NextRun(j, now)
      BY <1>5, <1>10 DEF NewEntry
    <2>4. ASSUME NEW j \in Job
          PROVE  /\ entries'[j][gen[j]].next \in DueAt[j]
                 /\ entries'[j][gen[j]].next > now
                 /\ asked[j][gen[j]] < entries'[j][gen[j]].next
      <3>1. entries'[j][gen[j]].next \in DueAt[j] /\ entries'[j][gen[j]].next > now
        BY <1>0, <1>10, <2>3, NextRunAhead
      <3>2. asked[j][gen[j]] \in Nat /\ asked[j][gen[j]] <= now /\ now \in Nat
        BY <1>0, <1>5, ConstantsAssumption DEF Readings, TypeInv, TypeOK, Time
      <3>3. entries'[j][gen[j]].next \in Nat
        BY <3>1, ConstantsAssumption
      <3> QED
        BY <3>1, <3>2, <3>3
    <2>5. ASSUME NEW r \in Run, Scheduled(r)
          PROVE  runs[r].due < entries'[runs[r].job][gen[runs[r].job]].next
      <3>1. runs[r].job \in Job /\ runs[r].due \in Nat /\ runs[r].due <= now /\ now \in Nat
        BY <1>0, <2>5, ConstantsAssumption DEF ServedWhenDue, RunRecord, Time
      <3>2. entries'[runs[r].job][gen[runs[r].job]].next \in Nat
        BY <3>1, <2>4, ConstantsAssumption
      <3> QED
        BY <3>1, <3>2, <2>4
    <2>6. ArmedAhead'
      BY <1>2, <1>4, <2>4, <2>5 DEF ArmedAhead, SameSchedule
    <2> QED
      BY <1>6, <1>7, <2>2, <2>6
  <1> QED
    BY <1>9, <1>10 DEF StartDaemon

LEMMA EndedSchedule ==
  ASSUME TypeInv, ScheduleInv, Ended PROVE ScheduleInv'
  <1> USE DEF ScheduleInv
  <1>0. runs \in [Run -> RunRecord]
    BY DEF TypeInv, TypeOK
  <1>1. \A r \in Run : runs'[r] = IF Active(r) THEN [runs[r] EXCEPT !.at = "dead", !.ctx = FALSE]
                                             ELSE runs[r]
    BY DEF Ended
  <1>2. SameSchedule /\ \A r \in Run : ~Active(r)'
    <2>1. ASSUME NEW r \in Run
          PROVE  /\ runs'[r].job = runs[r].job /\ runs'[r].by = runs[r].by
                 /\ runs'[r].gen = runs[r].gen /\ runs'[r].due = runs[r].due
                 /\ runs'[r].at = IF Active(r) THEN "dead" ELSE runs[r].at
      <3>1. runs[r] \in RunRecord
        BY <1>0
      <3>2. CASE Active(r)
        BY <1>1, <3>1, <3>2 DEF RunRecord
      <3>3. CASE ~Active(r)
        BY <1>1, <3>3
      <3> QED
        BY <3>2, <3>3
    <2> QED
      BY <2>1 DEF SameSchedule, Scheduled, Active
  <1>3. UNCHANGED <<now, gen, asked>>
    BY DEF Ended
  <1>4. \A j \in Job, g \in Generation : ~entries'[j][g].running /\ ~entries'[j][g].active
    BY DEF Ended, Idle
  <1>5. \A j \in Job : gen[j] \in Generation
    BY DEF TypeInv, TypeOK
  <1>6. GenerationsPast' /\ ServedWhenDue' /\ ServedAfter' /\ ServedOnce'
    BY <1>2, <1>3 DEF GenerationsPast, ServedWhenDue, ServedAfter, ServedOnce, SameSchedule
  <1>7. Held' /\ HoldersLive' /\ ArmedAhead'
    BY <1>2, <1>3, <1>4, <1>5 DEF Held, Holder, HoldersLive, ArmedAhead
  <1> QED
    BY <1>6, <1>7

LEMMA RegisterSchedule ==
  ASSUME TypeInv, Readings, ScheduleInv, NEW j \in Job, Register(j) PROVE ScheduleInv'
  <1> USE DEF ScheduleInv
  <1>0. /\ runs \in [Run -> RunRecord] /\ now \in Time
        /\ gen \in [Job -> Generation] /\ entries \in [Job -> [Generation -> Entry]]
    BY DEF TypeInv, TypeOK
  <1>1. gen[j] \in Nat /\ gen[j] + 1 \in Generation /\ gen' = [gen EXCEPT ![j] = gen[j] + 1]
    BY <1>0, ConstantsAssumption DEF Register, Readings, Generation
  <1>2. UNCHANGED <<now, runs>> /\ proc # "down" /\ proc' = proc
    BY DEF Register
  <1>3. SameSchedule /\ \A r \in Run : Active(r)' <=> Active(r)
    BY <1>2 DEF SameSchedule, Scheduled, Active
  <1>4. \A r \in Run : Scheduled(r) => runs[r].job \in Job /\ runs[r].gen \in Nat
    BY <1>0, ConstantsAssumption DEF RunRecord, Generation
  <1>5. \A k \in Job : gen[k] \in Nat
    BY <1>0, ConstantsAssumption DEF Generation
  <1> DEFINE t == asking[j]
             e == NewEntry(j, t)
  <1>6. e.next = NextRun(j, t) /\ ~e.running
    BY DEF NewEntry
  <1>7. /\ entries' = [entries EXCEPT ![j] = [entries[j] EXCEPT ![gen[j] + 1] = e]]
        /\ asked' = [asked EXCEPT ![j] = [asked[j] EXCEPT ![gen[j] + 1] = t]]
    BY DEF Register
  <1>15. t \in Time /\ NextRun(j, t) # 0
    BY DEF Register, Readings, TypeInv, TypeOK
  <1>16. asked \in [Job -> [Generation -> Time]]
    BY DEF TypeInv, TypeOK
  <1> HIDE DEF e, t
  <1>17. /\ asked'[j][gen[j] + 1] = t
         /\ \A k \in Job, g \in Generation :
              k # j \/ g # gen[j] + 1 => asked'[k][g] = asked[k][g]
    BY <1>1, <1>7, <1>16
  <1>8. /\ entries'[j][gen[j] + 1] = e
        /\ \A k \in Job, g \in Generation :
             k # j \/ g # gen[j] + 1 => entries'[k][g] = entries[k][g]
    BY <1>0, <1>1, <1>7
  <1>9. \A r \in Run : ~Holder(r, j, gen[j] + 1)
    BY <1>1, <1>4 DEF Holder, GenerationsPast
  <1>10. Held'
    <2>1. \A r \in Run : \A k, g : Holder(r, k, g)' <=> Holder(r, k, g)
      BY <1>2, <1>3 DEF Holder, SameSchedule
    <2> QED
      BY <1>6, <1>8, <1>9, <2>1 DEF Held
  <1>11. HoldersLive'
    BY <1>2, <1>3 DEF HoldersLive, SameSchedule
  <1>12. GenerationsPast'
    BY <1>0, <1>1, <1>2, <1>4, <1>5 DEF GenerationsPast, Scheduled
  <1>13. ArmedAhead'
    <2>1. e.next \in DueAt[j] /\ t < e.next
      BY <1>6, <1>15, NextRunAhead
    <2>2. \A r \in Run : ~(Scheduled(r) /\ runs[r].job = j /\ runs[r].gen = gen[j] + 1)
      BY <1>1, <1>4 DEF GenerationsPast
    <2>3. ASSUME NEW k \in Job, k # j
          PROVE  /\ gen'[k] = gen[k] /\ entries'[k][gen[k]] = entries[k][gen[k]]
                 /\ asked'[k][gen[k]] = asked[k][gen[k]]
      BY <1>0, <1>1, <1>8, <1>17, <2>3
    <2>4. gen'[j] = gen[j] + 1
      BY <1>0, <1>1
    <2> QED
      BY <1>2, <1>8, <1>17, <2>1, <2>2, <2>3, <2>4 DEF ArmedAhead, Scheduled
  <1>14. ServedWhenDue' /\ ServedAfter' /\ ServedOnce'
    <2>1. ASSUME NEW r \in Run, Scheduled(r)
          PROVE  asked'[runs[r].job][runs[r].gen] = asked[runs[r].job][runs[r].gen]
      <3>1. runs[r].job # j \/ runs[r].gen # gen[j] + 1
        BY <1>1, <1>4, <2>1 DEF GenerationsPast
      <3>2. runs[r].job \in Job /\ runs[r].gen \in Generation
        BY <1>0 DEF RunRecord
      <3> QED
        BY <1>17, <3>1, <3>2
    <2> QED
      BY <1>2, <2>1 DEF ServedWhenDue, ServedAfter, ServedOnce, Scheduled
  <1> QED
    BY <1>10, <1>11, <1>12, <1>13, <1>14

LEMMA FinishSchedule ==
  ASSUME TypeInv, Readings, ScheduleInv, NEW r \in Run, FinishScheduled(r) PROVE ScheduleInv'
  <1> USE DEF ScheduleInv
  <1>0. /\ runs \in [Run -> RunRecord] /\ now \in Time
        /\ gen \in [Job -> Generation] /\ entries \in [Job -> [Generation -> Entry]]
    BY DEF TypeInv, TypeOK
  <1> DEFINE j == runs[r].job
             g == runs[r].gen
             n == NextRun(j, now)
             e == [next |-> n, running |-> FALSE, active |-> entries[j][g].active /\ n # 0]
  <1>1. j \in Job /\ g \in Generation
    BY <1>0 DEF RunRecord
  <1>2. SameSchedule /\ (\A s \in Run \ {r} : runs'[s] = runs[s])
    BY RunStepSchedule DEF RunStep
  <1>3. Holder(r, j, g) /\ ~Active(r)'
    BY <1>0 DEF FinishScheduled, Holder, Scheduled, Active, RunRecord
  <1>4. UNCHANGED <<now, gen, asked, proc>>
    BY DEF FinishScheduled
  <1>5. entries' = [entries EXCEPT ![j] = [entries[j] EXCEPT ![g] = e]]
    BY DEF FinishScheduled
  <1>6. ~e.running /\ (e.active => n # 0) /\ e.next = n
    OBVIOUS
  <1>7. n # 0 => n \in DueAt[j] /\ n > now
    BY <1>0, <1>1, NextRunAhead
  <1> HIDE DEF e, n
  <1>8. /\ entries'[j][g] = e
        /\ \A k \in Job, h \in Generation : k # j \/ h # g => entries'[k][h] = entries[k][h]
    BY <1>0, <1>1, <1>5
  <1>9. Held'
    <2>1. \A s \in Run \ {r} : \A k, h : Holder(s, k, h)' <=> Holder(s, k, h)
      BY <1>2 DEF Holder, Scheduled, Active
    <2>2. \A k, h : ~Holder(r, k, h)' /\ (Holder(r, k, h) => k = j /\ h = g)
      BY <1>3 DEF Holder
    <2>3. \A s \in Run : Holder(s, j, g) => s = r
      BY <1>1, <1>3 DEF Held
    <2> QED
      BY <1>6, <1>8, <2>1, <2>2, <2>3 DEF Held
  <1>10. HoldersLive'
    BY <1>2, <1>3, <1>4 DEF HoldersLive, Scheduled, Active
  <1>11. GenerationsPast' /\ ServedWhenDue' /\ ServedAfter' /\ ServedOnce'
    BY <1>2, <1>4 DEF GenerationsPast, ServedWhenDue, ServedAfter, ServedOnce, SameSchedule
  <1>12. ArmedAhead'
    <2>1. ASSUME n # 0, NEW s \in Run, Scheduled(s), runs[s].job = j PROVE runs[s].due < n
      <3>1. runs[s].due \in Nat /\ runs[s].due <= now /\ now \in Nat /\ n \in Nat
        BY <1>0, <1>1, <1>7, <2>1, ConstantsAssumption DEF ServedWhenDue, RunRecord, Time
      <3> QED
        BY <1>7, <2>1, <3>1
    <2>2. CASE gen[j] = g
      <3>1. n # 0 => asked[j][gen[j]] < n
        <4>1. asked[j][gen[j]] \in Nat /\ asked[j][gen[j]] <= now /\ now \in Nat
          BY <1>0, <1>1, <2>2, ConstantsAssumption DEF Readings, TypeInv, TypeOK, Time
        <4>2. n # 0 => n > now /\ n \in Nat
          BY <1>1, <1>7, ConstantsAssumption
        <4> QED
          BY <4>1, <4>2
      <3> QED
        BY <1>0, <1>2, <1>4, <1>6, <1>7, <1>8, <2>1, <2>2, <3>1 DEF ArmedAhead, SameSchedule
    <2>3. CASE gen[j] # g
      <3>1. \A k \in Job : entries'[k][gen[k]] = entries[k][gen[k]]
        BY <1>0, <1>8, <2>3
      <3> QED
        BY <1>2, <1>4, <3>1 DEF ArmedAhead, SameSchedule
    <2> QED
      BY <2>2, <2>3
  <1> QED
    BY <1>9, <1>10, <1>11, <1>12

LEMMA DispatchSchedule ==
  ASSUME TypeInv, ScheduleInv, DispatchDue PROVE ScheduleInv'
  <1> USE DEF ScheduleInv
  <1>0. /\ runs \in [Run -> RunRecord] /\ now \in Time
        /\ gen \in [Job -> Generation] /\ entries \in [Job -> [Generation -> Entry]]
    BY DEF TypeInv, TypeOK
  <1> DEFINE E(j) == entries[j][gen[j]]
             New(j) == NewRun(j, "schedule", gen[j], E(j).next, proc = "up")
  <1>18. PICK t \in Time : /\ t <= now /\ DueJobs(t) # {} /\ Dispatch(DueJobs(t))
                          /\ \A j \in DueJobs(t) : Due(j, t) /\ j \in Job
    BY DispatchMeans DEF TypeInv
  <1> DEFINE due == DueJobs(t)
  <1>1. PICK run \in [due -> Unused] :
          /\ \A j, k \in due : run[j] = run[k] => j = k
          /\ runs' = [r \in Run |->
              IF \E j \in due : run[j] = r
              THEN LET j == CHOOSE j \in due : run[j] = r IN New(j)
              ELSE runs[r]]
    BY <1>18 DEF Dispatch
  <1>19. entries' = [j \in Job |-> IF j \in due
                                  THEN [entries[j] EXCEPT ![gen[j]].running = TRUE]
                                  ELSE entries[j]]
    BY <1>18 DEF Dispatch
  <1> DEFINE Fresh(r) == \E j \in due : run[j] = r
  <1>2. \A j \in due : run[j] \in Run /\ ~Scheduled(run[j])
    BY DEF Unused, Scheduled
  <1>3. ASSUME NEW j \in due
        PROVE  /\ runs'[run[j]].job = j /\ runs'[run[j]].gen = gen[j]
               /\ runs'[run[j]].due = E(j).next
               /\ Scheduled(run[j])' /\ Active(run[j])'
    <2>1. (CHOOSE k \in due : run[k] = run[j]) = j
      BY <1>1
    <2>2. runs'[run[j]] = New(j)
      BY <1>1, <1>2, <2>1
    <2> QED
      BY <2>2 DEF NewRun, Scheduled, Active
  <1>4. \A r \in Run : ~Fresh(r) => runs'[r] = runs[r]
    BY <1>1
  <1>5. ASSUME NEW j \in due
        PROVE  j \in Job /\ E(j) \in Entry /\ E(j).active /\ ~E(j).running /\ E(j).next <= now
    <2>1. /\ j \in Job /\ E(j).active /\ ~E(j).running /\ E(j).next <= t
      BY <1>18, <1>5 DEF Due
    <2>2. E(j) \in Entry /\ E(j).next \in Nat /\ t \in Nat /\ now \in Nat
      BY <1>0, <2>1, ConstantsAssumption DEF Entry, Time
    <2> QED
      BY <1>18, <2>1, <2>2
  <1> HIDE DEF due
  <1>6. UNCHANGED <<now, gen, asked>> /\ proc # "down" /\ proc' = proc
    BY DEF DispatchDue
  <1>7. /\ \A j \in due : entries'[j][gen[j]].running
        /\ \A j \in Job, g \in Generation :
             j \notin due \/ g # gen[j] => entries'[j][g] = entries[j][g]
    <2>1. \A j \in Job : entries'[j] = IF j \in due
                                       THEN [entries[j] EXCEPT ![gen[j]].running = TRUE]
                                       ELSE entries[j]
      BY <1>19
    <2>2. ASSUME NEW j \in due PROVE entries'[j][gen[j]].running
      <3> DEFINE e == [E(j) EXCEPT !.running = TRUE]
      <3>1. e.running
        BY <1>5 DEF Entry
      <3>2. entries'[j] = [entries[j] EXCEPT ![gen[j]] = e] /\ gen[j] \in Generation
        BY <1>0, <1>5, <2>1
      <3> HIDE DEF e
      <3>3. entries'[j][gen[j]] = e
        BY <1>0, <1>5, <3>2
      <3> QED
        BY <3>1, <3>3
    <2>3. ASSUME NEW j \in Job, NEW g \in Generation, j \notin due \/ g # gen[j]
          PROVE  entries'[j][g] = entries[j][g]
      BY <1>0, <2>1, <2>3
    <2> QED
      BY <2>2, <2>3
  <1> HIDE DEF New
  <1>8. \A r \in Run : \A j, g : ~Fresh(r) => (Holder(r, j, g)' <=> Holder(r, j, g))
    BY <1>4 DEF Holder, Scheduled, Active
  <1>9. \A k \in due : \A j, g : Holder(run[k], j, g)' <=> j = k /\ g = gen[k]
    BY <1>3 DEF Holder
  <1>10. \A k \in due : \A j, g : ~Holder(run[k], j, g)
    BY <1>2 DEF Holder
  <1>11. Held'
    <2> SUFFICES ASSUME NEW j \in Job, NEW g \in Generation
                 PROVE  /\ entries'[j][g].running <=> \E r \in Run : Holder(r, j, g)'
                        /\ \A r, s \in Run : Holder(r, j, g)' /\ Holder(s, j, g)' => r = s
      BY DEF Held
    <2>1. CASE j \in due /\ g = gen[j]
      <3>1. \A r \in Run : ~Holder(r, j, g)
        BY <1>5, <2>1 DEF Held
      <3>2. ASSUME NEW r \in Run, Holder(r, j, g)' PROVE r = run[j]
        <4>1. PICK k \in due : run[k] = r
          BY <1>8, <3>1, <3>2
        <4>2. j = k
          BY <1>9, <3>2, <4>1
        <4> QED
          BY <4>1, <4>2
      <3> QED
        BY <1>2, <1>7, <1>9, <2>1, <3>2
    <2>2. CASE ~(j \in due /\ g = gen[j])
      <3>1. \A r \in Run : Holder(r, j, g)' <=> Holder(r, j, g)
        BY <1>8, <1>9, <1>10, <2>2
      <3> QED
        BY <1>7, <2>2, <3>1 DEF Held
    <2> QED
      BY <2>1, <2>2
  <1>12. HoldersLive'
    BY <1>6 DEF HoldersLive
  <1>13. GenerationsPast'
    <2>1. \A j \in due : gen[j] <= gen[j]
      BY <1>0, <1>5, ConstantsAssumption DEF Generation
    <2> QED
      BY <1>3, <1>4, <1>6, <2>1 DEF GenerationsPast, Scheduled
  <1>14. ASSUME NEW j \in due
         PROVE  /\ E(j).next \in DueAt[j]
                /\ asked[j][gen[j]] < E(j).next
                /\ \A r \in Run : Scheduled(r) /\ runs[r].job = j /\ runs[r].gen = gen[j]
                                  => runs[r].due < E(j).next
    BY <1>5 DEF ArmedAhead
  <1>15. ArmedAhead'
    <2> SUFFICES ASSUME NEW j \in Job, entries'[j][gen[j]].active, ~entries'[j][gen[j]].running
                 PROVE  /\ entries'[j][gen[j]].next \in DueAt[j]
                        /\ asked[j][gen[j]] < entries'[j][gen[j]].next
                        /\ \A r \in Run : Scheduled(r)' /\ runs'[r].job = j /\ runs'[r].gen = gen[j]
                             => runs'[r].due < entries'[j][gen[j]].next
      BY <1>6 DEF ArmedAhead
    <2>1. j \notin due /\ gen[j] \in Generation
      BY <1>0, <1>7
    <2>2. entries'[j][gen[j]] = E(j)
      BY <1>7, <2>1
    <2> QED
      BY <1>3, <1>4, <2>1, <2>2 DEF ArmedAhead, Scheduled
  <1>16. ServedWhenDue' /\ ServedAfter'
    BY <1>3, <1>4, <1>5, <1>6, <1>14 DEF ServedWhenDue, ServedAfter, Scheduled
  <1>17. ServedOnce'
    <2> SUFFICES ASSUME NEW r \in Run, NEW s \in Run, Scheduled(r)', Scheduled(s)',
                        runs'[s].job = runs'[r].job, runs'[s].gen = runs'[r].gen,
                        runs'[s].due = runs'[r].due
                 PROVE  r = s
      BY DEF ServedOnce
    <2>1. \A j \in due : E(j).next \in Nat
      BY <1>5, ConstantsAssumption DEF Entry, Time
    <2>2. \A q \in Run : runs[q].due \in Nat
      BY <1>0, ConstantsAssumption DEF RunRecord, Time
    <2>3. CASE Fresh(r) /\ Fresh(s)
      BY <1>3, <2>3
    <2>4. CASE Fresh(r) /\ ~Fresh(s)
      BY <1>3, <1>4, <1>14, <2>1, <2>2, <2>4 DEF Scheduled
    <2>5. CASE ~Fresh(r) /\ Fresh(s)
      BY <1>3, <1>4, <1>14, <2>1, <2>2, <2>5 DEF Scheduled
    <2>6. CASE ~Fresh(r) /\ ~Fresh(s)
      BY <1>4, <2>6 DEF ServedOnce, Scheduled
    <2> QED
      BY <2>3, <2>4, <2>5, <2>6
  <1> QED
    BY <1>11, <1>12, <1>13, <1>15, <1>16, <1>17

\* The inductive invariant of the scheduler holds in every reachable state.
LEMMA ScheduleInvariant == Spec => []ScheduleInv
  <1>1. Init => ScheduleInv
    <2> SUFFICES ASSUME Init PROVE ScheduleInv
      OBVIOUS
    <2>1. \A r \in Run : ~Scheduled(r)
      BY InitialRuns DEF Scheduled
    <2>2. \A j \in Job, g \in Generation : ~entries[j][g].running /\ ~entries[j][g].active
      BY DEF Init, Idle
    <2>3. \A j \in Job : gen[j] \in Generation
      BY GenerationZero DEF Init
    <2> QED
      BY <2>1, <2>2, <2>3
      DEF ScheduleInv, Held, Holder, HoldersLive, GenerationsPast, ArmedAhead, ServedWhenDue,
          ServedAfter, ServedOnce
  <1>2. TypeInv /\ Readings /\ ScheduleInv /\ [Next]_vars => ScheduleInv'
    BY StepKinds, AsideStep, StartSchedule, EndedSchedule, RegisterSchedule, FinishSchedule,
       DispatchSchedule DEF Exit, Crash
  <1> QED
    BY <1>1, <1>2, TypeInvariant, PTL DEF Spec

\* No entry has two runs at once (Scheduler.dispatchDue and the deferred function
\* of runJob), and none stays marked when its run is over, whatever Register,
\* Unregister and restarts do to the entries meanwhile.
THEOREM OneRunPerEntry == Spec => []RunningMeansOneRun
  <1>1. ScheduleInv => RunningMeansOneRun
    BY HeldMeans DEF ScheduleInv
  <1> QED
    BY <1>1, ScheduleInvariant, PTL

\* No instant of a schedule is served early, and none is served twice but for one
\* that comes between the reading of the clock and the lock of a Register
\* (CronSchedule.Next in Register, Sync and the deferred function of runJob).
THEOREM NoInstantTwice == Spec => []EachInstantOnce
  <1>1. TypeInv /\ ScheduleInv => EachInstantOnce
    BY InstantsMeans DEF ScheduleInv
  <1> QED
    BY <1>1, TypeInvariant, ScheduleInvariant, PTL

-----------------------------------------------------------------------------
(* Results: what RunOnce writes, and what it leaves in Docker *)

\* The stages of a run, what it knows by then and what the history says of it.
Outcome(r) ==
  /\ runs[r].at \in {"unused", "create", "start", "wait"} => runs[r].status = "running"
  /\ runs[r].at \in {"unused", "create", "start", "wait", "save"} => executions[r] = "none"
  /\ executions[r] \in {"none", runs[r].status}
  /\ runs[r].at \in {"start", "wait"} => runs[r].known
  /\ runs[r].status = "succeeded" =>
       runs[r].known /\ runs[r].code = 0 /\ runs[r].cont \in {"exited", "none"}

\* Without a failed call the container is gone when the run is over.
Cleaned(r) ==
  faults = 0 /\ runs[r].at \in {"finish", "done"} /\ runs[r].known => runs[r].cont = "none"

\* The row of a job was written by a run that has nothing more to write.
RowWritten ==
  \A j \in Job : jobRow[j].run # None =>
    /\ jobRow[j].status = runs[jobRow[j].run].status
    /\ runs[jobRow[j].run].at \in {"remove", "finish", "done", "dead"}

ResultInv == RowWritten /\ \A r \in Run : Outcome(r) /\ Cleaned(r)

\* The step of a run, for that run.
LEMMA RunStepOutcome ==
  ASSUME TypeInv, ResultInv, NEW r \in Run, RunStep(r)
  PROVE  Outcome(r)' /\ Cleaned(r)'
  <1>0. runs[r] \in RunRecord /\ runs \in [Run -> RunRecord] /\ executions \in [Run -> Status]
    BY DEF TypeInv, TypeOK
  <1>1. Outcome(r) /\ Cleaned(r) /\ faults \in Nat
    BY ConstantsAssumption DEF ResultInv, TypeInv, TypeOK
  <1> USE <1>0, <1>1 DEF Outcome, Cleaned, RunRecord, RunnerOnly, store, Failing
  <1>2. CASE CreateContainer(r)
    BY <1>2 DEF CreateContainer
  <1>3. CASE CreateFails(r)
    BY <1>3 DEF CreateFails
  <1>4. CASE StartContainer(r)
    BY <1>4 DEF StartContainer
  <1>5. CASE StartFails(r)
    BY <1>5 DEF StartFails
  <1>6. CASE WaitContainer(r)
    BY <1>6 DEF WaitContainer
  <1>7. CASE WaitFails(r)
    BY <1>7 DEF WaitFails
  <1>8. CASE SaveExecution(r)
    BY <1>8 DEF SaveExecution
  <1>9. CASE UpsertJob(r)
    BY <1>9 DEF UpsertJob, AfterUpsert
  <1>10. CASE StoreFails(r)
    BY <1>10 DEF StoreFails, AfterUpsert
  <1>11. CASE RemoveContainer(r)
    BY <1>11 DEF RemoveContainer
  <1>12. CASE FinishScheduled(r) \/ FinishTriggered(r)
    BY <1>12 DEF FinishScheduled, FinishTriggered
  <1> QED
    BY <1>2, <1>3, <1>4, <1>5, <1>6, <1>7, <1>8, <1>9, <1>10, <1>11, <1>12 DEF RunStep

\* A step that writes no row and gives a run no outcome: some containers may be
\* gone, some runs may be dead.
Between ==
  /\ UNCHANGED <<executions, jobRow>>
  /\ faults \in Nat /\ faults' \in Nat /\ faults <= faults'
  /\ \A r \in Run :
       /\ runs'[r].status = runs[r].status /\ runs'[r].known = runs[r].known
       /\ runs'[r].code = runs[r].code /\ runs'[r].cont \in {runs[r].cont, "none"}
       /\ runs'[r].at \in {runs[r].at, "dead"}

LEMMA BetweenStep ==
  ASSUME TypeInv, ResultInv, Between PROVE ResultInv'
  <1> USE DEF Between, ResultInv
  <1>1. \A r \in Run : Outcome(r)'
    BY DEF Outcome
  <1>2. \A r \in Run : Cleaned(r)'
    BY DEF Cleaned
  <1>3. RowWritten'
    <2>1. \A j \in Job : jobRow[j].run \in Run \cup {None}
      BY DEF TypeInv, TypeOK
    <2> QED
      BY <2>1 DEF RowWritten
  <1> QED
    BY <1>1, <1>2, <1>3

\* A run that starts takes the place of one that was not used.
LEMMA NewRunOutcome ==
  ASSUME TypeInv, ResultInv, UNCHANGED <<store, faults>>,
         \A r \in Run : \/ runs'[r] = runs[r]
                        \/ r \in Unused /\ \E j, by, g, d, live :
                                              runs'[r] = NewRun(j, by, g, d, live)
  PROVE  ResultInv'
  <1> USE DEF ResultInv, store
  <1>1. ASSUME NEW r \in Run PROVE Outcome(r)' /\ Cleaned(r)'
    <2>1. CASE runs'[r] = runs[r]
      BY <2>1 DEF Outcome, Cleaned
    <2>2. CASE r \in Unused /\ \E j, by, g, d, live : runs'[r] = NewRun(j, by, g, d, live)
      <3>1. executions[r] = "none"
        BY <2>2 DEF Unused, Outcome
      <3>2. runs'[r].at = "create" /\ runs'[r].status = "running"
        BY <2>2 DEF NewRun
      <3> QED
        BY <3>1, <3>2 DEF Outcome, Cleaned
    <2> QED
      BY <1>1, <2>1, <2>2
  <1>2. RowWritten'
    <2>1. \A j \in Job : jobRow[j].run \in Run \cup {None}
      BY DEF TypeInv, TypeOK
    <2> QED
      BY <2>1 DEF RowWritten, Unused
  <1> QED
    BY <1>1, <1>2

LEMMA ResultStep ==
  ASSUME TypeInv, ResultInv, [Next]_vars PROVE ResultInv'
  <1>0. /\ runs \in [Run -> RunRecord] /\ executions \in [Run -> Status]
        /\ jobRow \in [Job -> [status : Status, run : Run \cup {None}]]
        /\ faults \in Nat /\ faults <= faults
    BY ConstantsAssumption DEF TypeInv, TypeOK
  <1> USE DEF store
  <1>1. CASE StartDaemon
    <2>1. \A r \in Run : runs'[r] \in {runs[r], [runs[r] EXCEPT !.cont = "none"]}
      BY <1>1 DEF StartDaemon
    <2>2. \A r \in Run : /\ runs'[r].status = runs[r].status /\ runs'[r].known = runs[r].known
                         /\ runs'[r].code = runs[r].code /\ runs'[r].at = runs[r].at
                         /\ runs'[r].cont \in {runs[r].cont, "none"}
      BY <1>0, <2>1 DEF RunRecord
    <2>3. UNCHANGED <<executions, faults>> /\ \A j \in Job : jobRow'[j].run = None
      BY <1>1 DEF StartDaemon
    <2>4. RowWritten'
      BY <2>3 DEF RowWritten
    <2>5. \A r \in Run : Outcome(r)' /\ Cleaned(r)'
      BY <2>2, <2>3 DEF ResultInv, Outcome, Cleaned
    <2> QED
      BY <2>4, <2>5 DEF ResultInv
  <1>2. CASE Cancel
    <2>1. \A r \in Run : runs'[r] \in {runs[r], [runs[r] EXCEPT !.ctx = FALSE]}
      BY <1>2 DEF Cancel
    <2>2. Between
      BY <1>0, <1>2, <2>1 DEF Cancel, Between, RunRecord
    <2> QED
      BY <2>2, BetweenStep
  <1>3. CASE Ended /\ (UNCHANGED faults \/ faults' = faults + 1)
    <2>1. \A r \in Run : runs'[r] \in {runs[r], [runs[r] EXCEPT !.at = "dead", !.ctx = FALSE]}
      BY <1>3 DEF Ended
    <2>2. ASSUME NEW r \in Run
          PROVE  /\ runs'[r].status = runs[r].status /\ runs'[r].known = runs[r].known
                 /\ runs'[r].code = runs[r].code /\ runs'[r].cont = runs[r].cont
                 /\ runs'[r].at \in {runs[r].at, "dead"}
      <3>1. runs[r] \in RunRecord
        BY <1>0
      <3>2. CASE runs'[r] = runs[r]
        BY <3>2
      <3>3. CASE runs'[r] = [runs[r] EXCEPT !.at = "dead", !.ctx = FALSE]
        BY <3>1, <3>3 DEF RunRecord
      <3> QED
        BY <2>1, <3>2, <3>3
    <2>3. faults \in Nat /\ faults' \in Nat /\ faults <= faults'
      BY <1>0, <1>3
    <2>4. UNCHANGED <<executions, jobRow>>
      BY <1>3 DEF Ended
    <2>5. Between
      BY <2>2, <2>3, <2>4 DEF Between
    <2> QED
      BY <2>5, BetweenStep
  <1>4. CASE DispatchDue
    <2>3. PICK t \in Time : Dispatch(DueJobs(t))
      BY <1>4, DispatchMeans DEF TypeInv
    <2> DEFINE due == DueJobs(t)
    <2>1. PICK run \in [due -> Unused] :
          runs' = [r \in Run |->
              IF \E j \in due : run[j] = r
              THEN LET j == CHOOSE j \in due : run[j] = r
                   IN NewRun(j, "schedule", gen[j], entries[j][gen[j]].next, proc = "up")
              ELSE runs[r]]
      BY <2>3 DEF Dispatch
    <2> HIDE DEF due
    <2>2. ASSUME NEW r \in Run
          PROVE  \/ runs'[r] = runs[r]
                 \/ r \in Unused /\ \E j, by, g, d, live :
                                       runs'[r] = NewRun(j, by, g, d, live)
      <3>1. CASE \E j \in due : run[j] = r
        <4>1. r \in Unused
          BY <3>1
        <4> DEFINE j == CHOOSE j \in due : run[j] = r
        <4>2. runs'[r] = NewRun(j, "schedule", gen[j], entries[j][gen[j]].next, proc = "up")
          BY <2>1, <3>1
        <4> HIDE DEF j
        <4> QED
          BY <4>1, <4>2
      <3>2. CASE ~ \E j \in due : run[j] = r
        BY <2>1, <3>2
      <3> QED
        BY <3>1, <3>2
    <2> QED
      BY <1>4, <2>2, NewRunOutcome DEF DispatchDue
  <1>5. ASSUME NEW j \in Job, Trigger(j) PROVE ResultInv'
    <2>1. PICK r \in Unused : runs' = [runs EXCEPT ![r] = NewRun(j, "trigger", 0, 0, TRUE)]
      BY <1>5 DEF Trigger
    <2>2. ASSUME NEW s \in Run
          PROVE  \/ runs'[s] = runs[s]
                 \/ s \in Unused /\ \E k, by, g, d, live :
                                       runs'[s] = NewRun(k, by, g, d, live)
      <3>1. CASE s = r
        <4>1. runs'[s] = NewRun(j, "trigger", 0, 0, TRUE)
          BY <1>0, <2>1, <3>1
        <4> QED
          BY <3>1, <4>1
      <3>2. CASE s # r
        BY <1>0, <2>1, <3>2
      <3> QED
        BY <3>1, <3>2
    <2> QED
      BY <1>5, <2>2, NewRunOutcome DEF Trigger
  <1>6. ASSUME NEW r \in Run, RunStep(r) PROVE ResultInv'
    <2>1. /\ \A s \in Run \ {r} : runs'[s] = runs[s]
          /\ Active(r)
      BY <1>6, RunStepSchedule, RunStepEffect
    <2>2. \A s \in Run \ {r} : executions'[s] = executions[s]
      BY <1>0, <1>6 DEF RunStep, CreateContainer, CreateFails, StartContainer, StartFails,
        WaitContainer, WaitFails, SaveExecution, UpsertJob, StoreFails, RemoveContainer,
        FinishScheduled, FinishTriggered, RunnerOnly
    <2>3. faults' = faults \/ faults' = faults + 1
      BY <1>6 DEF RunStep, CreateContainer, CreateFails, StartContainer, StartFails,
        WaitContainer, WaitFails, SaveExecution, UpsertJob, StoreFails, RemoveContainer,
        FinishScheduled, FinishTriggered, Failing
    <2>4. \A s \in Run \ {r} : Outcome(s)' /\ Cleaned(s)'
      BY <1>0, <2>1, <2>2, <2>3 DEF ResultInv, Outcome, Cleaned
    <2>5. RowWritten'
      <3>1. \A j \in Job : jobRow[j].run \in Run \cup {None}
        BY <1>0
      <3>2. CASE UpsertJob(r)
        <4>1. runs[r] \in RunRecord
          BY <1>0
        <4>2. /\ runs'[r].status = runs[r].status /\ runs'[r].at \in {"remove", "finish"}
              /\ runs[r].at = "upsert" /\ runs[r].job \in Job
          BY <1>0, <3>2, <4>1 DEF UpsertJob, AfterUpsert, RunRecord
        <4> DEFINE row == [status |-> runs[r].status, run |-> r]
        <4>3. jobRow' = [jobRow EXCEPT ![runs[r].job] = row] /\ row.run = r /\ row.status = runs[r].status
          BY <3>2 DEF UpsertJob
        <4> HIDE DEF row
        <4>4. \A j \in Job : jobRow[j].run # r \/ jobRow[j].run = None
          BY <4>2 DEF ResultInv, RowWritten
        <4>5. \A j \in Job : jobRow'[j] = IF j = runs[r].job THEN row ELSE jobRow[j]
          BY <1>0, <4>2, <4>3
        <4> QED
          BY <2>1, <3>1, <4>2, <4>3, <4>4, <4>5 DEF ResultInv, RowWritten
      <3>3. CASE ~UpsertJob(r)
        <4>1. jobRow' = jobRow
          BY <1>6, <3>3 DEF RunStep, CreateContainer, CreateFails, StartContainer, StartFails,
            WaitContainer, WaitFails, SaveExecution, StoreFails, RemoveContainer,
            FinishScheduled, FinishTriggered, RunnerOnly
        <4>2. runs[r].at \in {"remove", "finish", "done", "dead"} =>
                runs'[r].at \in {"finish", "done"} /\ runs'[r].status = runs[r].status
          <5>1. runs[r] \in RunRecord
            BY <1>0
          <5> QED
            BY <1>0, <1>6, <5>1 DEF RunStep, CreateContainer, CreateFails, StartContainer,
              StartFails, WaitContainer, WaitFails, SaveExecution, UpsertJob, StoreFails,
              RemoveContainer, FinishScheduled, FinishTriggered, RunRecord
        <4> QED
          BY <2>1, <3>1, <4>1, <4>2 DEF ResultInv, RowWritten
      <3> QED
        BY <3>2, <3>3
    <2> QED
      BY <1>6, <2>4, <2>5, RunStepOutcome DEF ResultInv
  <1>7. ASSUME NEW r \in Run, ContainerExits(r) PROVE ResultInv'
    <2>1. PICK c \in {0, 1} : runs' = [runs EXCEPT ![r].cont = "exited", ![r].code = c]
      BY <1>7 DEF ContainerExits
    <2>2. \A s \in Run \ {r} : runs'[s] = runs[s]
      BY <1>0, <2>1
    <2>3. /\ runs'[r].at = runs[r].at /\ runs'[r].status = runs[r].status
          /\ runs'[r].known = runs[r].known
      BY <1>0, <2>1 DEF RunRecord
    <2>4. UNCHANGED <<executions, jobRow, faults>> /\ runs[r].cont = "running"
      BY <1>7 DEF ContainerExits, RunnerOnly
    <2>5. \A s \in Run : Outcome(s)' /\ Cleaned(s)'
      BY <2>2, <2>3, <2>4 DEF ResultInv, Outcome, Cleaned
    <2>6. RowWritten'
      BY <1>0, <2>2, <2>3, <2>4 DEF ResultInv, RowWritten
    <2> QED
      BY <2>5, <2>6 DEF ResultInv
  <1>8. ASSUME NEW r \in Run, EndContext(r) PROVE ResultInv'
    <2>1. Between
      BY <1>0, <1>8 DEF EndContext, RunnerOnly, Between, RunRecord
    <2> QED
      BY <2>1, BetweenStep
  <1>9. ASSUME UNCHANGED <<runs, executions, jobRow, faults>> PROVE ResultInv'
    BY <1>9 DEF ResultInv, Outcome, Cleaned, RowWritten
  <1> QED
    BY <1>1, <1>2, <1>3, <1>4, <1>5, <1>6, <1>7, <1>8, <1>9
    DEF Next, TimeoutExpires, ClientLeaves, Exit, Crash, CloseStore, Tick, RegisterAsks, Register,
        Unregister, vars

LEMMA ResultInvariant == Spec => []ResultInv
  <1>1. Init => ResultInv
    <2> SUFFICES ASSUME Init PROVE ResultInv
      OBVIOUS
    <2>1. \A r \in Run : runs[r].at = "unused" /\ runs[r].status = "running"
      BY InitialRuns
    <2> QED
      BY <2>1 DEF Init, ResultInv, Outcome, Cleaned, RowWritten
  <1>2. TypeInv /\ ResultInv /\ [Next]_vars => ResultInv'
    BY ResultStep
  <1> QED
    BY <1>1, <1>2, TypeInvariant, PTL DEF Spec

\* A recorded success is one (RunOnce): its container was seen to end with code
\* 0, whatever timeouts, ended requests, crashes and failing calls came between.
THEOREM RecordedSuccessIsReal == Spec => []SuccessIsReal
  <1>1. ResultInv => SuccessIsReal
    BY DEF ResultInv, Outcome, SuccessIsReal
  <1> QED
    BY <1>1, ResultInvariant, PTL

\* The job's row and the history never tell two different results of one run
\* (SaveExecution and UpsertJob in RunOnce are two statements).
THEOREM RowMatchesHistory == Spec => []JobRowMatchesHistory
  <1>1. TypeInv /\ ResultInv => JobRowMatchesHistory
    <2> SUFFICES ASSUME TypeInv, ResultInv, NEW j \in Job, jobRow[j].run # None
                 PROVE  executions[jobRow[j].run] \in {jobRow[j].status, "none"}
      BY DEF JobRowMatchesHistory
    <2>1. jobRow[j].run \in Run
      BY DEF TypeInv, TypeOK
    <2> QED
      BY <2>1 DEF ResultInv, RowWritten, Outcome
  <1> QED
    BY <1>1, TypeInvariant, ResultInvariant, PTL

\* A run that knows its container leaves none behind, unless a call failed or
\* its process ended (the deferred removal in RunOnce).
THEOREM ContainersAreRemoved == Spec => []ContainerRemoved
  <1>1. ResultInv => ContainerRemoved
    BY DEF ResultInv, Cleaned, ContainerRemoved
  <1> QED
    BY <1>1, ResultInvariant, PTL

-----------------------------------------------------------------------------
(* JobScheduler implements RunLedger *)

\* The time up to which a schedule has been served, as ImplementsLedger has it.
Last(j) == CHOOSE d \in Served(j) : \A e \in Served(j) : e <= d

LEMMA ServedMeans ==
  ASSUME NEW j \in Job
  PROVE  /\ asked[j][gen[j]] \in Served(j)
         /\ \A d : d \in Served(j) <=>
              \/ d = asked[j][gen[j]]
              \/ \E r \in Run : /\ Scheduled(r) /\ runs[r].job = j /\ runs[r].gen = gen[j]
                                /\ runs[r].due = d
  BY DEF Served

LEMMA LastMeans ==
  ASSUME TypeInv, NEW j \in Job
  PROVE  /\ Served(j) \in SUBSET Nat
         /\ Last(j) \in Served(j) /\ \A e \in Served(j) : e <= Last(j)
  <1>1. Served(j) \in SUBSET Time
    <2>1. asked[j][gen[j]] \in Time /\ \A r \in Run : runs[r].due \in Time
      BY DEF TypeInv, TypeOK, RunRecord
    <2> QED
      BY <2>1, ServedMeans
  <1>2. Served(j) \in SUBSET Nat
    BY <1>1, ConstantsAssumption DEF Time
  <1>3. \E d \in Served(j) : \A e \in Served(j) : e <= d
    BY <1>1, GreatestExists, ServedMeans, ConstantsAssumption DEF Time
  <1> QED
    BY <1>2, <1>3 DEF Last

\* A number that is above all of the set is its greatest element once it is in.
LEMMA LastIs ==
  ASSUME NEW S \in SUBSET Nat, NEW d \in S, \A e \in S : e <= d
  PROVE  (CHOOSE g \in S : \A e \in S : e <= g) = d
  <1> DEFINE g == CHOOSE g \in S : \A e \in S : e <= g
  <1>1. g \in S /\ \A e \in S : e <= g
    OBVIOUS
  <1> HIDE DEF g
  <1>2. g <= d /\ d <= g /\ g \in Nat /\ d \in Nat
    BY <1>1
  <1>3. g = d
    BY <1>2
  <1> QED
    BY <1>3 DEF g

LastServed == [j \in Job |-> Last(j)]

\* RunLedger in terms of it.
LEMMA LedgerMeans ==
  /\ Ledger!vars = <<now, LastServed, asking, executions>>
  /\ (Ledger!vars)' = <<now', LastServed', asking', executions'>>
  /\ Ledger!Serve <=>
       /\ \E J \in (SUBSET Job) \ {{}} : \E next \in [J -> 1..now] :
            /\ \A j \in J : next[j] \in DueAt[j] /\ LastServed[j] < next[j]
            /\ LastServed' = [j \in Job |-> IF j \in J THEN next[j] ELSE LastServed[j]]
       /\ UNCHANGED <<now, asking, executions>>
  /\ \A j : Ledger!Ask(j) <=>
       /\ asking[j] = None /\ asking' = [asking EXCEPT ![j] = now]
       /\ UNCHANGED <<now, LastServed, executions>>
  /\ \A j : Ledger!Renew(j) <=>
       /\ asking[j] # None /\ asking' = [asking EXCEPT ![j] = None]
       /\ LastServed' = [LastServed EXCEPT ![j] = asking[j]]
       /\ UNCHANGED <<now, executions>>
  /\ Ledger!Forget <=>
       asking' = [j \in Job |-> None] /\ UNCHANGED <<now, LastServed, executions>>
  /\ \A r : Ledger!Write(r) <=>
       /\ executions[r] = "none"
       /\ \E s \in {"succeeded", "failed"} : executions' = [executions EXCEPT ![r] = s]
       /\ UNCHANGED <<now, LastServed, asking>>
  /\ Ledger!Advance <=> now' = now + 1 /\ UNCHANGED <<LastServed, asking, executions>>
  BY DEF Ledger!vars, Ledger!Serve, Ledger!Ask, Ledger!Renew, Ledger!Forget, Ledger!Write,
     Ledger!Advance, LastServed, Last

LEMMA SameServed ==
  ASSUME SameSchedule, UNCHANGED <<gen, asked>> PROVE LastServed' = LastServed
  <1>1. ASSUME NEW j \in Job PROVE Served(j)' = Served(j)
    <2>1. \A r \in Run :
             (Scheduled(r)' /\ runs'[r].job = j /\ runs'[r].gen = gen'[j])
               <=> (Scheduled(r) /\ runs[r].job = j /\ runs[r].gen = gen[j])
      BY DEF SameSchedule
    <2>2. \A r \in Run : Scheduled(r) => runs'[r].due = runs[r].due
      BY DEF SameSchedule
    <2> QED
      BY <2>1, <2>2 DEF Served
  <1>2. ASSUME NEW j \in Job PROVE Last(j)' = Last(j)
    <2>1. Served(j)' = Served(j)
      BY <1>1
    <2> QED
      BY <2>1 DEF Last
  <1> QED
    BY <1>2 DEF LastServed

\* A round of the loop serves the next instant of each job that is due.
LEMMA DispatchServes ==
  ASSUME TypeInv, NEW due \in SUBSET Job, Dispatch(due), UNCHANGED <<gen, asked>>
  PROVE  \A j \in Job : Served(j)' = IF j \in due
                                     THEN Served(j) \cup {entries[j][gen[j]].next}
                                     ELSE Served(j)
  <1>0. runs \in [Run -> RunRecord]
    BY DEF TypeInv, TypeOK
  <1> DEFINE E(j) == entries[j][gen[j]]
             New(j) == NewRun(j, "schedule", gen[j], E(j).next, proc = "up")
  <1>1. PICK run \in [due -> Unused] :
          /\ \A j, k \in due : run[j] = run[k] => j = k
          /\ runs' = [r \in Run |->
              IF \E j \in due : run[j] = r
              THEN LET j == CHOOSE j \in due : run[j] = r IN New(j)
              ELSE runs[r]]
    BY DEF Dispatch
  <1> DEFINE Fresh(r) == \E j \in due : run[j] = r
             Of(r, j, d) == /\ Scheduled(r) /\ runs[r].job = j /\ runs[r].gen = gen[j]
                            /\ runs[r].due = d
             OfNext(r, j, d) == /\ Scheduled(r)' /\ runs'[r].job = j /\ runs'[r].gen = gen[j]
                                /\ runs'[r].due = d
  <1>2. \A j \in due : run[j] \in Run /\ ~Scheduled(run[j])
    BY DEF Unused, Scheduled
  <1>3. ASSUME NEW j \in due
        PROVE  /\ runs'[run[j]].job = j /\ runs'[run[j]].gen = gen[j]
               /\ runs'[run[j]].due = E(j).next /\ Scheduled(run[j])'
    <2>1. (CHOOSE k \in due : run[k] = run[j]) = j
      BY <1>1
    <2>2. runs'[run[j]] = New(j)
      BY <1>1, <1>2, <2>1
    <2> QED
      BY <2>2 DEF NewRun, Scheduled
  <1>4. \A r \in Run : ~Fresh(r) => runs'[r] = runs[r]
    BY <1>1
  <1> HIDE DEF New
  <1>5. ASSUME NEW j \in Job
        PROVE  /\ \A d : d \in Served(j) <=> d = asked[j][gen[j]] \/ \E r \in Run : Of(r, j, d)
               /\ \A d : d \in Served(j)' <=> d = asked[j][gen[j]] \/ \E r \in Run : OfNext(r, j, d)
    BY DEF Served
  <1>6. ASSUME NEW j \in Job, NEW r \in Run, NEW d
        PROVE  OfNext(r, j, d) <=> Of(r, j, d) \/ (j \in due /\ r = run[j] /\ d = E(j).next)
    <2>1. CASE Fresh(r)
      <3>1. PICK k \in due : run[k] = r
        BY <2>1
      <3>2. ~Of(r, j, d)
        BY <1>2, <3>1
      <3>3. j \in due /\ r = run[j] <=> j = k
        BY <1>1, <3>1
      <3>4. OfNext(r, j, d) <=> j = k /\ d = E(k).next
        BY <1>3, <3>1
      <3> QED
        BY <3>2, <3>3, <3>4
    <2>2. CASE ~Fresh(r)
      <3>1. runs'[r] = runs[r]
        BY <1>4, <2>2
      <3> QED
        BY <2>2, <3>1 DEF Scheduled
    <2> QED
      BY <2>1, <2>2
  <1> HIDE DEF Of, OfNext, Fresh, E
  <1>7. ASSUME NEW j \in Job, NEW d
        PROVE  d \in Served(j)' <=> d \in Served(j) \/ (j \in due /\ d = E(j).next)
    BY <1>2, <1>5, <1>6
  <1>8. \A j \in Job : Served(j)' = IF j \in due THEN Served(j) \cup {E(j).next} ELSE Served(j)
    BY <1>7
  <1> QED
    BY <1>8 DEF E

LEMMA LedgerServes ==
  ASSUME TypeInv, ScheduleInv, DispatchDue PROVE Ledger!Serve
  <1>10. PICK t \in Time : /\ t <= now /\ DueJobs(t) # {} /\ Dispatch(DueJobs(t))
                           /\ \A j \in DueJobs(t) : Due(j, t) /\ j \in Job
    BY DispatchMeans DEF TypeInv
  <1> DEFINE due == DueJobs(t)
             E(j) == entries[j][gen[j]]
             next == [j \in due |-> E(j).next]
  <1>11. UNCHANGED <<now, gen, asking, asked, executions>>
    BY DEF DispatchDue, store
  <1>12. \A j \in Job : Served(j)' = IF j \in due THEN Served(j) \cup {E(j).next} ELSE Served(j)
    <2>1. due \in SUBSET Job
      BY <1>10
    <2> QED
      BY <1>10, <1>11, <2>1, DispatchServes
  <1>1. ASSUME NEW j \in due
        PROVE  /\ j \in Job /\ E(j).next \in 1..now /\ E(j).next \in DueAt[j]
               /\ Last(j) < E(j).next /\ Last(j)' = E(j).next
    <2>1. /\ j \in Job /\ E(j).active /\ ~E(j).running /\ E(j).next <= t
      BY <1>10 DEF Due
    <2>2. /\ E(j).next \in DueAt[j] /\ asked[j][gen[j]] < E(j).next
          /\ \A r \in Run : Scheduled(r) /\ runs[r].job = j /\ runs[r].gen = gen[j]
                            => runs[r].due < E(j).next
      BY <2>1 DEF ScheduleInv, ArmedAhead
    <2>3. E(j).next \in 1..now
      <3>1. E(j).next \in 1..MaxTime /\ t \in Nat /\ now \in Nat /\ MaxTime \in Nat
        BY <2>1, <2>2, ConstantsAssumption DEF TypeInv, TypeOK, Time
      <3> QED
        BY <1>10, <2>1, <3>1
    <2>4. \A d \in Served(j) : d \in Nat /\ d < E(j).next
      BY <2>1, <2>2, LastMeans, ServedMeans
    <2>5. Last(j) < E(j).next
      BY <2>1, <2>3, <2>4, LastMeans
    <2>6. Served(j)' = Served(j) \cup {E(j).next}
      BY <1>12, <2>1
    <2>7. \A d \in Served(j)' : d <= E(j).next
      BY <2>3, <2>4, <2>6
    <2>8. Last(j)' = E(j).next
      <3>1. Served(j)' \in SUBSET Nat /\ E(j).next \in Served(j)'
        BY <2>3, <2>4, <2>6
      <3>2. (CHOOSE g \in Served(j)' : \A e \in Served(j)' : e <= g) = E(j).next
        BY <2>7, <3>1, LastIs
      <3> QED
        BY <3>1, <3>2 DEF Last
    <2> QED
      BY <2>1, <2>2, <2>3, <2>5, <2>8
  <1>2. ASSUME NEW j \in Job, j \notin due PROVE Last(j)' = Last(j)
    <2>1. Served(j)' = Served(j)
      BY <1>2, <1>12
    <2> QED
      BY <2>1 DEF Last
  <1>3. next \in [due -> 1..now]
    BY <1>1
  <1>4. \A j \in due : next[j] = E(j).next
    OBVIOUS
  <1>5. due \in SUBSET Job /\ due # {}
    BY <1>10
  <1> HIDE DEF next, E, due
  <1>6. LastServed' = [j \in Job |-> IF j \in due THEN next[j] ELSE LastServed[j]]
    BY <1>1, <1>2, <1>4 DEF LastServed
  <1>7. \A j \in due : next[j] \in DueAt[j] /\ LastServed[j] < next[j]
    BY <1>1, <1>4 DEF LastServed
  <1>8. due \in (SUBSET Job) \ {{}}
    BY <1>5
  <1>9. \E J \in (SUBSET Job) \ {{}} : \E n \in [J -> 1..now] :
            /\ \A j \in J : n[j] \in DueAt[j] /\ LastServed[j] < n[j]
            /\ LastServed' = [j \in Job |-> IF j \in J THEN n[j] ELSE LastServed[j]]
    <2> WITNESS due \in (SUBSET Job) \ {{}}
    <2> WITNESS next \in [due -> 1..now]
    <2> QED
      BY <1>6, <1>7
  <1> QED
    BY <1>9, <1>11, LedgerMeans

\* Register goes on from the time it has read: its entry has served nothing yet.
LEMMA LedgerRenews ==
  ASSUME TypeInv, Readings, ScheduleInv, NEW j \in Job, Register(j) PROVE Ledger!Renew(j)
  <1>0. /\ runs \in [Run -> RunRecord] /\ gen \in [Job -> Generation]
        /\ asked \in [Job -> [Generation -> Time]]
        /\ \A k \in Job : gen[k] \in Nat /\ gen[k] \in Generation
    BY ConstantsAssumption DEF TypeInv, TypeOK, Generation
  <1> DEFINE t == asking[j]
  <1>1. /\ t # None /\ t \in Time /\ t \in Nat /\ gen[j] + 1 \in Generation
        /\ gen' = [gen EXCEPT ![j] = gen[j] + 1]
        /\ asked' = [asked EXCEPT ![j] = [asked[j] EXCEPT ![gen[j] + 1] = t]]
        /\ asking' = [asking EXCEPT ![j] = None]
        /\ UNCHANGED <<now, runs, executions>>
    BY <1>0, ConstantsAssumption DEF Register, Readings, TypeInv, TypeOK, Time, Generation, store
  <1> HIDE DEF t
  <1>2. gen'[j] = gen[j] + 1 /\ asked'[j][gen[j] + 1] = t
    BY <1>0, <1>1
  <1>3. \A k \in Job \ {j} : gen'[k] = gen[k] /\ asked'[k] = asked[k]
    BY <1>0, <1>1
  <1>4. \A r \in Run : ~(Scheduled(r) /\ runs[r].job = j /\ runs[r].gen = gen[j] + 1)
    <2>1. \A r \in Run : runs[r].gen \in Nat
      BY <1>0, ConstantsAssumption DEF RunRecord, Generation
    <2> QED
      BY <1>0, <2>1 DEF ScheduleInv, GenerationsPast
  <1>5. Last(j)' = t
    <2>1. Served(j)' = {t}
      BY <1>1, <1>2, <1>4 DEF Served, Scheduled
    <2>2. (CHOOSE g \in {t} : \A e \in {t} : e <= g) = t
      BY <1>1, LastIs
    <2> QED
      BY <2>1, <2>2 DEF Last
  <1>6. ASSUME NEW k \in Job \ {j} PROVE Last(k)' = Last(k)
    <2>1. Served(k)' = Served(k)
      BY <1>1, <1>3 DEF Served, Scheduled
    <2> QED
      BY <2>1 DEF Last
  <1>7. LastServed' = [LastServed EXCEPT ![j] = t]
    BY <1>5, <1>6 DEF LastServed
  <1> QED
    BY <1>1, <1>7, LedgerMeans DEF t

LEMMA LedgerStep ==
  ASSUME TypeInv, Readings, ScheduleInv, ResultInv, [Next]_vars
  PROVE  [Ledger!Next]_(Ledger!vars)
  <1>1. ASSUME UNCHANGED <<now, gen, asking, asked, executions>>, SameSchedule
        PROVE  UNCHANGED Ledger!vars
    BY <1>1, SameServed, LedgerMeans
  <1>2. CASE DispatchDue
    BY <1>2, LedgerServes DEF Ledger!Next
  <1>3. CASE Tick
    <2>1. SameSchedule /\ UNCHANGED <<gen, asking, asked>>
      BY <1>3 DEF Tick, SameSchedule, Scheduled, scheduler
    <2> QED
      BY <1>3, <2>1, SameServed, LedgerMeans DEF Tick, store, Ledger!Next
  <1>4. ASSUME NEW r \in Run, SaveExecution(r) PROVE Ledger!Write(r)
    <2>1. SameSchedule
      BY <1>4, RunStepSchedule DEF RunStep
    <2>2. runs[r] \in RunRecord /\ runs[r].status \in {"succeeded", "failed"}
      BY <1>4 DEF TypeInv, TypeOK, ResultKnown, Over, SaveExecution, RunRecord
    <2>3. executions[r] = "none"
      BY <1>4 DEF ResultInv, Outcome, SaveExecution
    <2> QED
      BY <1>4, <2>1, <2>2, <2>3, SameServed, LedgerMeans DEF SaveExecution, scheduler
  <1>5. ASSUME NEW r \in Run, RunStep(r), ~SaveExecution(r) PROVE UNCHANGED Ledger!vars
    <2>1. UNCHANGED <<now, gen, asking, asked, executions>>
      BY <1>5 DEF RunStep, CreateContainer, CreateFails, StartContainer, StartFails,
        WaitContainer, WaitFails, SaveExecution, UpsertJob, StoreFails, RemoveContainer,
        FinishScheduled, FinishTriggered, RunnerOnly, scheduler, store
    <2> QED
      BY <1>1, <1>5, <2>1, RunStepSchedule
  <1>6. ASSUME StartDaemon \/ Ended PROVE SameSchedule /\ UNCHANGED <<now, gen, asked, executions>>
    <2>1. runs \in [Run -> RunRecord]
      BY DEF TypeInv, TypeOK
    <2>2. \A r \in Run : runs'[r] \in {runs[r], [runs[r] EXCEPT !.cont = "none"],
                                       [runs[r] EXCEPT !.at = "dead", !.ctx = FALSE]}
      BY <1>6 DEF StartDaemon, Ended
    <2>3. ASSUME NEW r \in Run
          PROVE  /\ Scheduled(r)' <=> Scheduled(r)
                 /\ runs'[r].job = runs[r].job /\ runs'[r].due = runs[r].due
                 /\ runs'[r].gen = runs[r].gen
      <3>1. CASE runs'[r] \in {runs[r], [runs[r] EXCEPT !.cont = "none"]}
        BY <2>1, <3>1 DEF Scheduled, RunRecord
      <3>2. CASE runs'[r] = [runs[r] EXCEPT !.at = "dead", !.ctx = FALSE] /\ Active(r)
        BY <2>1, <3>2 DEF Scheduled, Active, RunRecord
      <3> QED
        BY <1>6, <3>1, <3>2 DEF StartDaemon, Ended
    <2>4. UNCHANGED <<now, gen, asked, executions>>
      BY <1>6 DEF StartDaemon, Ended, store
    <2> QED
      BY <2>3, <2>4 DEF SameSchedule
  <1>7. CASE StartDaemon
    <2>1. UNCHANGED asking
      BY <1>7 DEF StartDaemon
    <2> QED
      BY <1>1, <1>6, <1>7, <2>1
  <1>8. CASE Ended
    <2>1. asking' = [j \in Job |-> None]
      BY <1>8 DEF Ended, NoCalls
    <2>2. Ledger!Forget
      BY <1>6, <1>8, <2>1, SameServed, LedgerMeans
    <2> QED
      BY <2>2 DEF Ledger!Next
  <1>9. CASE Aside /\ UNCHANGED <<now, asking, executions>>
    BY <1>1, <1>9 DEF Aside
  <1>10. ASSUME NEW j \in Job, RegisterAsks(j) PROVE Ledger!Ask(j)
    <2>1. SameSchedule /\ UNCHANGED <<now, gen, asked, executions>>
      BY <1>10 DEF RegisterAsks, SameSchedule, Scheduled, store
    <2> QED
      BY <1>10, <2>1, SameServed, LedgerMeans DEF RegisterAsks
  <1>11. ASSUME NEW j \in Job, Register(j) PROVE Ledger!Renew(j)
    BY <1>11, LedgerRenews
  <1>12. \/ DispatchDue \/ Tick \/ StartDaemon \/ Ended
         \/ \E j \in Job : RegisterAsks(j) \/ Register(j)
         \/ \E r \in Run : RunStep(r)
         \/ Aside /\ UNCHANGED <<now, asking, executions>>
    <2>1. \/ UNCHANGED <<now, asking, executions>>
          \/ DispatchDue \/ Tick \/ Ended
          \/ \E j \in Job : RegisterAsks(j) \/ Register(j)
          \/ \E r \in Run : RunStep(r)
      BY DEF Next, vars, scheduler, store, Cancel, CloseStore, StartDaemon, Exit, Crash,
        Unregister, Trigger, ContainerExits, TimeoutExpires, ClientLeaves, EndContext, RunnerOnly
    <2> QED
      BY <2>1, StepKinds DEF Exit, Crash, RunStep
  <1> QED
    BY <1>2, <1>3, <1>4, <1>5, <1>7, <1>8, <1>9, <1>10, <1>11, <1>12 DEF Ledger!Next

\* Whatever the scheduler, its runs, its entries and its process go through, a
\* reader of the ledger sees the instants of each schedule served in order and
\* none twice, except that a registration goes on from the time at which it read
\* the clock, and every result in the executions table written once
\* (Scheduler.Register, dispatchDue, runJob and JobRunner.RunOnce).
THEOREM SchedulerIsALedger == Spec => ImplementsLedger
  <1>1. Init => Ledger!Init
    <2> SUFFICES ASSUME Init PROVE Ledger!Init
      OBVIOUS
    <2>1. \A r \in Run : ~Scheduled(r)
      BY InitialRuns DEF Scheduled
    <2>2. \A j \in Job : Served(j) = {0}
      BY <2>1, GenerationZero DEF Init, Served
    <2>3. ASSUME NEW j \in Job PROVE Last(j) = 0
      <3>1. (CHOOSE g \in {0} : \A e \in {0} : e <= g) = 0
        BY LastIs
      <3> QED
        BY <2>2, <3>1 DEF Last
    <2> QED
      BY <2>3 DEF Init, NoCalls, Ledger!Init, Last
  <1>2. TypeInv /\ Readings /\ ScheduleInv /\ ResultInv /\ [Next]_vars => [Ledger!Next]_(Ledger!vars)
    BY LedgerStep
  <1> QED
    BY <1>1, <1>2, TypeInvariant, ScheduleInvariant, ResultInvariant, PTL
    DEF Spec, ImplementsLedger, Ledger!Spec
=============================================================================
