--------------------------- MODULE SchedulerProofs ---------------------------
(***************************************************************************)
(* Theorems about Scheduler, for any number of jobs, clients and daemon    *)
(* restarts and for every set of faults, and about CronField, for any set  *)
(* of fields.                                                              *)
(***************************************************************************)
EXTENDS Scheduler, CronField, TLAPS

LEMMA TypeInit == Init => TypeOK
<1> USE SchedulerAssumption DEF Never
<1> SUFFICES ASSUME Init PROVE TypeOK
  OBVIOUS
<1>1. Idle \in WorkerState /\ NoCommand \in Command
  BY DEF WorkerState, Command
<1>2. work \in [Workers -> WorkerState] /\ cli \in [Clients -> Command]
  BY <1>1 DEF Init
<1>3. file \in [Jobs -> Job \cup {Absent, Empty}]
  BY DEF Init
<1>4. listed \in [Jobs -> Job \cup {Absent}]
  BY DEF Init
<1>5. runs \in [Jobs -> Nat] /\ began \in [Jobs -> Int]
  BY DEF Init
<1> QED
  BY <1>2, <1>3, <1>4, <1>5 DEF Init, TypeOK

(***************************************************************************)
(* Types are preserved by every step of the clients, the daemon and its    *)
(* goroutines (pkg/schedule).                                              *)
(***************************************************************************)
THEOREM TypeCorrect == Spec => []TypeOK
<1> USE SchedulerAssumption DEF Never
<1>1. Init => TypeOK
  BY TypeInit
<1>2. TypeOK /\ [Next]_vars => TypeOK'
  <2> SUFFICES ASSUME TypeOK, [Next]_vars PROVE TypeOK'
    OBVIOUS
  <2> USE DEF TypeOK
  <2>1. ASSUME NEW c \in Clients, NEW name \in Names, NEW schedule \in Schedules,
               CreateJob(c, name, schedule)
        PROVE  TypeOK'
    <3>1. PICK j \in Jobs \ ids :
            /\ ids' = ids \cup {j}
            /\ file' = [file EXCEPT ![j] = Empty]
            /\ cli' = [cli EXCEPT ![c] =
                 [pc |-> "create", id |-> j, want |-> Absent, todo |-> {},
                  job |-> [name |-> name, schedule |-> schedule, enabled |-> TRUE,
                           runCount |-> 0, lastRun |-> Never]]]
      BY <2>1 DEF CreateJob, OpenTruncated
    <3>2. [name |-> name, schedule |-> schedule, enabled |-> TRUE,
           runCount |-> 0, lastRun |-> Never] \in Job
      BY DEF Job
    <3>3. cli' \in [Clients -> Command]
      BY <3>1, <3>2 DEF Command
    <3>4. file' \in [Jobs -> Job \cup {Absent, Empty}] /\ ids' \subseteq Jobs
      BY <3>1
    <3> QED
      BY <2>1, <3>3, <3>4 DEF CreateJob, daemonVars, history
  <2>2. ASSUME NEW c \in Clients, CreateWrite(c) PROVE TypeOK'
    BY <2>2 DEF CreateWrite, WriteOpened, daemonVars, history, Command, NoCommand
  <2>3. ASSUME NEW c \in Clients, NEW nameOrID \in Names \cup Jobs,
               DeleteJob(c, nameOrID)
        PROVE  TypeOK'
    BY <2>3 DEF DeleteJob, GlobFiles, daemonVars, history, Command
  <2>4. ASSUME NEW c \in Clients, DeleteFind(c) PROVE TypeOK'
    BY <2>4 DEF DeleteFind, daemonVars, history, Command, NoCommand
  <2>5. ASSUME NEW c \in Clients, DeleteRemove(c) PROVE TypeOK'
    <3>1. cli' \in [Clients -> Command]
      BY <2>5 DEF DeleteRemove, Command
    <3>2. cli[c].id \in Jobs \cup {Absent}
      BY <2>5 DEF Command, NoCommand
    <3>3. file' \in [Jobs -> Job \cup {Absent, Empty}] /\ deleted' \subseteq Jobs
      BY <2>5, <3>2 DEF DeleteRemove
    <3> QED
      BY <2>5, <3>1, <3>3 DEF DeleteRemove, daemonVars, history
  <2>6. CASE Start
    <3>1. starts' \in Nat /\ phase' \in Nat /\ running' \subseteq Jobs
      BY <2>6 DEF Start
    <3> QED BY <2>6, <3>1 DEF Start, history
  <2>7. CASE ReceiveTick
    BY <2>7 DEF ReceiveTick, GlobFiles, history
  <2>8. CASE ListOne
    BY <2>8 DEF ListOne, LoadJob, Saved, history
  <2>9. CASE ListDone
    BY <2>9 DEF ListDone, history
  <2>10. CASE CheckJob
    <3> SUFFICES ASSUME NEW j \in todo, todo' = todo \ {j}, Execute(j) \/ Skip(j)
                 PROVE  TypeOK'
      BY <2>10 DEF CheckJob
    <3>1. /\ UNCHANGED <<now, file, cli, pc, phase, tick, listed, at, starts, ids,
                         runs, deleted>>
          /\ pc = "dispatch" /\ listed[j] \in Job
      BY <2>10 DEF CheckJob
    <3>2. CASE Execute(j)
      <4>1. at \div Minute \in Int
        OBVIOUS
      <4>2. work' \in [Workers -> WorkerState]
        BY <3>1, <3>2 DEF Execute, WorkerState
      <4>3. began' \in [Jobs -> Int] /\ running' \subseteq Jobs
        BY <3>2, <4>1 DEF Execute
      <4> QED BY <3>1, <4>2, <4>3
    <3>3. CASE Skip(j)
      BY <3>1, <3>3 DEF Skip
    <3> QED BY <3>2, <3>3
  <2>11. CASE CheckDone
    BY <2>11 DEF CheckDone, history
  <2>12. CASE Exit
    <3>1. \A w \in Workers : Outlives(work[w]) \in WorkerState
      BY DEF Outlives, At, WorkerState, Idle
    <3>2. work' \in [Workers -> WorkerState]
      BY <2>12, <3>1 DEF Exit
    <3> QED BY <2>12, <3>2 DEF Exit, history
  <2>13. ASSUME NEW w \in Workers, FindBinary(w) PROVE TypeOK'
    BY <2>13 DEF FindBinary, Goto, At, WorkerState, Idle, daemonVars, history
  <2>14. ASSUME NEW w \in Workers, CollectOK(w) PROVE TypeOK'
    <3>1. work[w].id \in Jobs /\ work[w].job \in Job
      BY <2>14 DEF CollectOK, WorkerState, Idle
    <3>2. CountRun(work[w].job) \in Job
      BY <3>1 DEF CountRun, Job
    <3>3. work' \in [Workers -> WorkerState]
      BY <2>14, <3>1, <3>2 DEF CollectOK, WorkerState
    <3>4. runs' \in [Jobs -> Nat]
      BY <2>14, <3>1 DEF CollectOK
    <3> QED
      BY <2>14, <3>3, <3>4 DEF CollectOK, daemonVars
  <2>15. ASSUME NEW w \in Workers, CollectFailed(w) PROVE TypeOK'
    BY <2>15 DEF CollectFailed, Goto, At, WorkerState, Idle, daemonVars, history
  <2>16. ASSUME NEW w \in Workers, SaveOpen(w) PROVE TypeOK'
    BY <2>16 DEF SaveOpen, OpenTruncated, Goto, At, WorkerState, Idle, daemonVars, history
  <2>17. ASSUME NEW w \in Workers, SaveWrite(w) PROVE TypeOK'
    BY <2>17 DEF SaveWrite, WriteOpened, Goto, At, WorkerState, Idle, daemonVars, history
  <2>18. ASSUME NEW w \in Workers, Unmark(w) PROVE TypeOK'
    BY <2>18 DEF Unmark, WorkerState, daemonVars, history
  <2>19. ASSUME NEW w \in Workers, OrphanEnds(w) PROVE TypeOK'
    BY <2>19 DEF OrphanEnds, WorkerState, daemonVars, history
  <2>20. CASE Advance
    BY <2>20 DEF Advance, TickerFires, history
  <2>21. CASE UNCHANGED vars
    BY <2>21 DEF vars, daemonVars, history
  <2> QED
    BY <2>1, <2>2, <2>3, <2>4, <2>5, <2>6, <2>7, <2>8, <2>9, <2>10, <2>11,
       <2>12, <2>13, <2>14, <2>15, <2>16, <2>17, <2>18, <2>19, <2>20, <2>21
       DEF Next, ClientStep, DaemonStep, ReceiveSignal, Crash, WorkerStep, Collect
<1> QED
  BY <1>1, <1>2, PTL DEF Spec

(***************************************************************************)
(* The mutex and the map runningJobs do their work: marks and goroutines   *)
(* correspond one to one.  A stopped daemon holds no mark, so the next     *)
(* start begins with neither marks nor goroutines.                         *)
(***************************************************************************)
ExecInv ==
    /\ TypeOK
    /\ NoConcurrentExecution
    /\ RunningJobsExact
    /\ pc = "down" => running = {}

(***************************************************************************)
(* A step that leaves the ID and the liveness of every goroutine as they   *)
(* are leaves the correspondence as it is.                                 *)
(***************************************************************************)
LEMMA SameGoroutines ==
    ASSUME NoConcurrentExecution, RunningJobsExact, running' = running,
           \A w \in Workers : work'[w].id = work[w].id /\ (Live(w)' <=> Live(w))
    PROVE  NoConcurrentExecution' /\ RunningJobsExact'
  BY DEF NoConcurrentExecution, RunningJobsExact

LEMMA ExecInvInductive == ExecInv /\ TypeOK' /\ [Next]_vars => ExecInv'
<1> SUFFICES ASSUME ExecInv, TypeOK', [Next]_vars PROVE ExecInv'
  OBVIOUS
<1> USE SchedulerAssumption
<1>1. ASSUME UNCHANGED <<work, running>>, pc' = "down" => pc = "down" PROVE ExecInv'
  BY <1>1, SameGoroutines DEF ExecInv, Live
<1>2. ASSUME NEW c \in Clients, ClientStep(c) PROVE ExecInv'
  BY <1>1, <1>2 DEF ClientStep, CreateJob, CreateWrite, DeleteJob, DeleteFind,
                    DeleteRemove, daemonVars
<1>3. CASE Start
  BY <1>3 DEF Start, ExecInv, NoConcurrentExecution, RunningJobsExact, Live
<1>4. CASE ReceiveTick \/ ListOne \/ ListDone \/ CheckDone \/ Advance
  BY <1>1, <1>4 DEF ReceiveTick, ListOne, ListDone, CheckDone, Advance
<1>5. CASE CheckJob
  <2>1. PICK j \in todo : Execute(j) \/ Skip(j)
    BY <1>5 DEF CheckJob
  <2>2. pc' = pc /\ pc = "dispatch"
    BY <1>5 DEF CheckJob
  <2>3. CASE Skip(j)
    BY <1>1, <2>2, <2>3 DEF Skip
  <2>4. CASE Execute(j)
    <3>1. PICK w \in Workers :
            /\ work[w] = Idle
            /\ work' = [work EXCEPT ![w] =
                          [pc |-> "find", id |-> j, job |-> listed[j]]]
      BY <2>4 DEF Execute
    <3>2. j \notin running /\ running' = running \cup {j}
      BY <2>4 DEF Execute, AlreadyRunning
    <3>3. work \in [Workers -> WorkerState]
      BY DEF ExecInv, TypeOK
    <3>4. ~Live(w) /\ Live(w)' /\ work'[w].id = j
      BY <3>1, <3>3 DEF Live, Idle
    <3>5. \A v \in Workers \ {w} : work'[v] = work[v] /\ (Live(v)' <=> Live(v))
      BY <3>1, <3>3 DEF Live
    <3>6. \A v \in Workers : Live(v) => work[v].id # j
      BY <3>2 DEF ExecInv, RunningJobsExact
    <3>7. NoConcurrentExecution'
      BY <3>4, <3>5, <3>6 DEF ExecInv, NoConcurrentExecution
    <3>8. RunningJobsExact'
      BY <3>2, <3>4, <3>5 DEF ExecInv, RunningJobsExact
    <3> QED BY <2>2, <3>7, <3>8 DEF ExecInv
  <2> QED BY <2>1, <2>3, <2>4
<1>6. CASE Exit
  <2>1. \A w \in Workers : ~Live(w)'
    BY <1>6 DEF Exit, Outlives, At, Idle, Live
  <2>2. running' = {} /\ pc' = "down"
    BY <1>6 DEF Exit
  <2> QED BY <2>1, <2>2 DEF ExecInv, NoConcurrentExecution, RunningJobsExact
<1>7. ASSUME NEW w \in Workers, Live(w), NEW r, r.id = work[w].id,
             r.pc \in {"find", "exec", "open", "write", "unmark"},
             work' = [work EXCEPT ![w] = r], UNCHANGED <<running, pc>>
      PROVE  ExecInv'
  BY <1>7, SameGoroutines DEF ExecInv, TypeOK, Live
<1>8. ASSUME NEW w \in Workers, FindBinary(w) \/ Collect(w) \/ SaveOpen(w) \/ SaveWrite(w)
      PROVE  ExecInv'
  BY <1>7, <1>8 DEF FindBinary, Collect, CollectOK, CollectFailed, SaveOpen,
                    SaveWrite, Goto, At, Live, daemonVars
<1>9. ASSUME NEW w \in Workers, Unmark(w) PROVE ExecInv'
  <2>1. work \in [Workers -> WorkerState] /\ Live(w)
    BY <1>9 DEF ExecInv, TypeOK, Unmark, Live
  <2>2. ~Live(w)' /\ running' = running \ {work[w].id}
    BY <1>9, <2>1 DEF Unmark, Live, Idle
  <2>3. \A v \in Workers \ {w} : work'[v] = work[v] /\ (Live(v)' <=> Live(v))
    BY <1>9, <2>1 DEF Unmark, Live
  <2>4. NoConcurrentExecution'
    BY <2>2, <2>3 DEF ExecInv, NoConcurrentExecution
  <2>5. RunningJobsExact'
    BY <2>1, <2>2, <2>3 DEF ExecInv, NoConcurrentExecution, RunningJobsExact
  <2>6. pc' = pc
    BY <1>9 DEF Unmark, daemonVars
  <2> QED BY <2>2, <2>4, <2>5, <2>6 DEF ExecInv
<1>10. ASSUME NEW w \in Workers, OrphanEnds(w) PROVE ExecInv'
  <2>1. work \in [Workers -> WorkerState] /\ ~Live(w)
    BY <1>10 DEF ExecInv, TypeOK, OrphanEnds, Live
  <2>2. ~Live(w)' /\ UNCHANGED <<running, pc>>
    BY <1>10, <2>1 DEF OrphanEnds, Live, Idle, daemonVars
  <2>3. \A v \in Workers \ {w} : work'[v] = work[v] /\ (Live(v)' <=> Live(v))
    BY <1>10, <2>1 DEF OrphanEnds, Live
  <2> QED BY <2>1, <2>2, <2>3 DEF ExecInv, NoConcurrentExecution, RunningJobsExact
<1>11. CASE UNCHANGED vars
  BY <1>1, <1>11 DEF vars, daemonVars
<1> QED
  BY <1>2, <1>3, <1>4, <1>5, <1>6, <1>8, <1>9, <1>10, <1>11
     DEF Next, DaemonStep, ReceiveSignal, Crash, WorkerStep

(***************************************************************************)
(* One daemon never has two goroutines for one job: the check of           *)
(* runningJobs under jobMutex (daemon.go, checkAndExecuteJobs) is enough.  *)
(***************************************************************************)
THEOREM MutualExclusion == Spec => []NoConcurrentExecution
<1>1. Init => ExecInv
  <2>1. Init => TypeOK
    BY TypeInit
  <2> QED
    BY <2>1 DEF Init, ExecInv, NoConcurrentExecution, RunningJobsExact, Live, Idle
<1>2. ExecInv => NoConcurrentExecution
  BY DEF ExecInv
<1> QED
  BY <1>1, <1>2, TypeCorrect, ExecInvInductive, PTL DEF Spec

(***************************************************************************)
(* No mark outlives its goroutine and no goroutine runs without its mark,  *)
(* on every return path of executeJob and after every exit of the daemon.  *)
(***************************************************************************)
THEOREM MarksMatchGoroutines == Spec => []RunningJobsExact
<1>1. Init => ExecInv
  BY TypeInit DEF Init, ExecInv, NoConcurrentExecution, RunningJobsExact, Live, Idle
<1>2. ExecInv => RunningJobsExact
  BY DEF ExecInv
<1> QED
  BY <1>1, <1>2, TypeCorrect, ExecInvInductive, PTL DEF Spec
-----------------------------------------------------------------------------
(***************************************************************************)
(* The statistics.  executeJob saves a copy of the job that the listing    *)
(* read before the run began; how far the copies may be behind the file is *)
(* what keeps a save from rolling it back.                                 *)
(***************************************************************************)
SameJob(a, b) ==
    a.name = b.name /\ a.schedule = b.schedule /\ a.enabled = b.enabled

\* a copy of the listing that the check has still to look at
Pending(j) ==
    /\ pc \in {"load", "dispatch"} /\ listed[j] # Absent
    /\ pc = "dispatch" => j \in todo

\* a goroutine that may still save its copy; before and after it counts
Before(w) == work[w].pc \in {"find", "exec"}
After(w) == work[w].pc \in {"open", "write"}
Busy(w) == Before(w) \/ After(w)

Earned(job, j) == job.runCount <= runs[j] /\ job.lastRun <= now

\* the goroutine's copy and another copy of the job differ by one run at most
InStep(w, job) ==
    /\ SameJob(work[w].job, job)
    /\ Before(w) => /\ work[w].job.runCount <= job.runCount
                    /\ job.runCount <= work[w].job.runCount + 1
    /\ After(w) => /\ job.runCount <= work[w].job.runCount
                   /\ work[w].job.runCount <= job.runCount + 1

\* whatever has a file, a copy or a writer got its ID from generateJobID
KnownInv ==
    /\ \A j \in Jobs : file[j] # Absent \/ Pending(j) => j \in ids
    /\ \A w \in Workers : Busy(w) => work[w].id \in ids
    /\ \A c \in Clients : cli[c].pc = "create" => cli[c].id \in ids

\* a job that is being created is known to its client only
NewInv ==
    \A c \in Clients, j \in Jobs : cli[c].pc = "create" /\ cli[c].id = j =>
      /\ ~Saved(j) /\ ~Pending(j)
      /\ cli[c].job.runCount = 0 /\ cli[c].job.lastRun = Never
      /\ \A w \in Workers : Busy(w) => work[w].id # j
      /\ \A d \in Clients : cli[d].pc = "create" /\ cli[d].id = j => d = c

\* no copy of a job claims more than its file may
EarnedInv ==
    /\ \A j \in Jobs : Saved(j) => Earned(file[j], j)
    /\ \A j \in Jobs : Pending(j) => Earned(listed[j], j)
    /\ \A w \in Workers, j \in Jobs :
         Busy(w) /\ work[w].id = j => Earned(work[w].job, j)

\* a listed copy is one run behind the file at most
ListedInv ==
    \A j \in Jobs : Pending(j) /\ Saved(j) =>
      /\ SameJob(listed[j], file[j])
      /\ listed[j].runCount <= file[j].runCount
      /\ file[j].runCount <= listed[j].runCount + 1

\* and not behind at all while the goroutine that would count the run lives
WorkInv ==
    \A w \in Workers, j \in Jobs : Busy(w) /\ work[w].id = j =>
      /\ Saved(j) => /\ InStep(w, file[j])
                     /\ After(w) => file[j].lastRun <= work[w].job.lastRun
      /\ Pending(j) => /\ InStep(w, listed[j])
                       /\ Saved(j) => file[j].runCount = listed[j].runCount

CopyInv == KnownInv /\ NewInv /\ EarnedInv /\ ListedInv /\ WorkInv

LEMMA CopyTypes ==
    ASSUME TypeOK
    PROVE  /\ \A j \in Jobs : Saved(j) => file[j] \in Job
           /\ \A j \in Jobs : Pending(j) => listed[j] \in Job
           /\ \A w \in Workers : Busy(w) => work[w].id \in Jobs /\ work[w].job \in Job
           /\ \A c \in Clients : cli[c].pc = "create" => cli[c].id \in Jobs /\ cli[c].job \in Job
           /\ now \in Nat /\ runs \in [Jobs -> Nat]
<1>1. \A j \in Jobs : Saved(j) => file[j] \in Job
  BY DEF TypeOK, Saved
<1>2. \A j \in Jobs : Pending(j) => listed[j] \in Job
  BY DEF TypeOK, Pending
<1>3. \A w \in Workers : Busy(w) => work[w].id \in Jobs /\ work[w].job \in Job
  BY DEF TypeOK, Busy, Before, After, WorkerState, Idle
<1>4. \A c \in Clients : cli[c].pc = "create" => cli[c].id \in Jobs /\ cli[c].job \in Job
  BY DEF TypeOK, Command, NoCommand
<1> QED BY <1>1, <1>2, <1>3, <1>4 DEF TypeOK

LEMMA JobFields ==
    \A job \in Job : job.runCount \in Nat /\ job.lastRun \in Int
  BY DEF Job

(***************************************************************************)
(* Steps that make no new copy: files are left alone, removed or           *)
(* truncated, copies are left alone or dropped.                            *)
(***************************************************************************)
LEMMA NoNewCopy ==
    ASSUME TypeOK, CopyInv, now' \in Nat, now <= now', ids' = ids, runs' = runs,
           \A j \in Jobs : \/ file'[j] = file[j]
                           \/ file'[j] = Absent
                           \/ file'[j] = Empty /\ j \in ids,
           \A j \in Jobs : Pending(j)' => Pending(j) /\ listed'[j] = listed[j],
           \A w \in Workers : Busy(w)' =>
             /\ work'[w].id = work[w].id /\ work'[w].job = work[w].job
             /\ (Before(w)' => Before(w)) /\ (After(w)' => After(w)),
           \A c \in Clients : cli'[c].pc = "create" => cli'[c] = cli[c]
    PROVE  CopyInv'
<1>1. /\ \A j \in Jobs : Saved(j) => file[j] \in Job
      /\ \A j \in Jobs : Pending(j) => listed[j] \in Job
      /\ \A w \in Workers : Busy(w) => work[w].id \in Jobs /\ work[w].job \in Job
      /\ \A c \in Clients : cli[c].pc = "create" => cli[c].id \in Jobs
      /\ now \in Nat
  BY CopyTypes
<1>2. \A j \in Jobs : Saved(j)' => Saved(j) /\ file'[j] = file[j]
  BY DEF Saved
<1>3. \A w \in Workers : Busy(w)' => Busy(w)
  BY DEF Busy
<1>4. KnownInv'
  BY <1>3 DEF CopyInv, KnownInv
<1>5. NewInv'
  BY <1>1, <1>2, <1>3 DEF CopyInv, NewInv
<1>6. EarnedInv'
  <2>1. \A job \in Job, j \in Jobs : Earned(job, j) => Earned(job, j)'
    BY <1>1, JobFields DEF Earned
  <2> QED BY <1>1, <1>2, <1>3, <2>1 DEF CopyInv, EarnedInv, Earned
<1>7. ListedInv'
  BY <1>2 DEF CopyInv, ListedInv
<1>8. WorkInv'
  <2>1. \A w \in Workers : \A job : Busy(w)' /\ InStep(w, job) =>
          /\ SameJob(work'[w].job, job)
          /\ Before(w)' => /\ work'[w].job.runCount <= job.runCount
                           /\ job.runCount <= work'[w].job.runCount + 1
          /\ After(w)' => /\ job.runCount <= work'[w].job.runCount
                          /\ work'[w].job.runCount <= job.runCount + 1
    BY DEF InStep
  <2>2. \A w \in Workers : Busy(w)' => work[w].id \in Jobs
    BY <1>1, <1>3
  <2> QED BY <1>2, <1>3, <2>1, <2>2 DEF CopyInv, WorkInv, InStep
<1> QED BY <1>4, <1>5, <1>6, <1>7, <1>8 DEF CopyInv

LEMMA CopyInvStep ==
    ExecInv /\ TypeOK' /\ CopyInv /\ [Next]_vars => CopyInv'
<1> SUFFICES ASSUME ExecInv, TypeOK', CopyInv, [Next]_vars PROVE CopyInv'
  OBVIOUS
<1> USE SchedulerAssumption
<1>t. TypeOK
  BY DEF ExecInv
<1>a. /\ \A j \in Jobs : Saved(j) => file[j] \in Job
      /\ \A j \in Jobs : Pending(j) => listed[j] \in Job
      /\ \A w \in Workers : Busy(w) => work[w].id \in Jobs /\ work[w].job \in Job
      /\ \A c \in Clients : cli[c].pc = "create" => cli[c].id \in Jobs /\ cli[c].job \in Job
  BY <1>t, CopyTypes
<1>n. now \in Nat /\ now <= now
  BY <1>t DEF TypeOK
<1>r. \A j \in Jobs : runs[j] \in Nat
  BY <1>t DEF TypeOK
<1>b. \A job \in Job : job.runCount \in Nat /\ job.lastRun \in Int
  BY JobFields
<1>c. \A v, w \in Workers : Busy(v) /\ Busy(w) /\ work[v].id = work[w].id => v = w
  BY DEF ExecInv, NoConcurrentExecution, Live, Busy, Before, After
<1>1. ASSUME NEW c \in Clients, NEW name \in Names, NEW schedule \in Schedules,
             CreateJob(c, name, schedule)
      PROVE  CopyInv'
  <2>1. PICK j \in Jobs \ ids :
          /\ ids' = ids \cup {j}
          /\ file' = [file EXCEPT ![j] = Empty]
          /\ cli' = [cli EXCEPT ![c] =
               [pc |-> "create", id |-> j, want |-> Absent, todo |-> {},
                job |-> [name |-> name, schedule |-> schedule, enabled |-> TRUE,
                         runCount |-> 0, lastRun |-> Never]]]
    BY <1>1 DEF CreateJob, OpenTruncated
  <2>2. UNCHANGED <<now, pc, listed, todo, work, runs>>
    BY <1>1 DEF CreateJob, daemonVars, history
  <2>3. /\ ~Saved(j)' /\ ~Pending(j) /\ \A w \in Workers : Busy(w) => work[w].id # j
        /\ \A d \in Clients : cli[d].pc = "create" => cli[d].id # j
    BY <1>t, <2>1 DEF CopyInv, KnownInv, Saved, TypeOK
  <2>4. \A k \in Jobs : Saved(k)' => Saved(k) /\ file'[k] = file[k]
    BY <1>t, <2>1 DEF Saved, TypeOK
  <2>5. /\ \A k \in Jobs : Pending(k)' <=> Pending(k)
        /\ \A w \in Workers : (Before(w)' <=> Before(w)) /\ (After(w)' <=> After(w))
    BY <2>2 DEF Pending, Before, After
  <2>6. /\ \A d \in Clients \ {c} : cli'[d] = cli[d]
        /\ cli'[c].pc = "create" /\ cli'[c].id = j
        /\ cli'[c].job.runCount = 0 /\ cli'[c].job.lastRun = Never
    BY <1>t, <2>1 DEF TypeOK
  <2>7. KnownInv'
    BY <1>t, <2>1, <2>2, <2>5, <2>6 DEF CopyInv, KnownInv, Busy, TypeOK
  <2>8. NewInv'
    BY <1>a, <2>2, <2>3, <2>4, <2>5, <2>6 DEF CopyInv, NewInv, Busy
  <2>9. EarnedInv'
    BY <2>2, <2>4, <2>5 DEF CopyInv, EarnedInv, Earned, Busy
  <2>10. ListedInv'
    BY <2>2, <2>4, <2>5 DEF CopyInv, ListedInv
  <2>11. WorkInv'
    <3> SUFFICES ASSUME NEW w \in Workers, NEW k \in Jobs, Busy(w)', work'[w].id = k
                 PROVE  /\ Saved(k)' => /\ InStep(w, file[k])'
                                        /\ After(w)' => file'[k].lastRun <= work'[w].job.lastRun
                        /\ Pending(k)' => /\ InStep(w, listed[k])'
                                          /\ Saved(k)' => file'[k].runCount = listed'[k].runCount
      BY DEF WorkInv
    <3>1. Busy(w) /\ work[w].id = k
      BY <2>2, <2>5 DEF Busy
    <3>2. Saved(k)' => InStep(w, file[k])' /\ (After(w)' => file'[k].lastRun <= work'[w].job.lastRun)
      BY <2>2, <2>4, <2>5, <3>1 DEF CopyInv, WorkInv, InStep
    <3>3. Pending(k)' => InStep(w, listed[k])'
      BY <2>2, <2>5, <3>1 DEF CopyInv, WorkInv, InStep
    <3>4. Pending(k)' /\ Saved(k)' => file'[k].runCount = listed'[k].runCount
      BY <2>2, <2>4, <2>5, <3>1 DEF CopyInv, WorkInv
    <3> QED BY <3>2, <3>3, <3>4
  <2> QED BY <2>7, <2>8, <2>9, <2>10, <2>11 DEF CopyInv
<1>2. ASSUME NEW c \in Clients, CreateWrite(c) PROVE CopyInv'
  <2>1. /\ cli[c].pc = "create" /\ cli' = [cli EXCEPT ![c] = NoCommand]
        /\ UNCHANGED <<now, pc, listed, todo, work, ids, runs>>
    BY <1>2 DEF CreateWrite, daemonVars, history
  <2>2. /\ \A k \in Jobs : Pending(k)' <=> Pending(k)
        /\ \A w \in Workers : (Before(w)' <=> Before(w)) /\ (After(w)' <=> After(w))
    BY <2>1 DEF Pending, Before, After
  <2>3. \A d \in Clients : cli'[d].pc = "create" => cli'[d] = cli[d] /\ d # c
    BY <1>t, <2>1 DEF TypeOK, NoCommand
  <2>4. PICK j \in Jobs, job \in Job : cli[c].id = j /\ cli[c].job = job
    BY <1>a, <2>1
  <2>5. CASE UNCHANGED file \/ file[j] = Absent
    <3>1. \A k \in Jobs : file'[k] = file[k]
      BY <1>2, <1>t, <2>4, <2>5 DEF CreateWrite, WriteOpened, TypeOK
    <3> QED BY <1>n, <1>t, <2>1, <2>2, <2>3, <3>1, NoNewCopy DEF Busy
  <2>6. CASE file' = [file EXCEPT ![j] = job] /\ file[j] # Absent
    <3>1. /\ file'[j] = job /\ \A k \in Jobs \ {j} : file'[k] = file[k]
      BY <1>t, <2>4, <2>6 DEF TypeOK
    <3>2. /\ job.runCount = 0 /\ job.lastRun = Never /\ ~Pending(j) /\ j \in ids
          /\ \A w \in Workers : Busy(w) => work[w].id # j
          /\ \A d \in Clients : cli[d].pc = "create" /\ cli[d].id = j => d = c
      BY <2>1, <2>4 DEF CopyInv, NewInv, KnownInv
    <3>3. \A k \in Jobs \ {j} : Saved(k)' <=> Saved(k)
      BY <3>1 DEF Saved
    <3>4. KnownInv'
      BY <2>1, <2>2, <2>3, <3>1, <3>2 DEF CopyInv, KnownInv, Busy
    <3>5. NewInv'
      BY <1>a, <2>1, <2>2, <2>3, <2>4, <3>2, <3>3 DEF CopyInv, NewInv, Busy
    <3>6. EarnedInv'
      <4>1. Earned(job, j)'
        BY <1>n, <1>r, <2>1, <2>4, <3>2 DEF Earned, Never
      <4> QED BY <2>1, <2>2, <3>1, <3>3, <4>1 DEF CopyInv, EarnedInv, Earned, Busy
    <3>7. ListedInv'
      BY <2>1, <2>2, <3>1, <3>2, <3>3 DEF CopyInv, ListedInv
    <3>8. WorkInv'
      BY <1>a, <2>1, <2>2, <3>1, <3>2, <3>3 DEF CopyInv, WorkInv, InStep, Busy
    <3> QED BY <3>4, <3>5, <3>6, <3>7, <3>8 DEF CopyInv
  <2> QED BY <1>2, <1>t, <2>4, <2>5, <2>6 DEF CreateWrite, WriteOpened, TypeOK
<1>3. ASSUME NEW c \in Clients,
             \/ \E nameOrID \in Names \cup Jobs : DeleteJob(c, nameOrID)
             \/ DeleteFind(c) \/ DeleteRemove(c)
      PROVE  CopyInv'
  <2>1. UNCHANGED <<now, pc, listed, todo, work, ids, runs>>
    BY <1>3 DEF DeleteJob, DeleteFind, DeleteRemove, daemonVars, history
  <2>2. \A j \in Jobs : file'[j] = file[j] \/ file'[j] = Absent
    BY <1>3, <1>t DEF DeleteJob, DeleteFind, DeleteRemove, TypeOK
  <2>3. \A d \in Clients : cli'[d].pc = "create" => cli'[d] = cli[d]
    BY <1>3, <1>t DEF DeleteJob, DeleteFind, DeleteRemove, TypeOK, NoCommand
  <2>4. /\ \A k \in Jobs : Pending(k)' <=> Pending(k)
        /\ \A w \in Workers : (Before(w)' <=> Before(w)) /\ (After(w)' <=> After(w))
    BY <2>1 DEF Pending, Before, After
  <2> QED BY <1>n, <1>t, <2>1, <2>2, <2>3, <2>4, NoNewCopy DEF Busy
<1>4. CASE Start \/ ReceiveTick \/ ListDone \/ CheckDone \/ Advance
  <2>1. UNCHANGED <<file, cli, work, ids, runs>> /\ now' \in Nat /\ now <= now'
    BY <1>4, <1>t DEF Start, ReceiveTick, ListDone, CheckDone, Advance, history, TypeOK
  <2>2. \A j \in Jobs : Pending(j)' => Pending(j) /\ listed'[j] = listed[j]
    BY <1>4, <1>t DEF Start, ReceiveTick, ListDone, CheckDone, Advance, Pending, TypeOK
  <2>3. \A w \in Workers : (Before(w)' <=> Before(w)) /\ (After(w)' <=> After(w))
    BY <2>1 DEF Before, After
  <2> QED BY <1>t, <2>1, <2>2, <2>3, NoNewCopy
<1>5. CASE ListOne
  <2>1. PICK j \in todo : listed' = [listed EXCEPT ![j] = LoadJob(j)] /\ todo' = todo \ {j}
    BY <1>5 DEF ListOne
  <2>2. pc = "load" /\ UNCHANGED <<now, file, cli, pc, work, ids, runs>>
    BY <1>5 DEF ListOne, history
  <2>3. j \in Jobs /\ listed'[j] = LoadJob(j) /\ \A k \in Jobs \ {j} : listed'[k] = listed[k]
    BY <1>t, <2>1 DEF TypeOK
  <2>4. /\ Pending(j)' => Saved(j) /\ listed'[j] = file[j]
        /\ \A k \in Jobs \ {j} : Pending(k)' => Pending(k)
    BY <2>2, <2>3 DEF Pending, LoadJob
  <2>5. /\ \A w \in Workers : (Before(w)' <=> Before(w)) /\ (After(w)' <=> After(w))
        /\ \A k \in Jobs : Saved(k)' <=> Saved(k)
    BY <2>2 DEF Before, After, Saved
  <2>6. KnownInv'
    BY <2>2, <2>3, <2>4, <2>5 DEF CopyInv, KnownInv, Busy, Saved
  <2>7. NewInv'
    BY <1>a, <2>2, <2>3, <2>4, <2>5 DEF CopyInv, NewInv, Busy
  <2>8. EarnedInv'
    BY <2>2, <2>3, <2>4, <2>5 DEF CopyInv, EarnedInv, Earned, Busy
  <2>9. ListedInv'
    BY <1>a, <1>b, <2>2, <2>3, <2>4, <2>5 DEF CopyInv, ListedInv, SameJob
  <2>10. WorkInv'
    <3>1. \A w \in Workers : Busy(w) => work[w].id \in Jobs
      BY <1>a
    <3> QED BY <2>2, <2>3, <2>4, <2>5, <3>1 DEF CopyInv, WorkInv, InStep, Busy
  <2> QED BY <2>6, <2>7, <2>8, <2>9, <2>10 DEF CopyInv
<1>6. CASE CheckJob
  <2>1. PICK j \in todo : todo' = todo \ {j} /\ (Execute(j) \/ Skip(j))
    BY <1>6 DEF CheckJob
  <2>2. pc = "dispatch" /\ UNCHANGED <<now, file, cli, pc, listed, ids, runs>>
    BY <1>6 DEF CheckJob
  <2>3. /\ j \in Jobs /\ Pending(j) /\ ~Pending(j)'
        /\ \A k \in Jobs : Pending(k)' => Pending(k)
    BY <1>t, <2>1, <2>2 DEF Pending, TypeOK
  <2>4. CASE Skip(j)
    <3>1. \A w \in Workers : (Before(w)' <=> Before(w)) /\ (After(w)' <=> After(w)) /\ work'[w] = work[w]
      BY <2>4 DEF Skip, Before, After
    <3> QED BY <1>n, <1>t, <2>2, <2>3, <3>1, NoNewCopy
  <2>5. CASE Execute(j)
    <3>1. PICK w \in Workers :
            /\ work[w] = Idle
            /\ work' = [work EXCEPT ![w] = [pc |-> "find", id |-> j, job |-> listed[j]]]
      BY <2>5 DEF Execute
    <3>2. /\ work'[w].pc = "find" /\ work'[w].id = j /\ work'[w].job = listed[j]
          /\ \A v \in Workers \ {w} : work'[v] = work[v]
      BY <1>t, <3>1 DEF TypeOK
    <3>3. /\ Before(w)' /\ ~After(w)' /\ \A k \in Jobs : Saved(k)' <=> Saved(k)
          /\ \A v \in Workers \ {w} : (Before(v)' <=> Before(v)) /\ (After(v)' <=> After(v))
      BY <2>2, <3>2 DEF Before, After, Saved
    <3>4. \A v \in Workers : Busy(v) => work[v].id # j
      BY <2>5 DEF Execute, AlreadyRunning, ExecInv, RunningJobsExact, Live, Busy, Before, After
    <3>5. KnownInv'
      BY <2>2, <2>3, <3>2, <3>3 DEF CopyInv, KnownInv, Busy
    <3>6. NewInv'
      BY <1>a, <2>2, <2>3, <3>2, <3>3 DEF CopyInv, NewInv, Busy
    <3>7. EarnedInv'
      BY <2>2, <2>3, <3>2, <3>3 DEF CopyInv, EarnedInv, Earned, Busy
    <3>8. ListedInv'
      BY <2>2, <2>3, <3>3 DEF CopyInv, ListedInv
    <3>9. WorkInv'
      <4>1. ASSUME NEW v \in Workers, Busy(v)', v # w
            PROVE  Busy(v) /\ work'[v] = work[v] /\ work[v].id \in Jobs
        BY <1>a, <3>2, <3>3, <4>1 DEF Busy
      <4>2. Saved(j) => InStep(w, file[j])'
        BY <1>a, <1>b, <2>2, <2>3, <3>2, <3>3 DEF CopyInv, ListedInv, InStep, SameJob
      <4> QED BY <2>2, <2>3, <3>2, <3>3, <4>1, <4>2 DEF CopyInv, WorkInv, InStep
    <3> QED BY <3>5, <3>6, <3>7, <3>8, <3>9 DEF CopyInv
  <2> QED BY <2>1, <2>4, <2>5
<1>7. CASE Exit
  <2>1. \A w \in Workers : ~Busy(w)'
    BY <1>7 DEF Exit, Outlives, At, Idle, Busy, Before, After
  <2>2. \A j \in Jobs : ~Pending(j)'
    BY <1>7 DEF Exit, Pending
  <2>3. UNCHANGED <<now, file, cli, ids, runs>>
    BY <1>7 DEF Exit, history
  <2> QED BY <1>n, <1>t, <2>1, <2>2, <2>3, NoNewCopy DEF Busy
<1>8. ASSUME NEW w \in Workers, CollectOK(w) PROVE CopyInv'
  <2>1. /\ Before(w) /\ ~After(w) /\ Busy(w)
    BY <1>8 DEF CollectOK, Busy, Before, After
  <2>2. PICK j \in Jobs, old \in Job : work[w].id = j /\ work[w].job = old
    BY <1>a, <2>1
  <2>0. PICK new \in Job : /\ new = CountRun(old) /\ new.runCount = old.runCount + 1
                           /\ new.lastRun = now /\ SameJob(new, old)
    <3>1. CountRun(old) \in Job
      BY <1>n DEF CountRun, Job
    <3> QED BY <3>1 DEF CountRun, SameJob
  <2>3. /\ work'[w].pc = "open" /\ work'[w].id = j /\ work'[w].job = new
        /\ \A v \in Workers \ {w} : work'[v] = work[v]
    BY <1>8, <1>t, <2>0, <2>2 DEF CollectOK, TypeOK
  <2>4. /\ UNCHANGED <<now, file, cli, pc, listed, todo, ids>>
        /\ runs'[j] = runs[j] + 1 /\ \A k \in Jobs \ {j} : runs'[k] = runs[k]
    BY <1>8, <1>t, <2>2 DEF CollectOK, daemonVars, TypeOK
  <2>5. /\ After(w)' /\ ~Before(w)'
        /\ \A v \in Workers \ {w} : (Before(v)' <=> Before(v)) /\ (After(v)' <=> After(v))
        /\ \A k \in Jobs : (Saved(k)' <=> Saved(k)) /\ (Pending(k)' <=> Pending(k))
    BY <2>3, <2>4 DEF Before, After, Saved, Pending
  <2>6. KnownInv'
    BY <2>1, <2>2, <2>3, <2>4, <2>5 DEF CopyInv, KnownInv, Busy
  <2>7. NewInv'
    BY <1>a, <2>1, <2>2, <2>3, <2>4, <2>5 DEF CopyInv, NewInv, Busy
  <2>8. EarnedInv'
    <3>1. \A job \in Job, k \in Jobs : Earned(job, k) => Earned(job, k)'
      BY <1>n, <1>r, <1>b, <2>4 DEF Earned
    <3>2. Earned(new, j)'
      BY <1>n, <1>r, <1>b, <2>0, <2>1, <2>2, <2>4 DEF CopyInv, EarnedInv, Earned
    <3> QED BY <1>a, <2>3, <2>4, <2>5, <3>1, <3>2 DEF CopyInv, EarnedInv, Earned, Busy
  <2>9. ListedInv'
    BY <2>4, <2>5 DEF CopyInv, ListedInv
  <2>10. WorkInv'
    <3>1. ASSUME NEW job \in Job, InStep(w, job) PROVE InStep(w, job)'
      BY <1>b, <2>0, <2>1, <2>2, <2>3, <2>5, <3>1 DEF InStep, SameJob
    <3>2. ASSUME NEW v \in Workers, Busy(v)', v # w
          PROVE  Busy(v) /\ work'[v] = work[v] /\ work[v].id \in Jobs
      BY <1>a, <2>3, <2>5, <3>2 DEF Busy
    <3>3. Saved(j) => InStep(w, file[j])' /\ file[j].lastRun <= work'[w].job.lastRun
      BY <1>a, <2>0, <2>1, <2>2, <2>3, <2>4, <3>1
         DEF CopyInv, WorkInv, EarnedInv, Earned, InStep
    <3>4. Pending(j) => InStep(w, listed[j])' /\ (Saved(j) => file[j].runCount = listed[j].runCount)
      BY <1>a, <2>1, <2>2, <2>4, <3>1 DEF CopyInv, WorkInv, InStep
    <3> QED BY <2>2, <2>3, <2>4, <2>5, <3>2, <3>3, <3>4 DEF CopyInv, WorkInv, InStep
  <2> QED BY <2>6, <2>7, <2>8, <2>9, <2>10 DEF CopyInv
<1>9. ASSUME NEW w \in Workers, \/ FindBinary(w) \/ CollectFailed(w) \/ SaveOpen(w)
                                \/ Unmark(w) \/ OrphanEnds(w)
      PROVE  CopyInv'
  <2>1. UNCHANGED <<now, cli, pc, listed, todo, ids, runs>>
    BY <1>9 DEF FindBinary, CollectFailed, SaveOpen, Unmark, OrphanEnds, daemonVars, history
  <2>2. \A v \in Workers : Busy(v)' =>
          /\ work'[v].id = work[v].id /\ work'[v].job = work[v].job
          /\ (Before(v)' => Before(v)) /\ (After(v)' => After(v))
    BY <1>9, <1>t DEF FindBinary, CollectFailed, SaveOpen, Unmark, OrphanEnds, Goto, At,
                      Idle, Busy, Before, After, TypeOK
  <2>3. \A k \in Jobs : \/ file'[k] = file[k]
                        \/ file'[k] = Empty /\ k \in ids
    <3>1. CASE SaveOpen(w)
      <4>1. work[w].id \in ids
        BY <3>1 DEF SaveOpen, CopyInv, KnownInv, Busy, After
      <4> QED BY <1>t, <3>1, <4>1 DEF SaveOpen, OpenTruncated, TypeOK
    <3> QED BY <1>9, <3>1 DEF FindBinary, CollectFailed, Unmark, OrphanEnds
  <2>4. \A k \in Jobs : Pending(k)' <=> Pending(k)
    BY <2>1 DEF Pending
  <2> QED BY <1>n, <1>t, <2>1, <2>2, <2>3, <2>4, NoNewCopy
<1>10. ASSUME NEW w \in Workers, SaveWrite(w) PROVE CopyInv'
  <2>1. After(w) /\ ~Before(w) /\ Busy(w)
    BY <1>10 DEF SaveWrite, Busy, Before, After
  <2>2. PICK j \in Jobs, job \in Job : work[w].id = j /\ work[w].job = job
    BY <1>a, <2>1
  <2>3. /\ ~Busy(w)' /\ \A v \in Workers \ {w} : work'[v] = work[v]
        /\ \A v \in Workers \ {w} : (Before(v)' <=> Before(v)) /\ (After(v)' <=> After(v))
    BY <1>10, <1>t DEF SaveWrite, Goto, At, Busy, Before, After, TypeOK
  <2>4. UNCHANGED <<now, cli, pc, listed, todo, ids, runs>>
    BY <1>10 DEF SaveWrite, daemonVars, history
  <2>5. \A k \in Jobs : Pending(k)' <=> Pending(k)
    BY <2>4 DEF Pending
  <2>6. CASE UNCHANGED file \/ file[j] = Absent
    <3>1. \A k \in Jobs : file'[k] = file[k]
      BY <1>10, <1>t, <2>2, <2>6 DEF SaveWrite, WriteOpened, TypeOK
    <3> QED BY <1>n, <1>t, <2>3, <2>4, <2>5, <3>1, NoNewCopy DEF Busy
  <2>7. CASE file' = [file EXCEPT ![j] = job] /\ file[j] # Absent
    <3>1. /\ file'[j] = job /\ \A k \in Jobs \ {j} : file'[k] = file[k]
      BY <1>t, <2>2, <2>7 DEF TypeOK
    <3>2. \A k \in Jobs \ {j} : Saved(k)' <=> Saved(k)
      BY <3>1 DEF Saved
    <3>3. \A v \in Workers : Busy(v)' => v # w /\ Busy(v) /\ work'[v] = work[v]
                                         /\ work[v].id \in Jobs \ {j}
      BY <1>a, <1>c, <2>1, <2>2, <2>3 DEF Busy
    <3>4. KnownInv'
      BY <2>1, <2>2, <2>4, <2>5, <2>7, <3>1, <3>3 DEF CopyInv, KnownInv
    <3>5. NewInv'
      BY <1>a, <2>1, <2>2, <2>4, <2>5, <3>2, <3>3 DEF CopyInv, NewInv
    <3>6. EarnedInv'
      BY <2>1, <2>2, <2>4, <2>5, <3>1, <3>2, <3>3 DEF CopyInv, EarnedInv, Earned
    <3>7. ListedInv'
      <4>1. Pending(j) => /\ SameJob(listed[j], job)
                          /\ listed[j].runCount <= job.runCount
                          /\ job.runCount <= listed[j].runCount + 1
        BY <2>1, <2>2 DEF CopyInv, WorkInv, InStep, SameJob
      <4> QED BY <2>4, <2>5, <3>1, <3>2, <4>1 DEF CopyInv, ListedInv
    <3>8. WorkInv'
      BY <2>3, <2>4, <2>5, <3>1, <3>2, <3>3 DEF CopyInv, WorkInv, InStep
    <3> QED BY <3>4, <3>5, <3>6, <3>7, <3>8 DEF CopyInv
  <2> QED BY <1>10, <1>t, <2>2, <2>6, <2>7 DEF SaveWrite, WriteOpened, TypeOK
<1>11. CASE UNCHANGED vars
  <2>1. /\ UNCHANGED <<now, file, cli, work, ids, runs, listed>>
        /\ \A k \in Jobs : Pending(k)' <=> Pending(k)
        /\ \A w \in Workers : (Before(w)' <=> Before(w)) /\ (After(w)' <=> After(w))
    BY <1>11 DEF vars, daemonVars, history, Pending, Before, After
  <2> QED BY <1>n, <1>t, <2>1, NoNewCopy
<1> QED
  BY <1>1, <1>2, <1>3, <1>4, <1>5, <1>6, <1>7, <1>8, <1>9, <1>10, <1>11
     DEF Next, ClientStep, DaemonStep, ReceiveSignal, Crash, WorkerStep, Collect
LEMMA CopyInvInit == Init => CopyInv
  BY SchedulerAssumption
     DEF Init, CopyInv, KnownInv, NewInv, EarnedInv, ListedInv, WorkInv, Saved,
         Pending, Busy, Before, After, Idle, NoCommand

(***************************************************************************)
(* What executeJob's saves rest on holds always.                           *)
(***************************************************************************)
LEMMA CopiesAreInStep == Spec => [](ExecInv /\ CopyInv)
<1>1. Init => ExecInv
  BY TypeInit DEF Init, ExecInv, NoConcurrentExecution, RunningJobsExact, Live, Idle
<1> QED
  BY <1>1, TypeCorrect, ExecInvInductive, CopyInvInit, CopyInvStep, PTL DEF Spec

(***************************************************************************)
(* "Update job stats only on success" (daemon.go, executeJob): whatever    *)
(* fails and whenever the daemon stops, no job file claims a run that did  *)
(* not succeed or a time that has not come.                                *)
(***************************************************************************)
THEOREM OnlyRunsAreCounted == Spec => []StatsAreEarned
<1>1. CopyInv => StatsAreEarned
  BY DEF CopyInv, EarnedInv, Earned, StatsAreEarned
<1> QED
  BY <1>1, CopiesAreInStep, PTL

(***************************************************************************)
(* saveJob replaces the file by a copy that is older than the run, and yet *)
(* never takes back a definition, a count or a time (daemon.go,            *)
(* executeJob): whatever truncates a job's file is a goroutine of that job *)
(* whose copy dominates what the file held.                                *)
(***************************************************************************)
THEOREM SavesGoForward == Spec => SaveNeverRollsBack
<1> DEFINE Forward ==
      \A j \in Jobs : Saved(j) /\ file'[j] = Empty =>
        \E w \in Workers : /\ work'[w].pc = "write" /\ work'[w].id = j
                           /\ Dominates(work'[w].job, file[j])
<1>1. ExecInv /\ CopyInv /\ [Next]_vars => [Forward]_vars
  <2> SUFFICES ASSUME ExecInv, CopyInv, Next,
                      NEW j \in Jobs, Saved(j), file'[j] = Empty
               PROVE  \E w \in Workers : /\ work'[w].pc = "write" /\ work'[w].id = j
                                         /\ Dominates(work'[w].job, file[j])
    OBVIOUS
  <2> USE SchedulerAssumption
  <2>1. TypeOK
    BY DEF ExecInv
  <2>2. file[j] \in Job /\ file[j] # Empty /\ j \in ids
    BY <2>1, CopyTypes DEF CopyInv, KnownInv, Saved
  <2>3. ASSUME NEW c \in Clients, ClientStep(c) PROVE FALSE
    <3>1. CASE CreateWrite(c)
      <4>1. cli[c].job \in Job
        BY <2>1, <3>1, CopyTypes DEF CreateWrite
      <4> QED BY <2>1, <2>2, <3>1, <4>1 DEF CreateWrite, WriteOpened, TypeOK
    <3>2. CASE \E name \in Names, schedule \in Schedules : CreateJob(c, name, schedule)
      BY <2>1, <2>2, <3>2 DEF CreateJob, OpenTruncated, TypeOK
    <3>3. CASE \E nameOrID \in Names \cup Jobs : DeleteJob(c, nameOrID)
      BY <2>2, <3>3 DEF DeleteJob
    <3>4. CASE DeleteFind(c) \/ DeleteRemove(c)
      BY <2>1, <2>2, <3>4 DEF DeleteFind, DeleteRemove, TypeOK
    <3> QED BY <2>3, <3>1, <3>2, <3>3, <3>4 DEF ClientStep
  <2>4. CASE Start \/ DaemonStep \/ ReceiveSignal \/ Crash \/ Advance
    BY <2>2, <2>4 DEF Start, DaemonStep, ReceiveTick, ListOne, ListDone, CheckJob,
                      CheckDone, ReceiveSignal, Crash, Exit, Advance
  <2>5. ASSUME NEW w \in Workers, WorkerStep(w) \/ OrphanEnds(w)
        PROVE  /\ work'[w].pc = "write" /\ work'[w].id = j
               /\ Dominates(work'[w].job, file[j])
    <3>1. CASE SaveWrite(w)
      <4>1. work[w].job \in Job
        BY <2>1, <3>1, CopyTypes DEF SaveWrite, Busy, After
      <4> QED BY <2>1, <2>2, <3>1, <4>1 DEF SaveWrite, WriteOpened, TypeOK
    <3>2. CASE SaveOpen(w)
      <4>1. work[w].pc = "open" /\ work[w].id = j /\ After(w) /\ Busy(w) /\ ~Before(w)
        BY <2>1, <2>2, <3>2 DEF SaveOpen, OpenTruncated, After, Busy, Before, TypeOK
      <4>2. /\ work'[w].pc = "write" /\ work'[w].id = j /\ work'[w].job = work[w].job
        BY <2>1, <2>2, <3>2, <4>1 DEF SaveOpen, Goto, At, TypeOK
      <4>3. work[w].job \in Job
        BY <2>1, <4>1, CopyTypes
      <4>4. /\ SameJob(work[w].job, file[j]) /\ file[j].runCount <= work[w].job.runCount
            /\ file[j].lastRun <= work[w].job.lastRun
        BY <4>1 DEF CopyInv, WorkInv, InStep
      <4> QED BY <2>2, <4>2, <4>3, <4>4, JobFields DEF Dominates, SameJob
    <3>3. CASE FindBinary(w) \/ Collect(w) \/ Unmark(w) \/ OrphanEnds(w)
      BY <2>2, <3>3 DEF FindBinary, Collect, CollectOK, CollectFailed, Unmark, OrphanEnds
    <3> QED BY <2>5, <3>1, <3>2, <3>3 DEF WorkerStep
  <2> QED BY <2>3, <2>4, <2>5 DEF Next
<1>2. Spec => [][Forward]_vars
  BY <1>1, CopiesAreInStep, PTL DEF Spec
<1> QED BY <1>2 DEF SaveNeverRollsBack

(***************************************************************************)
(* Without faults of the file system, signals and crashes, whatever the    *)
(* runs themselves do, every truncated job file is about to be written.    *)
(***************************************************************************)
Quiet == Faults \cap {"write", "signal", "crash"} = {}

LEMMA TornStep ==
    ASSUME Quiet, TypeOK, TornFileHasWriter, [Next]_vars
    PROVE  TornFileHasWriter'
<1> USE SchedulerAssumption
<1>0. ~Fails("write") /\ ~Fails("signal") /\ ~Fails("crash")
  BY DEF Quiet, Fails
<1>1. ASSUME \A j \in Jobs : file'[j] = Empty => file[j] = Empty,
             \A w \in Workers : work[w].pc = "write" =>
               work'[w].pc = "write" /\ work'[w].id = work[w].id,
             \A c \in Clients : cli[c].pc = "create" =>
               cli'[c].pc = "create" /\ cli'[c].id = cli[c].id
      PROVE  TornFileHasWriter'
  BY <1>1 DEF TornFileHasWriter
<1>2. ASSUME NEW c \in Clients, NEW name \in Names, NEW schedule \in Schedules,
             CreateJob(c, name, schedule)
      PROVE  TornFileHasWriter'
  <2>1. PICK j \in Jobs : /\ file' = [file EXCEPT ![j] = Empty]
                          /\ cli'[c].pc = "create" /\ cli'[c].id = j
                          /\ \A d \in Clients \ {c} : cli'[d] = cli[d]
    <3> DEFINE new == [name |-> name, schedule |-> schedule,
                       enabled |-> TRUE, runCount |-> 0, lastRun |-> Never]
    <3>1. PICK j \in Jobs \ ids :
            /\ file' = [file EXCEPT ![j] = Empty]
            /\ cli' = [cli EXCEPT ![c] = [pc |-> "create", id |-> j, want |-> Absent,
                                         todo |-> {}, job |-> new]]
      BY <1>2 DEF CreateJob, OpenTruncated
    <3> QED BY <3>1 DEF TypeOK
  <2>2. cli[c].pc # "create" /\ work' = work
    BY <1>2 DEF CreateJob
  <2> QED BY <2>1, <2>2 DEF TornFileHasWriter, TypeOK
<1>3. ASSUME NEW c \in Clients, CreateWrite(c) PROVE TornFileHasWriter'
  <2>1. PICK j \in Jobs, job \in Job : cli[c].id = j /\ cli[c].job = job
    BY <1>3, CopyTypes DEF CreateWrite
  <2>2. file'[j] # Empty /\ \A k \in Jobs \ {j} : file'[k] = file[k]
    BY <1>0, <1>3, <2>1 DEF CreateWrite, WriteOpened, TypeOK
  <2>3. (\A d \in Clients \ {c} : cli'[d] = cli[d]) /\ work' = work
    BY <1>3 DEF CreateWrite, TypeOK
  <2>4. ASSUME NEW k \in Jobs, file'[k] = Empty
        PROVE  \/ \E w \in Workers : work'[w].pc = "write" /\ work'[w].id = k
               \/ \E d \in Clients : cli'[d].pc = "create" /\ cli'[d].id = k
    <3>1. k # j /\ file[k] = Empty
      BY <2>2, <2>4
    <3>2. \A d \in Clients : cli[d].id = k => d # c
      BY <2>1, <3>1
    <3> QED BY <2>3, <3>1, <3>2 DEF TornFileHasWriter
  <2> QED BY <2>4 DEF TornFileHasWriter
<1>4. ASSUME NEW c \in Clients,
             \/ \E nameOrID \in Names \cup Jobs : DeleteJob(c, nameOrID)
             \/ DeleteFind(c) \/ DeleteRemove(c)
      PROVE  TornFileHasWriter'
  <2>1. \A d \in Clients : cli[d].pc = "create" => cli'[d] = cli[d]
    BY <1>4 DEF DeleteJob, DeleteFind, DeleteRemove, TypeOK
  <2>2. \A j \in Jobs : file'[j] = file[j] \/ file'[j] = Absent
    BY <1>4 DEF DeleteJob, DeleteFind, DeleteRemove, TypeOK
  <2>3. work' = work
    BY <1>4 DEF DeleteJob, DeleteFind, DeleteRemove
  <2> QED BY <1>1, <2>1, <2>2, <2>3
<1>5. CASE Start \/ ReceiveTick \/ ListOne \/ ListDone \/ CheckDone \/ Advance \/ UNCHANGED vars
  BY <1>1, <1>5 DEF Start, ReceiveTick, ListOne, ListDone, CheckDone, Advance, vars
<1>6. CASE CheckJob
  <2>1. UNCHANGED <<file, cli>>
    BY <1>6 DEF CheckJob
  <2>2. \A w \in Workers : work[w].pc = "write" => work'[w] = work[w]
    BY <1>6 DEF CheckJob, Execute, Skip, Idle, TypeOK
  <2> QED BY <1>1, <2>1, <2>2
<1>7. ASSUME NEW w \in Workers,
             FindBinary(w) \/ Collect(w) \/ Unmark(w) \/ OrphanEnds(w)
      PROVE  TornFileHasWriter'
  <2>1. UNCHANGED <<file, cli>>
    BY <1>7 DEF FindBinary, Collect, CollectOK, CollectFailed, Unmark, OrphanEnds
  <2>2. \A v \in Workers : work[v].pc = "write" => work'[v] = work[v]
    BY <1>7 DEF FindBinary, Collect, CollectOK, CollectFailed, Unmark, OrphanEnds,
                Goto, TypeOK
  <2> QED BY <1>1, <2>1, <2>2
<1>8. ASSUME NEW w \in Workers, SaveOpen(w) PROVE TornFileHasWriter'
  <2>1. PICK j \in Jobs : work[w].id = j
    BY <1>8, CopyTypes DEF SaveOpen, Busy, After
  <2>2. \A k \in Jobs \ {j} : file'[k] = file[k]
    BY <1>0, <1>8, <2>1 DEF SaveOpen, OpenTruncated, TypeOK
  <2>3. /\ work'[w].pc = "write" /\ work'[w].id = j
        /\ \A v \in Workers \ {w} : work'[v] = work[v]
        /\ work[w].pc = "open" /\ cli' = cli
    BY <1>0, <1>8, <2>1 DEF SaveOpen, Goto, At, TypeOK
  <2> QED BY <2>2, <2>3 DEF TornFileHasWriter
<1>9. ASSUME NEW w \in Workers, SaveWrite(w) PROVE TornFileHasWriter'
  <2>1. PICK j \in Jobs, job \in Job : work[w].id = j /\ work[w].job = job
    BY <1>9, CopyTypes DEF SaveWrite, Busy, After
  <2>2. file'[j] # Empty /\ \A k \in Jobs \ {j} : file'[k] = file[k]
    BY <1>0, <1>9, <2>1 DEF SaveWrite, WriteOpened, TypeOK
  <2>3. (\A v \in Workers \ {w} : work'[v] = work[v]) /\ cli' = cli
    BY <1>9 DEF SaveWrite, Goto, TypeOK
  <2>4. ASSUME NEW k \in Jobs, file'[k] = Empty
        PROVE  \/ \E v \in Workers : work'[v].pc = "write" /\ work'[v].id = k
               \/ \E c \in Clients : cli'[c].pc = "create" /\ cli'[c].id = k
    <3>1. k # j /\ file[k] = Empty
      BY <2>2, <2>4
    <3>2. \A v \in Workers : work[v].id = k => v # w
      BY <2>1, <3>1
    <3> QED BY <2>3, <3>1, <3>2 DEF TornFileHasWriter
  <2> QED BY <2>4 DEF TornFileHasWriter
<1> QED
  BY <1>0, <1>2, <1>3, <1>4, <1>5, <1>6, <1>7, <1>8, <1>9
     DEF Next, ClientStep, DaemonStep, ReceiveSignal, Crash, WorkerStep

(***************************************************************************)
(* As long as writes succeed and the daemon is not stopped, the job files  *)
(* can be relied on: whole or about to be, and without a run that did not  *)
(* succeed (saveJob, executeJob).                                          *)
(***************************************************************************)
THEOREM FilesAreSound == ASSUME Quiet PROVE Spec => []JobFilesAreSound
<1>1. Init => TornFileHasWriter
  BY SchedulerAssumption DEF Init, TornFileHasWriter
<1>2. TypeOK /\ TornFileHasWriter /\ [Next]_vars => TornFileHasWriter'
  BY TornStep
<1>3. TornFileHasWriter /\ StatsAreEarned <=> JobFilesAreSound
  BY DEF JobFilesAreSound
<1> QED
  BY <1>1, <1>2, <1>3, TypeCorrect, OnlyRunsAreCounted, PTL DEF Spec

-----------------------------------------------------------------------------
LEMMA RangesAreNumbers ==
    ASSUME NEW u \in 1..5
    PROVE  /\ FieldRanges[u][1] \in Int /\ FieldRanges[u][2] \in Int
           /\ FieldRanges[u][1] <= FieldRanges[u][2]
<1>1. u = 1 \/ u = 2 \/ u = 3 \/ u = 4 \/ u = 5
  OBVIOUS
<1>2. /\ FieldRanges[1] = <<0, 59>> /\ FieldRanges[2] = <<0, 23>> /\ FieldRanges[3] = <<1, 31>>
      /\ FieldRanges[4] = <<1, 12>> /\ FieldRanges[5] = <<0, 6>>
  BY DEF FieldRanges
<1>3. FieldRanges[u] = <<0, 59>> \/ FieldRanges[u] = <<0, 23>> \/ FieldRanges[u] = <<1, 31>>
      \/ FieldRanges[u] = <<1, 12>> \/ FieldRanges[u] = <<0, 6>>
  BY <1>1, <1>2
<1> QED
  BY <1>3

(***************************************************************************)
(* Half way through a turn the field has fired on those of the values seen *)
(* so far that it matches.                                                 *)
(***************************************************************************)
CronInv ==
    /\ unit \in 1..5
    /\ field \in Field /\ ValidateCronField(field, First, Last)
    /\ value \in First .. Last + 1
    /\ fired = {v \in First .. value - 1 : MatchesCronField(field, v)}

LEMMA CronInit == TurnInit => CronInv
<1> SUFFICES ASSUME TurnInit PROVE CronInv
  OBVIOUS
<1>1. unit \in 1..5 /\ field \in Field /\ ValidateCronField(field, First, Last)
  BY FieldsAssumption DEF TurnInit, First, Last
<1>2. PICK first \in Int, last \in Int : first = First /\ last = Last /\ first <= last
  BY <1>1, RangesAreNumbers DEF First, Last
<1>3. value \in First .. Last + 1
  BY <1>2 DEF TurnInit
<1>4. First .. value - 1 = {}
  BY <1>2 DEF TurnInit
<1> QED
  BY <1>1, <1>3, <1>4 DEF TurnInit, CronInv

LEMMA CronStep == CronInv /\ [ClockTurns]_turnVars => CronInv'
<1> SUFFICES ASSUME CronInv, [ClockTurns]_turnVars PROVE CronInv'
  OBVIOUS
<1>1. CASE UNCHANGED turnVars
  BY <1>1 DEF turnVars, CronInv, First, Last
<1>2. CASE ClockTurns
  <2>1. PICK first \in Int, last \in Int : first = First /\ last = Last
    BY RangesAreNumbers DEF First, Last, CronInv
  <2>2. PICK v \in first .. last : v = value
    BY <1>2, <2>1 DEF ClockTurns, CronInv
  <2>3. First' = first /\ Last' = last /\ unit' = unit /\ field' = field /\ value' = v + 1
    BY <1>2, <2>1, <2>2 DEF ClockTurns, First, Last
  <2>4. /\ fired = {w \in first .. v - 1 : MatchesCronField(field, w)}
        /\ fired' = IF MatchesCronField(field, v) THEN fired \cup {v} ELSE fired
    BY <1>2, <2>1, <2>2 DEF ClockTurns, CronInv
  <2>5. \A w : w \in first .. (v + 1) - 1 <=> w \in first .. v - 1 \/ w = v
    BY <2>2
  <2>6. fired' = {w \in first .. (v + 1) - 1 : MatchesCronField(field, w)}
    BY <2>4, <2>5
  <2>7. v + 1 \in first .. last + 1
    BY <2>2
  <2>8. unit \in 1..5 /\ field \in Field /\ ValidateCronField(field, first, last)
    BY <2>1 DEF CronInv
  <2> QED
    BY <2>3, <2>6, <2>7, <2>8 DEF CronInv
<1> QED
  BY <1>1, <1>2

(***************************************************************************)
(* Over a turn of its clock, whatever fields users give, one that was      *)
(* accepted fires where its text says (validateCronField,                  *)
(* matchesCronField).                                                      *)
(***************************************************************************)
THEOREM FieldsAlwaysFireAsWritten == TurnSpec => []FieldsFireAsWritten
<1>1. CronInv => FieldsFireAsWritten
  <2> SUFFICES ASSUME CronInv, Turned PROVE FieldsFireAsWritten
    BY DEF FieldsFireAsWritten, ListFiresOnItsValues, StepsFromZeroAreStandard
  <2>1. PICK first \in Int, last \in Int : first = First /\ last = Last
    BY RangesAreNumbers DEF First, Last, CronInv
  <2>2. value = last + 1
    BY <2>1 DEF CronInv, Turned
  <2>3. fired = {v \in first .. last : MatchesCronField(field, v)}
    <3>1. (last + 1) - 1 = last
      OBVIOUS
    <3> QED
      BY <2>1, <2>2, <3>1 DEF CronInv
  <2>4. ASSUME field.kind = "list" PROVE fired = field.vals
    <3>1. \A v \in field.vals : v \in Int /\ first <= v /\ v <= last
      BY <2>1, <2>4 DEF CronInv, ValidateCronField, InRange
    <3>2. \A v : MatchesCronField(field, v) <=> v \in field.vals
      BY <2>4 DEF MatchesCronField
    <3>3. \A v \in field.vals : v \in first .. last
      BY <3>1
    <3> QED
      BY <2>3, <3>2, <3>3
  <2>5. ASSUME field.kind = "every", First = 0 PROVE fired = StandardSteps(First, Last, field.n)
    <3>1. PICK n \in Int : n = field.n /\ n > 0
      BY <2>5 DEF CronInv, ValidateCronField
    <3>2. \A v : MatchesCronField(field, v) <=> v % n = 0
      BY <2>5, <3>1 DEF MatchesCronField
    <3>3. \A v \in first .. last : v - first = v
      BY <2>1, <2>5
    <3> QED
      BY <2>1, <2>3, <3>1, <3>2, <3>3 DEF StandardSteps
  <2> QED
    BY <2>4, <2>5 DEF FieldsFireAsWritten, ListFiresOnItsValues, StepsFromZeroAreStandard
<1> QED
  BY <1>1, CronInit, CronStep, PTL DEF TurnSpec
=============================================================================
