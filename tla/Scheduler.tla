------------------------------ MODULE Scheduler ------------------------------
(***************************************************************************)
(* Scheduled support bundles (pkg/schedule): the job files of the Manager, *)
(* the CLI clients that create and delete jobs, and the daemon with the    *)
(* goroutine it starts for every due job.                                  *)
(*                                                                         *)
(* Every file system call is a step of its own, because the CLI, the       *)
(* daemon's listing and its goroutines share the job files with no lock:   *)
(* os.WriteFile truncates in one step and writes in the next, a listing    *)
(* globs once and then reads file after file.                              *)
(*                                                                         *)
(* Time is counted in units of half a minute: with Minute = 2 and          *)
(* Cooldown = 3 the ticker's minute and the 90 second cooldown of          *)
(* shouldJobRun keep their proportion.                                     *)
(***************************************************************************)
EXTENDS Cron, FiniteSets

CONSTANTS
    Jobs,       \* job IDs; their order is the order of the file names
    Names,      \* job names a user may give
    Schedules,  \* cron expressions a user may give
    Clients,    \* CLI processes
    Workers,    \* slots for goroutines and the processes they start
    Calendar,   \* Calendar[t] is <<minute, hour, day, month, weekday>> at t
    Minute,     \* the ticker's period
    Cooldown,   \* the 90 seconds of shouldJobRun
    Faults,     \* which failures may happen
    MaxTime,    \* bound on the clock
    MaxStarts,  \* bound on daemon starts
    Absent,     \* no file; no value
    Empty       \* a file that was truncated and not written yet

FaultKinds == {"binary", "collect", "write", "signal", "crash"}

Never == -1     \* time.Time's zero value

Job == [name : Names, schedule : Schedules, enabled : BOOLEAN,
        runCount : Nat, lastRun : Int]

ASSUME SchedulerAssumption ==
    /\ Jobs \subseteq Nat /\ IsFiniteSet(Jobs)
    /\ Minute \in Nat \ {0} /\ Cooldown \in Nat /\ MaxTime \in Nat
    /\ MaxStarts \in Nat
    /\ Faults \subseteq FaultKinds
    /\ Absent # Empty
    /\ Absent \notin Jobs /\ Absent \notin Job /\ Empty \notin Job

VARIABLES
    now,        \* the clock
    file,       \* file[j]: the job's JSON file
    cli,        \* cli[c]: what the CLI process is doing
    pc,         \* the daemon's main loop
    phase,      \* when its ticker was created
    tick,       \* a tick waits in ticker.C, whose capacity is one
    todo,       \* files left to load, then jobs left to look at
    listed,     \* the jobs ListJobs has read
    at,         \* `now` of checkAndExecuteJobs
    running,    \* runningJobs
    work,       \* work[w]: a goroutine of executeJob, or what outlives it
    starts,     \* how often the daemon was started
    ids,        \* IDs that generateJobID has returned
    runs,       \* history: runs[j] counts the collections that succeeded
    deleted,    \* history: jobs a client removed
    began       \* history: began[j] is the minute of the last start of j

daemonVars == <<pc, phase, tick, todo, listed, at, starts>>
history == <<runs, deleted, began>>
vars == <<now, file, cli, daemonVars, running, work, ids, history>>

-----------------------------------------------------------------------------
Idle == [pc |-> "idle", id |-> Absent, job |-> Absent]

At(r, label) == [pc |-> label, id |-> r.id, job |-> r.job]

NoCommand == [pc |-> "idle", id |-> Absent, job |-> Absent, want |-> Absent,
              todo |-> {}]

Saved(j) == file[j] \notin {Absent, Empty}

IsFirst(j, S) == j \in S /\ \A k \in S : j <= k

(***************************************************************************)
(* A goroutine that holds a mark in runningJobs.                           *)
(***************************************************************************)
Live(w) == work[w].pc \in {"find", "exec", "open", "write", "unmark"}

Fails(kind) == kind \in Faults

Init ==
    /\ now = 0
    /\ file = [j \in Jobs |-> Absent]
    /\ cli = [c \in Clients |-> NoCommand]
    /\ pc = "down" /\ phase = 0 /\ tick = FALSE
    /\ todo = {} /\ listed = [j \in Jobs |-> Absent] /\ at = 0
    /\ running = {}
    /\ work = [w \in Workers |-> Idle]
    /\ starts = 0
    /\ ids = {}
    /\ runs = [j \in Jobs |-> 0]
    /\ deleted = {}
    /\ began = [j \in Jobs |-> Never]

-----------------------------------------------------------------------------
(***************************************************************************)
(* saveJob.  O_CREATE|O_TRUNC empties the file, or makes an empty one; the *)
(* write that follows goes to the opened file even if its name was removed *)
(* in the meantime.                                                        *)
(***************************************************************************)
OpenTruncated(j) == file' = [file EXCEPT ![j] = Empty]

WriteOpened(j, job) ==
    file' = [file EXCEPT ![j] = IF @ = Absent THEN Absent ELSE job]

GlobFiles == {j \in Jobs : file[j] # Absent}

LoadUnchecked(j) == file[j]   \* mutant of LoadJob: the error is not checked

\* loadJobFromFile; an empty or missing file is an error that ListJobs skips
LoadJob(j) == IF Saved(j) THEN file[j] ELSE Absent

-----------------------------------------------------------------------------
(***************************************************************************)
(* The CLI.                                                                *)
(***************************************************************************)
CreateJob(c, name, schedule) ==
    /\ cli[c].pc = "idle"
    /\ ValidateCronSchedule(schedule)
    /\ \E j \in Jobs \ ids :
         /\ ids' = ids \cup {j}
         /\ OpenTruncated(j)
         /\ cli' = [cli EXCEPT ![c] =
              [pc |-> "create", id |-> j, want |-> Absent, todo |-> {},
               job |-> [name |-> name, schedule |-> schedule,
                        enabled |-> TRUE, runCount |-> 0, lastRun |-> Never]]]
    /\ UNCHANGED <<now, daemonVars, running, work, history>>

CreateWrite(c) ==
    /\ cli[c].pc = "create"
    /\ \/ WriteOpened(cli[c].id, cli[c].job)
       \/ Fails("write") /\ UNCHANGED file
    /\ cli' = [cli EXCEPT ![c] = NoCommand]
    /\ UNCHANGED <<now, daemonVars, running, work, ids, history>>

(***************************************************************************)
(* DeleteJob: GetJob lists all jobs and takes the first whose name or ID   *)
(* is the argument; os.Remove comes after that.                            *)
(***************************************************************************)
DeleteJob(c, nameOrID) ==
    /\ cli[c].pc = "idle"
    /\ cli' = [cli EXCEPT ![c] = [pc |-> "find", id |-> Absent, job |-> Absent,
                                  want |-> nameOrID, todo |-> GlobFiles]]
    /\ UNCHANGED <<now, file, daemonVars, running, work, ids, history>>

IsWanted(j, nameOrID) ==
    Saved(j) /\ (file[j].name = nameOrID \/ j = nameOrID)

DeleteFind(c) ==
    /\ cli[c].pc = "find"
    /\ \E j \in cli[c].todo :
         /\ IsFirst(j, cli[c].todo)
         /\ cli' = [cli EXCEPT ![c] =
              [pc |-> "find", job |-> Absent, want |-> @.want,
               id |-> IF @.id = Absent /\ IsWanted(j, @.want) THEN j ELSE @.id,
               todo |-> @.todo \ {j}]]
    /\ UNCHANGED <<now, file, daemonVars, running, work, ids, history>>

DeleteRemove(c) ==
    /\ cli[c].pc = "find" /\ cli[c].todo = {}
    /\ cli' = [cli EXCEPT ![c] = NoCommand]
    /\ LET j == cli[c].id IN
         IF j # Absent /\ file[j] # Absent
         THEN /\ file' = [file EXCEPT ![j] = Absent]
              /\ deleted' = deleted \cup {j}
         ELSE UNCHANGED <<file, deleted>>
    /\ UNCHANGED <<now, daemonVars, running, work, ids, runs, began>>

-----------------------------------------------------------------------------
(***************************************************************************)
(* The daemon's main loop.                                                 *)
(***************************************************************************)
Start ==
    /\ pc = "down" /\ starts < MaxStarts
    /\ starts' = starts + 1
    /\ pc' = "select" /\ phase' = now /\ tick' = FALSE
    /\ running' = {}
    /\ UNCHANGED <<now, file, cli, todo, listed, at, work, ids, history>>

ReceiveTick ==
    /\ pc = "select" /\ tick
    /\ tick' = FALSE
    /\ pc' = "load" /\ todo' = GlobFiles
    /\ listed' = [j \in Jobs |-> Absent]
    /\ UNCHANGED <<now, file, cli, phase, at, starts, running, work, ids, history>>

ListOne ==
    /\ pc = "load"
    /\ \E j \in todo :
         /\ IsFirst(j, todo)
         /\ listed' = [listed EXCEPT ![j] = LoadJob(j)]
         /\ todo' = todo \ {j}
    /\ UNCHANGED <<now, file, cli, pc, phase, tick, at, starts, running, work,
                   ids, history>>

ListDone ==
    /\ pc = "load" /\ todo = {}
    /\ pc' = "dispatch" /\ at' = now
    /\ todo' = {j \in Jobs : listed[j] # Absent}
    /\ UNCHANGED <<now, file, cli, phase, tick, listed, starts, running, work,
                   ids, history>>

InCooldown(job, t) == job.lastRun # Never /\ t - job.lastRun < Cooldown

ShouldJobRun(job, t) ==
    ~InCooldown(job, t) /\ MatchesSchedule(job.schedule, Calendar[t])

NeverRunning(j) == FALSE   \* mutant of AlreadyRunning: the check is dropped

AlreadyRunning(j) == j \in running

IsDue(j) == listed[j].enabled /\ ShouldJobRun(listed[j], at)

Execute(j) ==
    /\ IsDue(j) /\ ~AlreadyRunning(j)
    /\ running' = running \cup {j}
    /\ \E w \in Workers :
         /\ work[w] = Idle
         /\ work' = [work EXCEPT ![w] =
                       [pc |-> "find", id |-> j, job |-> listed[j]]]
    /\ began' = [began EXCEPT ![j] = at \div Minute]

Skip(j) ==
    /\ ~IsDue(j) \/ AlreadyRunning(j)
    /\ UNCHANGED <<running, work, began>>

CheckJob ==
    /\ pc = "dispatch"
    /\ \E j \in todo :
         /\ IsFirst(j, todo)
         /\ todo' = todo \ {j}
         /\ Execute(j) \/ Skip(j)
    /\ UNCHANGED <<now, file, cli, pc, phase, tick, listed, at, starts, ids,
                   runs, deleted>>

\* mutant of CheckDone: the ticker's channel is drained after a check
CheckDoneDrains ==
    /\ pc = "dispatch" /\ todo = {}
    /\ pc' = "select" /\ tick' = FALSE
    /\ listed' = [j \in Jobs |-> Absent]
    /\ UNCHANGED <<now, file, cli, phase, todo, at, starts, running, work,
                   ids, history>>

CheckDone ==
    /\ pc = "dispatch" /\ todo = {}
    /\ pc' = "select"
    /\ listed' = [j \in Jobs |-> Absent]
    /\ UNCHANGED <<now, file, cli, phase, tick, todo, at, starts, running, work,
                   ids, history>>

(***************************************************************************)
(* Nothing waits for the goroutines: when the process exits they end where *)
(* they are, and the support-bundle process one of them started goes on.   *)
(***************************************************************************)
Outlives(r) == IF r.pc \in {"exec", "orphan"} THEN At(r, "orphan") ELSE Idle

Exit ==
    /\ pc' = "down" /\ tick' = FALSE
    /\ todo' = {} /\ listed' = [j \in Jobs |-> Absent]
    /\ running' = {}
    /\ work' = [w \in Workers |-> Outlives(work[w])]
    /\ UNCHANGED <<now, file, cli, phase, at, starts, ids, history>>

ReceiveSignal == Fails("signal") /\ pc = "select" /\ Exit

Crash == Fails("crash") /\ pc # "down" /\ Exit

-----------------------------------------------------------------------------
(***************************************************************************)
(* executeJob.                                                             *)
(***************************************************************************)
Goto(w, label) == work' = [work EXCEPT ![w] = At(@, label)]

CountRun(job) ==
    [name |-> job.name, schedule |-> job.schedule, enabled |-> job.enabled,
     runCount |-> job.runCount + 1, lastRun |-> now]

FindBinary(w) ==
    /\ work[w].pc = "find"
    /\ \/ Goto(w, "exec")
       \/ Fails("binary") /\ Goto(w, "unmark")
    /\ UNCHANGED <<now, file, cli, daemonVars, running, ids, history>>

CollectOK(w) ==
    /\ work[w].pc = "exec"
    /\ work' = [work EXCEPT ![w] =
                  [pc |-> "open", id |-> @.id, job |-> CountRun(@.job)]]
    /\ runs' = [runs EXCEPT ![work[w].id] = @ + 1]
    /\ UNCHANGED <<now, file, cli, daemonVars, running, ids, deleted, began>>

\* mutant of CollectFailed: the early return skips the deferred delete
CollectFailedKeepsMark(w) ==
    /\ Fails("collect")
    /\ work[w].pc = "exec"
    /\ work' = [work EXCEPT ![w] = Idle]
    /\ UNCHANGED <<now, file, cli, daemonVars, running, ids, history>>

\* mutant of CollectFailed: the return is missing, a failed run is counted
CollectFailedCounts(w) ==
    /\ Fails("collect")
    /\ work[w].pc = "exec"
    /\ work' = [work EXCEPT ![w] =
                  [pc |-> "open", id |-> @.id, job |-> CountRun(@.job)]]
    /\ UNCHANGED <<now, file, cli, daemonVars, running, ids, history>>

CollectFailed(w) ==
    /\ Fails("collect")
    /\ work[w].pc = "exec"
    /\ Goto(w, "unmark")
    /\ UNCHANGED <<now, file, cli, daemonVars, running, ids, history>>

\* mutant of SaveOpen: the file is truncated and the write forgotten
SaveOpenOnly(w) ==
    /\ work[w].pc = "open"
    /\ OpenTruncated(work[w].id) /\ Goto(w, "unmark")
    /\ UNCHANGED <<now, cli, daemonVars, running, ids, history>>

SaveOpen(w) ==
    /\ work[w].pc = "open"
    /\ \/ OpenTruncated(work[w].id) /\ Goto(w, "write")
       \/ Fails("write") /\ UNCHANGED file /\ Goto(w, "unmark")
    /\ UNCHANGED <<now, cli, daemonVars, running, ids, history>>

SaveWrite(w) ==
    /\ work[w].pc = "write"
    /\ \/ WriteOpened(work[w].id, work[w].job)
       \/ Fails("write") /\ UNCHANGED file
    /\ Goto(w, "unmark")
    /\ UNCHANGED <<now, cli, daemonVars, running, ids, history>>

Unmark(w) ==
    /\ work[w].pc = "unmark"
    /\ running' = running \ {work[w].id}
    /\ work' = [work EXCEPT ![w] = Idle]
    /\ UNCHANGED <<now, file, cli, daemonVars, ids, history>>

OrphanEnds(w) ==
    /\ work[w].pc = "orphan"
    /\ work' = [work EXCEPT ![w] = Idle]
    /\ UNCHANGED <<now, file, cli, daemonVars, running, ids, history>>

-----------------------------------------------------------------------------
(***************************************************************************)
(* The ticker drops a tick when one is already waiting.                    *)
(***************************************************************************)
TickerFires(t) == pc # "down" /\ t > phase /\ (t - phase) % Minute = 0

Advance ==
    /\ now < MaxTime
    /\ now' = now + 1
    /\ tick' = (tick \/ TickerFires(now + 1))
    /\ UNCHANGED <<file, cli, pc, phase, todo, listed, at, starts, running, work,
                   ids, history>>

ClientStep(c) ==
    \/ \E name \in Names, schedule \in Schedules : CreateJob(c, name, schedule)
    \/ CreateWrite(c)
    \/ \E nameOrID \in Names \cup Jobs : DeleteJob(c, nameOrID)
    \/ DeleteFind(c) \/ DeleteRemove(c)

DaemonStep == ReceiveTick \/ ListOne \/ ListDone \/ CheckJob \/ CheckDone

Collect(w) == CollectOK(w) \/ CollectFailed(w)

WorkerStep(w) ==
    FindBinary(w) \/ Collect(w) \/ SaveOpen(w) \/ SaveWrite(w) \/ Unmark(w)

Next ==
    \/ \E c \in Clients : ClientStep(c)
    \/ Start \/ DaemonStep \/ ReceiveSignal \/ Crash
    \/ \E w \in Workers : WorkerStep(w) \/ OrphanEnds(w)
    \/ Advance

Spec == Init /\ [][Next]_vars

(***************************************************************************)
(* The Go scheduler runs every runnable goroutine eventually, and a        *)
(* support-bundle process is assumed to end: executeJob gives it no        *)
(* deadline.  Nothing is assumed of users, signals, crashes or the clock.  *)
(***************************************************************************)
Fairness == WF_vars(DaemonStep) /\ \A w \in Workers : WF_vars(WorkerStep(w))

FairSpec == Spec /\ Fairness
-----------------------------------------------------------------------------
WorkerState ==
    {Idle} \cup [pc : {"find", "exec", "open", "write", "unmark", "orphan"},
                 id : Jobs, job : Job]

Command ==
    {NoCommand}
      \cup [pc : {"create"}, id : Jobs, job : Job, want : {Absent},
            todo : {{}}]
      \cup [pc : {"find"}, id : Jobs \cup {Absent}, job : {Absent},
            want : Names \cup Jobs, todo : SUBSET Jobs]

\* The types of the variables.
TypeOK ==
    /\ now \in Nat /\ at \in Nat /\ phase \in Nat /\ starts \in Nat
    /\ file \in [Jobs -> Job \cup {Absent, Empty}]
    /\ cli \in [Clients -> Command]
    /\ pc \in {"down", "select", "load", "dispatch"}
    /\ tick \in BOOLEAN
    /\ todo \subseteq Jobs /\ running \subseteq Jobs
    /\ ids \subseteq Jobs /\ deleted \subseteq Jobs
    /\ listed \in [Jobs -> Job \cup {Absent}]
    /\ pc = "dispatch" => \A j \in todo : listed[j] # Absent
    /\ work \in [Workers -> WorkerState]
    /\ runs \in [Jobs -> Nat]
    /\ began \in [Jobs -> Int]

(***************************************************************************)
(* One daemon never runs two collections of a job at once: what            *)
(* runningJobs is for (daemon.go, checkAndExecuteJobs and executeJob).     *)
(***************************************************************************)
NoConcurrentExecution ==
    \A v, w \in Workers :
      Live(v) /\ Live(w) /\ work[v].id = work[w].id => v = w

(***************************************************************************)
(* runningJobs holds exactly the jobs that have a goroutine: a mark that   *)
(* outlived its goroutine, on any of executeJob's return paths, would      *)
(* block the job until the daemon is restarted.                            *)
(***************************************************************************)
RunningJobsExact == running = {work[w].id : w \in {x \in Workers : Live(x)}}

(***************************************************************************)
(* The statistics in a job's file never claim a run that did not succeed,  *)
(* nor one in the future (daemon.go: "Update job stats only on success").  *)
(***************************************************************************)
StatsAreEarned ==
    \A j \in Jobs : Saved(j) => /\ file[j].runCount <= runs[j]
                                /\ file[j].lastRun <= now

(***************************************************************************)
(* saveJob overwrites the file with a copy that was read before the run    *)
(* began.  The copy never rolls the file back: it keeps the definition of  *)
(* the job, and neither count nor time of the last run go down.            *)
(***************************************************************************)
Dominates(new, old) ==
    /\ new.name = old.name /\ new.schedule = old.schedule
    /\ new.enabled = old.enabled
    /\ new.runCount >= old.runCount /\ new.lastRun >= old.lastRun

SaveNeverRollsBack ==
    [][\A j \in Jobs :
         Saved(j) /\ file'[j] = Empty =>
           \E w \in Workers : /\ work'[w].pc = "write" /\ work'[w].id = j
                              /\ Dominates(work'[w].job, file[j])]_vars

(***************************************************************************)
(* A truncated job file has a saveJob under way that will fill it: no      *)
(* path that ends leaves a job behind that every later ListJobs skips.     *)
(***************************************************************************)
TornFileHasWriter ==
    \A j \in Jobs : file[j] = Empty =>
      \/ \E w \in Workers : work[w].pc = "write" /\ work[w].id = j
      \/ \E c \in Clients : cli[c].pc = "create" /\ cli[c].id = j

(***************************************************************************)
(* What is in the job files can be relied on: they are whole, or about to  *)
(* be, and claim no run that did not succeed (saveJob, executeJob).        *)
(***************************************************************************)
JobFilesAreSound == TornFileHasWriter /\ StatsAreEarned

(***************************************************************************)
(* Every mark in runningJobs is removed in the end, whichever way the run  *)
(* of the job goes (the deferred delete of executeJob).                    *)
(***************************************************************************)
MarkIsCleared == \A j \in Jobs : j \in running ~> j \notin running

(***************************************************************************)
(* A tick is not lost on a job that has never run and whose schedule       *)
(* always matches: the daemon starts it, unless the job is deleted or the  *)
(* daemon stops first (checkAndExecuteJobs).                               *)
(***************************************************************************)
AlwaysMatches(schedule) ==
    \A t \in 0..MaxTime : MatchesSchedule(schedule, Calendar[t])

DueJobStarts ==
    \A j \in Jobs :
      /\ Saved(j) /\ file[j].lastRun = Never /\ AlwaysMatches(file[j].schedule)
      /\ tick
      ~> j \in running \/ j \in deleted \/ pc = "down"

-----------------------------------------------------------------------------
(***************************************************************************)
(* What comments and documents say of the scheduler and the code does not  *)
(* do: TLC refutes each of them (see the README).                          *)
(***************************************************************************)

\* "DeleteJob removes a job": a deleted job has no file again.
DeletedStaysDeleted == \A j \in deleted : file[j] = Absent

(***************************************************************************)
(* "Prevent running multiple times in the same minute (avoid duplicates)": *)
(* no job is started twice in a minute of the daemon's clock.              *)
(***************************************************************************)
OncePerMinute ==
    [][\A j \in running' \ running : at \div Minute # began[j]]_vars
=============================================================================
