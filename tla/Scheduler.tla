------------------------------- MODULE Scheduler -------------------------------
(***************************************************************************)
(* The job scheduler (kernel/pkg/scheduler/jobs.go): a ticker that takes a *)
(* snapshot of the jobs that are due and runs them one after the other, in *)
(* its own goroutine and without the lock, while jobs are replaced,        *)
(* deleted and run by hand.                                                *)
(*                                                                         *)
(* Time is reduced to what the ticker asks of it: a job is due when it has *)
(* no last run or the last run is an interval ago.                         *)
(***************************************************************************)
EXTENDS MissionHost, FiniteSets

CONSTANTS
  Job,        \* ids of jobs
  Caller,     \* requests to run a job now
  NoJob,      \* there is no job with this id
  JobMission  \* bound: missions that jobs can still get; further submissions are refused

ASSUME JobAssumption == NoJob \notin Job /\ JobMission \subseteq Mission

VARIABLES
  jobs,     \* Service.jobs: id -> [enabled, due]
  ticker,   \* where the ticker goroutine is, what is left of its snapshot, its mission
  now,      \* caller -> where RunNow is, its job and its mission
  stopped,  \* the stop channel has been closed
  owed      \* history: jobs that have become due since the ticker last submitted them

schedulerVars == <<jobs, ticker, now, stopped, owed>>

JobRecord == [enabled : BOOLEAN, due : BOOLEAN]

SchedulerInit ==
  /\ jobs = [j \in Job |-> NoJob]
  /\ ticker = [at |-> "idle", queue |-> {}, job |-> NoJob, mission |-> NoMission]
  /\ now = [c \in Caller |-> [at |-> "idle", job |-> NoJob, mission |-> NoMission]]
  /\ stopped = FALSE
  /\ owed = {}

Exists(j) == jobs[j] # NoJob

\* Upsert puts the request in place of the job, last run included, so that a job is due at
\* once unless the request says when it ran last.
Upsert(j) ==
  /\ \E enabled, due \in BOOLEAN :
       /\ jobs' = [jobs EXCEPT ![j] = [enabled |-> enabled, due |-> due]]
       /\ owed' = IF due THEN owed \cup {j} ELSE owed
  /\ UNCHANGED <<ticker, now, stopped, hostVars>>

Delete(j) ==
  /\ jobs' = [jobs EXCEPT ![j] = NoJob]
  /\ UNCHANGED <<ticker, now, stopped, owed, hostVars>>

\* The interval since the last run ends.
Elapse(j) ==
  /\ Exists(j)
  /\ ~ jobs[j].due
  /\ jobs' = [jobs EXCEPT ![j].due = TRUE]
  /\ owed' = owed \cup {j}
  /\ UNCHANGED <<ticker, now, stopped, hostVars>>

StopTicker ==
  /\ ~ stopped
  /\ stopped' = TRUE
  /\ UNCHANGED <<jobs, ticker, now, owed, hostVars>>

------------------------------------------------------------------------------
DueJobs == {j \in Job : IF Exists(j) THEN jobs[j].enabled /\ jobs[j].due ELSE FALSE}

\* tick: the snapshot is taken under the lock.
Tick ==
  /\ ticker.at = "idle"
  /\ ~ stopped
  /\ DueJobs # {}
  /\ ticker' = [ticker EXCEPT !.at = "run", !.queue = DueJobs]
  /\ UNCHANGED <<jobs, now, stopped, owed, hostVars>>

\* The jobs of the snapshot come in the order of a map.
SubmitTicked ==
  /\ ticker.at = "run"
  /\ \E j \in ticker.queue :
       /\ owed' = owed \ {j}
       /\ \/ \E m \in JobMission :
               /\ SubmitFresh(m)
               /\ ticker' = [at |-> "record", queue |-> ticker.queue \ {j}, job |-> j,
                             mission |-> m]
          \/ /\ ticker' = [at |-> "record", queue |-> ticker.queue \ {j}, job |-> j,
                           mission |-> NoMission]
             /\ UNCHANGED hostVars
  /\ UNCHANGED <<jobs, now, stopped>>

\* Mutant: the run is recorded only if the submission was accepted.
RecordAccepted(j, mission) ==
  jobs' = IF Exists(j) /\ mission # NoMission THEN [jobs EXCEPT ![j].due = FALSE] ELSE jobs

\* The run is recorded in whatever job has the id now, if there is one.
RecordRun(j, mission) ==
  jobs' = IF Exists(j) THEN [jobs EXCEPT ![j].due = FALSE] ELSE jobs

RecordTicked ==
  /\ ticker.at = "record"
  /\ Returned(ticker.mission)
  /\ RecordRun(ticker.job, ticker.mission)
  /\ ticker' = [ticker EXCEPT !.at = IF ticker.queue = {} THEN "idle" ELSE "run",
                              !.job = NoJob, !.mission = NoMission]
  /\ UNCHANGED <<now, stopped, owed, hostVars>>

------------------------------------------------------------------------------
\* RunNow copies the job, enabled or not, and runs it without the lock.
StartNow(c) ==
  /\ now[c].at = "idle"
  /\ \E j \in Job :
       /\ Exists(j)
       /\ now' = [now EXCEPT ![c] = [at |-> "submit", job |-> j, mission |-> NoMission]]
  /\ UNCHANGED <<jobs, ticker, stopped, owed, hostVars>>

\* A refused submission is returned to the caller and not recorded.
SubmitNow(c) ==
  /\ now[c].at = "submit"
  /\ \/ \E m \in JobMission :
          /\ SubmitFresh(m)
          /\ now' = [now EXCEPT ![c] = [@ EXCEPT !.at = "record", !.mission = m]]
     \/ /\ now' = [now EXCEPT ![c] = [at |-> "done", job |-> NoJob, mission |-> NoMission]]
        /\ UNCHANGED hostVars
  /\ UNCHANGED <<jobs, ticker, stopped, owed>>

RecordNow(c) ==
  /\ now[c].at = "record"
  /\ Returned(now[c].mission)
  /\ RecordRun(now[c].job, now[c].mission)
  /\ now' = [now EXCEPT ![c] = [at |-> "done", job |-> NoJob, mission |-> NoMission]]
  /\ UNCHANGED <<ticker, stopped, owed, hostVars>>

------------------------------------------------------------------------------
Ticker == Tick \/ SubmitTicked \/ RecordTicked

\* No record of a mission is ever read here: cancellations and all verdicts but one are
\* left out; it is one that a wait for a success would not get past.
SchedulerNext ==
  \/ StopTicker \/ Ticker
  \/ \E j \in Job : Upsert(j) \/ Delete(j) \/ Elapse(j)
  \/ \E c \in Caller : StartNow(c) \/ SubmitNow(c) \/ RecordNow(c)
  \/ \E m \in Mission : Conclude(m) /\ state'[m] = "failed" /\ UNCHANGED schedulerVars

------------------------------------------------------------------------------
Errand == {"idle", "submit", "run", "record", "done"}

SchedulerTypeOK ==
  /\ jobs \in [Job -> JobRecord \cup {NoJob}]
  /\ ticker \in [at : Errand, queue : SUBSET Job, job : Job \cup {NoJob},
                 mission : Mission \cup {NoMission}]
  /\ now \in [Caller -> [at : Errand, job : Job \cup {NoJob}, mission : Mission \cup {NoMission}]]
  /\ stopped \in BOOLEAN
  /\ owed \subseteq Job

\* The ticker does not run a job again before it has become due again, whatever happens to
\* the job between the snapshot and the end of its mission: it is replaced, deleted and
\* created again, run by hand, or its submission is refused (jobs.go:95-134).
OncePerInterval ==
  [][\A j \in Job : ticker.job # j /\ ticker'.job = j => j \in owed]_<<ticker, owed>>

\* A job that is due and enabled is dealt with before long, however the missions before it
\* in the ticker's snapshot end, unless the ticker is stopped (jobs.go:78-91, 109-133).
DueJobRuns == \A j \in Job : j \in DueJobs ~> j \notin DueJobs \/ stopped
================================================================================
