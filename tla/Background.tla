----------------------------- MODULE Background -----------------------------
(***************************************************************************)
(* The cron entry point runBackgroundJobs (src/lib/jobs.ts) and the queue  *)
(* of Telegram messages it drains (src/lib/notifications/telegram.ts).     *)
(*                                                                         *)
(* Both are tables used as queues under a lease.  A runner is one call of  *)
(* the cron; several may overlap.  It recovers jobs whose lease has run    *)
(* out, remembers the candidates and the attempts they had, delivers the   *)
(* pending messages, then claims and runs the candidates one by one.       *)
(* Times are what the code compares them to: a lease is over or not, a row *)
(* is due or not.                                                          *)
(***************************************************************************)
EXTENDS Integers, FiniteSets

CONSTANTS
  Runners,       \* overlapping calls of runBackgroundJobs
  Jobs,          \* BackgroundJob rows that may be enqueued
  Notes,         \* NotificationEvent rows, named by their dedupeKey
  Nothing,       \* no job or message at hand
  MaxAttempts,   \* BackgroundJob.maxAttempts; a message has the same three
  MaxFaults      \* bound: crashes, failing statements, lost replies, overrun leases

ASSUME LimitsAssumption == MaxAttempts \in Nat \ {0} /\ MaxFaults \in Nat
ASSUME RunnersAssumption == IsFiniteSet(Runners)

VARIABLES
  job,       \* the BackgroundJob rows
  note,      \* the NotificationEvent rows
  delivered, \* messages Telegram has accepted, by key (its own record)
  runner,    \* the runners
  faults     \* the faults that have happened, by kind

queueVars == <<job, note, delivered, runner, faults>>

Points == {"idle", "select", "deliver", "notes", "send", "sent", "unsent",
           "jobs", "job", "done", "failed"}
EndStates == {"SUCCEEDED", "FAILED"}
FaultKinds == {"failure", "overrun"}  \* something failed, a lease was overrun

JobRows == [status : {"NONE", "PENDING", "RUNNING"} \cup EndStates, attempts : Nat,
            due : BOOLEAN, stale : BOOLEAN]
NoteRows == [state : {"NONE", "PENDING", "SENT", "FAILED", "SUPPRESSED"},
             attempts : Nat, due : BOOLEAN]

\* A row as a runner read it.
JobReads == [id : Jobs, attempts : Nat]
NoteReads == [id : Notes, attempts : Nat]
ASSUME NothingAssumption == Nothing \notin JobReads \cup NoteReads

RunnerRows == [at : Points,
               jobs : SUBSET JobReads, job : JobReads \cup {Nothing},
               notes : SUBSET NoteReads, note : NoteReads \cup {Nothing}]

QueueTypeOK ==
  /\ job \in [Jobs -> JobRows]
  /\ note \in [Notes -> NoteRows]
  /\ delivered \in [Notes -> Nat]
  /\ runner \in [Runners -> RunnerRows]
  /\ faults \in [FaultKinds -> Nat]

NoRun == [at |-> "idle", jobs |-> {}, job |-> Nothing, notes |-> {}, note |-> Nothing]

QueueInit ==
  /\ job = [j \in Jobs |-> [status |-> "NONE", attempts |-> 0, due |-> FALSE, stale |-> FALSE]]
  /\ note = [n \in Notes |-> [state |-> "NONE", attempts |-> 0, due |-> FALSE]]
  /\ delivered = [n \in Notes |-> 0]
  /\ runner = [r \in Runners |-> NoRun]
  /\ faults = [k \in FaultKinds |-> 0]

AllFaults == faults["failure"] + faults["overrun"]

\* One more fault of kind k, within the bound.
Fault(k) ==
  /\ AllFaults < MaxFaults
  /\ faults' = [faults EXCEPT ![k] = @ + 1]

-----------------------------------------------------------------------------
(* Enqueueing, by any handler.                                             *)

\* enqueueJob (no handler of the repository calls it; operators insert rows).
EnqueueJob(j) ==
  /\ job[j].status = "NONE"
  /\ job' = [job EXCEPT ![j].status = "PENDING", ![j].due = TRUE]
  /\ UNCHANGED <<note, delivered, runner, faults>>

\* enqueueTelegram: the first call with a dedupeKey creates the row, later ones
\* leave it alone; in quiet hours only critical messages are PENDING.
EnqueueNote(n, state) ==
  /\ note[n].state = "NONE"
  /\ note' = [note EXCEPT ![n].state = state, ![n].due = TRUE]
  /\ UNCHANGED <<job, delivered, runner, faults>>

-----------------------------------------------------------------------------
(* Time.                                                                   *)

Holds(r, j) == runner[r].job # Nothing /\ runner[r].job.id = j
Sends(r, n) == runner[r].note # Nothing /\ runner[r].note.id = n

\* The lease of a job runs out; an overrun if somebody still works on it.
LeaseExpires(j) ==
  /\ job[j].status = "RUNNING" /\ ~job[j].stale
  /\ job' = [job EXCEPT ![j].stale = TRUE]
  /\ IF \E r \in Runners : Holds(r, j) THEN Fault("overrun") ELSE UNCHANGED faults
  /\ UNCHANGED <<note, delivered, runner>>

\* The backoff of a job is over.
JobDue(j) ==
  /\ job[j].status = "PENDING" /\ ~job[j].due
  /\ job' = [job EXCEPT ![j].due = TRUE]
  /\ UNCHANGED <<note, delivered, runner, faults>>

\* The backoff or the lease of a message is over: one column for both.
NoteDue(n) ==
  /\ note[n].state = "PENDING" /\ ~note[n].due
  /\ note' = [note EXCEPT ![n].due = TRUE]
  /\ IF \E r \in Runners : Sends(r, n) THEN Fault("overrun") ELSE UNCHANGED faults
  /\ UNCHANGED <<job, delivered, runner>>

-----------------------------------------------------------------------------
(* A run of the cron.                                                      *)

\* Variant: stale jobs are looked for but not given back.
RecoverNothing(r) ==
  /\ runner[r].at = "idle"
  /\ runner' = [runner EXCEPT ![r].at = "select"]
  /\ UNCHANGED <<job, note, delivered, faults>>

\* Jobs whose lease has run out go back to the queue ...
Recover(r) ==
  /\ runner[r].at = "idle"
  /\ job' = [j \in Jobs |->
               IF job[j].status = "RUNNING" /\ job[j].stale
               THEN [job[j] EXCEPT !.status = "PENDING", !.stale = FALSE] ELSE job[j]]
  /\ runner' = [runner EXCEPT ![r].at = "select"]
  /\ UNCHANGED <<note, delivered, faults>>

\* ... the candidates are read, with the attempts they had ...
Select(r) ==
  /\ runner[r].at = "select"
  /\ runner' = [runner EXCEPT
                  ![r].at = "deliver",
                  ![r].jobs = {[id |-> j, attempts |-> job[j].attempts] :
                                 j \in {k \in Jobs : job[k].status = "PENDING" /\ job[k].due}}]
  /\ UNCHANGED <<job, note, delivered, faults>>

\* Variant: reads only the messages that have no next attempt yet.
SelectFreshNotes(r) ==
  /\ runner[r].at = "deliver"
  /\ runner' = [runner EXCEPT
                  ![r].at = "notes",
                  ![r].notes = {[id |-> n, attempts |-> 0] :
                                  n \in {k \in Notes : note[k].state = "PENDING"
                                                         /\ note[k].attempts = 0}}]
  /\ UNCHANGED <<job, note, delivered, faults>>

\* ... and so are the pending messages.
SelectNotes(r) ==
  /\ runner[r].at = "deliver"
  /\ runner' = [runner EXCEPT
                  ![r].at = "notes",
                  ![r].notes = {[id |-> n, attempts |-> note[n].attempts] :
                                  n \in {k \in Notes : note[k].state = "PENDING" /\ note[k].due}}]
  /\ UNCHANGED <<job, note, delivered, faults>>

\* Variant: a message is claimed whether or not its lease is over.
ClaimNoteAnyway(r, read) ==
  LET n == read.id
  IN  /\ runner[r].at = "notes"
      /\ IF note[n].state = "PENDING"
         THEN /\ note' = [note EXCEPT ![n].due = FALSE, ![n].attempts = @ + 1]
              /\ runner' = [runner EXCEPT ![r].at = "send", ![r].note = read,
                                          ![r].notes = @ \ {read}]
         ELSE /\ runner' = [runner EXCEPT ![r].notes = @ \ {read}]
              /\ UNCHANGED note
      /\ UNCHANGED <<job, delivered, faults>>

\* A message is claimed by pushing its next attempt past the lease.
ClaimNote(r, read) ==
  LET n == read.id
  IN  /\ runner[r].at = "notes"
      /\ IF note[n].state = "PENDING" /\ note[n].due
         THEN /\ note' = [note EXCEPT ![n].due = FALSE, ![n].attempts = @ + 1]
              /\ runner' = [runner EXCEPT ![r].at = "send", ![r].note = read,
                                          ![r].notes = @ \ {read}]
         ELSE /\ runner' = [runner EXCEPT ![r].notes = @ \ {read}]
              /\ UNCHANGED note
      /\ UNCHANGED <<job, delivered, faults>>

\* fetch: Telegram accepts and the reply is read, or lost; or it refuses.
Send(r) ==
  /\ runner[r].at = "send"
  /\ \/ /\ delivered' = [delivered EXCEPT ![runner[r].note.id] = @ + 1]
        /\ \/ runner' = [runner EXCEPT ![r].at = "sent"] /\ UNCHANGED faults
           \/ runner' = [runner EXCEPT ![r].at = "unsent"] /\ Fault("failure")
     \/ /\ runner' = [runner EXCEPT ![r].at = "unsent"]
        /\ UNCHANGED <<delivered, faults>>
  /\ UNCHANGED <<job, note>>

NextNote(r) == runner' = [runner EXCEPT ![r].at = "notes", ![r].note = Nothing]

\* Both outcomes are written by id, whatever became of the row.
MarkSent(r) ==
  /\ runner[r].at = "sent"
  /\ note' = [note EXCEPT ![runner[r].note.id].state = "SENT", ![runner[r].note.id].due = TRUE]
  /\ NextNote(r)
  /\ UNCHANGED <<job, delivered, faults>>

\* Variant: gives up one attempt early.
NoteLimitEarly(attempts) == attempts + 1 >= MaxAttempts - 1

NoteLimit(attempts) == attempts + 1 >= MaxAttempts

MarkUnsent(r) ==
  LET n == runner[r].note.id
  IN  /\ runner[r].at = "unsent"
      /\ note' = [note EXCEPT
                    ![n].state = IF NoteLimit(runner[r].note.attempts) THEN "FAILED" ELSE "PENDING",
                    ![n].due = FALSE]
      /\ NextNote(r)
      /\ UNCHANGED <<job, delivered, faults>>

\* Delivery is over: back to the job that asked for it, or on to the candidates.
NotesDone(r) ==
  /\ runner[r].at = "notes" /\ runner[r].notes = {}
  /\ runner' = [runner EXCEPT ![r].at = IF runner[r].job = Nothing THEN "jobs" ELSE "done"]
  /\ UNCHANGED <<job, note, delivered, faults>>

\* A statement of the delivery fails outside its try: the run carries on without
\* the messages that are left, and a job that asked for the delivery fails.
DeliveryFails(r) ==
  /\ runner[r].at \in {"deliver", "notes", "unsent"}
  /\ Fault("failure")
  /\ runner' = [runner EXCEPT ![r].at = IF runner[r].job = Nothing THEN "jobs" ELSE "failed",
                              ![r].note = Nothing, ![r].notes = {}]
  /\ UNCHANGED <<job, note, delivered>>

\* Variant: the claim does not look at the status.
ClaimJobAnyway(r, read) ==
  /\ runner[r].at = "jobs"
  /\ job' = [job EXCEPT ![read.id].status = "RUNNING", ![read.id].attempts = @ + 1,
                        ![read.id].stale = FALSE]
  /\ runner' = [runner EXCEPT ![r].at = "job", ![r].job = read, ![r].jobs = @ \ {read}]
  /\ UNCHANGED <<note, delivered, faults>>

\* The claim looks at the status alone: a candidate another run has put back
\* meanwhile is taken before its backoff is over.
ClaimJob(r, read) ==
  LET j == read.id
  IN  /\ runner[r].at = "jobs"
      /\ IF job[j].status = "PENDING"
         THEN /\ job' = [job EXCEPT ![j].status = "RUNNING", ![j].attempts = @ + 1,
                                    ![j].stale = FALSE]
              /\ runner' = [runner EXCEPT ![r].at = "job", ![r].job = read,
                                          ![r].jobs = @ \ {read}]
         ELSE /\ runner' = [runner EXCEPT ![r].jobs = @ \ {read}]
              /\ UNCHANGED job
      /\ UNCHANGED <<note, delivered, faults>>

\* The work of the job: deleting credentials or synchronising an order succeeds
\* or throws; DELIVER_TELEGRAM delivers once more.
Work(r) ==
  /\ runner[r].at = "job"
  /\ \E p \in {"done", "failed", "deliver"} : runner' = [runner EXCEPT ![r].at = p]
  /\ UNCHANGED <<job, note, delivered, faults>>

NextJob(r) == runner' = [runner EXCEPT ![r].at = "jobs", ![r].job = Nothing]

\* The outcome is written by id, without asking who holds the job by now.
Finish(r) ==
  /\ runner[r].at = "done"
  /\ job' = [job EXCEPT ![runner[r].job.id].status = "SUCCEEDED",
                        ![runner[r].job.id].stale = FALSE]
  /\ NextJob(r)
  /\ UNCHANGED <<note, delivered, faults>>

\* Variant: counts the attempt that is being made as one that is left.
JobRetriesTooOften(attempts) == attempts < MaxAttempts

JobRetries(attempts) == attempts + 1 < MaxAttempts

Fail(r) ==
  LET j == runner[r].job.id
      retry == JobRetries(runner[r].job.attempts)
  IN  /\ runner[r].at = "failed"
      /\ job' = [job EXCEPT ![j].status = IF retry THEN "PENDING" ELSE "FAILED",
                            ![j].due = ~retry /\ @, ![j].stale = FALSE]
      /\ NextJob(r)
      /\ UNCHANGED <<note, delivered, faults>>

RunEnds(r) ==
  /\ runner[r].at = "jobs" /\ runner[r].jobs = {}
  /\ runner' = [runner EXCEPT ![r] = NoRun]
  /\ UNCHANGED <<job, note, delivered, faults>>

\* The function is killed, or a statement outside the try blocks fails.
Crash(r) ==
  /\ runner[r].at # "idle"
  /\ Fault("failure")
  /\ runner' = [runner EXCEPT ![r] = NoRun]
  /\ UNCHANGED <<job, note, delivered>>

Run(r) ==
  \/ Recover(r)
  \/ Select(r)
  \/ SelectNotes(r)
  \/ \E read \in runner[r].notes : ClaimNote(r, read)
  \/ Send(r)
  \/ MarkSent(r)
  \/ MarkUnsent(r)
  \/ NotesDone(r)
  \/ \E read \in runner[r].jobs : ClaimJob(r, read)
  \/ Work(r)
  \/ Finish(r)
  \/ Fail(r)
  \/ RunEnds(r)

QueueNext ==
  \/ \E j \in Jobs : EnqueueJob(j) \/ LeaseExpires(j) \/ JobDue(j)
  \/ \E n \in Notes : NoteDue(n) \/ \E s \in {"PENDING", "SUPPRESSED"} : EnqueueNote(n, s)
  \/ \E r \in Runners : Run(r) \/ DeliveryFails(r) \/ Crash(r)

QueueSpec == QueueInit /\ [][QueueNext]_queueVars

\* The cron calls every five minutes and a running call goes on; time passes.
FairQueueSpec ==
  /\ QueueSpec
  /\ \A r \in Runners : WF_queueVars(Run(r))
  /\ \A j \in Jobs : WF_queueVars(LeaseExpires(j)) /\ WF_queueVars(JobDue(j))
  /\ \A n \in Notes : WF_queueVars(NoteDue(n))

-----------------------------------------------------------------------------
(* What the leases protect, whatever runs overlap and whatever fails.      *)

\* A job is worked on by one run at a time as long as no lease is overrun.
JobsExclusive ==
  faults["overrun"] = 0 =>
    \A r, s \in Runners, j \in Jobs : Holds(r, j) /\ Holds(s, j) => r = s

\* A message reaches Telegram more than once only where something went wrong: each
\* further copy is paid for by a fault.
DuplicatesAreFaults == \A n \in Notes : delivered[n] <= 1 + AllFaults

\* Nothing is given up before it has been tried MaxAttempts times, even though
\* the decision is taken on attempts that were read before the claim.
GivesUpLate ==
  /\ \A n \in Notes : note[n].state = "FAILED" => note[n].attempts >= MaxAttempts
  /\ \A j \in Jobs : job[j].status = "FAILED" => job[j].attempts >= MaxAttempts

\* And not tried for ever: attempts beyond the maximum come from other runs that
\* had read the row earlier, or from faults.
AttemptsBounded ==
  \A j \in Jobs : job[j].attempts < MaxAttempts + AllFaults + Cardinality(Runners)

\* Everything enqueued ends: as long as faults do, leases and retries end too.
JobsEnd == \A j \in Jobs : job[j].status = "PENDING" ~> job[j].status \in EndStates
NotesEnd == \A n \in Notes : note[n].state = "PENDING" ~> note[n].state \in {"SENT", "FAILED"}
=============================================================================
