------------------------------- MODULE Worker -------------------------------
(***************************************************************************)
(* The work queue of kernel/sync/user_worker.hpp, used as the bottom-half  *)
(* demo uses it: interrupts and tasks defer jobs to a worker task, which   *)
(* takes them from a message queue and runs each to its end.  A job may    *)
(* sleep, which the interrupt that deferred it could not.                  *)
(***************************************************************************)
EXTENDS MsgQueue

CONSTANT worker   \* the task of the Loop, the only one that receives

VARIABLE job      \* the job being run and how far it is

wrkvars == << vars, job >>

NoJob == [what |-> None, at |-> "idle"]

WorkerBuilt == Built /\ job = NoJob

WorkerInit == SystemInit /\ WorkerBuilt

\* defer: one try, from a task or from the tick.
defer(t, what) ==
  /\ t # worker
  /\ CallPost(t, what) /\ ~ahead'[t]
  /\ UNCHANGED job

isr_defer(what) == isr_post(what) /\ UNCHANGED job

\* The worker's own steps: wait for a job, pop it, run it.
Loop_receives == job.at = "idle" /\ CallReceive(worker) /\ UNCHANGED job

Loop_invokes == pop_ring(worker) /\ job' = [what |-> ring[head], at |-> "in"]

\* A job sleeps in the middle, then ends.
job_naps ==
  /\ Runs(worker) /\ job.at = "in"
  /\ sleep_for(worker)
  /\ ahead' = [ahead EXCEPT ![worker] = TRUE]
  /\ job' = [job EXCEPT !.at = "nap"]
  /\ UNCHANGED << mode, quevars >>

job_ends ==
  /\ Runs(worker) /\ job.at = "nap"
  /\ LeaveAlarm(worker)
  /\ job' = NoJob
  /\ UNCHANGED << k, mode, quevars >>

-----------------------------------------------------------------------------
Others(t) == (Reserve(t) \/ Copy(t)) /\ UNCHANGED job

Loop ==
  \/ Loop_receives \/ Loop_invokes \/ job_naps \/ job_ends
  \/ TakeUnit(worker) /\ UNCHANGED job

WorkerNext ==
  \/ Handlers /\ UNCHANGED << quevars, job >>
  \/ \E what \in Messages : isr_defer(what) \/ \E t \in Senders : defer(t, what)
  \/ \E t \in Senders : Others(t)
  \/ Loop

WorkerSpec == WorkerInit /\ [][WorkerNext]_wrkvars

-----------------------------------------------------------------------------
Queued(what) == \E i \in 0 .. count - 1 : ring[(head + i) % Capacity] = what

\* Each accepted job is run, in its turn, although the jobs before it sleep
\* and the ring fills up behind them.
AcceptedJobRuns ==
  \A what \in Messages : Queued(what) ~> job = [what |-> what, at |-> "in"]

\* A full ring does not stay full: deferring is refused for a while only.
RingDrains == count = Capacity ~> count < Capacity

=============================================================================
