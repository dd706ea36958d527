---------------------------- MODULE JobDelivery ----------------------------
(***************************************************************************)
(* What the job queue promises, without Redis: a submitted job waits, is   *)
(* taken by one worker at a time, and is completed, put back for another   *)
(* try, or given up after max_attempts tries.  A job is lost when the      *)
(* process that holds it, or the request that is still submitting it, dies *)
(* (app/services/job_queue.py, app/worker.py).                             *)
(***************************************************************************)
EXTENDS Naturals

CONSTANTS Jobs, MaxAttempts

VARIABLES phase, tries

dvars == <<phase, tries>>

Phases == {"absent", "waiting", "taken", "completed", "failed", "lost"}

DeliveryTypeOK ==
  /\ phase \in [Jobs -> Phases]
  /\ tries \in [Jobs -> 0..MaxAttempts]

DInit ==
  /\ phase = [j \in Jobs |-> "absent"]
  /\ tries = [j \in Jobs |-> 0]

Move(j, from, to) ==
  /\ phase[j] = from
  /\ phase' = [phase EXCEPT ![j] = to]

Submit(j) == Move(j, "absent", "waiting") /\ UNCHANGED tries
Take(j) == Move(j, "waiting", "taken") /\ UNCHANGED tries
Complete(j) == Move(j, "taken", "completed") /\ UNCHANGED tries

Retry(j) ==
  /\ tries[j] + 1 < MaxAttempts
  /\ Move(j, "taken", "waiting")
  /\ tries' = [tries EXCEPT ![j] = @ + 1]

GiveUp(j) ==
  /\ tries[j] + 1 = MaxAttempts
  /\ Move(j, "taken", "failed")
  /\ tries' = [tries EXCEPT ![j] = @ + 1]

\* A failed try may be counted before the job is lost.
Lose(j) ==
  \/ Move(j, "absent", "lost") /\ UNCHANGED tries
  \/ Move(j, "taken", "lost") /\ UNCHANGED tries
  \/ /\ Move(j, "taken", "lost")
     /\ tries[j] + 1 < MaxAttempts
     /\ tries' = [tries EXCEPT ![j] = @ + 1]

DNext == \E j \in Jobs :
           \/ Submit(j) \/ Take(j) \/ Complete(j)
           \/ Retry(j) \/ GiveUp(j) \/ Lose(j)

DSpec == DInit /\ [][DNext]_dvars
=============================================================================
