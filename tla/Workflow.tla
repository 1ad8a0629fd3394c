------------------------------- MODULE Workflow -------------------------------
(***************************************************************************)
(* What a workflow promises (the abstract specification of JobManager):    *)
(* jobs run before or after the application, each starts once and only     *)
(* when the jobs it needs have succeeded, and a stage is left only when    *)
(* all of its jobs have ended or a job that kills the workflow has failed. *)
(***************************************************************************)
CONSTANTS
  Jobs,
  Before,       \* jobs that run before the application; the others run after it
  KillOnError,  \* jobs whose failure ends their stage
  Needs         \* Needs[j]: jobs that must have succeeded before j starts

VARIABLES status, stage

wvars == <<status, stage>>

Statuses == {"pending", "started", "succeeded", "failed"}
Ended == {"succeeded", "failed"}
Stages == {"before", "application", "after", "end"}

StageOf(j) == IF j \in Before THEN "before" ELSE "after"

WInit == status = [j \in Jobs |-> "pending"] /\ stage = "before"

Start(j) ==
  /\ stage = StageOf(j) /\ status[j] = "pending"
  /\ \A k \in Needs[j] : status[k] = "succeeded"
  /\ status' = [status EXCEPT ![j] = "started"]
  /\ UNCHANGED stage

Succeed(j) ==
  /\ stage = StageOf(j) /\ status[j] = "started"
  /\ status' = [status EXCEPT ![j] = "succeeded"]
  /\ UNCHANGED stage

Fail(j) ==
  /\ stage = StageOf(j) /\ status[j] \notin Ended
  /\ status' = [status EXCEPT ![j] = "failed"]
  /\ UNCHANGED stage

MayLeave(s) ==
  \/ \A j \in Jobs : StageOf(j) = s => status[j] \in Ended
  \/ \E j \in KillOnError : StageOf(j) = s /\ status[j] = "failed"

NextStage ==
  /\ \/ stage = "before" /\ MayLeave("before") /\ stage' = "application"
     \/ stage = "application" /\ stage' = "after"
     \/ stage = "after" /\ MayLeave("after") /\ stage' = "end"
  /\ UNCHANGED status

WNext == NextStage \/ \E j \in Jobs : Start(j) \/ Succeed(j) \/ Fail(j)

WSpec == WInit /\ [][WNext]_wvars
=============================================================================
