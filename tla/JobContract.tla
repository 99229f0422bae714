----------------------------- MODULE JobContract ----------------------------
(***************************************************************************)
(* What a worker of src/workers promises for each message of its queue,    *)
(* whatever the job is: the abstract specification that the modules of the *)
(* single workers implement.                                               *)
(*                                                                         *)
(* A job may run several times (redelivery after a lost connection) and    *)
(* each run may succeed, fail, or leave a copy on the worker's dead-letter *)
(* queue.  It is over exactly once, in one of two ways: finished, and then *)
(* it ran successfully or was buried; or dropped, and then some run of it  *)
(* failed or its body was rejected.  Nothing leaves the queue before its   *)
(* first run ended.                                                        *)
(***************************************************************************)
CONSTANT Job

VARIABLES
  state,   \* [Job -> {"unsent", "pending", "finished", "dropped"}]
  done,    \* jobs a run of which had its effect
  failed,  \* jobs a run of which failed, or whose body was rejected
  buried   \* jobs with a copy on the dead-letter queue

jobVars == <<state, done, failed, buried>>

Init ==
  /\ state = [j \in Job |-> "unsent"]
  /\ done = {} /\ failed = {} /\ buried = {}

Send(j) ==
  /\ state[j] = "unsent"
  /\ state' = [state EXCEPT ![j] = "pending"]
  /\ UNCHANGED <<done, failed, buried>>

(* A run may have its effect and still be seen to fail: the reply is lost. *)
Run(j) ==
  /\ state[j] = "pending"
  /\ done' \in {done, done \cup {j}}
  /\ failed' \in {failed, failed \cup {j}}
  /\ UNCHANGED <<state, buried>>

Bury(j) ==
  /\ state[j] = "pending"
  /\ j \in failed
  /\ buried' = buried \cup {j}
  /\ UNCHANGED <<state, done, failed>>

Finish(j) ==
  /\ state[j] = "pending"
  /\ j \in done \cup buried
  /\ state' = [state EXCEPT ![j] = "finished"]
  /\ UNCHANGED <<done, failed, buried>>

Drop(j) ==
  /\ state[j] = "pending"
  /\ j \in failed
  /\ state' = [state EXCEPT ![j] = "dropped"]
  /\ UNCHANGED <<done, failed, buried>>

(* The body does not decode. *)
Reject(j) ==
  /\ state[j] = "pending"
  /\ state' = [state EXCEPT ![j] = "dropped"]
  /\ failed' = failed \cup {j}
  /\ UNCHANGED <<done, buried>>

Next ==
  \E j \in Job :
    Send(j) \/ Run(j) \/ Bury(j) \/ Finish(j) \/ Drop(j) \/ Reject(j)

Spec == Init /\ [][Next]_jobVars
=============================================================================
