--------------------------- MODULE StateMachines ---------------------------
(***************************************************************************)
(* The three transition tables of state/states.go, as data that every      *)
(* write of the store consults.  A job attempt uses the job table.  Each   *)
(* state allows itself: a repeated request is a legal no-op.               *)
(***************************************************************************)

RunStates ==
    {"CREATED", "PLANNING", "PLAN_FAILED", "QUEUED", "RUNNING",
     "CANCEL_REQUESTED", "SUCCESS", "FAILED", "CANCELED", "TIMEOUT", "REPORTED"}

JobStates ==
    {"CREATED", "QUEUED", "LEASED", "STARTING", "RUNNING", "UPLOADING",
     "SUCCEEDED", "FAILED", "CANCEL_REQUESTED", "CANCELED", "TIMED_OUT", "STALE"}

LeaseStates ==
    {"GRANTED", "ACTIVE", "EXPIRED", "REVOKED", "COMPLETED", "CANCELED"}

\* What the row of a record that has not been inserted yet is said to hold.
Absent == "ABSENT"

runTransitions ==
    [CREATED          |-> {"CREATED", "PLANNING"},
     PLANNING         |-> {"PLANNING", "QUEUED", "PLAN_FAILED"},
     PLAN_FAILED      |-> {"PLAN_FAILED", "FAILED"},
     QUEUED           |-> {"QUEUED", "RUNNING", "CANCEL_REQUESTED"},
     RUNNING          |-> {"RUNNING", "SUCCESS", "FAILED", "CANCEL_REQUESTED", "TIMEOUT"},
     CANCEL_REQUESTED |-> {"CANCEL_REQUESTED", "CANCELED"},
     SUCCESS          |-> {"SUCCESS", "REPORTED"},
     FAILED           |-> {"FAILED", "REPORTED"},
     CANCELED         |-> {"CANCELED", "REPORTED"},
     TIMEOUT          |-> {"TIMEOUT", "REPORTED"},
     REPORTED         |-> {"REPORTED"}]

jobTransitions ==
    [CREATED          |-> {"CREATED", "QUEUED"},
     QUEUED           |-> {"QUEUED", "LEASED", "CANCEL_REQUESTED"},
     LEASED           |-> {"LEASED", "STARTING", "QUEUED", "CANCEL_REQUESTED", "STALE"},
     STARTING         |-> {"STARTING", "RUNNING", "QUEUED", "CANCEL_REQUESTED", "STALE"},
     RUNNING          |-> {"RUNNING", "UPLOADING", "TIMED_OUT", "QUEUED", "CANCEL_REQUESTED", "STALE"},
     UPLOADING        |-> {"UPLOADING", "SUCCEEDED", "FAILED"},
     SUCCEEDED        |-> {"SUCCEEDED"},
     FAILED           |-> {"FAILED", "QUEUED"},
     CANCEL_REQUESTED |-> {"CANCEL_REQUESTED", "CANCELED"},
     CANCELED         |-> {"CANCELED"},
     TIMED_OUT        |-> {"TIMED_OUT", "QUEUED"},
     STALE            |-> {"STALE"}]

leaseTransitions ==
    [GRANTED   |-> {"GRANTED", "ACTIVE", "EXPIRED", "REVOKED"},
     ACTIVE    |-> {"ACTIVE", "EXPIRED", "COMPLETED", "CANCELED", "REVOKED"},
     EXPIRED   |-> {"EXPIRED"},
     REVOKED   |-> {"REVOKED"},
     COMPLETED |-> {"COMPLETED"},
     CANCELED  |-> {"CANCELED"}]

\* A row that does not exist has no transition (ErrNotFound).
validateRunTransition(from, to)   == from \in RunStates   /\ to \in runTransitions[from]
validateJobTransition(from, to)   == from \in JobStates   /\ to \in jobTransitions[from]
validateLeaseTransition(from, to) == from \in LeaseStates /\ to \in leaseTransitions[from]

LiveLeaseStates == {"GRANTED", "ACTIVE"}

\* isRunTerminal of orchestrator/service.go
TerminalRunStates == {"SUCCESS", "FAILED", "CANCELED", "TIMEOUT", "REPORTED"}

\* The runs whose attempts the dispatch queue drops and never delivers.
UndeliverableRunStates == TerminalRunStates \union {"PLAN_FAILED", "CANCEL_REQUESTED"}
=============================================================================
