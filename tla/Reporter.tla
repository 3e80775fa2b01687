------------------------------ MODULE Reporter ------------------------------
(***************************************************************************)
(* Publishing the state of one run to GitHub: Reporter.ReportRun of        *)
(* internal/vcs/github/reporter.go and the row of vcs_status_reports.      *)
(*                                                                         *)
(* Every request handler that moves the run calls ReportRun afterwards,    *)
(* before it goes on, so a handler has one report under way at a time and  *)
(* several handlers have several.  A step is one read, one write of the    *)
(* database or one call to GitHub.                                         *)
(* Every report reads the run anew; what it read it publishes, however     *)
(* much later.                                                             *)
(***************************************************************************)
EXTENDS StateMachines, Naturals, Sequences

CONSTANTS
    Callers,        \* request handlers of the orchestrator
    Starter,        \* the one that starts the run
    Triggers,       \* the kinds of run_triggers row a run may have: "none" for a
                    \* rerun or a run created through the API, "push" for one
                    \* without a PR number, "pull_request" for one with it
    MaxFailures     \* bound: calls to GitHub that fail or find nothing, and
                    \* reports cut short by a restart

ASSUME ReporterAssumption ==
    Starter \in Callers /\ Triggers \subseteq {"none", "push", "pull_request"} /\ MaxFailures \in Nat

VARIABLES
    trigger,        \* the row of run_triggers, inserted with the run or never
    run,            \* runs.state
    lastState,      \* vcs_status_reports.last_state, Absent without a row
    checkRunID,     \* its check_run_id, None for NULL
    prCommentID,    \* its pr_comment_id, None for NULL
    checks,         \* GitHub: what each check run shows, by id
    comments,       \* GitHub: the run state each comment tells, by id
    told,           \* history: the run states GitHub was told
    rep,            \* the report of each caller
    failures,       \* calls that failed and reports cut short
    deletions       \* check runs and comments deleted at GitHub

row  == <<lastState, checkRunID, prCommentID>>
hub  == <<checks, comments, told>>
faults == <<failures, deletions>>
vars == <<trigger, run, row, hub, rep, faults>>

None == 0
Gone == "gone"

NoReport == [pc |-> "idle", run |-> Absent, check |-> None, comment |-> None]

\* What the server's handlers other than startRun move the run to and report
\* (CancelRun, finalizeRunIfReady, finalizeCancelIfReady).
HandlerMoves == {"CANCEL_REQUESTED", "SUCCESS", "FAILED", "CANCELED"}

\* Seeded fault: the state of the run is sent as the status of the check run.
UnmappedState(s) == s

mapRunToCheck(s) ==
    CASE s \in {"CREATED", "PLANNING", "QUEUED"} -> "queued"
      [] s = "SUCCESS"                           -> "success"
      [] s \in {"FAILED", "PLAN_FAILED"}         -> "failure"
      [] s = "CANCELED"                          -> "cancelled"
      [] s = "TIMEOUT"                           -> "timed_out"
      [] OTHER                                   -> "in_progress"

Completed == {"success", "failure", "cancelled", "timed_out"}

isTerminalState(s) == s \in {"SUCCESS", "FAILED", "CANCELED", "TIMEOUT", "PLAN_FAILED"}

\* Seeded fault: canceled runs are forgotten.
ReportableButCanceled(s) == s \in {"SUCCESS", "FAILED", "TIMEOUT"}

isReportableTerminal(s) == s \in {"SUCCESS", "FAILED", "CANCELED", "TIMEOUT"}

Init ==
    /\ trigger \in Triggers
    /\ run = "CREATED"
    /\ lastState = Absent /\ checkRunID = None /\ prCommentID = None
    /\ checks = <<>> /\ comments = <<>> /\ told = {}
    /\ rep = [c \in Callers |-> NoReport]
    /\ failures = 0 /\ deletions = 0

-----------------------------------------------------------------------------
(* The orchestrator moves the run, and reports most of the moves *)

Moves(next) == validateRunTransition(run, next) /\ run' = next

Reports(c) == rep' = [rep EXCEPT ![c].pc = "readRun"]

\* startRun and failRun, one after the other: PLAN_FAILED is not reported.
StarterMoves ==
    /\ rep[Starter].pc = "idle"
    /\ \/ run = "CREATED" /\ Moves("PLANNING") /\ Reports(Starter)
       \/ run = "PLANNING" /\ Moves("QUEUED") /\ Reports(Starter)
       \/ run = "PLANNING" /\ Moves("PLAN_FAILED") /\ UNCHANGED rep
       \/ run = "PLAN_FAILED" /\ Moves("FAILED") /\ Reports(Starter)
    /\ UNCHANGED <<row, hub, faults, trigger>>

\* Any other handler.  One that decided before another moved the run repeats
\* that move, and its report.
HandlerReports(c) ==
    /\ c # Starter /\ rep[c].pc = "idle"
    /\ run # "PLAN_FAILED"
    /\ \E next \in HandlerMoves : Moves(next)
    /\ Reports(c)
    /\ UNCHANGED <<row, hub, faults, trigger>>

\* A worker has no reporter (main.go:327), nor do AckLease and HandleHeartbeat
\* report: that a run is RUNNING is only published by the report of another move.
UnreportedMove ==
    /\ Moves("RUNNING")
    /\ UNCHANGED <<row, hub, rep, faults, trigger>>

-----------------------------------------------------------------------------
(* ReportRun *)

Ends(c) == rep' = [rep EXCEPT ![c] = NoReport]

\* GetRunTrigger and GetRun: nothing is published of a run without a trigger
\* (ErrNotFound is no error), nor of one that is REPORTED.  The trigger never
\* changes, so it is read together with the run.
ReadRun(c) ==
    /\ rep[c].pc = "readRun"
    /\ IF trigger = "none" \/ run = "REPORTED" THEN Ends(c)
       ELSE rep' = [rep EXCEPT ![c] = [@ EXCEPT !.pc = "readReport", !.run = run]]
    /\ UNCHANGED <<run, row, hub, faults, trigger>>

\* GetStatusReport: a state that was already published is not published again.
ReadReport(c) ==
    /\ rep[c].pc = "readReport"
    /\ IF lastState = rep[c].run THEN Ends(c)
       ELSE rep' = [rep EXCEPT ![c] = [@ EXCEPT !.pc = "check", !.check = checkRunID, !.comment = prCommentID]]
    /\ UNCHANGED <<run, row, hub, faults, trigger>>

AfterCheck(c) == IF trigger = "pull_request" /\ isTerminalState(rep[c].run) THEN "comment" ELSE "upsert"

\* The check run is created, or updated by the id the row holds.
PublishCheck(c) ==
    LET shows == mapRunToCheck(rep[c].run)
        id    == rep[c].check
    IN  /\ rep[c].pc = "check"
        /\ \/ /\ id = None
              /\ checks' = Append(checks, shows)
              /\ rep' = [rep EXCEPT ![c] = [@ EXCEPT !.pc = AfterCheck(c), !.check = Len(checks) + 1]]
           \/ /\ id # None /\ checks[id] # Gone
              /\ checks' = [checks EXCEPT ![id] = shows]
              /\ rep' = [rep EXCEPT ![c].pc = AfterCheck(c)]
        /\ told' = told \union {rep[c].run}
        /\ UNCHANGED <<run, row, comments, faults, trigger>>

PublishComment(c) ==
    LET id == rep[c].comment
    IN  /\ rep[c].pc = "comment"
        /\ \/ /\ id = None
              /\ comments' = Append(comments, rep[c].run)
              /\ rep' = [rep EXCEPT ![c] = [@ EXCEPT !.pc = "upsert", !.comment = Len(comments) + 1]]
           \/ /\ id # None /\ comments[id] # Gone
              /\ comments' = [comments EXCEPT ![id] = rep[c].run]
              /\ rep' = [rep EXCEPT ![c].pc = "upsert"]
        /\ UNCHANGED <<run, row, checks, told, faults, trigger>>

\* A 404 to an update makes the next call a create.
IsNotFound(c) ==
    /\ \/ rep[c].pc = "check" /\ rep[c].check # None /\ checks[rep[c].check] = Gone
          /\ rep' = [rep EXCEPT ![c].check = None]
       \/ rep[c].pc = "comment" /\ rep[c].comment # None /\ comments[rep[c].comment] = Gone
          /\ rep' = [rep EXCEPT ![c].comment = None]
    /\ UNCHANGED <<run, row, hub, faults, trigger>>

\* Seeded fault: the upsert overwrites the ids with what this report knows.
UpsertWithoutCoalesce(c) ==
    /\ rep[c].pc = "upsert"
    /\ lastState' = rep[c].run
    /\ checkRunID' = rep[c].check
    /\ prCommentID' = rep[c].comment
    /\ rep' = [rep EXCEPT ![c].pc = "mark"]
    /\ UNCHANGED <<run, hub, faults, trigger>>

\* UpsertStatusReport: COALESCE keeps an id this report does not know.
UpsertStatusReport(c) ==
    /\ rep[c].pc = "upsert"
    /\ lastState' = rep[c].run
    /\ checkRunID' = IF rep[c].check # None THEN rep[c].check ELSE checkRunID
    /\ prCommentID' = IF rep[c].comment # None THEN rep[c].comment ELSE prCommentID
    /\ rep' = [rep EXCEPT ![c].pc = "mark"]
    /\ UNCHANGED <<run, hub, faults, trigger>>

\* The run becomes REPORTED; that it may not is ignored.
MarkReported(c) ==
    /\ rep[c].pc = "mark"
    /\ run' = IF isReportableTerminal(rep[c].run) /\ validateRunTransition(run, "REPORTED")
              THEN "REPORTED" ELSE run
    /\ Ends(c)
    /\ UNCHANGED <<row, hub, faults, trigger>>

ReportRun(c) ==
    \/ ReadRun(c) \/ ReadReport(c) \/ PublishCheck(c) \/ PublishComment(c)
    \/ IsNotFound(c) \/ UpsertStatusReport(c) \/ MarkReported(c)

-----------------------------------------------------------------------------
(* GitHub and restarts *)

\* Seeded fault: an error of GitHub is logged and the report goes on.
FailureIgnored(c) ==
    /\ rep[c].pc \in {"check", "comment"}
    /\ rep' = [rep EXCEPT ![c].pc = "upsert"]

\* A call failed, or the report was cut short: reportRun logs it and returns.
\* A call whose answer is lost has taken effect: the failure is at the next step.
ReportFails(c) ==
    /\ rep[c].pc \in {"readRun", "readReport", "check", "comment", "upsert", "mark"}
    /\ Ends(c)

Failure(c) ==
    /\ failures + deletions < MaxFailures
    /\ ReportFails(c)
    /\ failures' = failures + 1
    /\ UNCHANGED <<run, row, hub, deletions, trigger>>

\* A check run or a comment is deleted at GitHub.
Deleted ==
    /\ failures + deletions < MaxFailures
    /\ \/ /\ checkRunID # None /\ checks[checkRunID] # Gone
          /\ checks' = [checks EXCEPT ![checkRunID] = Gone] /\ UNCHANGED comments
       \/ /\ prCommentID # None /\ comments[prCommentID] # Gone
          /\ comments' = [comments EXCEPT ![prCommentID] = Gone] /\ UNCHANGED checks
    /\ deletions' = deletions + 1
    /\ UNCHANGED <<run, row, told, rep, failures, trigger>>

Next ==
    \/ \E c \in Callers : HandlerReports(c) \/ ReportRun(c) \/ Failure(c)
    \/ StarterMoves
    \/ UnreportedMove
    \/ Deleted

Spec == Init /\ [][Next]_vars

\* A report that has started goes on; nothing obliges the run to move.
FairSpec == Spec /\ \A c \in Callers : WF_vars(ReportRun(c))

-----------------------------------------------------------------------------
(* Properties *)

ReporterTypeOK ==
    /\ trigger \in Triggers
    /\ run \in RunStates
    /\ lastState \in RunStates \union {Absent}
    /\ checkRunID \in 0 .. Len(checks) /\ prCommentID \in 0 .. Len(comments)
    /\ checks \in Seq({"queued", "in_progress", Gone} \union Completed)
    /\ comments \in Seq(RunStates \union {Gone})
    /\ told \subseteq RunStates
    /\ rep \in [Callers -> [pc : {"idle", "readRun", "readReport", "check", "comment", "upsert", "mark"},
                            run : RunStates \union {Absent},
                            check : 0 .. Len(checks), comment : 0 .. Len(comments)]]
    /\ failures \in 0 .. MaxFailures /\ deletions \in 0 .. MaxFailures

\* A run is REPORTED only if it has a trigger, after GitHub was told its final
\* state, and on a pull request only after the comment was posted, whatever
\* calls failed and whichever of several reports marked it (ReportRun's early
\* returns).
ReportedAfterPublished ==
    run = "REPORTED" =>
        /\ trigger # "none"
        /\ told \intersect TerminalRunStates # {}
        /\ trigger = "pull_request" => comments # <<>>

\* The places from which a report may still create at GitHub or write the row.
Publishing(c) == rep[c].pc \in {"check", "comment", "upsert"}

\* Every report under way works on the stored check run.
CheckSettled ==
    checkRunID # None /\ \A c \in Callers : Publishing(c) => rep[c].check = checkRunID

\* Every report under way works on the stored comment, or will write none.
CommentSettled ==
    /\ prCommentID # None
    /\ \A c \in Callers : Publishing(c) =>
          \/ rep[c].comment = prCommentID
          \/ rep[c].comment = None /\ ~isTerminalState(rep[c].run)

\* A stored id is replaced, and a second check run or comment created, only by
\* a report that was already under way when the id was stored and did not know
\* it.  Once no such report is left the ids are there to stay, until something
\* is deleted at GitHub: a report that reads the row uses the ids, and one that
\* knows no comment leaves the stored one (COALESCE in UpsertStatusReport).
IdsSettle ==
    [][deletions' = 0 =>
          /\ CheckSettled => CheckSettled' /\ checkRunID' = checkRunID /\ Len(checks') = Len(checks)
          /\ CommentSettled =>
                CommentSettled' /\ prCommentID' = prCommentID /\ Len(comments') = Len(comments)]_vars

\* A finished run that has a trigger is eventually REPORTED, unless a report
\* failed (ReportRun is not retried): a check run or comment deleted at GitHub
\* is no excuse.
FinishedIsReported ==
    (trigger # "none" /\ run \in TerminalRunStates) ~> (run = "REPORTED" \/ failures > 0)

\* Once a run is REPORTED and no report is under way, the latest check run,
\* the one GitHub shows, is completed.
FinalStatusShown ==
    (run = "REPORTED" /\ \A c \in Callers : rep[c].pc = "idle") =>
        checks[Len(checks)] \in Completed
=============================================================================
