--------------------------- MODULE ReporterProofs ---------------------------
(***************************************************************************)
(* What the reporter promises however many reports of one run overlap,     *)
(* whichever calls to GitHub fail or find nothing, and whatever is deleted *)
(* there: it marks a run REPORTED only after the result was published, it  *)
(* skips a report only for a state that was published, and once every      *)
(* report under way knows the stored ids of the check run and the comment, *)
(* they stay.                                                              *)
(***************************************************************************)
EXTENDS Reporter, SequenceTheorems, TLAPS

Shown   == {"queued", "in_progress", Gone} \union Completed
Written == RunStates \union {Gone}

\* What a report may hold.
ReportRecords ==
    [pc : {"idle", "readRun", "readReport", "check", "comment", "upsert", "mark"},
     run : RunStates \union {Absent}, check : 0 .. Len(checks), comment : 0 .. Len(comments)]

(***************************************************************************)
(* The inductive invariant.  A report acts on the state of the run that it *)
(* read when it began, and other reports publish in the meantime: what the *)
(* report itself has already published, its record must say.               *)
(***************************************************************************)
ReportOK(r) ==
    /\ r \in ReportRecords
    /\ r.pc \notin {"idle", "readRun"} => r.run \in RunStates /\ trigger # "none"
    /\ r.pc = "comment" => isTerminalState(r.run)
    /\ r.pc \in {"comment", "upsert", "mark"} => r.run \in told
    /\ r.pc \in {"upsert", "mark"} /\ trigger = "pull_request" /\ isTerminalState(r.run) => comments # <<>>

\* The row names no state that was not published: a report that is skipped
\* because of it (the early return after GetStatusReport) is needless indeed.
RowWasPublished ==
    lastState # Absent =>
        /\ lastState \in told
        /\ trigger = "pull_request" /\ isTerminalState(lastState) => comments # <<>>

ReporterInv ==
    /\ ReporterTypeOK
    /\ \A c \in Callers : ReportOK(rep[c])
    /\ RowWasPublished
    /\ ReportedAfterPublished

\* Whatever is shown at GitHub stays or is replaced, what was told was told, and
\* the run keeps its trigger.
HubGrows ==
    /\ trigger' = trigger
    /\ checks' \in Seq(Shown) /\ Len(checks) <= Len(checks')
    /\ comments' \in Seq(Written) /\ Len(comments) <= Len(comments')
    /\ told \subseteq told' /\ told' \subseteq RunStates

\* A report, and the row, are in order after a step that leaves them alone.
LEMMA ReportStays ==
    ASSUME ReporterInv, HubGrows
    PROVE  /\ \A r : ReportOK(r) => ReportOK(r)'
           /\ comments # <<>> => comments' # <<>>
           /\ Len(checks) \in Nat /\ Len(checks') \in Nat /\ Len(comments) \in Nat /\ Len(comments') \in Nat
<1>1. checks \in Seq(Shown) /\ comments \in Seq(Written)
    BY DEF ReporterInv, ReporterTypeOK, Shown, Written
<1>2. Len(checks) \in Nat /\ Len(checks') \in Nat /\ Len(comments) \in Nat /\ Len(comments') \in Nat
    BY <1>1, LenProperties DEF HubGrows
<1>3. comments # <<>> => comments' # <<>>
    BY <1>1, <1>2, EmptySeq DEF HubGrows
<1>4. ASSUME NEW r, ReportOK(r) PROVE ReportOK(r)'
    <2>1. 0 .. Len(checks) \subseteq 0 .. Len(checks') /\ 0 .. Len(comments) \subseteq 0 .. Len(comments')
        BY <1>2 DEF HubGrows
    <2>2. ReportRecords \subseteq ReportRecords'
        BY <2>1 DEF ReportRecords
    <2> QED
        BY <1>3, <1>4, <2>2 DEF ReportOK, HubGrows
<1> QED
    BY <1>2, <1>3, <1>4

\* A step of the report of one caller, or of none.
LEMMA ReportStep ==
    ASSUME ReporterInv, HubGrows, NEW c \in Callers, NEW f, ReportOK(f)', rep' = [rep EXCEPT ![c] = f],
           run' \in RunStates, lastState' \in RunStates \union {Absent},
           checkRunID' \in 0 .. Len(checks'), prCommentID' \in 0 .. Len(comments'),
           failures' \in 0 .. MaxFailures, deletions' \in 0 .. MaxFailures,
           RowWasPublished', ReportedAfterPublished'
    PROVE  ReporterInv'
<1>1. f \in ReportRecords'
    BY DEF ReportOK
<1>2. \A d \in Callers : ReportOK(rep[d])'
    <2> SUFFICES ASSUME NEW d \in Callers PROVE ReportOK(rep[d])'
        OBVIOUS
    <2>1. PICK r : r = rep[d]
        OBVIOUS
    <2>2. ReportOK(r)'
        BY <2>1, ReportStays DEF ReporterInv
    <2>3. rep'[d] = f \/ rep'[d] = r
        BY <2>1 DEF ReporterInv, ReporterTypeOK
    <2> QED
        BY <2>2, <2>3 DEF ReportOK
<1>3. rep' \in [Callers -> ReportRecords']
    <2>1. DOMAIN rep' = Callers
        BY DEF ReporterInv, ReporterTypeOK
    <2>2. \A d \in Callers : rep'[d] \in ReportRecords'
        BY <1>2 DEF ReportOK
    <2>3. rep' = [d \in Callers |-> rep'[d]]
        BY <2>1 DEF ReporterInv, ReporterTypeOK
    <2> QED
        BY <2>2, <2>3
<1>4. ReporterTypeOK'
    BY <1>3 DEF ReporterInv, ReporterTypeOK, ReportRecords, HubGrows, Shown, Written
<1> QED
    BY <1>2, <1>4 DEF ReporterInv

\* Nothing is published.
LEMMA HubStays == ReporterInv /\ UNCHANGED <<hub, trigger>> => HubGrows
<1> SUFFICES ASSUME ReporterInv, UNCHANGED <<hub, trigger>> PROVE HubGrows
    OBVIOUS
<1>1. checks \in Seq(Shown) /\ comments \in Seq(Written) /\ told \subseteq RunStates
    BY DEF ReporterInv, ReporterTypeOK, Shown, Written
<1>2. Len(checks) \in Nat /\ Len(comments) \in Nat
    BY <1>1, LenProperties
<1> QED
    BY <1>1, <1>2 DEF HubGrows, hub

\* The row is left alone, and the run is not marked REPORTED.
LEMMA RowStays ==
    ASSUME ReporterInv, HubGrows, UNCHANGED row, run' # "REPORTED" \/ run' = run
    PROVE  /\ RowWasPublished' /\ ReportedAfterPublished'
           /\ lastState' \in RunStates \union {Absent}
           /\ checkRunID' \in 0 .. Len(checks') /\ prCommentID' \in 0 .. Len(comments')
<1>1. comments # <<>> => comments' # <<>>
    BY ReportStays
<1>2. 0 .. Len(checks) \subseteq 0 .. Len(checks') /\ 0 .. Len(comments) \subseteq 0 .. Len(comments')
    BY ReportStays DEF HubGrows
<1> QED
    BY <1>1, <1>2
       DEF ReporterInv, ReporterTypeOK, RowWasPublished, ReportedAfterPublished, HubGrows, row, TerminalRunStates

\* A step of one report that leaves the run, the row and the counters alone.
LEMMA PlainReport ==
    ASSUME ReporterInv, HubGrows, NEW c \in Callers, NEW f, ReportOK(f)', rep' = [rep EXCEPT ![c] = f],
           UNCHANGED <<run, row, faults>>
    PROVE  ReporterInv'
<1>1. run' \in RunStates /\ failures' \in 0 .. MaxFailures /\ deletions' \in 0 .. MaxFailures
    BY DEF ReporterInv, ReporterTypeOK, faults
<1> QED
    BY <1>1, RowStays, ReportStep

\* A report that ends, or has not begun, has nothing to say.
LEMMA IdleReport == ReporterInv => ReportOK(NoReport)
<1> SUFFICES ASSUME ReporterInv PROVE ReportOK(NoReport)
    OBVIOUS
<1>1. Len(checks) \in Nat /\ Len(comments) \in Nat
    BY LenProperties DEF ReporterInv, ReporterTypeOK
<1> QED
    BY <1>1 DEF ReportOK, ReportRecords, NoReport, None, Absent

\* The record of a report that goes on.
LEMMA RecordAt ==
    ASSUME NEW r \in ReportRecords,
           NEW place \in {"readRun", "readReport", "check", "comment", "upsert", "mark"}
    PROVE  /\ [r EXCEPT !.pc = place] \in ReportRecords
           /\ [r EXCEPT !.pc = place].pc = place
           /\ [r EXCEPT !.pc = place].run = r.run
BY DEF ReportRecords

\* The orchestrator moves the run and begins a report, or does not report.
LEMMA MoveKeeps ==
    ASSUME ReporterInv, NEW next \in RunStates, next # "REPORTED", Moves(next), UNCHANGED <<row, hub, faults, trigger>>,
           \/ rep' = rep
           \/ \E c \in Callers : rep[c].pc = "idle" /\ Reports(c)
    PROVE  ReporterInv'
<1>1. run' \in RunStates /\ run' # "REPORTED" /\ HubGrows
    BY HubStays DEF Moves
<1>2. failures' \in 0 .. MaxFailures /\ deletions' \in 0 .. MaxFailures
    BY DEF ReporterInv, ReporterTypeOK, faults
<1>3. PICK c \in Callers : rep' = rep \/ (rep[c].pc = "idle" /\ Reports(c))
    BY ReporterAssumption
<1>4. PICK f : ReportOK(f) /\ rep' = [rep EXCEPT ![c] = f]
    <2>1. CASE rep' = rep
        <3>1. rep' = [rep EXCEPT ![c] = rep[c]] /\ ReportOK(rep[c])
            BY <2>1 DEF ReporterInv, ReporterTypeOK
        <3> QED
            BY <3>1
    <2>2. CASE rep[c].pc = "idle" /\ Reports(c)
        <3>1. rep[c] \in ReportRecords
            BY DEF ReporterInv, ReportOK
        <3>2. ReportOK([rep[c] EXCEPT !.pc = "readRun"])
            BY <3>1, RecordAt DEF ReportOK
        <3> QED
            BY <2>2, <3>2 DEF Reports
    <2> QED
        BY <1>3, <2>1, <2>2
<1>5. ReportOK(f)'
    BY <1>1, <1>4, ReportStays
<1> QED
    BY <1>1, <1>2, <1>4, <1>5, RowStays, ReportStep

\* The moves that the handlers make.
LEMMA MovesKeep ==
    ASSUME ReporterInv,
           StarterMoves \/ UnreportedMove \/ \E c \in Callers : HandlerReports(c)
    PROVE  ReporterInv'
<1>1. CASE StarterMoves
    BY <1>1, MoveKeeps, ReporterAssumption DEF StarterMoves, RunStates
<1>2. CASE UnreportedMove
    BY <1>2, MoveKeeps DEF UnreportedMove, RunStates
<1>3. ASSUME NEW c \in Callers, HandlerReports(c) PROVE ReporterInv'
    BY <1>3, MoveKeeps DEF HandlerReports, HandlerMoves, RunStates
<1> QED
    BY <1>1, <1>2, <1>3

\* A report ends.
LEMMA EndKeeps ==
    ASSUME ReporterInv, NEW c \in Callers, Ends(c), UNCHANGED <<run, row, hub, trigger>>,
           failures' \in 0 .. MaxFailures, deletions' \in 0 .. MaxFailures
    PROVE  ReporterInv'
<1>1. HubGrows /\ run' \in RunStates
    BY HubStays DEF ReporterInv, ReporterTypeOK
<1>2. ReportOK(NoReport)'
    BY <1>1, IdleReport, ReportStays
<1> QED
    BY <1>1, <1>2, RowStays, ReportStep DEF Ends

\* The two reads: what was published is not published again.
LEMMA ReadKeeps ==
    ASSUME ReporterInv, NEW c \in Callers, ReadRun(c) \/ ReadReport(c)
    PROVE  ReporterInv'
<1>1. HubGrows /\ rep[c] \in ReportRecords /\ ReportOK(rep[c])
    BY HubStays DEF ReporterInv, ReportOK, ReadRun, ReadReport
<1>2. CASE Ends(c)
    BY <1>2, EndKeeps DEF ReadRun, ReadReport, ReporterInv, ReporterTypeOK, faults
<1>3. CASE ReadRun(c) /\ ~Ends(c)
    <2>1. PICK f : f = [rep[c] EXCEPT !.pc = "readReport", !.run = run]
        OBVIOUS
    <2>2. f \in ReportRecords /\ f.pc = "readReport" /\ f.run = run
        BY <1>1, <2>1 DEF ReportRecords, ReporterInv, ReporterTypeOK
    <2>3. ReportOK(f)
        BY <1>3, <2>2 DEF ReadRun, ReportOK, ReporterInv, ReporterTypeOK
    <2>4. ReportOK(f)'
        BY <1>1, <2>3, ReportStays
    <2> QED
        BY <1>1, <1>3, <2>1, <2>4, PlainReport DEF ReadRun
<1>4. CASE ReadReport(c) /\ ~Ends(c)
    <2>1. PICK f : f = [rep[c] EXCEPT !.pc = "check", !.check = checkRunID, !.comment = prCommentID]
        OBVIOUS
    <2>2. f \in ReportRecords /\ f.pc = "check" /\ f.run = rep[c].run
        BY <1>1, <2>1 DEF ReportRecords, ReporterInv, ReporterTypeOK
    <2>3. ReportOK(f)
        BY <1>1, <1>4, <2>2 DEF ReportOK, ReadReport
    <2>4. ReportOK(f)'
        BY <1>1, <2>3, ReportStays
    <2> QED
        BY <1>1, <1>4, <2>1, <2>4, PlainReport DEF ReadReport
<1> QED
    BY <1>2, <1>3, <1>4

\* What the run is shown as is something GitHub may show.
LEMMA CheckShown == \A s \in RunStates : mapRunToCheck(s) \in Shown
BY DEF mapRunToCheck, Shown, Completed

\* The check run is published: from now on the state was told.
LEMMA CheckKeeps ==
    ASSUME ReporterInv, NEW c \in Callers, PublishCheck(c)
    PROVE  ReporterInv'
<1>1. rep[c] \in ReportRecords /\ rep[c].pc = "check" /\ rep[c].run \in RunStates /\ trigger # "none"
    BY DEF ReporterInv, ReportOK, PublishCheck
<1>2. checks \in Seq(Shown) /\ comments \in Seq(Written) /\ Len(checks) \in Nat /\ Len(comments) \in Nat
    BY LenProperties DEF ReporterInv, ReporterTypeOK, Shown, Written
<1>3. /\ comments' = comments /\ told' = told \union {rep[c].run} /\ told' \subseteq RunStates
      /\ UNCHANGED <<run, row, faults, trigger>>
    BY <1>1 DEF PublishCheck, ReporterInv, ReporterTypeOK
<1>4. /\ AfterCheck(c) \in {"comment", "upsert"}
      /\ AfterCheck(c) = "comment" <=> (trigger = "pull_request" /\ isTerminalState(rep[c].run))
    BY DEF AfterCheck
<1>5. PICK place \in {"comment", "upsert"} : place = AfterCheck(c)
    BY <1>4
<1>6. PICK shown \in Shown : shown = mapRunToCheck(rep[c].run)
    BY <1>1, CheckShown
<1>7. CASE rep[c].check = None /\ checks' = Append(checks, shown)
           /\ rep' = [rep EXCEPT ![c] = [rep[c] EXCEPT !.pc = place, !.check = Len(checks) + 1]]
    <2>1. checks' \in Seq(Shown) /\ Len(checks') = Len(checks) + 1
        BY <1>2, <1>6, <1>7, AppendProperties
    <2>2. HubGrows
        BY <1>2, <1>3, <2>1 DEF HubGrows
    <2>3. PICK n : n = Len(checks) + 1
        OBVIOUS
    <2>4. PICK f : f = [rep[c] EXCEPT !.pc = place, !.check = n]
        OBVIOUS
    <2>5. n \in 0 .. Len(checks') /\ rep[c].comment \in 0 .. Len(comments')
        BY <1>1, <1>2, <1>3, <2>1, <2>3 DEF ReportRecords
    <2>6. f.pc = place /\ f.run = rep[c].run /\ f \in ReportRecords'
        BY <1>1, <2>4, <2>5 DEF ReportRecords
    <2>7. ReportOK(f)'
        BY <1>1, <1>3, <1>4, <1>5, <2>6 DEF ReportOK
    <2> QED
        BY <1>3, <1>7, <2>2, <2>3, <2>4, <2>7, PlainReport
<1>8. CASE rep[c].check # None /\ checks' = [checks EXCEPT ![rep[c].check] = shown]
           /\ rep' = [rep EXCEPT ![c] = [rep[c] EXCEPT !.pc = place]]
    <2>1. rep[c].check \in 1 .. Len(checks)
        BY <1>1, <1>2, <1>8 DEF ReportRecords, None
    <2>2. checks' \in Seq(Shown) /\ Len(checks') = Len(checks)
        BY <1>2, <1>6, <1>8, <2>1, ExceptSeq
    <2>3. HubGrows
        BY <1>2, <1>3, <2>2 DEF HubGrows
    <2>4. PICK f : f = [rep[c] EXCEPT !.pc = place]
        OBVIOUS
    <2>5. f.pc = place /\ f.run = rep[c].run /\ f \in ReportRecords'
        BY <1>1, <1>2, <1>3, <2>2, <2>4 DEF ReportRecords
    <2>6. ReportOK(f)'
        BY <1>1, <1>3, <1>4, <1>5, <2>5 DEF ReportOK
    <2> QED
        BY <1>3, <1>8, <2>3, <2>4, <2>6, PlainReport
<1> QED
    BY <1>5, <1>6, <1>7, <1>8 DEF PublishCheck

\* The comment is posted, or rewritten: from now on there is one.
LEMMA CommentKeeps ==
    ASSUME ReporterInv, NEW c \in Callers, PublishComment(c)
    PROVE  ReporterInv'
<1>1. /\ rep[c] \in ReportRecords /\ rep[c].pc = "comment" /\ rep[c].run \in RunStates /\ rep[c].run \in told
      /\ trigger # "none"
    BY DEF ReporterInv, ReportOK, PublishComment
<1>2. checks \in Seq(Shown) /\ comments \in Seq(Written) /\ Len(checks) \in Nat /\ Len(comments) \in Nat
    BY LenProperties DEF ReporterInv, ReporterTypeOK, Shown, Written
<1>3. checks' = checks /\ told' = told /\ told \subseteq RunStates /\ UNCHANGED <<run, row, faults, trigger>>
    BY DEF PublishComment, ReporterInv, ReporterTypeOK
<1>4. rep[c].run \in Written
    BY <1>1 DEF Written
<1>5. CASE rep[c].comment = None /\ comments' = Append(comments, rep[c].run)
           /\ rep' = [rep EXCEPT ![c] = [rep[c] EXCEPT !.pc = "upsert", !.comment = Len(comments) + 1]]
    <2>1. comments' \in Seq(Written) /\ Len(comments') = Len(comments) + 1
        BY <1>2, <1>4, <1>5, AppendProperties
    <2>2. HubGrows /\ comments' # <<>>
        BY <1>2, <1>3, <2>1, EmptySeq DEF HubGrows
    <2>3. PICK n : n = Len(comments) + 1
        OBVIOUS
    <2>4. PICK f : f = [rep[c] EXCEPT !.pc = "upsert", !.comment = n]
        OBVIOUS
    <2>5. n \in 0 .. Len(comments') /\ rep[c].check \in 0 .. Len(checks')
        BY <1>1, <1>2, <1>3, <2>1, <2>3 DEF ReportRecords
    <2>6. f.pc = "upsert" /\ f.run = rep[c].run /\ f \in ReportRecords'
        BY <1>1, <2>4, <2>5 DEF ReportRecords
    <2>7. ReportOK(f)'
        BY <1>1, <1>3, <2>2, <2>6 DEF ReportOK
    <2> QED
        BY <1>3, <1>5, <2>2, <2>3, <2>4, <2>7, PlainReport
<1>6. CASE rep[c].comment # None /\ comments' = [comments EXCEPT ![rep[c].comment] = rep[c].run]
           /\ rep' = [rep EXCEPT ![c] = [rep[c] EXCEPT !.pc = "upsert"]]
    <2>1. rep[c].comment \in 1 .. Len(comments)
        BY <1>1, <1>2, <1>6 DEF ReportRecords, None
    <2>2. comments' \in Seq(Written) /\ Len(comments') = Len(comments)
        BY <1>2, <1>4, <1>6, <2>1, ExceptSeq
    <2>3. HubGrows /\ comments' # <<>>
        BY <1>2, <1>3, <2>1, <2>2, EmptySeq DEF HubGrows
    <2>4. PICK f : f = [rep[c] EXCEPT !.pc = "upsert"]
        OBVIOUS
    <2>5. f.pc = "upsert" /\ f.run = rep[c].run /\ f \in ReportRecords'
        BY <1>1, <1>2, <1>3, <2>2, <2>4 DEF ReportRecords
    <2>6. ReportOK(f)'
        BY <1>1, <1>3, <2>3, <2>5 DEF ReportOK
    <2> QED
        BY <1>3, <1>6, <2>3, <2>4, <2>6, PlainReport
<1> QED
    BY <1>5, <1>6 DEF PublishComment

\* GitHub does not know the id: the next call creates.
LEMMA NotFoundKeeps ==
    ASSUME ReporterInv, NEW c \in Callers, IsNotFound(c)
    PROVE  ReporterInv'
<1>1. HubGrows /\ rep[c] \in ReportRecords /\ ReportOK(rep[c]) /\ UNCHANGED <<run, row, faults, trigger>>
    BY HubStays DEF ReporterInv, ReportOK, IsNotFound
<1>2. Len(checks) \in Nat /\ Len(comments) \in Nat
    BY <1>1, ReportStays
<1>3. PICK f : /\ rep' = [rep EXCEPT ![c] = f]
               /\ f = [rep[c] EXCEPT !.check = None] \/ f = [rep[c] EXCEPT !.comment = None]
    BY DEF IsNotFound
<1>4. f \in ReportRecords /\ f.pc = rep[c].pc /\ f.run = rep[c].run
    BY <1>1, <1>2, <1>3 DEF ReportRecords, None
<1>5. ReportOK(f)
    BY <1>1, <1>4 DEF ReportOK
<1> QED
    BY <1>1, <1>3, <1>5, ReportStays, PlainReport

\* The row is written, keeping the ids this report does not know.
LEMMA UpsertKeeps ==
    ASSUME ReporterInv, NEW c \in Callers, UpsertStatusReport(c)
    PROVE  ReporterInv'
<1>1. HubGrows /\ rep[c] \in ReportRecords /\ ReportOK(rep[c]) /\ rep[c].pc = "upsert"
    BY HubStays DEF ReporterInv, ReportOK, UpsertStatusReport
<1>2. UNCHANGED <<run, hub, faults, trigger>>
    BY DEF UpsertStatusReport
<1>3. PICK f : f = [rep[c] EXCEPT !.pc = "mark"] /\ rep' = [rep EXCEPT ![c] = f]
    BY DEF UpsertStatusReport
<1>4. f \in ReportRecords /\ f.pc = "mark" /\ f.run = rep[c].run
    BY <1>1, <1>3, RecordAt
<1>5. ReportOK(f)
    BY <1>1, <1>4 DEF ReportOK
<1>6. ReportOK(f)'
    BY <1>1, <1>5, ReportStays
<1>7. /\ lastState' = rep[c].run /\ lastState' \in RunStates
      /\ checkRunID' \in 0 .. Len(checks') /\ prCommentID' \in 0 .. Len(comments')
    BY <1>1, <1>2 DEF UpsertStatusReport, ReportOK, ReportRecords, ReporterInv, ReporterTypeOK, hub
<1>8. RowWasPublished' /\ ReportedAfterPublished'
    BY <1>1, <1>2, <1>7 DEF RowWasPublished, ReportedAfterPublished, ReportOK, ReporterInv, hub
<1>9. run' \in RunStates /\ failures' \in 0 .. MaxFailures /\ deletions' \in 0 .. MaxFailures
    BY <1>2 DEF ReporterInv, ReporterTypeOK, faults
<1> QED
    BY <1>1, <1>3, <1>6, <1>7, <1>8, <1>9, ReportStep

\* The run is marked REPORTED: this report has told GitHub a final state of it.
LEMMA MarkKeeps ==
    ASSUME ReporterInv, NEW c \in Callers, MarkReported(c)
    PROVE  ReporterInv'
<1>1. HubGrows /\ ReportOK(rep[c]) /\ rep[c].pc = "mark" /\ UNCHANGED <<row, hub, faults, trigger>>
    BY HubStays DEF ReporterInv, MarkReported
<1>2. ReportOK(NoReport)'
    BY <1>1, IdleReport, ReportStays
<1>3. /\ run' \in RunStates /\ failures' \in 0 .. MaxFailures /\ deletions' \in 0 .. MaxFailures
      /\ lastState' \in RunStates \union {Absent}
      /\ checkRunID' \in 0 .. Len(checks') /\ prCommentID' \in 0 .. Len(comments')
    BY <1>1 DEF MarkReported, ReporterInv, ReporterTypeOK, RunStates, row, hub, faults
<1>4. RowWasPublished'
    BY <1>1 DEF ReporterInv, RowWasPublished, row, hub
<1>5. ReportedAfterPublished'
    <2>1. CASE run' = run
        BY <1>1, <2>1 DEF ReporterInv, ReportedAfterPublished, hub
    <2>2. CASE isReportableTerminal(rep[c].run)
        BY <1>1, <2>2
           DEF ReportOK, ReportedAfterPublished, isReportableTerminal, isTerminalState, TerminalRunStates, hub
    <2> QED
        BY <2>1, <2>2 DEF MarkReported
<1> QED
    BY <1>1, <1>2, <1>3, <1>4, <1>5, ReportStep DEF MarkReported, Ends

\* Something is deleted at GitHub.
LEMMA DeletedKeeps == ReporterInv /\ Deleted => ReporterInv'
<1> SUFFICES ASSUME ReporterInv, Deleted PROVE ReporterInv'
    OBVIOUS
<1>1. checks \in Seq(Shown) /\ comments \in Seq(Written) /\ Len(checks) \in Nat /\ Len(comments) \in Nat
    BY LenProperties DEF ReporterInv, ReporterTypeOK, Shown, Written
<1>2. UNCHANGED <<run, row, told, rep, failures, trigger>> /\ failures + deletions < MaxFailures /\ deletions' = deletions + 1
    BY DEF Deleted
<1>3. Gone \in Shown /\ Gone \in Written
    BY DEF Shown, Written
<1>4. HubGrows
    <2>1. CASE checkRunID # None /\ checks' = [checks EXCEPT ![checkRunID] = Gone] /\ UNCHANGED comments
        <3>1. checkRunID \in 1 .. Len(checks)
            BY <1>1, <2>1 DEF ReporterInv, ReporterTypeOK, None
        <3>2. checks' \in Seq(Shown) /\ Len(checks') = Len(checks)
            BY <1>1, <1>3, <2>1, <3>1, ExceptSeq
        <3> QED
            BY <1>1, <1>2, <2>1, <3>2 DEF HubGrows, ReporterInv, ReporterTypeOK
    <2>2. CASE prCommentID # None /\ comments' = [comments EXCEPT ![prCommentID] = Gone] /\ UNCHANGED checks
        <3>1. prCommentID \in 1 .. Len(comments)
            BY <1>1, <2>2 DEF ReporterInv, ReporterTypeOK, None
        <3>2. comments' \in Seq(Written) /\ Len(comments') = Len(comments)
            BY <1>1, <1>3, <2>2, <3>1, ExceptSeq
        <3> QED
            BY <1>1, <1>2, <2>2, <3>2 DEF HubGrows, ReporterInv, ReporterTypeOK
    <2> QED
        BY <2>1, <2>2 DEF Deleted
<1>5. failures' \in 0 .. MaxFailures /\ deletions' \in 0 .. MaxFailures /\ run' \in RunStates
    BY <1>2, ReporterAssumption DEF ReporterInv, ReporterTypeOK
<1>6. PICK c \in Callers : rep' = [rep EXCEPT ![c] = rep[c]]
    BY <1>2, ReporterAssumption DEF ReporterInv, ReporterTypeOK
<1>7. PICK f : ReportOK(f) /\ rep' = [rep EXCEPT ![c] = f]
    BY <1>6 DEF ReporterInv
<1>8. ReportOK(f)'
    BY <1>4, <1>7, ReportStays
<1> QED
    BY <1>2, <1>4, <1>5, <1>7, <1>8, RowStays, ReportStep

\* It holds when the run has been created.
LEMMA ReporterInit == Init => ReporterInv
<1> SUFFICES ASSUME Init PROVE ReporterInv
    OBVIOUS
<1>1. checks \in Seq(Shown) /\ comments \in Seq(Written) /\ Len(checks) = 0 /\ Len(comments) = 0
    BY EmptySeq DEF Init
<1>2. NoReport \in ReportRecords /\ NoReport.pc = "idle"
    BY <1>1 DEF NoReport, ReportRecords, None, Absent
<1>3. rep \in [Callers -> ReportRecords] /\ \A c \in Callers : ReportOK(rep[c])
    BY <1>2 DEF Init, ReportOK
<1>4. ReporterTypeOK
    BY <1>1, <1>3, ReporterAssumption DEF Init, ReporterTypeOK, ReportRecords, RunStates, None, Shown, Written
<1> QED
    BY <1>3, <1>4 DEF Init, ReporterInv, RowWasPublished, ReportedAfterPublished, Absent

\* Every step keeps it.
LEMMA ReporterInvStep == ReporterInv /\ [Next]_vars => ReporterInv'
<1> SUFFICES ASSUME ReporterInv, [Next]_vars PROVE ReporterInv'
    OBVIOUS
<1>1. ASSUME NEW c \in Callers, Failure(c) PROVE ReporterInv'
    <2>1. failures' \in 0 .. MaxFailures /\ deletions' \in 0 .. MaxFailures
        BY <1>1, ReporterAssumption DEF Failure, ReporterInv, ReporterTypeOK
    <2> QED
        BY <1>1, <2>1, EndKeeps DEF Failure, ReportFails
<1>2. ASSUME NEW c \in Callers, ReportRun(c) PROVE ReporterInv'
    BY <1>2, ReadKeeps, CheckKeeps, CommentKeeps, NotFoundKeeps, UpsertKeeps, MarkKeeps DEF ReportRun
<1>3. CASE UNCHANGED vars
    BY <1>3 DEF vars, row, hub, faults, ReporterInv, ReporterTypeOK, ReportOK, ReportRecords, RowWasPublished,
           ReportedAfterPublished
<1> QED
    BY <1>1, <1>2, <1>3, MovesKeep, DeletedKeeps DEF Next

\* The invariant holds, whichever reports overlap and whatever fails.
THEOREM ReporterInvariant == Spec => []ReporterInv
BY ReporterInit, ReporterInvStep, PTL DEF Spec

\* The row, GitHub and the reports keep their types.
THEOREM ReporterTypeCorrect == Spec => []ReporterTypeOK
<1>1. ReporterInv => ReporterTypeOK
    BY DEF ReporterInv
<1> QED
    BY <1>1, ReporterInvariant, PTL

\* A run is REPORTED only after GitHub was told its final state, on a pull
\* request in a comment too.
THEOREM ReportedIsPublished == Spec => []ReportedAfterPublished
<1>1. ReporterInv => ReportedAfterPublished
    BY DEF ReporterInv
<1> QED
    BY <1>1, ReporterInvariant, PTL

\* A report is skipped only for a state that was published: the row never runs
\* ahead of GitHub.
THEOREM SkippedWasPublished == Spec => []RowWasPublished
<1>1. ReporterInv => RowWasPublished
    BY DEF ReporterInv
<1> QED
    BY <1>1, ReporterInvariant, PTL

(***************************************************************************)
(* The stored ids settle.                                                  *)
(***************************************************************************)

\* Until something is deleted at GitHub, everything that is there can be updated.
NothingGone == deletions = 0 => checks \in Seq(Shown \ {Gone}) /\ comments \in Seq(RunStates)

LEMMA NothingDeleted ==
    ASSUME ReporterInv, [Next]_vars, deletions' = 0
    PROVE  ~Deleted /\ deletions' = deletions
<1>1. deletions \in 0 .. MaxFailures
    BY DEF ReporterInv, ReporterTypeOK
<1>2. ~Deleted
    BY <1>1, ReporterAssumption DEF Deleted
<1>3. UNCHANGED faults \/ UNCHANGED deletions
    BY <1>2 DEF Next, HandlerReports, ReportRun, Failure, StarterMoves, UnreportedMove, ReadRun,
           ReadReport, PublishCheck, PublishComment, IsNotFound, UpsertStatusReport, MarkReported, vars
<1> QED
    BY <1>2, <1>3 DEF faults

LEMMA GoneInit == Init => NothingGone
BY EmptySeq DEF Init, NothingGone

LEMMA GoneStep == ReporterInv /\ NothingGone /\ [Next]_vars => NothingGone'
<1> SUFFICES ASSUME ReporterInv, NothingGone, [Next]_vars, deletions' = 0
             PROVE  checks' \in Seq(Shown \ {Gone}) /\ comments' \in Seq(RunStates)
    BY DEF NothingGone
<1>1. ~Deleted /\ deletions' = deletions
    BY NothingDeleted
<1>2. checks \in Seq(Shown \ {Gone}) /\ comments \in Seq(RunStates)
    BY <1>1 DEF NothingGone
<1>3. ASSUME NEW c \in Callers, PublishCheck(c) PROVE checks' \in Seq(Shown \ {Gone}) /\ comments' = comments
    <2>1. rep[c].run \in RunStates /\ rep[c].check \in 0 .. Len(checks)
        BY <1>3 DEF PublishCheck, ReporterInv, ReportOK, ReportRecords
    <2>2. PICK shown \in Shown \ {Gone} : shown = mapRunToCheck(rep[c].run)
        BY <2>1 DEF mapRunToCheck, Shown, Completed, Gone
    <2>3. CASE rep[c].check = None /\ checks' = Append(checks, shown)
        BY <1>2, <1>3, <2>2, <2>3, AppendProperties DEF PublishCheck
    <2>4. CASE rep[c].check # None /\ checks' = [checks EXCEPT ![rep[c].check] = shown]
        <3>1. rep[c].check \in 1 .. Len(checks)
            BY <1>2, <2>1, <2>4, LenProperties DEF None
        <3> QED
            BY <1>2, <1>3, <2>2, <2>4, <3>1, ExceptSeq DEF PublishCheck
    <2> QED
        BY <1>3, <2>2, <2>3, <2>4 DEF PublishCheck
<1>4. ASSUME NEW c \in Callers, PublishComment(c) PROVE comments' \in Seq(RunStates) /\ checks' = checks
    <2>1. rep[c].run \in RunStates /\ rep[c].comment \in 0 .. Len(comments)
        BY <1>4 DEF PublishComment, ReporterInv, ReportOK, ReportRecords
    <2>2. CASE rep[c].comment = None /\ comments' = Append(comments, rep[c].run)
        BY <1>2, <1>4, <2>1, <2>2, AppendProperties DEF PublishComment
    <2>3. CASE rep[c].comment # None /\ comments' = [comments EXCEPT ![rep[c].comment] = rep[c].run]
        <3>1. rep[c].comment \in 1 .. Len(comments)
            BY <1>2, <2>1, <2>3, LenProperties DEF None
        <3> QED
            BY <1>2, <1>4, <2>1, <2>3, <3>1, ExceptSeq DEF PublishComment
    <2> QED
        BY <1>4, <2>2, <2>3 DEF PublishComment
<1>5. CASE UNCHANGED <<checks, comments>>
    BY <1>2, <1>5
<1>6. \/ UNCHANGED <<checks, comments>>
      \/ \E c \in Callers : PublishCheck(c) \/ PublishComment(c)
    BY <1>1 DEF Next, HandlerReports, ReportRun, Failure, StarterMoves, UnreportedMove, ReadRun, ReadReport,
           IsNotFound, UpsertStatusReport, MarkReported, vars, hub
<1> QED
    BY <1>2, <1>3, <1>4, <1>5, <1>6

\* A report works on the stored check run; on the stored comment, or on none.
KnowsCheck(f)   == f.pc \in {"check", "comment", "upsert"} => f.check = checkRunID
KnowsComment(f) == f.pc \in {"check", "comment", "upsert"} =>
                       f.comment = prCommentID \/ (f.comment = None /\ ~isTerminalState(f.run))

\* What one report does leaves the others as they were.
LEMMA SettledStep ==
    ASSUME ReporterInv, NEW c \in Callers, NEW f, rep' = [rep EXCEPT ![c] = f]
    PROVE  /\ CheckSettled /\ checkRunID' = checkRunID /\ KnowsCheck(f) => CheckSettled'
           /\ CommentSettled /\ prCommentID' = prCommentID /\ KnowsComment(f) => CommentSettled'
<1>1. \A d \in Callers : rep'[d] = IF d = c THEN f ELSE rep[d]
    BY DEF ReporterInv, ReporterTypeOK
<1>2. ASSUME CheckSettled, checkRunID' = checkRunID, KnowsCheck(f) PROVE CheckSettled'
    BY <1>1, <1>2 DEF CheckSettled, KnowsCheck, Publishing
<1>3. ASSUME CommentSettled, prCommentID' = prCommentID, KnowsComment(f) PROVE CommentSettled'
    BY <1>1, <1>3 DEF CommentSettled, KnowsComment, Publishing
<1> QED
    BY <1>2, <1>3

\* What a step keeps once the ids are settled.
SettledStays ==
    /\ CheckSettled => CheckSettled' /\ checkRunID' = checkRunID /\ Len(checks') = Len(checks)
    /\ CommentSettled => CommentSettled' /\ prCommentID' = prCommentID /\ Len(comments') = Len(comments)

\* A report that knows both ids goes on, or ends.
LEMMA PlainSettled ==
    ASSUME ReporterInv, NEW c \in Callers, NEW f, rep' = [rep EXCEPT ![c] = f],
           KnowsCheck(f), KnowsComment(f), UNCHANGED <<checkRunID, prCommentID, checks, comments>>
    PROVE  SettledStays
BY SettledStep DEF SettledStays

\* The steps of one report.
LEMMA ReportSettled ==
    ASSUME ReporterInv, NothingGone, deletions = 0, NEW c \in Callers, ReportRun(c)
    PROVE  SettledStays
<1>1. /\ rep[c] \in ReportRecords /\ ReportOK(rep[c])
      /\ checks \in Seq(Shown \ {Gone}) /\ comments \in Seq(RunStates)
      /\ Len(checks) \in Nat /\ Len(comments) \in Nat
    BY LenProperties DEF ReporterInv, ReportOK, NothingGone
<1>2. CASE Ends(c) /\ UNCHANGED <<checkRunID, prCommentID, checks, comments>>
    <2>1. KnowsCheck(NoReport) /\ KnowsComment(NoReport)
        BY DEF KnowsCheck, KnowsComment, NoReport
    <2> QED
        BY <1>2, <2>1, PlainSettled DEF Ends
<1>3. CASE ReadRun(c) /\ ~Ends(c)
    <2>1. PICK f : f = [rep[c] EXCEPT !.pc = "readReport", !.run = run]
        OBVIOUS
    <2>2. KnowsCheck(f) /\ KnowsComment(f)
        BY <1>1, <2>1 DEF KnowsCheck, KnowsComment, ReportRecords
    <2> QED
        BY <1>3, <2>1, <2>2, PlainSettled DEF ReadRun, row, hub
<1>4. CASE ReadReport(c) /\ ~Ends(c)
    <2>1. PICK f : f = [rep[c] EXCEPT !.pc = "check", !.check = checkRunID, !.comment = prCommentID]
        OBVIOUS
    <2>2. KnowsCheck(f) /\ KnowsComment(f)
        BY <1>1, <2>1 DEF KnowsCheck, KnowsComment, ReportRecords
    <2> QED
        BY <1>4, <2>1, <2>2, PlainSettled DEF ReadReport, row, hub
<1>5. CASE PublishCheck(c)
    <2>1. PICK f : /\ rep' = [rep EXCEPT ![c] = f] /\ f.comment = rep[c].comment /\ f.run = rep[c].run
                   /\ rep[c].check # None => f.check = rep[c].check
        <3>1. PICK g : g = [rep[c] EXCEPT !.pc = AfterCheck(c), !.check = Len(checks) + 1]
            OBVIOUS
        <3>2. PICK h : h = [rep[c] EXCEPT !.pc = AfterCheck(c)]
            OBVIOUS
        <3>3. g.comment = rep[c].comment /\ g.run = rep[c].run
            BY <1>1, <3>1 DEF ReportRecords
        <3>4. h.comment = rep[c].comment /\ h.run = rep[c].run /\ h.check = rep[c].check
            BY <1>1, <3>2 DEF ReportRecords
        <3>5. (rep[c].check = None /\ rep' = [rep EXCEPT ![c] = g]) \/ rep' = [rep EXCEPT ![c] = h]
            BY <1>5, <3>1, <3>2 DEF PublishCheck
        <3> QED
            BY <3>3, <3>4, <3>5
    <2>2. UNCHANGED <<checkRunID, prCommentID, comments>> /\ rep[c].pc = "check"
        BY <1>5 DEF PublishCheck, row
    <2>3. CommentSettled => KnowsComment(f)
        BY <2>1, <2>2 DEF CommentSettled, KnowsComment, Publishing
    <2>4. ASSUME CheckSettled PROVE KnowsCheck(f) /\ Len(checks') = Len(checks)
        <3>1. rep[c].check = checkRunID /\ checkRunID # None
            BY <2>2, <2>4 DEF CheckSettled, Publishing
        <3>2. rep[c].check \in 1 .. Len(checks)
            BY <1>1, <3>1 DEF ReportRecords, None
        <3>3. PICK shown \in Shown : shown = mapRunToCheck(rep[c].run)
            BY <1>1, <2>2, CheckShown DEF ReportOK
        <3>4. checks' = [checks EXCEPT ![rep[c].check] = shown]
            BY <1>5, <3>1, <3>3 DEF PublishCheck
        <3>5. checks \in Seq(Shown)
            BY DEF ReporterInv, ReporterTypeOK, Shown
        <3>6. Len(checks') = Len(checks)
            BY <3>2, <3>3, <3>4, <3>5, ExceptSeq
        <3> QED
            BY <2>1, <3>1, <3>6 DEF KnowsCheck
    <2> QED
        BY <2>1, <2>2, <2>3, <2>4, SettledStep DEF SettledStays
<1>6. CASE PublishComment(c)
    <2>1. PICK f : /\ rep' = [rep EXCEPT ![c] = f] /\ f.check = rep[c].check /\ f.run = rep[c].run
                   /\ rep[c].comment # None => f.comment = rep[c].comment
        <3>1. PICK g : g = [rep[c] EXCEPT !.pc = "upsert", !.comment = Len(comments) + 1]
            OBVIOUS
        <3>2. PICK h : h = [rep[c] EXCEPT !.pc = "upsert"]
            OBVIOUS
        <3>3. g.check = rep[c].check /\ g.run = rep[c].run
            BY <1>1, <3>1 DEF ReportRecords
        <3>4. h.check = rep[c].check /\ h.run = rep[c].run /\ h.comment = rep[c].comment
            BY <1>1, <3>2 DEF ReportRecords
        <3>5. (rep[c].comment = None /\ rep' = [rep EXCEPT ![c] = g]) \/ rep' = [rep EXCEPT ![c] = h]
            BY <1>6, <3>1, <3>2 DEF PublishComment
        <3> QED
            BY <3>3, <3>4, <3>5
    <2>2. UNCHANGED <<checkRunID, prCommentID, checks>> /\ rep[c].pc = "comment"
        BY <1>6 DEF PublishComment, row
    <2>3. CheckSettled => KnowsCheck(f)
        BY <2>1, <2>2 DEF CheckSettled, KnowsCheck, Publishing
    <2>4. ASSUME CommentSettled PROVE KnowsComment(f) /\ Len(comments') = Len(comments)
        <3>1. rep[c].comment = prCommentID /\ prCommentID # None
            BY <1>1, <2>2, <2>4 DEF CommentSettled, Publishing, ReportOK
        <3>2. rep[c].comment \in 1 .. Len(comments)
            BY <1>1, <3>1 DEF ReportRecords, None
        <3>3. comments' = [comments EXCEPT ![rep[c].comment] = rep[c].run] /\ rep[c].run \in RunStates
            BY <1>1, <1>6, <2>2, <3>1 DEF PublishComment, ReportOK
        <3>4. Len(comments') = Len(comments)
            BY <1>1, <3>2, <3>3, ExceptSeq
        <3> QED
            BY <2>1, <3>1, <3>4 DEF KnowsComment
    <2> QED
        BY <2>1, <2>2, <2>3, <2>4, SettledStep DEF SettledStays
<1>7. ~IsNotFound(c)
    <2>1. rep[c].check # None => checks[rep[c].check] # Gone
        <3> SUFFICES ASSUME rep[c].check # None PROVE checks[rep[c].check] # Gone
            OBVIOUS
        <3>1. rep[c].check \in 1 .. Len(checks)
            BY <1>1 DEF ReportRecords, None
        <3> QED
            BY <1>1, <3>1, ElementOfSeq
    <2>2. rep[c].comment # None => comments[rep[c].comment] # Gone
        <3> SUFFICES ASSUME rep[c].comment # None PROVE comments[rep[c].comment] # Gone
            OBVIOUS
        <3>1. rep[c].comment \in 1 .. Len(comments)
            BY <1>1 DEF ReportRecords, None
        <3>2. comments[rep[c].comment] \in RunStates
            BY <1>1, <3>1, ElementOfSeq
        <3> QED
            BY <3>2 DEF RunStates, Gone
    <2> QED
        BY <2>1, <2>2 DEF IsNotFound
<1>8. CASE UpsertStatusReport(c)
    <2>1. PICK f : f = [rep[c] EXCEPT !.pc = "mark"] /\ rep' = [rep EXCEPT ![c] = f]
        BY <1>8 DEF UpsertStatusReport
    <2>2. f.pc = "mark"
        BY <1>1, <2>1 DEF ReportRecords
    <2>3. KnowsCheck(f) /\ KnowsComment(f)
        BY <2>2 DEF KnowsCheck, KnowsComment
    <2>4. CheckSettled => checkRunID' = checkRunID
        BY <1>8 DEF CheckSettled, Publishing, UpsertStatusReport
    <2>5. CommentSettled => prCommentID' = prCommentID
        BY <1>8 DEF CommentSettled, Publishing, UpsertStatusReport
    <2>6. UNCHANGED <<checks, comments>>
        BY <1>8 DEF UpsertStatusReport, hub
    <2> QED
        BY <2>1, <2>3, <2>4, <2>5, <2>6, SettledStep DEF SettledStays
<1>9. CASE MarkReported(c)
    BY <1>2, <1>9 DEF MarkReported, row, hub
<1>10. CASE Ends(c) /\ (ReadRun(c) \/ ReadReport(c))
    BY <1>2, <1>10 DEF ReadRun, ReadReport, row, hub
<1> QED
    BY <1>3, <1>4, <1>5, <1>6, <1>7, <1>8, <1>9, <1>10 DEF ReportRun

\* Once every report under way works on the stored check run and comment, their
\* ids stay and no second one is created, whatever moves, overlaps, fails and is
\* retried, until something is deleted at GitHub (UpsertStatusReport's COALESCE).
THEOREM IdsAlwaysSettle == Spec => IdsSettle
<1>1. ASSUME ReporterInv, NothingGone, [Next]_vars, deletions' = 0 PROVE SettledStays
    <2>1. ~Deleted /\ deletions = 0
        BY <1>1, NothingDeleted
    <2>2. ASSUME NEW c \in Callers, ReportRun(c) PROVE SettledStays
        BY <1>1, <2>1, <2>2, ReportSettled
    <2>3. ASSUME NEW c \in Callers, Failure(c) PROVE SettledStays
        <3>1. KnowsCheck(NoReport) /\ KnowsComment(NoReport)
            BY DEF KnowsCheck, KnowsComment, NoReport
        <3> QED
            BY <1>1, <2>3, <3>1, PlainSettled DEF Failure, ReportFails, Ends, row, hub
    <2>4. ASSUME NEW c \in Callers, Reports(c), UNCHANGED <<row, hub>> PROVE SettledStays
        <3>1. PICK f : f = [rep[c] EXCEPT !.pc = "readRun"] /\ rep' = [rep EXCEPT ![c] = f]
            BY <2>4 DEF Reports
        <3>2. KnowsCheck(f) /\ KnowsComment(f)
            BY <1>1, <3>1 DEF KnowsCheck, KnowsComment, ReporterInv, ReportOK, ReportRecords
        <3> QED
            BY <1>1, <2>4, <3>1, <3>2, PlainSettled DEF row, hub
    <2>5. ASSUME UNCHANGED <<row, hub, rep>> PROVE SettledStays
        BY <2>5 DEF SettledStays, CheckSettled, CommentSettled, Publishing, row, hub
    <2>6. \/ \E c \in Callers : ReportRun(c) \/ Failure(c)
          \/ \E c \in Callers : Reports(c) /\ UNCHANGED <<row, hub>>
          \/ UNCHANGED <<row, hub, rep>>
        BY <1>1, <2>1, ReporterAssumption DEF Next, HandlerReports, StarterMoves, UnreportedMove, vars
    <2> QED
        BY <2>2, <2>3, <2>4, <2>5, <2>6
<1>2. ReporterInv /\ NothingGone /\ [Next]_vars =>
          [deletions' = 0 =>
              /\ CheckSettled => CheckSettled' /\ checkRunID' = checkRunID /\ Len(checks') = Len(checks)
              /\ CommentSettled =>
                    CommentSettled' /\ prCommentID' = prCommentID /\ Len(comments') = Len(comments)]_vars
    BY <1>1 DEF SettledStays
<1>3. Spec => []NothingGone
    BY ReporterInvariant, GoneInit, GoneStep, PTL DEF Spec
<1> QED
    BY <1>2, <1>3, ReporterInvariant, PTL DEF Spec, IdsSettle
=============================================================================
