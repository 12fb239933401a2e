------------------------------- MODULE Reports -------------------------------
(***************************************************************************)
(* Requests for reports (ReportsService), the queue in memory that runs    *)
(* their jobs (ReportJobQueue), the files they leave (FilesService), and   *)
(* restarts of the process.                                                *)
(*                                                                         *)
(* reports, files and trail are committed rows, blobs the files on disk;   *)
(* queue, running and job are in the memory of the process. A report, its  *)
(* job, its file and its audit row are known by the report's position in   *)
(* reports. What the payload holds is left out: its reads and the          *)
(* generator only succeed or fail.                                         *)
(***************************************************************************)
EXTENDS Naturals, Sequences, FiniteSets

CONSTANTS
  MaxConcurrentJobs,   \* MAX_CONCURRENT_JOBS (2)
  MaxReports,          \* bound: rows of report_history
  MaxRestarts          \* bound: restarts of the process

ASSUME JobsAssumption == MaxConcurrentJobs \in Nat \ {0}

ASSUME BoundsAssumption == {MaxReports, MaxRestarts} \subseteq Nat

VARIABLES
  reports,    \* report_history, in the order of the INSERTs
  files,      \* the reports whose row of files has been inserted
  blobs,      \* the reports whose bytes are on disk
  trail,      \* the reports with a REPORT_GENERATED row in audit_logs
  queue,      \* ReportJobQueue.queue
  running,    \* ReportJobQueue.running
  job,        \* where each report's job is
  restarts    \* how often the process has started again

vars == <<reports, files, blobs, trail, queue, running, job, restarts>>

-----------------------------------------------------------------------------
Ids == 1..MaxReports

\* file is fileId, as far as it is NULL or not.
Report == [status : {"PENDING", "PROCESSING", "COMPLETED", "FAILED"}, file : BOOLEAN]

\* Where runJob() is, up to its end: settled or rejected with the queue not yet
\* told.
UnderWay == {"begin", "build", "blob", "row", "complete", "audit", "fail",
             "settled", "rejected"}

\* "saved": the row is committed, requestReport() does not know yet. "unheard": nor
\* will it. "lost": the queue or the job ended without the report.
PCs == {"none", "saved", "unheard", "queued", "done", "lost"} \cup UnderWay

Active == {i \in Ids : job[i] \in UnderWay}

Init ==
  /\ reports = <<>>
  /\ files = {} /\ blobs = {} /\ trail = {}
  /\ queue = <<>> /\ running = 0
  /\ job = [i \in Ids |-> "none"]
  /\ restarts = 0

-----------------------------------------------------------------------------
(* ReportJobQueue. A call of it is one turn of the event loop.              *)

\* What an off-by-one in the condition of drain() would do.
DrainOneMore(q, j, n) ==
  LET begun == IF n > MaxConcurrentJobs THEN 0
               ELSE IF Len(q) < MaxConcurrentJobs + 1 - n
                      THEN Len(q) ELSE MaxConcurrentJobs + 1 - n IN
  /\ queue' = SubSeq(q, begun + 1, Len(q))
  /\ running' = n + begun
  /\ job' = [i \in Ids |-> IF \E m \in 1..begun : q[m] = i THEN "begin" ELSE j[i]]

\* drain(): jobs begin, in order, while there are both a job and a free slot.
Drain(q, j, n) ==
  LET begun == IF n >= MaxConcurrentJobs THEN 0
               ELSE IF Len(q) < MaxConcurrentJobs - n
                      THEN Len(q) ELSE MaxConcurrentJobs - n IN
  /\ queue' = SubSeq(q, begun + 1, Len(q))
  /\ running' = n + begun
  /\ job' = [i \in Ids |-> IF \E m \in 1..begun : q[m] = i THEN "begin" ELSE j[i]]

Enqueue(i) ==
  /\ job[i] = "saved"
  /\ Drain(Append(queue, i), [job EXCEPT ![i] = "queued"], running)
  /\ UNCHANGED <<reports, files, blobs, trail, restarts>>

\* What handlers would do that both count the job.
JobEndsCountedTwice(i) ==
  /\ job[i] \in {"settled", "rejected"}
  /\ Drain(queue, [job EXCEPT ![i] = IF @ = "settled" THEN "done" ELSE "lost"],
           running - (IF job[i] = "settled" THEN 1 ELSE 2))
  /\ UNCHANGED <<reports, files, blobs, trail, restarts>>

\* What a then() in the place of finally() would do.
JobEndsResolvedOnly(i) ==
  /\ \/ job[i] = "settled" /\ Drain(queue, [job EXCEPT ![i] = "done"], running - 1)
     \/ /\ job[i] = "rejected" /\ job' = [job EXCEPT ![i] = "lost"]
        /\ UNCHANGED <<queue, running>>
  /\ UNCHANGED <<reports, files, blobs, trail, restarts>>

\* What a finally() that does not drain() would do.
JobEndsNoDrain(i) ==
  /\ job[i] \in {"settled", "rejected"}
  /\ job' = [job EXCEPT ![i] = IF @ = "settled" THEN "done" ELSE "lost"]
  /\ running' = running - 1
  /\ UNCHANGED <<queue, reports, files, blobs, trail, restarts>>

\* The handlers catch() and finally() of the job's promise.
JobEnds(i) ==
  /\ job[i] \in {"settled", "rejected"}
  /\ Drain(queue, [job EXCEPT ![i] = IF @ = "settled" THEN "done" ELSE "lost"],
           running - 1)
  /\ UNCHANGED <<reports, files, blobs, trail, restarts>>

-----------------------------------------------------------------------------
(* ReportsService. A statement that is sent is executed or not, and is      *)
(* answered or not: without an answer it counts as failed.                  *)

\* requestReport(): the INSERT. Bound: reports.
RequestReport ==
  /\ Len(reports) < MaxReports
  /\ reports' = Append(reports, [status |-> "PENDING", file |-> FALSE])
  /\ \E pc \in {"saved", "unheard"} : job' = [job EXCEPT ![Len(reports) + 1] = pc]
  /\ UNCHANGED <<files, blobs, trail, queue, running, restarts>>

\* A statement of the job has been executed; with an answer the job goes on.
Goes(i, next, otherwise) ==
  /\ \E pc \in {next, otherwise} : job' = [job EXCEPT ![i] = pc]
  /\ UNCHANGED <<queue, running, restarts>>

\* runJob(): the UPDATE before its try.
BeginJob(i) ==
  /\ job[i] = "begin"
  /\ reports' = [reports EXCEPT ![i].status = "PROCESSING"]
  /\ Goes(i, "build", "rejected")
  /\ UNCHANGED <<files, blobs, trail>>

\* buildPayload() and the generator.
BuildPayload(i) ==
  /\ job[i] = "build"
  /\ Goes(i, "blob", "fail")
  /\ UNCHANGED <<reports, files, blobs, trail>>

\* What a store() would do that does not wait for the bytes.
WriteBlobNotAwaited(i) ==
  /\ job[i] = "blob"
  /\ blobs' \in {blobs, blobs \cup {i}}
  /\ Goes(i, "row", "fail")
  /\ UNCHANGED <<reports, files, trail>>

\* store(): the check of the size, the bytes, whole or in part.
WriteBlob(i) ==
  /\ job[i] = "blob"
  /\ blobs' = blobs \cup {i}
  /\ Goes(i, "row", "fail")
  /\ UNCHANGED <<reports, files, trail>>

\* store(): the row.
InsertFile(i) ==
  /\ job[i] = "row"
  /\ files' = files \cup {i}
  /\ Goes(i, "complete", "fail")
  /\ UNCHANGED <<reports, blobs, trail>>

CompleteReport(i) ==
  /\ job[i] = "complete"
  /\ reports' = [reports EXCEPT ![i] = [status |-> "COMPLETED", file |-> TRUE]]
  /\ Goes(i, "audit", "fail")
  /\ UNCHANGED <<files, blobs, trail>>

AuditReport(i) ==
  /\ job[i] = "audit"
  /\ trail' = trail \cup {i}
  /\ Goes(i, "settled", "fail")
  /\ UNCHANGED <<reports, files, blobs>>

\* What a catch clause that only logs would do.
FailReportSilently(i) ==
  /\ job[i] = "fail"
  /\ Goes(i, "settled", "rejected")
  /\ UNCHANGED <<reports, files, blobs, trail>>

\* The catch clause, whatever had been reached: fileId stays as it is.
FailReport(i) ==
  /\ job[i] = "fail"
  /\ reports' = [reports EXCEPT ![i].status = "FAILED"]
  /\ Goes(i, "settled", "rejected")
  /\ UNCHANGED <<files, blobs, trail>>

\* A statement of the job, or what it reads and computes, fails.
JobFails(i) ==
  /\ \/ /\ job[i] \in {"build", "blob", "row", "complete", "audit"}
        /\ job' = [job EXCEPT ![i] = "fail"]
     \/ /\ job[i] \in {"begin", "fail"}
        /\ job' = [job EXCEPT ![i] = "rejected"]
  /\ UNCHANGED <<reports, files, blobs, trail, queue, running, restarts>>

-----------------------------------------------------------------------------
\* The process stops, by a deployment or a crash, and starts again with an empty
\* queue. Nothing looks for reports that were PENDING or PROCESSING.
Restart ==
  /\ restarts < MaxRestarts
  /\ restarts' = restarts + 1
  /\ queue' = <<>> /\ running' = 0
  /\ job' = [i \in Ids |->
       CASE job[i] = "saved" -> "unheard"
         [] job[i] \in {"queued"} \cup UnderWay -> "lost"
         [] OTHER -> job[i]]
  /\ UNCHANGED <<reports, files, blobs, trail>>

\* The steps by which a report gets on once it has been requested.
Advance(i) ==
  \/ Enqueue(i)
  \/ BeginJob(i)
  \/ BuildPayload(i)
  \/ WriteBlob(i)
  \/ InsertFile(i)
  \/ CompleteReport(i)
  \/ AuditReport(i)
  \/ FailReport(i)
  \/ JobFails(i)
  \/ JobEnds(i)

Next ==
  \/ RequestReport
  \/ \E i \in Ids : Advance(i)
  \/ Restart

Spec == Init /\ [][Next]_vars

\* The event loop runs what is ready, and a statement or a write to the disk is
\* answered or fails (statement_timeout, a closed connection).
Fairness == \A i \in Ids : WF_vars(Advance(i))

FairSpec == Spec /\ Fairness

-----------------------------------------------------------------------------
(* Properties.                                                              *)

TypeOK ==
  /\ reports \in Seq(Report) /\ Len(reports) <= MaxReports
  /\ files \subseteq Ids /\ blobs \subseteq Ids /\ trail \subseteq Ids
  /\ queue \in Seq(Ids)
  /\ running \in Nat
  /\ job \in [Ids -> PCs]
  /\ restarts \in Nat

\* ReportJobQueue.running counts the jobs under way, also after jobs that rejected
\* and after a restart; there are MAX_CONCURRENT_JOBS at most, and all slots are in
\* use whenever a job waits: no slot is lost and no wake-up is missed.
SlotsAccounted ==
  /\ running = Cardinality(Active)
  /\ running <= MaxConcurrentJobs
  /\ queue # <<>> => running = MaxConcurrentJobs

\* The queue in memory is the queue one would specify: first come first served,
\* every job at most once.
TheQueue == INSTANCE JobQueue WITH
  Jobs <- Ids, Limit <- MaxConcurrentJobs, waiting <- queue, active <- Active,
  submitted <- {i \in Ids : job[i] \notin {"none", "saved", "unheard"}}

ImplementsJobQueue == TheQueue!Spec

\* What GET /reports/:id/download answers (ReportsController.download): its reads
\* follow one another, and what they find is never taken away.
DownloadAnswer(i) ==
  CASE ~(reports[i].status = "COMPLETED" /\ reports[i].file) -> "not ready"
    [] i \notin files -> "report file not found"
    [] i \notin blobs -> "no such file on disk"
    [] OTHER -> "the file"

\* A report that says COMPLETED can be downloaded, whatever failed or was
\* interrupted on the way.
CompletedIsThere ==
  \A i \in DOMAIN reports :
    reports[i].status = "COMPLETED" => DownloadAnswer(i) = "the file"

\* A job that has run to its end without losing its own error leaves a report that
\* is COMPLETED and in the audit trail, or FAILED.
EndedJobsAreTold ==
  \A i \in Ids : job[i] = "done" =>
    /\ i \in DOMAIN reports
    /\ \/ reports[i].status = "COMPLETED" /\ i \in trail
       \/ reports[i].status = "FAILED"

\* Every report becomes COMPLETED or FAILED in the end, unless a restart, or an
\* UPDATE that failed, has lost its job: then it may stay PENDING or PROCESSING.
EveryReportIsSettled ==
  \A i \in Ids :
    job[i] = "saved" ~> \/ job[i] \in {"unheard", "lost"}
                        \/ i \in DOMAIN reports
                             /\ reports[i].status \in {"COMPLETED", "FAILED"}

=============================================================================
