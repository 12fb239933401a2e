---------------------------- MODULE ReportsProofs ----------------------------
(***************************************************************************)
(* Theorems about Reports, for any limit of the queue and any bounds.      *)
(*                                                                         *)
(* The invariant adds to the properties what they rest on: the queue holds *)
(* reports whose jobs are queued, each once, and what a job has reached is *)
(* on disk and in the tables.                                              *)
(***************************************************************************)
EXTENDS Reports, SequenceTheorems, FiniteSetTheorems, TLAPS

QueueShape ==
  \A k, l \in 1..Len(queue) :
    job[queue[k]] = "queued" /\ (queue[k] = queue[l] => k = l)

Shape(i) ==
  /\ job[i] # "none" => i \in 1..Len(reports)
  /\ job[i] \in {"row", "complete"} => i \in blobs
  /\ job[i] = "complete" => i \in files
  /\ i \in 1..Len(reports) =>
       /\ reports[i].status = "COMPLETED" =>
            reports[i].file /\ i \in files /\ i \in blobs
       /\ job[i] = "audit" => reports[i].status = "COMPLETED"
       /\ job[i] \in {"settled", "done"} =>
            \/ reports[i].status = "COMPLETED" /\ i \in trail
            \/ reports[i].status = "FAILED"

Inv == TypeOK /\ SlotsAccounted /\ QueueShape /\ \A i \in Ids : Shape(i)

-----------------------------------------------------------------------------
(* The queue.                                                               *)

LEMMA ActiveFinite ==
  IsFiniteSet(Active) /\ Cardinality(Active) \in Nat
  <1>1. MaxReports \in Nat
    BY BoundsAssumption
  <1>2. IsFiniteSet(Ids)
    BY <1>1, FS_Interval DEF Ids
  <1>3. Active \in SUBSET Ids
    BY DEF Active
  <1>4. IsFiniteSet(Active)
    BY <1>2, <1>3, FS_Subset
  <1> QED BY <1>4, FS_CardinalityType

\* drain() begins nothing where it has no job or no slot.
LEMMA DrainNone ==
  ASSUME NEW q \in Seq(Ids), NEW j \in [Ids -> PCs], NEW n \in Nat,
         Drain(q, j, n), q = <<>> \/ n >= MaxConcurrentJobs
  PROVE  queue' = q /\ job' = j /\ running' = n
  <1>1. MaxConcurrentJobs \in Nat /\ Len(q) \in Nat
    BY JobsAssumption
  <1> DEFINE begun == IF n >= MaxConcurrentJobs THEN 0
                      ELSE IF Len(q) < MaxConcurrentJobs - n
                             THEN Len(q) ELSE MaxConcurrentJobs - n
  <1>2. begun = 0
    BY <1>1
  <1>3. /\ queue' = SubSeq(q, begun + 1, Len(q))
        /\ running' = n + begun
        /\ job' = [i \in Ids |-> IF \E m \in 1..begun : q[m] = i THEN "begin" ELSE j[i]]
    BY DEF Drain
  <1> HIDE DEF begun
  <1>4. queue' = SubSeq(q, 1, Len(q)) /\ running' = n
    BY <1>2, <1>3
  <1>5. SubSeq(q, 1, Len(q)) = q
    BY SubSeqFull
  <1>6. job' = [i \in Ids |-> j[i]]
    BY <1>2, <1>3
  <1> QED BY <1>4, <1>5, <1>6

\* Where there is one slot, or one job, drain() begins the first job.
LEMMA DrainOne ==
  ASSUME NEW q \in Seq(Ids), NEW j \in [Ids -> PCs], NEW n \in Nat,
         Drain(q, j, n), q # <<>>, n < MaxConcurrentJobs,
         Len(q) = 1 \/ n = MaxConcurrentJobs - 1
  PROVE  queue' = Tail(q) /\ job' = [j EXCEPT ![Head(q)] = "begin"] /\ running' = n + 1
  <1>1. MaxConcurrentJobs \in Nat /\ Len(q) \in Nat /\ Len(q) >= 1
        /\ Head(q) = q[1] /\ q[1] \in Ids
    BY JobsAssumption
  <1> DEFINE begun == IF n >= MaxConcurrentJobs THEN 0
                      ELSE IF Len(q) < MaxConcurrentJobs - n
                             THEN Len(q) ELSE MaxConcurrentJobs - n
  <1>2. begun = 1
    <2>1. ~(n >= MaxConcurrentJobs) /\ MaxConcurrentJobs - n \in Nat \ {0}
      BY <1>1
    <2>2. CASE Len(q) = 1
      BY <2>1, <2>2
    <2>3. CASE n = MaxConcurrentJobs - 1
      BY <1>1, <2>1, <2>3
    <2> QED BY <2>2, <2>3
  <1>3. /\ queue' = SubSeq(q, begun + 1, Len(q))
        /\ running' = n + begun
        /\ job' = [i \in Ids |-> IF \E m \in 1..begun : q[m] = i THEN "begin" ELSE j[i]]
    BY DEF Drain
  <1> HIDE DEF begun
  <1>4. queue' = SubSeq(q, 2, Len(q)) /\ running' = n + 1
    BY <1>2, <1>3
  <1>5. SubSeq(q, 2, Len(q)) = Tail(q)
    BY TailIsSubSeq
  <1>6. job' = [i \in Ids |-> IF q[1] = i THEN "begin" ELSE j[i]]
    BY <1>2, <1>3
  <1>7. job' = [j EXCEPT ![q[1]] = "begin"]
    BY <1>1, <1>6
  <1> QED BY <1>1, <1>4, <1>5, <1>7

\* What a step of the queue may do to the jobs: those it touches have been saved or
\* queued or have ended, and begin, wait or are over then.
Touched ==
  \A k \in Ids :
    \/ job'[k] = job[k]
    \/ job[k] \in {"saved", "queued"} /\ job'[k] \in {"queued", "begin"}
    \/ job[k] = "settled" /\ job'[k] = "done"
    \/ job[k] = "rejected" /\ job'[k] = "lost"

QueueTyped == queue' \in Seq(Ids) /\ job' \in [Ids -> PCs] /\ running' \in Nat

\* JobQueue has a Cardinality of its own.
LEMMA SameCardinality ==
  ASSUME NEW S
  PROVE  TheQueue!Cardinality(S) = Cardinality(S)
  BY DEF TheQueue!Cardinality, Cardinality

LEMMA EnqueueStep ==
  ASSUME Inv, NEW i \in Ids, Enqueue(i)
  PROVE  QueueTyped /\ SlotsAccounted' /\ QueueShape' /\ Touched /\ TheQueue!Submit(i)
  <1> DEFINE j == [job EXCEPT ![i] = "queued"]
             q == Append(queue, i)
  <1>1. /\ queue \in Seq(Ids) /\ job \in [Ids -> PCs] /\ running \in Nat
        /\ MaxConcurrentJobs \in Nat \ {0} /\ job[i] = "saved"
        /\ running = Cardinality(Active) /\ running <= MaxConcurrentJobs
        /\ queue # <<>> => running = MaxConcurrentJobs
    BY JobsAssumption DEF Inv, TypeOK, SlotsAccounted, Enqueue
  <1>2. /\ q \in Seq(Ids) /\ Len(q) = Len(queue) + 1 /\ q # <<>> /\ q[Len(queue) + 1] = i
        /\ \A k \in 1..Len(queue) : q[k] = queue[k]
        /\ Len(queue) \in Nat
    BY <1>1, AppendProperties
  <1>3. j \in [Ids -> PCs] /\ Drain(q, j, running)
    BY <1>1 DEF PCs, Enqueue
  <1>4. CASE running = MaxConcurrentJobs
    <2>1. queue' = q /\ job' = j /\ running' = running
      <3> HIDE DEF q, j
      <3> QED BY <1>1, <1>2, <1>3, <1>4, DrainNone
    <2>2. Active' = Active
      BY <1>1, <2>1 DEF Active, UnderWay
    <2>3. QueueTyped /\ SlotsAccounted'
      <3> HIDE DEF q, j
      <3> QED BY <1>1, <1>2, <1>3, <1>4, <2>1, <2>2 DEF QueueTyped, SlotsAccounted
    <2>4. Touched
      BY <1>1, <2>1 DEF Touched
    <2>5. QueueShape'
      <3>1. \A k \in 1..Len(queue) :
              queue[k] # i /\ queue[k] \in Ids /\ job[queue[k]] = "queued"
        BY <1>1 DEF Inv, QueueShape
      <3>2. \A k \in 1..Len(queue) : q[k] # i /\ job'[q[k]] = "queued"
        BY <1>1, <1>2, <2>1, <3>1
      <3>3. job'[i] = "queued"
        BY <1>1, <2>1
      <3>4. \A k, l \in 1..Len(queue) : q[k] = q[l] => k = l
        BY <1>2 DEF Inv, QueueShape
      <3> HIDE DEF q, j
      <3> QED BY <1>2, <2>1, <3>2, <3>3, <3>4 DEF QueueShape
    <2>6. TheQueue!Submit(i)
      <3>1. ~(Cardinality(Active) < MaxConcurrentJobs)
        BY <1>1, <1>4
      <3>2. {k \in Ids : job'[k] \notin {"none", "saved", "unheard"}}
              = {k \in Ids : job[k] \notin {"none", "saved", "unheard"}} \cup {i}
        BY <1>1, <2>1
      <3> QED BY <1>1, <2>1, <2>2, <3>1, <3>2, SameCardinality DEF TheQueue!Submit
    <2> QED BY <2>3, <2>4, <2>5, <2>6
  <1>5. CASE running < MaxConcurrentJobs
    <2>1. queue = <<>> /\ Len(queue) = 0
      BY <1>1, <1>5
    <2>2. Head(q) = i /\ Tail(q) = <<>> /\ Len(q) = 1
      BY <2>1
    <2>3. queue' = <<>> /\ job' = [j EXCEPT ![i] = "begin"] /\ running' = running + 1
      <3> HIDE DEF q, j
      <3> QED BY <1>1, <1>2, <1>3, <1>5, <2>2, DrainOne
    <2>4. job' = [job EXCEPT ![i] = "begin"]
      BY <1>1, <2>3
    <2>5. Active' = Active \cup {i} /\ i \notin Active
      BY <1>1, <2>4 DEF Active, UnderWay
    <2>6. Cardinality(Active') = running + 1
      BY <1>1, <2>5, ActiveFinite, FS_AddElement
    <2>7. QueueTyped /\ SlotsAccounted' /\ QueueShape' /\ Touched
      BY <1>1, <1>5, <2>3, <2>4, <2>6
      DEF QueueTyped, SlotsAccounted, QueueShape, Touched, PCs, UnderWay
    <2>8. TheQueue!Submit(i)
      <3>1. Cardinality(Active) < MaxConcurrentJobs
        BY <1>1, <1>5
      <3>2. {k \in Ids : job'[k] \notin {"none", "saved", "unheard"}}
              = {k \in Ids : job[k] \notin {"none", "saved", "unheard"}} \cup {i}
        BY <1>1, <2>4
      <3> QED BY <1>1, <2>1, <2>3, <2>5, <3>1, <3>2, SameCardinality DEF TheQueue!Submit
    <2> QED BY <2>7, <2>8
  <1> QED BY <1>1, <1>4, <1>5

LEMMA EndStep ==
  ASSUME Inv, NEW i \in Ids, JobEnds(i)
  PROVE  QueueTyped /\ SlotsAccounted' /\ QueueShape' /\ Touched /\ TheQueue!Finish(i)
  <1> DEFINE pc == IF job[i] = "settled" THEN "done" ELSE "lost"
             j == [job EXCEPT ![i] = pc]
             submitted == {k \in Ids : job[k] \notin {"none", "saved", "unheard"}}
  <1>1. /\ queue \in Seq(Ids) /\ job \in [Ids -> PCs] /\ running \in Nat
        /\ MaxConcurrentJobs \in Nat \ {0} /\ job[i] \in {"settled", "rejected"}
        /\ running = Cardinality(Active) /\ running <= MaxConcurrentJobs
        /\ queue # <<>> => running = MaxConcurrentJobs
    BY JobsAssumption DEF Inv, TypeOK, SlotsAccounted, JobEnds
  <1>2. i \in Active /\ IsFiniteSet(Active)
    BY <1>1, ActiveFinite DEF Active, UnderWay
  <1>3. Cardinality(Active \ {i}) = running - 1 /\ running - 1 \in Nat
    <2>1. Cardinality(Active \ {i}) = running - 1
      BY <1>1, <1>2, FS_RemoveElement
    <2>2. IsFiniteSet(Active \ {i})
      BY <1>2, FS_RemoveElement
    <2> QED BY <2>1, <2>2, FS_CardinalityType
  <1>4. j \in [Ids -> PCs] /\ Drain(queue, j, running - 1)
    <2>1. [job EXCEPT ![i] = IF @ = "settled" THEN "done" ELSE "lost"] = j
      BY <1>1
    <2> QED BY <1>1, <2>1 DEF PCs, JobEnds
  <1>5. CASE queue = <<>>
    <2>1. queue' = queue /\ job' = j /\ running' = running - 1
      <3> HIDE DEF j
      <3> QED BY <1>1, <1>3, <1>4, <1>5, DrainNone
    <2>2. Active' = Active \ {i}
      BY <1>1, <2>1 DEF Active, UnderWay
    <2>3. QueueTyped /\ SlotsAccounted'
      <3> HIDE DEF j
      <3> QED BY <1>1, <1>3, <1>4, <1>5, <2>1, <2>2 DEF QueueTyped, SlotsAccounted
    <2>4. QueueShape'
      BY <1>5, <2>1 DEF QueueShape
    <2>5. Touched
      BY <1>1, <2>1 DEF Touched
    <2>6. submitted' = submitted
      BY <1>1, <2>1
    <2>7. TheQueue!Finish(i)
      <3> HIDE DEF j, submitted
      <3> QED BY <1>2, <1>5, <2>1, <2>2, <2>6 DEF TheQueue!Finish, submitted
    <2> QED BY <2>3, <2>4, <2>5, <2>7
  <1>6. CASE queue # <<>>
    <2> DEFINE h == Head(queue)
    <2>1. /\ Len(queue) \in Nat \ {0} /\ h = queue[1] /\ h \in Ids
          /\ job[h] = "queued" /\ h # i
      <3>1. /\ Len(queue) \in Nat \ {0} /\ h = queue[1] /\ h \in Ids
        BY <1>1, <1>6
      <3> QED BY <1>1, <3>1 DEF Inv, QueueShape
    <2>2. queue' = Tail(queue) /\ job' = [j EXCEPT ![h] = "begin"] /\ running' = running
      <3>1. /\ running - 1 < MaxConcurrentJobs /\ running - 1 = MaxConcurrentJobs - 1
            /\ running - 1 + 1 = running
        BY <1>1, <1>6
      <3> HIDE DEF j
      <3> QED BY <1>1, <1>3, <1>4, <1>6, <3>1, DrainOne
    <2>3. /\ job' \in [Ids -> PCs] /\ job'[h] = "begin" /\ job'[i] = pc
          /\ \A k \in Ids \ {h, i} : job'[k] = job[k]
      <3>1. j[i] = pc /\ \A k \in Ids \ {i} : j[k] = job[k]
        BY <1>1
      <3> HIDE DEF j, h, pc
      <3> QED BY <1>4, <2>1, <2>2, <3>1 DEF PCs, UnderWay
    <2>4. Active' = (Active \ {i}) \cup {h} /\ h \notin Active \ {i}
      <3> HIDE DEF h, j
      <3> QED BY <1>1, <2>1, <2>3 DEF Active, UnderWay
    <2>5. Cardinality(Active') = running
      <3>1. IsFiniteSet(Active \ {i})
        BY <1>2, FS_RemoveElement
      <3>2. Cardinality((Active \ {i}) \cup {h}) = running - 1 + 1
        BY <1>3, <2>4, <3>1, FS_AddElement
      <3> QED BY <1>1, <2>4, <3>2
    <2>6. /\ Tail(queue) \in Seq(Ids) /\ Len(Tail(queue)) = Len(queue) - 1
          /\ \A k \in 1..Len(Tail(queue)) : Tail(queue)[k] = queue[k + 1]
      BY <1>1, <1>6, HeadTailProperties
    <2>7. QueueTyped /\ SlotsAccounted'
      <3> HIDE DEF j
      <3> QED BY <1>1, <1>6, <2>2, <2>3, <2>5, <2>6 DEF QueueTyped, SlotsAccounted
    <2>8. QueueShape'
      <3>1. \A k, l \in 1..Len(queue) :
              /\ queue[k] \in Ids /\ job[queue[k]] = "queued"
              /\ queue[k] = queue[l] => k = l
        BY <1>1 DEF Inv, QueueShape
      <3>2. \A k \in 1..Len(queue) : k # 1 => job'[queue[k]] = "queued"
        <4> HIDE DEF h, j
        <4> QED BY <1>1, <2>1, <2>3, <3>1
      <3>3. \A k \in 1..Len(Tail(queue)) :
              k + 1 \in 1..Len(queue) /\ k + 1 # 1 /\ k \in Nat
        BY <2>1, <2>6
      <3>4. \A k \in 1..Len(Tail(queue)) : job'[Tail(queue)[k]] = "queued"
        BY <2>6, <3>2, <3>3
      <3>5. \A k, l \in 1..Len(Tail(queue)) : Tail(queue)[k] = Tail(queue)[l] => k = l
        <4> TAKE k, l \in 1..Len(Tail(queue))
        <4>1. Tail(queue)[k] = Tail(queue)[l] => k + 1 = l + 1
          BY <2>6, <3>1, <3>3
        <4> QED BY <3>3, <4>1
      <3> QED BY <2>2, <3>4, <3>5 DEF QueueShape
    <2>9. Touched
      <3> HIDE DEF h, j
      <3> QED BY <1>1, <2>1, <2>3 DEF Touched
    <2>10. submitted' = submitted
      <3> HIDE DEF h, j
      <3> QED BY <1>1, <2>1, <2>3
    <2>11. TheQueue!Finish(i)
      <3> HIDE DEF h, j, submitted
      <3> QED BY <1>2, <1>6, <2>2, <2>4, <2>10 DEF TheQueue!Finish, submitted, h
    <2> QED BY <2>7, <2>8, <2>9, <2>11
  <1> QED BY <1>5, <1>6

\* The other steps of a job leave the queue as it is.
LEMMA QueueHolds ==
  ASSUME Inv, NEW i \in Ids, NEW pc \in PCs, job[i] # "queued",
         job[i] \in UnderWay <=> pc \in UnderWay,
         job[i] \in {"none", "saved", "unheard"}
           <=> pc \in {"none", "saved", "unheard"},
         job' = [job EXCEPT ![i] = pc], queue' = queue, running' = running
  PROVE  QueueTyped /\ SlotsAccounted' /\ QueueShape' /\ UNCHANGED TheQueue!vars
  <1> DEFINE submitted == {k \in Ids : job[k] \notin {"none", "saved", "unheard"}}
  <1>1. /\ queue \in Seq(Ids) /\ job \in [Ids -> PCs] /\ running \in Nat
        /\ SlotsAccounted /\ QueueShape
    BY DEF Inv, TypeOK
  <1>2. Active' = Active
    BY <1>1 DEF Active
  <1>3. QueueTyped /\ SlotsAccounted'
    BY <1>1, <1>2 DEF QueueTyped, SlotsAccounted
  <1>4. QueueShape'
    <2>1. \A k \in 1..Len(queue) : queue[k] \in Ids /\ queue[k] # i
      BY <1>1 DEF QueueShape
    <2> QED BY <1>1, <2>1 DEF QueueShape
  <1>5. submitted' = submitted
    BY <1>1
  <1>6. UNCHANGED TheQueue!vars
    BY <1>2, <1>5 DEF TheQueue!vars
  <1> QED BY <1>3, <1>4, <1>6

-----------------------------------------------------------------------------
(* The rows and the files.                                                  *)

RowsTyped ==
  /\ reports' \in Seq(Report) /\ Len(reports') <= MaxReports
  /\ files' \subseteq Ids /\ blobs' \subseteq Ids /\ trail' \subseteq Ids
  /\ restarts' \in Nat

\* A step on report i leaves the others alone.
OnlyOf(i) ==
  /\ Len(reports') = Len(reports)
  /\ \A k \in 1..Len(reports) : k # i => reports'[k] = reports[k]
  /\ \A k \in Ids \ {i} :
       /\ job'[k] = job[k]
       /\ k \in files => k \in files'
       /\ k \in blobs => k \in blobs'
       /\ k \in trail => k \in trail'

LEMMA RowWritten ==
  ASSUME Inv, NEW i \in 1..Len(reports), NEW row \in Report,
         reports' = [reports EXCEPT ![i] = row]
  PROVE  /\ reports' \in Seq(Report) /\ Len(reports') = Len(reports)
         /\ reports'[i] = row
         /\ \A k \in 1..Len(reports) : k # i => reports'[k] = reports[k]
  <1>1. reports \in Seq(Report)
    BY DEF Inv, TypeOK
  <1> QED BY <1>1, ExceptSeq

\* The writes of a job, by what they leave of its report's row.
LEMMA StatusWritten ==
  ASSUME Inv, NEW i \in Ids, job[i] # "none",
         NEW s \in {"PENDING", "PROCESSING", "COMPLETED", "FAILED"},
         reports' = [reports EXCEPT ![i].status = s]
  PROVE  /\ i \in 1..Len(reports)
         /\ reports' \in Seq(Report) /\ Len(reports') = Len(reports)
         /\ reports'[i].status = s
         /\ \A k \in 1..Len(reports) : k # i => reports'[k] = reports[k]
  <1>1. i \in 1..Len(reports) /\ reports \in Seq(Report)
    BY DEF Inv, Shape, TypeOK
  <1>2. reports[i] \in Report
    BY <1>1
  <1> DEFINE row == [reports[i] EXCEPT !.status = s]
  <1>3. row \in Report /\ row.status = s
    BY <1>2 DEF Report
  <1>4. reports' = [reports EXCEPT ![i] = row]
    BY <1>1
  <1> HIDE DEF row
  <1> QED BY <1>1, <1>3, <1>4, RowWritten

LEMMA OthersHold ==
  ASSUME Inv, NEW i \in Ids, OnlyOf(i), Shape(i)'
  PROVE  \A k \in Ids : Shape(k)'
  <1> SUFFICES ASSUME NEW k \in Ids, k # i PROVE Shape(k)'
    OBVIOUS
  <1>1. Shape(k) /\ Len(reports) \in Nat
    BY DEF Inv, TypeOK
  <1> QED BY <1>1 DEF OnlyOf, Shape

JobStep(i) ==
  BeginJob(i) \/ BuildPayload(i) \/ WriteBlob(i) \/ InsertFile(i)
    \/ CompleteReport(i) \/ AuditReport(i) \/ FailReport(i) \/ JobFails(i)

LEMMA JobStepQueue ==
  ASSUME Inv, NEW i \in Ids, JobStep(i)
  PROVE  QueueTyped /\ SlotsAccounted' /\ QueueShape' /\ UNCHANGED TheQueue!vars
  <1>1. PICK pc \in UnderWay : /\ job[i] \in UnderWay
                               /\ job' = [job EXCEPT ![i] = pc]
                               /\ queue' = queue /\ running' = running
    <2> USE DEF Goes, UnderWay
    <2>1. CASE BeginJob(i) BY <2>1 DEF BeginJob
    <2>2. CASE BuildPayload(i) BY <2>2 DEF BuildPayload
    <2>3. CASE WriteBlob(i) BY <2>3 DEF WriteBlob
    <2>4. CASE InsertFile(i) BY <2>4 DEF InsertFile
    <2>5. CASE CompleteReport(i) BY <2>5 DEF CompleteReport
    <2>6. CASE AuditReport(i) BY <2>6 DEF AuditReport
    <2>7. CASE FailReport(i) BY <2>7 DEF FailReport
    <2>8. CASE JobFails(i) BY <2>8 DEF JobFails
    <2> QED BY <2>1, <2>2, <2>3, <2>4, <2>5, <2>6, <2>7, <2>8 DEF JobStep
  <1>2. pc \in PCs /\ job[i] # "queued"
    BY <1>1 DEF PCs, UnderWay
  <1>3. job[i] \in {"none", "saved", "unheard"} <=> pc \in {"none", "saved", "unheard"}
    BY <1>1 DEF UnderWay
  <1> QED BY <1>1, <1>2, <1>3, QueueHolds

LEMMA JobStepRows ==
  ASSUME Inv, NEW i \in Ids, JobStep(i)
  PROVE  RowsTyped /\ \A k \in Ids : Shape(k)'
  <1>1. /\ reports \in Seq(Report) /\ Len(reports) \in Nat /\ Len(reports) <= MaxReports
        /\ files \subseteq Ids /\ blobs \subseteq Ids /\ trail \subseteq Ids
        /\ restarts \in Nat /\ job \in [Ids -> PCs] /\ Shape(i)
    BY DEF Inv, TypeOK
  <1> SUFFICES RowsTyped /\ OnlyOf(i) /\ Shape(i)'
    BY OthersHold
  <1> USE DEF Goes
  <1>2. CASE BeginJob(i)
    <2>1. job[i] = "begin" /\ reports' = [reports EXCEPT ![i].status = "PROCESSING"]
      BY <1>2 DEF BeginJob
    <2>2. /\ i \in 1..Len(reports)
          /\ reports' \in Seq(Report) /\ Len(reports') = Len(reports)
          /\ reports'[i].status = "PROCESSING"
          /\ \A k \in 1..Len(reports) : k # i => reports'[k] = reports[k]
      BY <2>1, StatusWritten
    <2> QED BY <1>1, <1>2, <2>2 DEF BeginJob, RowsTyped, OnlyOf, Shape
  <1>3. CASE BuildPayload(i)
    BY <1>1, <1>3 DEF BuildPayload, RowsTyped, OnlyOf, Shape
  <1>4. CASE WriteBlob(i)
    BY <1>1, <1>4 DEF WriteBlob, RowsTyped, OnlyOf, Shape
  <1>5. CASE InsertFile(i)
    BY <1>1, <1>5 DEF InsertFile, RowsTyped, OnlyOf, Shape
  <1>6. CASE CompleteReport(i)
    <2> DEFINE row == [status |-> "COMPLETED", file |-> TRUE]
    <2>1. /\ job[i] = "complete" /\ i \in 1..Len(reports) /\ row \in Report
          /\ reports' = [reports EXCEPT ![i] = row]
          /\ row.status = "COMPLETED" /\ row.file
      BY <1>1, <1>6 DEF CompleteReport, Shape, Report
    <2> HIDE DEF row
    <2>2. /\ reports' \in Seq(Report) /\ Len(reports') = Len(reports)
          /\ reports'[i] = row
          /\ \A k \in 1..Len(reports) : k # i => reports'[k] = reports[k]
      BY <2>1, RowWritten
    <2> QED BY <1>1, <1>6, <2>1, <2>2 DEF CompleteReport, RowsTyped, OnlyOf, Shape
  <1>7. CASE AuditReport(i)
    BY <1>1, <1>7 DEF AuditReport, RowsTyped, OnlyOf, Shape
  <1>8. CASE FailReport(i)
    <2>1. job[i] = "fail" /\ reports' = [reports EXCEPT ![i].status = "FAILED"]
      BY <1>8 DEF FailReport
    <2>2. /\ i \in 1..Len(reports)
          /\ reports' \in Seq(Report) /\ Len(reports') = Len(reports)
          /\ reports'[i].status = "FAILED"
          /\ \A k \in 1..Len(reports) : k # i => reports'[k] = reports[k]
      BY <2>1, StatusWritten
    <2> QED BY <1>1, <1>8, <2>2 DEF FailReport, RowsTyped, OnlyOf, Shape
  <1>9. CASE JobFails(i)
    BY <1>1, <1>9 DEF JobFails, RowsTyped, OnlyOf, Shape
  <1> QED BY <1>2, <1>3, <1>4, <1>5, <1>6, <1>7, <1>8, <1>9 DEF JobStep

-----------------------------------------------------------------------------
(* The other steps.                                                         *)

LEMMA RequestStep ==
  ASSUME Inv, RequestReport
  PROVE  Inv' /\ UNCHANGED TheQueue!vars
  <1> DEFINE i == Len(reports) + 1
             row == [status |-> "PENDING", file |-> FALSE]
  <1>1. /\ reports \in Seq(Report) /\ Len(reports) \in Nat /\ MaxReports \in Nat
        /\ job \in [Ids -> PCs] /\ i \in Ids /\ row \in Report
    BY BoundsAssumption DEF Inv, TypeOK, RequestReport, Ids, Report
  <1>2. PICK pc \in {"saved", "unheard"} : job' = [job EXCEPT ![i] = pc]
    BY DEF RequestReport
  <1>3. job[i] = "none"
    BY <1>1 DEF Inv, Shape
  <1>4. reports' = Append(reports, row)
    BY DEF RequestReport
  <1> HIDE DEF row
  <1>5. /\ reports' \in Seq(Report) /\ Len(reports') = i
        /\ \A k \in 1..Len(reports) : reports'[k] = reports[k]
        /\ reports'[i] = row
    BY <1>1, <1>4, AppendProperties
  <1>6. QueueTyped /\ SlotsAccounted' /\ QueueShape'
    <2>1. /\ job[i] # "queued" /\ pc \in PCs
          /\ job[i] \in UnderWay <=> pc \in UnderWay
          /\ queue' = queue /\ running' = running
      BY <1>2, <1>3 DEF PCs, UnderWay, RequestReport
    <2>2. job[i] \in {"none", "saved", "unheard"} <=> pc \in {"none", "saved", "unheard"}
      BY <1>2, <1>3
    <2> HIDE DEF i
    <2> QED BY <1>1, <1>2, <2>1, <2>2, QueueHolds
  <1>7. UNCHANGED TheQueue!vars
    <2>1. /\ job[i] # "queued" /\ pc \in PCs
          /\ job[i] \in UnderWay <=> pc \in UnderWay
          /\ queue' = queue /\ running' = running
      BY <1>2, <1>3 DEF PCs, UnderWay, RequestReport
    <2>2. job[i] \in {"none", "saved", "unheard"} <=> pc \in {"none", "saved", "unheard"}
      BY <1>2, <1>3
    <2> HIDE DEF i
    <2> QED BY <1>1, <1>2, <2>1, <2>2, QueueHolds
  <1>8. TypeOK'
    BY <1>1, <1>5, <1>6 DEF Inv, TypeOK, QueueTyped, RequestReport
  <1>9. ASSUME NEW k \in Ids PROVE Shape(k)'
    <2>1. Shape(k)
      BY DEF Inv
    <2>2. CASE k = i
      BY <1>1, <1>2, <1>5, <2>2 DEF row, Shape
    <2>3. CASE k # i
      <3>1. job'[k] = job[k] /\ (k \in 1..Len(reports') <=> k \in 1..Len(reports))
        BY <1>1, <1>2, <1>5, <2>3 DEF Ids
      <3> HIDE DEF i
      <3> QED BY <1>5, <2>1, <3>1 DEF Shape, RequestReport
    <2> QED BY <2>2, <2>3
  <1> QED BY <1>6, <1>7, <1>8, <1>9 DEF Inv

LEMMA RestartStep ==
  ASSUME Inv, Restart
  PROVE  Inv' /\ TheQueue!Crash
  <1>1. /\ job \in [Ids -> PCs] /\ queue' = <<>> /\ running' = 0
        /\ reports' = reports /\ files' = files /\ blobs' = blobs /\ trail' = trail
        /\ restarts' \in Nat
    BY DEF Inv, TypeOK, Restart
  <1>2. ASSUME NEW i \in Ids
        PROVE  /\ job'[i] \in PCs
               /\ \/ job[i] = "saved" /\ job'[i] = "unheard"
                  \/ job[i] \in {"queued"} \cup UnderWay /\ job'[i] = "lost"
                  \/ job[i] \notin {"queued", "saved"} \cup UnderWay /\ job'[i] = job[i]
    <2>1. job[i] \in PCs
      BY <1>1
    <2>2. job'[i] = CASE job[i] = "saved" -> "unheard"
                      [] job[i] \in {"queued"} \cup UnderWay -> "lost"
                      [] OTHER -> job[i]
      BY DEF Restart
    <2> QED BY <2>1, <2>2 DEF PCs, UnderWay
  <1>3. job' \in [Ids -> PCs]
    <2>1. job' = [i \in Ids |-> job'[i]]
      BY DEF Restart
    <2> QED BY <1>2, <2>1
  <1>4. Active' = {}
    BY <1>2 DEF Active, UnderWay
  <1>5. SlotsAccounted' /\ QueueShape' /\ TypeOK'
    <2>1. SlotsAccounted'
      BY <1>1, <1>4, FS_EmptySet, JobsAssumption DEF SlotsAccounted
    <2>2. QueueShape'
      BY <1>1 DEF QueueShape
    <2>3. TypeOK'
      BY <1>1, <1>3 DEF Inv, TypeOK
    <2> QED BY <2>1, <2>2, <2>3
  <1>6. \A i \in Ids : Shape(i)'
    BY <1>1, <1>2 DEF Inv, Shape, UnderWay
  <1>7. {i \in Ids : job'[i] \notin {"none", "saved", "unheard"}}
          = {i \in Ids : job[i] \notin {"none", "saved", "unheard"}}
    BY <1>2 DEF UnderWay
  <1> QED BY <1>1, <1>4, <1>5, <1>6, <1>7 DEF Inv, TheQueue!Crash

\* What the queue's own steps leave of the invariant.
LEMMA QueueStepRows ==
  ASSUME Inv, NEW i \in Ids, Enqueue(i) \/ JobEnds(i), Touched
  PROVE  RowsTyped /\ \A k \in Ids : Shape(k)'
  <1>1. UNCHANGED <<reports, files, blobs, trail, restarts>>
    BY DEF Enqueue, JobEnds
  <1>2. RowsTyped
    BY <1>1 DEF Inv, TypeOK, RowsTyped
  <1>3. ASSUME NEW k \in Ids PROVE Shape(k)'
    BY <1>1, <1>3 DEF Inv, Shape, Touched
  <1> QED BY <1>2, <1>3

-----------------------------------------------------------------------------
(* The theorems.                                                            *)

LEMMA InvInit == Init => Inv
  <1> SUFFICES ASSUME Init PROVE Inv
    OBVIOUS
  <1>1. Active = {}
    BY DEF Init, Active, UnderWay
  <1>2. SlotsAccounted
    BY <1>1, FS_EmptySet, JobsAssumption DEF Init, SlotsAccounted
  <1>3. TypeOK
    BY BoundsAssumption DEF Init, TypeOK, PCs
  <1>4. QueueShape /\ \A i \in Ids : Shape(i)
    BY DEF Init, QueueShape, Shape
  <1> QED BY <1>2, <1>3, <1>4 DEF Inv

\* A step keeps the invariant, and is one of the queue's or none of its business.
LEMMA InvNext == Inv /\ [Next]_vars => Inv' /\ [TheQueue!Next]_(TheQueue!vars)
  <1> SUFFICES ASSUME Inv, [Next]_vars
               PROVE  Inv' /\ [TheQueue!Next]_(TheQueue!vars)
    OBVIOUS
  <1>1. CASE RequestReport
    BY <1>1, RequestStep
  <1>2. CASE Restart
    BY <1>2, RestartStep DEF TheQueue!Next
  <1>3. ASSUME NEW i \in Ids, Advance(i)
        PROVE  Inv' /\ [TheQueue!Next]_(TheQueue!vars)
    <2>1. CASE Enqueue(i)
      <3>1. QueueTyped /\ SlotsAccounted' /\ QueueShape' /\ Touched /\ TheQueue!Submit(i)
        BY <2>1, EnqueueStep
      <3>2. RowsTyped /\ \A k \in Ids : Shape(k)'
        BY <2>1, <3>1, QueueStepRows
      <3>3. Inv'
        BY <3>1, <3>2 DEF Inv, TypeOK, QueueTyped, RowsTyped
      <3> QED BY <3>1, <3>3 DEF TheQueue!Next
    <2>2. CASE JobEnds(i)
      <3>1. QueueTyped /\ SlotsAccounted' /\ QueueShape' /\ Touched /\ TheQueue!Finish(i)
        BY <2>2, EndStep
      <3>2. RowsTyped /\ \A k \in Ids : Shape(k)'
        BY <2>2, <3>1, QueueStepRows
      <3>3. Inv'
        BY <3>1, <3>2 DEF Inv, TypeOK, QueueTyped, RowsTyped
      <3> QED BY <3>1, <3>3 DEF TheQueue!Next
    <2>3. CASE JobStep(i)
      <3>1. QueueTyped /\ SlotsAccounted' /\ QueueShape' /\ UNCHANGED TheQueue!vars
        BY <2>3, JobStepQueue
      <3>2. RowsTyped /\ \A k \in Ids : Shape(k)'
        BY <2>3, JobStepRows
      <3>3. Inv'
        BY <3>1, <3>2 DEF Inv, TypeOK, QueueTyped, RowsTyped
      <3> QED BY <3>1, <3>3
    <2> QED BY <1>3, <2>1, <2>2, <2>3 DEF Advance, JobStep
  <1>4. CASE UNCHANGED vars
    <2>1. Active' = Active
      BY <1>4 DEF vars, Active
    <2>2. Inv'
      BY <1>4, <2>1 DEF vars, Inv, TypeOK, SlotsAccounted, QueueShape, Shape
    <2>3. UNCHANGED TheQueue!vars
      BY <1>4, <2>1 DEF vars, TheQueue!vars
    <2> QED BY <2>2, <2>3
  <1> QED BY <1>1, <1>2, <1>3, <1>4 DEF Next

LEMMA InvHolds == Spec => []Inv
  BY InvInit, InvNext, PTL DEF Spec

\* The rows, the queue and the places where jobs are keep their types.
THEOREM TypeCorrect == Spec => []TypeOK
  <1>1. Inv => TypeOK
    BY DEF Inv
  <1> QED BY <1>1, InvHolds, PTL

\* The counter of running jobs is right, whatever fails and whenever the process
\* restarts: the limit holds, and no job waits while a slot is free
\* (report-job-queue.ts:13-36).
THEOREM NoSlotIsLost == Spec => []SlotsAccounted
  <1>1. Inv => SlotsAccounted
    BY DEF Inv
  <1> QED BY <1>1, InvHolds, PTL

\* A COMPLETED report can be downloaded (reports.service.ts:91-131,
\* files.service.ts:61-93).
THEOREM CompletedReportsAreThere == Spec => []CompletedIsThere
  <1>1. Inv => CompletedIsThere
    <2> SUFFICES ASSUME Inv, NEW i \in DOMAIN reports,
                        reports[i].status = "COMPLETED"
                 PROVE  DownloadAnswer(i) = "the file"
      BY DEF CompletedIsThere
    <2>1. i \in 1..Len(reports) /\ i \in Ids
      BY BoundsAssumption DEF Inv, TypeOK, Ids
    <2>2. reports[i].file /\ i \in files /\ i \in blobs
      BY <2>1 DEF Inv, Shape
    <2> QED BY <2>2 DEF DownloadAnswer
  <1> QED BY <1>1, InvHolds, PTL

\* A job that has ended has left its report COMPLETED and audited, or FAILED
\* (reports.service.ts:97-131).
THEOREM EndedReportsAreTold == Spec => []EndedJobsAreTold
  <1>1. Inv => EndedJobsAreTold
    <2> SUFFICES ASSUME Inv, NEW i \in Ids, job[i] = "done"
                 PROVE  /\ i \in DOMAIN reports
                        /\ \/ reports[i].status = "COMPLETED" /\ i \in trail
                           \/ reports[i].status = "FAILED"
      BY DEF EndedJobsAreTold
    <2>1. DOMAIN reports = 1..Len(reports)
      BY DEF Inv, TypeOK
    <2> QED BY <2>1 DEF Inv, Shape
  <1> QED BY <1>1, InvHolds, PTL

\* ReportJobQueue, as ReportsService uses it, implements a first come first served
\* queue with a limit (report-job-queue.ts:13-36).
THEOREM IsAJobQueue == Spec => ImplementsJobQueue
  <1>1. Init => TheQueue!Init
    <2> SUFFICES ASSUME Init PROVE TheQueue!Init
      OBVIOUS
    <2>1. Active = {}
      BY DEF Init, Active, UnderWay
    <2> QED BY <2>1 DEF Init, TheQueue!Init
  <1>2. Inv /\ [Next]_vars => [TheQueue!Next]_(TheQueue!vars)
    BY InvNext
  <1> QED BY <1>1, <1>2, InvHolds, PTL DEF Spec, ImplementsJobQueue, TheQueue!Spec

=============================================================================
