--------------------------- MODULE FileCopy_proofs ---------------------------
(***************************************************************************)
(* Theorems about CopyDirParallel, for every finite set of workers, every  *)
(* number of files and failures, with or without cancellation:             *)
(*                                                                         *)
(*   TypeCorrect       Spec => []TypeOK                                    *)
(*   NoneLost          Spec => []NoFileLost                                *)
(*   SuccessIsComplete Spec => []SuccessMeansCopied                        *)
(*                                                                         *)
(* That a nil result means success does not follow from what the function  *)
(* checks when it returns: it looks at two error values, not at the files. *)
(* It follows from why a worker can be gone: without an error and without  *)
(* a cancellation, only because the channel was closed and empty.          *)
(***************************************************************************)
EXTENDS FileCopy, FiniteSetTheorems, TLAPS

\* A worker holds a job exactly from receiving it to the end of its copy.
JobHeld ==
    \A w \in Workers :
        /\ worker[w] \in {"received", "copying"} => job[w] \in 1..Files
        /\ worker[w] \in {"idle", "gone"} => job[w] = 0

\* What the walker has done when it is at its program counter.
WalkKnown ==
    /\ walker = "start" => jobs = <<>> /\ \A w \in Workers : worker[w] = "idle"
    /\ walker = "sending" => next <= Files
    /\ walker = "waiting" /\ ~walkErr => next = Files + 1

\* Without errors and cancellation a worker leaves only a drained channel.
GoneMeansDrained ==
    ~cancelled /\ copyErr = "none" /\ (\E w \in Workers : worker[w] = "gone")
        => Closed /\ jobs = <<>>

IInv ==
    /\ TypeOK /\ JobHeld /\ WalkKnown /\ GoneMeansDrained
    /\ NoFileLost /\ SuccessMeansCopied
-----------------------------------------------------------------------------
(* The steps                                                               *)

\* The capacity of the channel is a number.
LEMMA CapacityIsNat == Capacity \in Nat /\ Files \in Nat /\ MaxFailures \in Nat
<1>1. Cardinality(Workers) \in Nat
    BY ConstantsAssumption, FS_CardinalityType DEF ConstantsAssumption
<1>2. QED
    BY <1>1, ConstantsAssumption DEF Capacity, ConstantsAssumption

\* Every goroutine keeps the types: the walker sends existing files only, and
\* never into a full channel.
LEMMA TypeStep ==
    ASSUME TypeOK, JobHeld, WalkKnown, [Next]_vars
    PROVE  TypeOK'
<1> USE CapacityIsNat DEF TypeOK, JobHeld, WalkKnown
<1>1. CASE RemoveDstFails
    BY <1>1 DEF RemoveDstFails, Fails
<1>2. CASE StartWorkers
    BY <1>2 DEF StartWorkers
<1>3. CASE WalkFile
    BY <1>3 DEF WalkFile
<1>4. CASE Send
    BY <1>4 DEF Send, Room
<1>5. CASE SendCancelled
    BY <1>5 DEF SendCancelled, SelectDone
<1>6. CASE WalkFails
    BY <1>6 DEF WalkFails, Fails
<1>7. CASE WalkEnds
    BY <1>7 DEF WalkEnds
<1>8. CASE Return
    BY <1>8 DEF Return, Verdict
<1>9. CASE Cancel
    BY <1>9 DEF Cancel
<1>10. ASSUME NEW w \in Workers, Receive(w) PROVE TypeOK'
    BY <1>10 DEF Receive
<1>11. ASSUME NEW w \in Workers, Drained(w) PROVE TypeOK'
    BY <1>11 DEF Drained, Closed
<1>12. ASSUME NEW w \in Workers, StartCopy(w) PROVE TypeOK'
    BY <1>12 DEF StartCopy
<1>13. ASSUME NEW w \in Workers, DropJob(w) PROVE TypeOK'
    BY <1>13 DEF DropJob
<1>14. ASSUME NEW w \in Workers, CopySucceeds(w) PROVE TypeOK'
  <2>1. copied' \subseteq 1..Files
    BY <1>14 DEF CopySucceeds
  <2>2. /\ worker' \in [Workers -> {"idle", "received", "copying", "gone"}]
        /\ job' \in [Workers -> 0..Files]
    BY <1>14 DEF CopySucceeds
  <2>3. QED
    BY <1>14, <2>1, <2>2 DEF CopySucceeds
<1>15. ASSUME NEW w \in Workers, CopyFails(w) PROVE TypeOK'
  <2>1. copyErr' \in {"none"} \cup Errors /\ failures' \in 0..MaxFailures
    BY <1>15 DEF CopyFails, RecordError, Fails, Errors
  <2>2. panicked' \in BOOLEAN
    <3>1. ASSUME NEW e, RecordError(e) PROVE panicked' \in BOOLEAN
      BY <3>1, Zenon DEF RecordError
    <3>2. QED
      BY <1>15, <3>1 DEF CopyFails
  <2>3. /\ worker' \in [Workers -> {"idle", "received", "copying", "gone"}]
        /\ job' \in [Workers -> 0..Files]
    BY <1>15 DEF CopyFails
  <2>4. QED
    BY <1>15, <2>1, <2>2, <2>3 DEF CopyFails
<1>16. CASE UNCHANGED vars
    BY <1>16 DEF vars
<1>17. QED
    BY <1>1, <1>2, <1>3, <1>4, <1>5, <1>6, <1>7, <1>8, <1>9, <1>10, <1>11, <1>12, <1>13, <1>14, <1>15, <1>16
       DEF Next, Walk, Work

\* Jobs change hands as the program counters say.
LEMMA ControlStep ==
    ASSUME TypeOK, JobHeld, WalkKnown, [Next]_vars
    PROVE  (JobHeld /\ WalkKnown)'
<1> USE CapacityIsNat DEF TypeOK, JobHeld, WalkKnown
<1>1. CASE RemoveDstFails
    BY <1>1 DEF RemoveDstFails, Fails
<1>2. CASE StartWorkers
    BY <1>2 DEF StartWorkers
<1>3. CASE WalkFile
    BY <1>3 DEF WalkFile
<1>4. CASE Send
    BY <1>4 DEF Send, Room
<1>5. CASE SendCancelled
    BY <1>5 DEF SendCancelled, SelectDone
<1>6. CASE WalkFails
    BY <1>6 DEF WalkFails, Fails
<1>7. CASE WalkEnds
    BY <1>7 DEF WalkEnds
<1>8. CASE Return
    BY <1>8 DEF Return, Verdict
<1>9. CASE Cancel
    BY <1>9 DEF Cancel
<1>10. ASSUME NEW w \in Workers, Receive(w) PROVE (JobHeld /\ WalkKnown)'
    BY <1>10 DEF Receive
<1>11. ASSUME NEW w \in Workers, Drained(w) PROVE (JobHeld /\ WalkKnown)'
    BY <1>11 DEF Drained, Closed
<1>12. ASSUME NEW w \in Workers, StartCopy(w) PROVE (JobHeld /\ WalkKnown)'
    BY <1>12 DEF StartCopy
<1>13. ASSUME NEW w \in Workers, DropJob(w) PROVE (JobHeld /\ WalkKnown)'
    BY <1>13 DEF DropJob
<1>14. ASSUME NEW w \in Workers, CopySucceeds(w) PROVE (JobHeld /\ WalkKnown)'
    BY <1>14 DEF CopySucceeds
<1>15. ASSUME NEW w \in Workers, CopyFails(w) PROVE (JobHeld /\ WalkKnown)'
    BY <1>15 DEF CopyFails, RecordError, Fails, Errors
<1>16. CASE UNCHANGED vars
    BY <1>16 DEF vars
<1>17. QED
    BY <1>1, <1>2, <1>3, <1>4, <1>5, <1>6, <1>7, <1>8, <1>9, <1>10, <1>11, <1>12, <1>13, <1>14, <1>15, <1>16
       DEF Next, Walk, Work

\* A worker that leaves early has recorded an error or seen one.
LEMMA GoneStep ==
    ASSUME TypeOK, WalkKnown, GoneMeansDrained, [Next]_vars
    PROVE  GoneMeansDrained'
<1> USE DEF TypeOK, WalkKnown, GoneMeansDrained, Closed, Unhindered
<1>1. CASE RemoveDstFails
    BY <1>1 DEF RemoveDstFails, Fails
<1>2. CASE StartWorkers
    BY <1>2 DEF StartWorkers
<1>3. CASE WalkFile
    BY <1>3 DEF WalkFile
<1>4. CASE Send
    BY <1>4 DEF Send, Room
<1>5. CASE SendCancelled
    BY <1>5 DEF SendCancelled, SelectDone
<1>6. CASE WalkFails
    BY <1>6 DEF WalkFails, Fails
<1>7. CASE WalkEnds
    BY <1>7 DEF WalkEnds
<1>8. CASE Return
    BY <1>8 DEF Return
<1>9. CASE Cancel
    BY <1>9 DEF Cancel
<1>10. ASSUME NEW w \in Workers, Receive(w) PROVE GoneMeansDrained'
    BY <1>10 DEF Receive
<1>11. ASSUME NEW w \in Workers, Drained(w) PROVE GoneMeansDrained'
    BY <1>11 DEF Drained, Closed
<1>12. ASSUME NEW w \in Workers, StartCopy(w) PROVE GoneMeansDrained'
    BY <1>12 DEF StartCopy
<1>13. ASSUME NEW w \in Workers, DropJob(w) PROVE GoneMeansDrained'
    BY <1>13 DEF DropJob
<1>14. ASSUME NEW w \in Workers, CopySucceeds(w) PROVE GoneMeansDrained'
    BY <1>14 DEF CopySucceeds
<1>15. ASSUME NEW w \in Workers, CopyFails(w) PROVE GoneMeansDrained'
    BY <1>15 DEF CopyFails, RecordError, Fails, Errors
<1>16. CASE UNCHANGED vars
    BY <1>16 DEF vars
<1>17. QED
    BY <1>1, <1>2, <1>3, <1>4, <1>5, <1>6, <1>7, <1>8, <1>9, <1>10, <1>11, <1>12, <1>13, <1>14, <1>15, <1>16
       DEF Next, Walk, Work

\* A file goes from the walk into the channel, to a worker and to its copy,
\* and leaves each of these only for the next.
LEMMA LostStep ==
    ASSUME TypeOK, JobHeld, NoFileLost, [Next]_vars
    PROVE  NoFileLost'
<1> USE CapacityIsNat DEF TypeOK, NoFileLost, Accounted
<1>1. CASE RemoveDstFails
    BY <1>1 DEF RemoveDstFails, Fails
<1>2. CASE StartWorkers
    BY <1>2 DEF StartWorkers
<1>3. CASE WalkFile
    BY <1>3 DEF WalkFile
<1>4. CASE Send
  <2> SUFFICES ASSUME ~cancelled, copyErr = "none", NEW f \in 1..Files
               PROVE  Accounted(f)'
    BY <1>4 DEF Send
  <2>1. Accounted(f)
    OBVIOUS
  <2>2. /\ jobs' = Append(jobs, next) /\ next' = next + 1
        /\ UNCHANGED <<job, copied>>
    BY <1>4 DEF Send
  <2>3. /\ Len(jobs') = Len(jobs) + 1 /\ jobs'[Len(jobs) + 1] = next
        /\ \A i \in 1..Len(jobs) : jobs'[i] = jobs[i]
    BY <2>2
  <2>4. CASE f = next
    BY <2>2, <2>3, <2>4
  <2>5. CASE \E i \in 1..Len(jobs) : jobs[i] = f
    BY <2>2, <2>3, <2>5
  <2>6. CASE f > next \/ f \in copied \/ \E w \in Workers : job[w] = f
    BY <2>2, <2>6
  <2>7. QED
    BY <2>1, <2>4, <2>5, <2>6
<1>5. CASE SendCancelled
    BY <1>5 DEF SendCancelled, SelectDone
<1>6. CASE WalkFails
    BY <1>6 DEF WalkFails, Fails
<1>7. CASE WalkEnds
    BY <1>7 DEF WalkEnds
<1>8. CASE Return
    BY <1>8 DEF Return
<1>9. CASE Cancel
    BY <1>9 DEF Cancel
<1>10. ASSUME NEW w \in Workers, Receive(w) PROVE NoFileLost'
  <2> SUFFICES ASSUME ~cancelled, copyErr = "none", NEW f \in 1..Files
               PROVE  Accounted(f)'
    BY <1>10 DEF Receive
  <2>1. Accounted(f)
    OBVIOUS
  <2>2. /\ jobs # <<>> /\ jobs' = Tail(jobs) /\ job' = [job EXCEPT ![w] = Head(jobs)]
        /\ UNCHANGED <<next, copied>> /\ job[w] = 0
    BY <1>10 DEF Receive, JobHeld
  <2>3. /\ Len(jobs') = Len(jobs) - 1 /\ Head(jobs) = jobs[1]
        /\ \A i \in 1..Len(jobs') : jobs'[i] = jobs[i + 1]
    BY <2>2
  <2>4. ASSUME NEW i \in 1..Len(jobs), jobs[i] = f PROVE Accounted(f)'
    <3>1. CASE i = 1
      BY <2>2, <2>3, <2>4, <3>1
    <3>2. CASE i # 1
      <4>1. i - 1 \in 1..Len(jobs') /\ jobs'[i - 1] = f
        BY <2>3, <2>4, <3>2
      <4>2. QED
        BY <4>1
    <3>3. QED
      BY <3>1, <3>2
  <2>5. ASSUME NEW v \in Workers, job[v] = f PROVE Accounted(f)'
    BY <2>2, <2>5
  <2>6. CASE f >= next \/ f \in copied
    BY <2>2, <2>6
  <2>7. QED
    BY <2>1, <2>4, <2>5, <2>6
<1>11. ASSUME NEW w \in Workers, Drained(w) PROVE NoFileLost'
    BY <1>11 DEF Drained, Closed
<1>12. ASSUME NEW w \in Workers, StartCopy(w) PROVE NoFileLost'
    BY <1>12 DEF StartCopy
<1>13. ASSUME NEW w \in Workers, DropJob(w) PROVE NoFileLost'
    BY <1>13 DEF DropJob, Unhindered
<1>14. ASSUME NEW w \in Workers, CopySucceeds(w) PROVE NoFileLost'
    BY <1>14 DEF CopySucceeds
<1>15. ASSUME NEW w \in Workers, CopyFails(w) PROVE NoFileLost'
    BY <1>15 DEF CopyFails, RecordError, Errors
<1>16. CASE UNCHANGED vars
    BY <1>16 DEF vars
<1>17. QED
    BY <1>1, <1>2, <1>3, <1>4, <1>5, <1>6, <1>7, <1>8, <1>9, <1>10, <1>11, <1>12, <1>13, <1>14, <1>15, <1>16
       DEF Next, Walk, Work

\* wg.Wait returns when all workers are gone: if there was neither an error
\* nor a cancellation the channel is drained and no job is held.
LEMMA SuccessStep ==
    ASSUME IInv, [Next]_vars
    PROVE  SuccessMeansCopied'
<1> USE DEF IInv, SuccessMeansCopied
<1>1. CASE Return
  <2> SUFFICES ASSUME Verdict = "nil", ~cancelled
               PROVE  copied = 1..Files
    BY <1>1 DEF Return
  <2>1. copyErr = "none" /\ ~walkErr
    BY DEF Verdict, TypeOK
  <2>2. next = Files + 1 /\ \A w \in Workers : worker[w] = "gone"
    BY <1>1, <2>1 DEF Return, WalkKnown
  <2>3. jobs = <<>>
    BY <2>1, <2>2, ConstantsAssumption DEF GoneMeansDrained, ConstantsAssumption
  <2>4. \A w \in Workers : job[w] = 0
    BY <2>2 DEF JobHeld
  <2>5. ASSUME NEW f \in 1..Files PROVE f \in copied
    BY <2>1, <2>2, <2>3, <2>4, CapacityIsNat DEF NoFileLost, Accounted
  <2>6. QED
    BY <2>5 DEF TypeOK
<1>2. CASE RemoveDstFails
    BY <1>2 DEF RemoveDstFails
<1>3. ASSUME NEW w \in Workers, CopySucceeds(w) PROVE SuccessMeansCopied'
  <2>1. copied \subseteq copied' /\ UNCHANGED <<result, cancelled>>
    BY <1>3 DEF CopySucceeds
  <2>2. copied' \subseteq 1..Files
    BY TypeStep DEF TypeOK
  <2>3. QED
    BY <2>1, <2>2
<1>4. CASE UNCHANGED <<result, copied>> /\ (cancelled => cancelled')
    BY <1>4
<1>5. QED
    BY <1>1, <1>2, <1>3, <1>4
       DEF Next, Walk, Work, StartWorkers, WalkFile, Send, SendCancelled, WalkFails,
           WalkEnds, Cancel, Receive, Drained, StartCopy, DropJob, CopyFails, vars

-----------------------------------------------------------------------------
(* The theorems                                                            *)

\* Before the walk every file is still to be visited.
LEMMA InitIInv == Init => IInv
<1> SUFFICES ASSUME Init PROVE IInv
    OBVIOUS
<1>1. TypeOK
  <2>1. jobs \in Seq(1..Files) /\ Len(jobs) <= Capacity
    BY CapacityIsNat DEF Init
  <2>2. next \in 1..(Files + 1) /\ failures \in 0..MaxFailures
    BY CapacityIsNat DEF Init
  <2>3. job \in [Workers -> 0..Files]
    BY CapacityIsNat DEF Init
  <2>4. QED
    BY <2>1, <2>2, <2>3 DEF Init, TypeOK
<1>2. JobHeld /\ WalkKnown /\ GoneMeansDrained
    BY DEF Init, JobHeld, WalkKnown, GoneMeansDrained
<1>3. NoFileLost /\ SuccessMeansCopied
    BY CapacityIsNat DEF Init, NoFileLost, Accounted, SuccessMeansCopied
<1>4. QED
    BY <1>1, <1>2, <1>3 DEF IInv

\* IInv holds whatever the goroutines do.
LEMMA Invariance == Spec => []IInv
<1>1. IInv /\ [Next]_vars => IInv'
    BY TypeStep, ControlStep, GoneStep, LostStep, SuccessStep DEF IInv
<1>2. QED
    BY InitIInv, <1>1, PTL DEF Spec

\* The variables of CopyDirParallel keep their types; in particular the
\* channel never holds more than twice as many jobs as there are workers.
THEOREM TypeCorrect == Spec => []TypeOK
<1>1. IInv => TypeOK
    BY DEF IInv
<1>2. QED
    BY Invariance, <1>1, PTL

\* No file gets lost between walker, channel and workers.
THEOREM NoneLost == Spec => []NoFileLost
<1>1. IInv => NoFileLost
    BY DEF IInv
<1>2. QED
    BY Invariance, <1>1, PTL

\* A nil result to a caller that did not cancel means that every file of the
\* source tree is below dst, for any number of workers and files.
THEOREM SuccessIsComplete == Spec => []SuccessMeansCopied
<1>1. IInv => SuccessMeansCopied
    BY DEF IInv
<1>2. QED
    BY Invariance, <1>1, PTL
=============================================================================
