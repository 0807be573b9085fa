------------------------------ MODULE FileCopy ------------------------------
(***************************************************************************)
(* The bounded parallel directory copy that embeds local Unity packages in *)
(* an acquired workspace (internal/filecopy/copy.go, CopyDirParallel).     *)
(*                                                                         *)
(* One goroutine walks the source tree and sends a job per regular file    *)
(* into a channel of capacity 2 * workers; every worker receives jobs      *)
(* until the channel is closed, the context is cancelled or some copy has  *)
(* failed.  Files are numbered in walk order; directories and links are    *)
(* made by the walker itself and appear only as ways the walk can fail.    *)
(***************************************************************************)
EXTENDS Naturals, Sequences, FiniteSets

CONSTANTS
    Workers,       \* the copying goroutines
    Files,         \* number of regular files below src
    MaxFailures,   \* how many copies, or walk steps, may fail by themselves
    MayCancel      \* whether the caller's context can be cancelled

ASSUME ConstantsAssumption ==
    /\ IsFiniteSet(Workers) /\ Workers # {}
    /\ Files \in Nat /\ MaxFailures \in Nat /\ MayCancel \in BOOLEAN

VARIABLES
    walker,     \* program counter of the calling goroutine
    next,       \* the next file the walk visits
    jobs,       \* the buffered channel
    worker,     \* program counter of each worker
    job,        \* the file a worker has received, 0 when it has none
    copyErr,    \* the kind of error the atomic.Value copyErr holds
    panicked,   \* CompareAndSwap has brought the process down
    walkErr,    \* WalkDir returned an error
    result,     \* what CopyDirParallel has returned
    copied,     \* the files completely written below dst
    cancelled,  \* ctx is done
    failures    \* failures so far, bounded by MaxFailures

vars == <<walker, next, jobs, worker, job, copyErr, panicked, walkErr, result,
          copied, cancelled, failures>>

\* make(chan copyJob, workers*2)
Capacity == 2 * Cardinality(Workers)

\* The channel is closed as soon as the walk is over.
Closed == walker \in {"waiting", "returned"}

\* The concrete types of the errors a copy can end with: *fs.PathError from the
\* file system, and the type of ctx.Err() from ctxReader.
Errors == {"io", "ctx"}

\* Every variable has its type, and the channel never holds more than it can.
TypeOK ==
    /\ walker \in {"start", "walking", "sending", "waiting", "returned"}
    /\ next \in 1..(Files + 1)
    /\ jobs \in Seq(1..Files) /\ Len(jobs) <= Capacity
    /\ worker \in [Workers -> {"idle", "received", "copying", "gone"}]
    /\ job \in [Workers -> 0..Files]
    /\ copyErr \in {"none"} \cup Errors
    /\ panicked \in BOOLEAN /\ walkErr \in BOOLEAN /\ cancelled \in BOOLEAN
    /\ result \in {"none", "nil", "error"}
    /\ copied \subseteq 1..Files
    /\ failures \in 0..MaxFailures

Init ==
    /\ walker = "start" /\ next = 1 /\ jobs = <<>>
    /\ worker = [w \in Workers |-> "idle"] /\ job = [w \in Workers |-> 0]
    /\ copyErr = "none" /\ panicked = FALSE /\ walkErr = FALSE /\ result = "none"
    /\ copied = {} /\ cancelled = FALSE /\ failures = 0

Fails == failures < MaxFailures /\ failures' = failures + 1

-----------------------------------------------------------------------------
(* The calling goroutine                                                   *)

\* os.RemoveAll(dst) fails before any worker is started.
RemoveDstFails ==
    /\ walker = "start" /\ Fails
    /\ walker' = "returned" /\ result' = "error"
    /\ worker' = [w \in Workers |-> "gone"]
    /\ UNCHANGED <<next, jobs, job, copyErr, walkErr, copied, cancelled, panicked>>

StartWorkers ==
    /\ walker = "start" /\ walker' = "walking"
    /\ UNCHANGED <<next, jobs, worker, job, copyErr, walkErr, result, copied,
                   cancelled, failures, panicked>>

\* The callback's two checks: no cancellation and no failed copy so far.
Unhindered == ~cancelled /\ copyErr = "none"

\* The callback reaches the select statement for the next regular file.
WalkFile ==
    /\ walker = "walking" /\ next <= Files /\ Unhindered
    /\ walker' = "sending"
    /\ UNCHANGED <<next, jobs, worker, job, copyErr, walkErr, result, copied,
                   cancelled, failures, panicked>>

Mutant_Room == Len(jobs) <= Capacity

\* A send does not block while the buffer has room.
Room == Len(jobs) < Capacity

\* case jobs <- copyJob{...}
Send ==
    /\ walker = "sending" /\ Room
    /\ jobs' = Append(jobs, next) /\ next' = next + 1 /\ walker' = "walking"
    /\ UNCHANGED <<worker, job, copyErr, walkErr, result, copied, cancelled,
                   failures, panicked>>

Mutant_SelectDone == FALSE

\* case <-ctx.Done(): the only other way out of the select.
SelectDone == cancelled

SendCancelled ==
    /\ walker = "sending" /\ SelectDone
    /\ walkErr' = TRUE /\ walker' = "waiting"
    /\ UNCHANGED <<next, jobs, worker, job, copyErr, result, copied, cancelled,
                   failures, panicked>>

\* The callback returns an error: a check fails, or the walk itself does.
WalkFails ==
    /\ walker = "walking"
    /\ \/ next <= Files /\ ~Unhindered /\ UNCHANGED failures
       \/ Fails
    /\ walkErr' = TRUE /\ walker' = "waiting"
    /\ UNCHANGED <<next, jobs, worker, job, copyErr, result, copied, cancelled, panicked>>

\* The last entry has been visited; nothing looks at ctx or copyErr again.
WalkEnds ==
    /\ walker = "walking" /\ next > Files
    /\ walker' = "waiting"
    /\ UNCHANGED <<next, jobs, worker, job, copyErr, walkErr, result, copied,
                   cancelled, failures, panicked>>

Mutant_Verdict == IF walkErr THEN "error" ELSE "nil"

\* What the function reports once the workers are gone.
Verdict == IF walkErr \/ copyErr # "none" THEN "error" ELSE "nil"

\* wg.Wait() returns and CopyDirParallel reports walkErr, copyErr or nil.
Return ==
    /\ walker = "waiting" /\ \A w \in Workers : worker[w] = "gone"
    /\ walker' = "returned" /\ result' = Verdict
    /\ UNCHANGED <<next, jobs, worker, job, copyErr, walkErr, copied, cancelled,
                   failures, panicked>>

-----------------------------------------------------------------------------
(* The workers                                                             *)

Receive(w) ==
    /\ walker # "start" /\ worker[w] = "idle" /\ jobs # <<>>
    /\ jobs' = Tail(jobs)
    /\ job' = [job EXCEPT ![w] = Head(jobs)]
    /\ worker' = [worker EXCEPT ![w] = "received"]
    /\ UNCHANGED <<walker, next, copyErr, walkErr, result, copied, cancelled,
                   failures, panicked>>

\* The range loop ends: the channel is closed and drained.
Drained(w) ==
    /\ worker[w] = "idle" /\ Closed /\ jobs = <<>>
    /\ worker' = [worker EXCEPT ![w] = "gone"]
    /\ UNCHANGED <<walker, next, jobs, job, copyErr, walkErr, result, copied,
                   cancelled, failures, panicked>>

StartCopy(w) ==
    /\ worker[w] = "received" /\ Unhindered
    /\ worker' = [worker EXCEPT ![w] = "copying"]
    /\ UNCHANGED <<walker, next, jobs, job, copyErr, walkErr, result, copied,
                   cancelled, failures, panicked>>

\* The worker returns and drops the job it holds.
DropJob(w) ==
    /\ worker[w] = "received" /\ ~Unhindered
    /\ worker' = [worker EXCEPT ![w] = "gone"]
    /\ job' = [job EXCEPT ![w] = 0]
    /\ UNCHANGED <<walker, next, jobs, copyErr, walkErr, result, copied,
                   cancelled, failures, panicked>>

\* A copy that has read its last block succeeds even when ctx is done by now.
CopySucceeds(w) ==
    /\ worker[w] = "copying"
    /\ copied' = copied \cup {job[w]}
    /\ worker' = [worker EXCEPT ![w] = "idle"]
    /\ job' = [job EXCEPT ![w] = 0]
    /\ UNCHANGED <<walker, next, jobs, copyErr, walkErr, result, cancelled,
                   failures, panicked>>

Mutant_RecordError(e) == UNCHANGED <<copyErr, panicked>>

\* copyErr.CompareAndSwap(nil, err): the first error stays.  An atomic.Value
\* panics when it is offered a value of another type than the one it holds.
RecordError(e) ==
    /\ copyErr' = IF copyErr = "none" THEN e ELSE copyErr
    /\ panicked' = (copyErr \notin {"none", e})

\* An I/O error, or ctxReader noticing the cancellation.
CopyFails(w) ==
    /\ worker[w] = "copying"
    /\ \/ Fails /\ RecordError("io")
       \/ cancelled /\ UNCHANGED failures /\ RecordError("ctx")
    /\ worker' = [worker EXCEPT ![w] = "gone"]
    /\ job' = [job EXCEPT ![w] = 0]
    /\ UNCHANGED <<walker, next, jobs, walkErr, result, copied, cancelled>>

-----------------------------------------------------------------------------
\* The caller's context is cancelled, or its deadline passes.
Cancel ==
    /\ MayCancel /\ ~panicked /\ ~cancelled /\ result = "none"
    /\ cancelled' = TRUE
    /\ UNCHANGED <<walker, next, jobs, worker, job, copyErr, walkErr, result,
                   copied, failures, panicked>>

Walk ==
    /\ ~panicked
    /\ \/ RemoveDstFails \/ StartWorkers \/ WalkFile \/ Send \/ SendCancelled
       \/ WalkFails \/ WalkEnds \/ Return

Work(w) ==
    /\ ~panicked
    /\ \/ Receive(w) \/ Drained(w) \/ StartCopy(w) \/ DropJob(w)
       \/ CopySucceeds(w) \/ CopyFails(w)

Next == Walk \/ Cancel \/ \E w \in Workers : Work(w)

Spec == Init /\ [][Next]_vars

\* The Go scheduler runs every goroutine that is not blocked.
FairSpec == Spec /\ WF_vars(Walk) /\ \A w \in Workers : WF_vars(Work(w))

-----------------------------------------------------------------------------
\* Where a file of the source tree can be while nothing has gone wrong: not
\* visited, buffered in the channel, held by a worker, or written below dst.
Accounted(f) ==
    \/ f >= next
    \/ \E i \in 1..Len(jobs) : jobs[i] = f
    \/ \E w \in Workers : job[w] = f
    \/ f \in copied

\* No file is lost between the walker, the channel and the workers: until an
\* error is recorded or the context is done, each one is still on its way.
NoFileLost ==
    ~cancelled /\ copyErr = "none" => \A f \in 1..Files : Accounted(f)

\* A nil result means that the whole package has been embedded: every file of
\* the source tree is below dst, whatever the workers raced on.  After a
\* cancellation it does not: a worker that finds ctx done drops its job without
\* an error, and when the walk was over already the call returns nil.
SuccessMeansCopied == result = "nil" /\ ~cancelled => copied = 1..Files

\* "Bounded, context-aware directory copy" (copy.go:1): the copy ends without
\* the caller's help.  The walker is never left blocked on a full channel that
\* no worker will drain, nor wg.Wait on a worker that never returns.
CopyReturns == <>(walker = "returned")

\* Cancellation always gets through, even if every worker has failed and the
\* walker is blocked on the full channel: the call ends, or the process does.
CancelReturns == cancelled ~> (walker = "returned" \/ panicked)
=============================================================================
