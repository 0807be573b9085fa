---------------------------- MODULE UnixParents ----------------------------
(***************************************************************************)
(* Parent transactions of the Unix user daemon: parent-begin, parent-commit *)
(* and parent-abort of internal/workspaced/manager_unix.go, and the check   *)
(* of the parent with which workspace-acquire begins.                       *)
(*                                                                          *)
(* A producer fills pending/<txn>/data and commits.  The daemon moves the   *)
(* data into pending/<txn>/publication, seals it with metadata.json, renames*)
(* the publication to parents/<id>, writes receipts/<txn>.json and removes  *)
(* the pending directory.  A death between any two of these leaves a state  *)
(* from which a repeated commit must arrive at the same answer.  parentID   *)
(* is a hash of the compatibility key, so a key names its parent directory. *)
(* An error while a parent is read counts as a bad parent, so a disk that   *)
(* fails for a while sends good parents to quarantine.                      *)
(***************************************************************************)

CONSTANTS Keys,        \* compatibility keys
          Txns,        \* transaction IDs; bound on the number of begins
          Faults       \* whether calls fail and the daemon dies for some time

ASSUME ConstantsAssumption ==
    /\ "none" \notin Keys /\ "none" \notin Txns
    /\ Faults \in BOOLEAN

VARIABLES
    \* the disk
    parentBy,     \* transaction whose data is at parents/<k>, "none" if absent
    health,       \* what readParent and verifyParent find there, if they can read
    quarantine,   \* transactions whose data was moved to quarantine/
    pending,      \* pending/<t>: absent, without or with pending.json
    place,        \* where t's data is below pending/<t>
    image,        \* whether digestTree accepts t's data
    seal,         \* publication/metadata.json against publication/data
    receipt,      \* key in receipts/<t>.json
    \* the daemon's memory
    pc, cur,
    \* observation and environment
    key,          \* key of a begun transaction
    committed,    \* commits that answered OK
    aborting,     \* transactions an abort has begun to remove
    rotted,       \* keys whose data someone else changed
    troubled      \* whether system calls may fail and the daemon may die now

diskVars == <<parentBy, health, quarantine, pending, place, image, seal, receipt>>
memVars  == <<pc, cur>>
obsVars  == <<key, committed, aborting, rotted, troubled>>
vars     == <<diskVars, memVars, obsVars>>

Init ==
    /\ parentBy = [k \in Keys |-> "none"]
    /\ health = [k \in Keys |-> "good"]
    /\ quarantine = {}
    /\ pending = [t \in Txns |-> "none"]
    /\ place = [t \in Txns |-> "none"]
    /\ image = [t \in Txns |-> "ok"]
    /\ seal = [t \in Txns |-> "none"]
    /\ receipt = [t \in Txns |-> "none"]
    /\ pc = "idle" /\ cur = "none"
    /\ key = [t \in Txns |-> "none"]
    /\ committed = {} /\ aborting = {} /\ rotted = {}
    /\ troubled = Faults

K == key[cur]

Return   == pc' = "idle" /\ cur' = "none"
Step(p)  == pc' = p /\ UNCHANGED cur

(* Definitions named Mutant_X are faulty variants of the X below them; no   *)
(* action uses them.                                                        *)

(* readParent succeeds and verifyParent agrees with the recorded identity   *)
(* and digest, as far as the disk can be read.                              *)
Mutant_ParentGood(k) == FALSE

ParentGood(k) == parentBy[k] # "none" /\ health[k] = "good"

(* What the daemon may conclude: any read error counts as a bad parent. *)
FoundBad(k) == ~ParentGood(k) \/ troubled

(* quarantineParentID renames parents/<id> away. *)
Mutant_Quarantined(k) ==
    /\ parentBy' = [parentBy EXCEPT ![k] = "none"]
    /\ health' = [health EXCEPT ![k] = "good"]
    /\ UNCHANGED quarantine

Quarantined(k) ==
    /\ parentBy' = [parentBy EXCEPT ![k] = "none"]
    /\ health' = [health EXCEPT ![k] = "good"]
    /\ quarantine' = quarantine \cup ({parentBy[k]} \ {"none"})

parentVars == <<parentBy, health, quarantine>>

-----------------------------------------------------------------------------
(* parent-begin.  A good parent is returned without a state change; one     *)
(* that was found bad is quarantined first.  Here and below, a request that *)
(* fails before it has changed anything is no step, and                     *)
(* manualRecoveryRequired, which these handlers only set, is left out.      *)
Begin(t, k) ==
    /\ pc = "idle" /\ key[t] = "none"
    /\ FoundBad(k) /\ Quarantined(k)
    /\ key' = [key EXCEPT ![t] = k]
    /\ pc' = "b_dir" /\ cur' = t
    /\ UNCHANGED <<pending, place, image, seal, receipt,
                   committed, aborting, rotted, troubled>>

(* The producer may later fill the staging directory with something that    *)
(* digestTree refuses (a symlink, a special file, a reserved name).         *)
BeginDir ==
    /\ pc = "b_dir"
    /\ \/ /\ pending' = [pending EXCEPT ![cur] = "bare"]
          /\ place' = [place EXCEPT ![cur] = "staging"]
          /\ image' \in {[image EXCEPT ![cur] = i] : i \in {"ok", "unsafe"}}
          /\ Step("b_json")
       \/ /\ troubled /\ Return
          /\ UNCHANGED <<pending, place, image>>
    /\ UNCHANGED <<parentVars, seal, receipt, obsVars>>

(* An error of writeJSON may come after its rename, from the read-back. *)
BeginJson ==
    /\ pc = "b_json"
    /\ \/ pending' = [pending EXCEPT ![cur] = "open"]
       \/ troubled /\ UNCHANGED pending
    /\ Return
    /\ UNCHANGED <<parentVars, place, image, seal, receipt, obsVars>>

-----------------------------------------------------------------------------
(* parent-commit *)

(* A receipt: the parent it names must still verify. *)
CommitAgain(t) ==
    /\ pc = "idle" /\ receipt[t] # "none"
    /\ ParentGood(receipt[t])
    /\ pc' = "k_cleanup" /\ cur' = t
    /\ UNCHANGED <<diskVars, obsVars>>

(* No receipt: pending.json must be there.  A parent published meanwhile    *)
(* (by an earlier try of this commit or by another transaction) is adopted, *)
(* one that was found bad is quarantined.                                   *)
CommitFirst(t) ==
    /\ pc = "idle" /\ receipt[t] = "none" /\ pending[t] = "open"
    /\ \/ /\ ParentGood(key[t])
          /\ pc' = "k_receipt" /\ cur' = t
          /\ UNCHANGED parentVars
       \/ /\ FoundBad(key[t])
          /\ Quarantined(key[t])
          /\ pc' = "k_move" /\ cur' = t
    /\ UNCHANGED <<pending, place, image, seal, receipt, obsVars>>

Commit(t) == CommitAgain(t) \/ CommitFirst(t)

(* staging -> publication/data, or resume with data already there *)
Mutant_Movable == place[cur] = "staging"

Movable == place[cur] \in {"staging", "publication"}

Mutant_AfterMove == "k_publish"

AfterMove == "k_seal"

CommitMove ==
    /\ pc = "k_move"
    /\ \/ /\ Movable
          /\ place' = [place EXCEPT ![cur] = "publication"]
          /\ Step(AfterMove)
       \/ /\ ~Movable \/ troubled
          /\ Return
          /\ UNCHANGED place
    /\ UNCHANGED <<parentVars, pending, image, seal, receipt, obsVars>>

(* digestTree, usage and identity of the data, recorded in metadata.json *)
CommitSeal ==
    /\ pc = "k_seal"
    /\ \/ /\ image[cur] = "ok"
          /\ seal' = [seal EXCEPT ![cur] = "match"]
          /\ Step("k_verify")
       \/ /\ image[cur] = "unsafe" \/ troubled
          /\ Return
          /\ UNCHANGED seal
    /\ UNCHANGED <<parentVars, pending, place, image, receipt, obsVars>>

(* verifyParent of the candidate, just before it is published *)
CommitVerify ==
    /\ pc = "k_verify"
    /\ \/ seal[cur] = "match" /\ Step("k_publish")
       \/ (seal[cur] # "match" \/ troubled) /\ Return
    /\ UNCHANGED <<diskVars, obsVars>>

(* publication -> parents/<id>, one rename *)
Mutant_AfterPublish == "k_cleanup"

AfterPublish == "k_receipt"

CommitPublish ==
    /\ pc = "k_publish"
    /\ \/ /\ parentBy' = [parentBy EXCEPT ![K] = cur]
          /\ health' = [health EXCEPT ![K] =
                CASE seal[cur] = "match" -> "good"
                  [] seal[cur] = "stale" -> "rotten"
                  [] seal[cur] = "none"  -> "unreadable"]
          /\ place' = [place EXCEPT ![cur] =
                IF place[cur] = "both" THEN "staging" ELSE "none"]
          /\ seal' = [seal EXCEPT ![cur] = "none"]
          /\ Step(AfterPublish)
       \/ /\ troubled /\ Return
          /\ UNCHANGED <<parentBy, health, place, seal>>
    /\ UNCHANGED <<quarantine, pending, image, receipt, obsVars>>

(* An error may come before or after the receipt is in place. *)
Mutant_ReceiptFor == cur

ReceiptFor == K

CommitReceipt ==
    /\ pc = "k_receipt"
    /\ \/ /\ receipt' = [receipt EXCEPT ![cur] = ReceiptFor]
          /\ \/ Step("k_cleanup")
             \/ troubled /\ Return
       \/ /\ troubled /\ Return
          /\ UNCHANGED receipt
    /\ UNCHANGED <<parentVars, pending, place, image, seal, obsVars>>

(* cleanupPendingTransaction: RemoveAll works through the directory and may *)
(* stop half way, in an error or because the daemon dies.                   *)
RemoveSome ==
    /\ pc \in {"k_cleanup", "x_remove"}
    /\ pending[cur] # "none"
    /\ \/ /\ pending' = [pending EXCEPT ![cur] = "bare"]
          /\ UNCHANGED <<place, seal>>
       \/ /\ place' = [place EXCEPT ![cur] = "none"]
          /\ seal' = [seal EXCEPT ![cur] = "none"]
          /\ UNCHANGED pending
    /\ \/ UNCHANGED <<pc, cur>>
       \/ troubled /\ Return
    /\ UNCHANGED <<parentVars, image, receipt, obsVars>>

RemoveRest ==
    /\ pc \in {"k_cleanup", "x_remove"}
    /\ pending' = [pending EXCEPT ![cur] = "none"]
    /\ place' = [place EXCEPT ![cur] = "none"]
    /\ seal' = [seal EXCEPT ![cur] = "none"]
    /\ committed' = IF pc = "k_cleanup" THEN committed \cup {cur} ELSE committed
    /\ Return
    /\ UNCHANGED <<parentVars, image, receipt,
                   key, aborting, rotted, troubled>>

(* workspace-acquire cannot verify a parent whose metadata it could read:   *)
(* the parent is quarantined.                                               *)
AcquireQuarantines(k) ==
    /\ pc = "idle" /\ parentBy[k] # "none" /\ health[k] # "unreadable"
    /\ FoundBad(k)
    /\ Quarantined(k)
    /\ UNCHANGED <<pending, place, image, seal, receipt, pc, cur, obsVars>>

(* parent-abort removes the pending directory and nothing else. *)
Abort(t) ==
    /\ pc = "idle" /\ pending[t] = "open"
    /\ pc' = "x_remove" /\ cur' = t
    /\ aborting' = aborting \cup {t}
    /\ UNCHANGED <<diskVars, key, committed, rotted, troubled>>

-----------------------------------------------------------------------------
(* Environment.  The daemon restarts with nothing in memory; recovery does  *)
(* not look at pending transactions.                                        *)
Crash ==
    /\ troubled
    /\ pc' = "idle" /\ cur' = "none"
    /\ UNCHANGED <<diskVars, key, committed, aborting, rotted, troubled>>

(* A producer that still holds files of the staging tree open writes to     *)
(* them after they were sealed.                                             *)
LateWrite(t) ==
    /\ seal[t] = "match"
    /\ seal' = [seal EXCEPT ![t] = "stale"]
    /\ rotted' = rotted \cup {key[t]}
    /\ UNCHANGED <<parentVars, pending, place, image, receipt, memVars,
                   key, committed, aborting, troubled>>

(* A producer makes the staging path again after the daemon moved it. *)
StagingReappears(t) ==
    /\ pending[t] = "open" /\ place[t] = "publication"
    /\ place' = [place EXCEPT ![t] = "both"]
    /\ UNCHANGED <<parentVars, pending, image, seal, receipt,
                   memVars, obsVars>>

(* The content or the metadata of a published parent is changed. *)
ParentRots(k) ==
    /\ ParentGood(k)
    /\ health' \in {[health EXCEPT ![k] = h] : h \in {"rotten", "unreadable"}}
    /\ rotted' = rotted \cup {k}
    /\ UNCHANGED <<parentBy, quarantine, pending, place, image, seal, receipt, memVars,
                   key, committed, aborting, troubled>>

(* The disk is repaired, or has room again, and the machine stays up.  A    *)
(* step that needs no trouble may come before this one as well, so the      *)
(* daemon may die any number of times, at any of its steps.                 *)
TroubleEnds ==
    /\ troubled /\ troubled' = FALSE
    /\ UNCHANGED <<diskVars, memVars, key, committed, aborting, rotted>>

-----------------------------------------------------------------------------
Handler ==
    \/ BeginDir \/ BeginJson
    \/ CommitMove \/ CommitSeal \/ CommitVerify \/ CommitPublish \/ CommitReceipt
    \/ RemoveSome \/ RemoveRest

Next ==
    \/ \E t \in Txns, k \in Keys : Begin(t, k)
    \/ \E t \in Txns : Commit(t) \/ Abort(t)
    \/ Handler
    \/ Crash \/ TroubleEnds
    \/ \E t \in Txns : LateWrite(t) \/ StagingReappears(t)
    \/ \E k \in Keys : AcquireQuarantines(k) \/ ParentRots(k)

Spec == Init /\ [][Next]_vars

(* The daemon runs a handler it has started, system calls do not fail for   *)
(* ever, and a producer repeats its commit until it is served.              *)
FairSpec ==
    /\ Spec
    /\ WF_vars(Handler) /\ WF_vars(TroubleEnds)
    /\ \A t \in Txns : SF_vars(Commit(t))

-----------------------------------------------------------------------------
(* Properties *)

(* Every variable has its type. *)
TypeOK ==
    /\ parentBy \in [Keys -> Txns \cup {"none"}]
    /\ health \in [Keys -> {"good", "rotten", "unreadable"}]
    /\ quarantine \in SUBSET Txns
    /\ pending \in [Txns -> {"none", "bare", "open"}]
    /\ place \in [Txns -> {"none", "staging", "publication", "both"}]
    /\ image \in [Txns -> {"ok", "unsafe"}]
    /\ seal \in [Txns -> {"none", "match", "stale"}]
    /\ receipt \in [Txns -> Keys \cup {"none"}]
    /\ pc \in {"idle", "b_dir", "b_json", "k_move", "k_seal", "k_verify",
               "k_publish", "k_receipt", "k_cleanup", "x_remove"}
    /\ cur \in Txns \cup {"none"}
    /\ key \in [Txns -> Keys \cup {"none"}]
    /\ committed \in SUBSET Txns
    /\ aborting \in SUBSET Txns
    /\ rotted \in SUBSET Keys
    /\ troubled \in BOOLEAN

(* The parent directory of k holds what its metadata says. *)
Verifiable(k) == parentBy[k] # "none" /\ health[k] = "good"

(* A parent nobody else touched is complete and verifiable as soon as it is *)
(* visible at parents/<id>: publication is one rename of a sealed tree.     *)
PublishedIsVerifiable ==
    \A k \in Keys \ rotted : parentBy[k] # "none" => Verifiable(k)

(* A commit that answered OK left a receipt, and a receipt is backed by a   *)
(* verifiable parent, whatever crashed or failed: a retry gets the same     *)
(* answer.  Exempt are keys whose parent someone else changed and keys with *)
(* a parent in quarantine, where a failing disk puts good ones; even then   *)
(* the data that was committed is still published or in quarantine.         *)
CommitDurable ==
    /\ \A t \in committed : receipt[t] = key[t]
    /\ \A t \in Txns : receipt[t] # "none" =>
         \/ /\ parentBy[receipt[t]] # "none"
            /\ key[t] \notin rotted => Verifiable(receipt[t])
         \/ \E u \in quarantine : key[u] = receipt[t]

(* The producer's data is never destroyed: until the transaction is aborted *)
(* or has its receipt, it is in staging, in the publication, published or   *)
(* in quarantine.                                                           *)
UnfinishedDataKept ==
    \A t \in Txns :
        pending[t] = "open" /\ receipt[t] = "none" /\ t \notin aborting
            => \/ place[t] # "none"
               \/ parentBy[key[t]] = t
               \/ t \in quarantine

(* A parent that verifies is never replaced or destroyed.  It leaves its    *)
(* place only when the disk fails under the daemon's reads, and then it     *)
(* goes to quarantine whole.                                                *)
GoodParentStays ==
    [][\A k \in Keys : Verifiable(k) /\ parentBy'[k] # parentBy[k] =>
         troubled /\ parentBy'[k] = "none" /\ parentBy[k] \in quarantine']_vars

(* A producer that repeats its commit ends with a published parent, however *)
(* often the daemon died and whatever failed in between, unless what it     *)
(* published or adopted has left its place again.                           *)
RetriedCommitSucceeds ==
    \A t \in Txns :
        (pending[t] = "open" /\ image[t] = "ok" /\ pc = "idle")
            ~> \/ t \in committed \cup aborting \cup quarantine
               \/ receipt[t] # "none" /\ ~Verifiable(receipt[t])
               \/ key[t] \in rotted
               \/ place[t] = "both"
=============================================================================
