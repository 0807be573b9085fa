------------------------- MODULE UnixParents_proofs -------------------------
(***************************************************************************)
(* Theorems about the parent transactions of the Unix daemon, for every    *)
(* set of keys and transactions, with or without failing system calls, and *)
(* for any number of crashes:                                              *)
(*                                                                         *)
(*   TypeCorrect         Spec => []TypeOK                                  *)
(*   PublishedWhole      Spec => []PublishedIsVerifiable                   *)
(*   CommitsDurable      Spec => []CommitDurable                           *)
(*   NothingLost         Spec => []UnfinishedDataKept                      *)
(*   GoodParentUntouched Spec => GoodParentStays                           *)
(*                                                                         *)
(* None of the properties is inductive: what a commit may do to the parent *)
(* directory of its key depends on what it found there some steps before.  *)
(* IInv records what a handler knows at each of its steps, and that only   *)
(* someone else's writes can make a published parent bad.                  *)
(***************************************************************************)
EXTENDS UnixParents, TLAPS

\* The commit has found no usable parent for its key, or has put it away.
Unpublished == {"k_move", "k_seal", "k_verify", "k_publish"}

\* A handler works for a transaction that has a key.
HandlerHasTxn == pc # "idle" => cur \in Txns /\ key[cur] \in Keys

\* Files exist only for transactions that were begun, and a receipt names
\* the key of its transaction.
FilesHaveKey ==
    \A t \in Txns :
        /\ pending[t] # "none" \/ seal[t] # "none" => key[t] \in Keys
        /\ receipt[t] # "none" => receipt[t] = key[t]

\* A parent directory, and what was moved to quarantine, holds the data of a
\* transaction of its key.
DataHasKey ==
    /\ \A k \in Keys : parentBy[k] # "none" => key[parentBy[k]] = k
    /\ \A t \in quarantine : key[t] \in Keys

\* What the running handler knows of the disk.
HandlerKnows ==
    /\ pc = "b_json" => place[cur] = "staging"
    /\ pc \in Unpublished => parentBy[K] = "none"
    /\ pc = "k_publish" =>
          seal[cur] = "match" \/ (seal[cur] = "stale" /\ K \in rotted)
    /\ pc = "k_receipt" => parentBy[K] # "none"
    /\ pc = "k_receipt" /\ K \notin rotted => Verifiable(K)
    /\ pc = "k_cleanup" => receipt[cur] = K
    /\ pc = "x_remove" => cur \in aborting

\* An answered commit has a receipt, not merely no key.
CommitHasReceipt == \A t \in committed : receipt[t] # "none"

Bookkeeping ==
    /\ HandlerHasTxn /\ FilesHaveKey /\ DataHasKey /\ HandlerKnows /\ CommitHasReceipt
    /\ PublishedIsVerifiable /\ CommitDurable /\ UnfinishedDataKept

IInv == TypeOK /\ Bookkeeping
-----------------------------------------------------------------------------
(* Type correctness                                                        *)

\* The markers for "no key" and "no transaction" are neither.
LEMMA Sentinels == "none" \notin Keys /\ "none" \notin Txns
BY ConstantsAssumption DEF ConstantsAssumption

\* Every action keeps the types, given what the handler knows.
LEMMA TypeStep ==
    ASSUME TypeOK, HandlerHasTxn, FilesHaveKey, HandlerKnows, [Next]_vars
    PROVE  TypeOK'
<1> USE DEF TypeOK, HandlerHasTxn
<1>1. ASSUME NEW t \in Txns, NEW k \in Keys, Begin(t, k) PROVE TypeOK'
  <2>1. /\ parentBy' \in [Keys -> Txns \cup {"none"}]
        /\ health' \in [Keys -> {"good", "rotten", "unreadable"}]
        /\ quarantine' \in SUBSET Txns
    BY <1>1 DEF Begin, Quarantined, parentVars
  <2>2. key' \in [Txns -> Keys \cup {"none"}]
    BY <1>1 DEF Begin
  <2>3. /\ pc' \in {"idle", "b_dir"} /\ cur' \in Txns \cup {"none"}
    BY <1>1 DEF Begin
  <2>4. QED
    BY <1>1, <2>1, <2>2, <2>3 DEF Begin
<1>2. ASSUME NEW t \in Txns, CommitAgain(t) PROVE TypeOK'
    BY <1>2 DEF CommitAgain, FoundBad, ParentGood, diskVars, obsVars
<1>3. ASSUME NEW t \in Txns, CommitFirst(t) PROVE TypeOK'
  <2>1. key[t] \in Keys
    BY <1>3 DEF CommitFirst, FilesHaveKey
  <2>2. /\ parentBy' \in [Keys -> Txns \cup {"none"}]
        /\ health' \in [Keys -> {"good", "rotten", "unreadable"}]
        /\ quarantine' \in SUBSET Txns
    BY <1>3, <2>1 DEF CommitFirst, Quarantined, parentVars
  <2>3. /\ pc' \in {"idle", "k_receipt", "k_move"} /\ cur' \in Txns \cup {"none"}
    BY <1>3 DEF CommitFirst
  <2>4. QED
    BY <1>3, <2>2, <2>3 DEF CommitFirst, obsVars
<1>4. ASSUME NEW t \in Txns, Abort(t) PROVE TypeOK'
    BY <1>4 DEF Abort, diskVars
<1>5. CASE BeginDir
    BY <1>5 DEF BeginDir, parentVars, Step, Return, obsVars
<1>6. CASE BeginJson
    BY <1>6 DEF BeginJson, parentVars, Return, obsVars
<1>7. CASE CommitMove
    BY <1>7 DEF CommitMove, parentVars, Movable, AfterMove, Step, Return, obsVars
<1>8. CASE CommitSeal
    BY <1>8 DEF CommitSeal, parentVars, Step, Return, obsVars
<1>9. CASE CommitVerify
    BY <1>9 DEF CommitVerify, Step, Return, diskVars, obsVars
<1>10. CASE CommitPublish
  <2>1. /\ cur \in Txns /\ K \in Keys
        /\ seal[cur] \in {"match", "stale"}
    BY <1>10 DEF CommitPublish, HandlerKnows, K
  <2>2. parentBy' \in [Keys -> Txns \cup {"none"}]
        /\ health' \in [Keys -> {"good", "rotten", "unreadable"}]
    BY <1>10, <2>1 DEF CommitPublish
  <2>3. place' \in [Txns -> {"none", "staging", "publication", "both"}]
        /\ seal' \in [Txns -> {"none", "match", "stale"}]
    BY <1>10, <2>1 DEF CommitPublish
  <2>4. QED
    BY <1>10, <2>2, <2>3 DEF CommitPublish, AfterPublish, Step, Return, obsVars
<1>11. CASE CommitReceipt
    BY <1>11 DEF CommitReceipt, parentVars, ReceiptFor, K, Step, Return, obsVars
<1>12. CASE RemoveSome
    BY <1>12 DEF RemoveSome, parentVars, Return, obsVars
<1>13. CASE RemoveRest
    BY <1>13 DEF RemoveRest, parentVars, Return
<1>14. CASE Crash
    BY <1>14 DEF Crash, diskVars
<1>15. CASE TroubleEnds
    BY <1>15 DEF TroubleEnds, diskVars, memVars
<1>16. ASSUME NEW t \in Txns, LateWrite(t) PROVE TypeOK'
    BY <1>16, Sentinels DEF LateWrite, parentVars, FilesHaveKey, memVars
<1>17. ASSUME NEW t \in Txns, StagingReappears(t) PROVE TypeOK'
    BY <1>17 DEF StagingReappears, parentVars, memVars, obsVars
<1>18. ASSUME NEW k \in Keys, ParentRots(k) PROVE TypeOK'
    BY <1>18 DEF ParentRots, ParentGood, memVars
<1>19. ASSUME NEW k \in Keys, AcquireQuarantines(k) PROVE TypeOK'
    BY <1>19 DEF AcquireQuarantines, FoundBad, ParentGood, Quarantined, parentVars, obsVars
<1>20. CASE UNCHANGED vars
    BY <1>20 DEF vars, diskVars, memVars, obsVars
<1>21. QED
    BY <1>1, <1>2, <1>3, <1>4, <1>5, <1>6, <1>7, <1>8, <1>9, <1>10, <1>11, <1>12,
       <1>13, <1>14, <1>15, <1>16, <1>17, <1>18, <1>19, <1>20
       DEF Next, Handler, Commit

-----------------------------------------------------------------------------
(* What the handlers know                                                  *)

\* Every action keeps the bookkeeping of the daemon.
LEMMA BookkeepingStep ==
    ASSUME IInv, [Next]_vars
    PROVE  Bookkeeping'
<1> USE Sentinels DEF IInv, Bookkeeping, TypeOK, HandlerHasTxn, FilesHaveKey, DataHasKey, HandlerKnows,
        CommitHasReceipt, PublishedIsVerifiable, CommitDurable,
        UnfinishedDataKept, Verifiable, Unpublished, K
<1>1. ASSUME NEW t \in Txns, NEW k \in Keys, Begin(t, k) PROVE Bookkeeping'
    BY <1>1 DEF Begin, FoundBad, ParentGood, Quarantined, parentVars
<1>2. ASSUME NEW t \in Txns, CommitAgain(t) PROVE Bookkeeping'
    BY <1>2 DEF CommitAgain, FoundBad, ParentGood, diskVars, obsVars
<1>3. ASSUME NEW t \in Txns, CommitFirst(t) PROVE Bookkeeping'
  <2> DEFINE k == key[t]
  <2>1. k \in Keys /\ pc = "idle" /\ receipt[t] = "none" /\ pending[t] = "open"
    BY <1>3 DEF CommitFirst
  <2>2. UNCHANGED <<pending, place, image, seal, receipt, obsVars>>
    BY <1>3 DEF CommitFirst
  <2>3. CASE ParentGood(k) /\ pc' = "k_receipt" /\ cur' = t /\ UNCHANGED parentVars
    BY <2>1, <2>2, <2>3 DEF ParentGood, parentVars, obsVars
  <2>4. CASE Quarantined(k) /\ pc' = "k_move" /\ cur' = t
    BY <2>1, <2>2, <2>4 DEF Quarantined, obsVars
  <2>5. CASE UNCHANGED <<parentVars, pc, cur>>
    BY <2>1, <2>2, <2>5 DEF parentVars, obsVars
  <2>6. QED
    BY <1>3, <2>3, <2>4, <2>5 DEF CommitFirst
<1>4. ASSUME NEW t \in Txns, Abort(t) PROVE Bookkeeping'
    BY <1>4 DEF Abort, diskVars
<1>5. CASE BeginDir
    BY <1>5 DEF BeginDir, parentVars, Step, Return, obsVars
<1>6. CASE BeginJson
    BY <1>6 DEF BeginJson, parentVars, Return, obsVars
<1>7. CASE CommitMove
    BY <1>7 DEF CommitMove, parentVars, Movable, AfterMove, Step, Return, obsVars
<1>8. CASE CommitSeal
    BY <1>8 DEF CommitSeal, parentVars, Step, Return, obsVars
<1>9. CASE CommitVerify
    BY <1>9 DEF CommitVerify, Step, Return, diskVars, obsVars
<1>10. CASE CommitPublish
    BY <1>10 DEF CommitPublish, AfterPublish, Step, Return, obsVars
<1>11. CASE CommitReceipt
    BY <1>11 DEF CommitReceipt, parentVars, ReceiptFor, Step, Return, obsVars
<1>12. CASE RemoveSome
    BY <1>12 DEF RemoveSome, parentVars, Return, obsVars
<1>13. CASE RemoveRest
    BY <1>13 DEF RemoveRest, parentVars, Return
<1>14. CASE Crash
    BY <1>14 DEF Crash, diskVars
<1>15. CASE TroubleEnds
    BY <1>15 DEF TroubleEnds, diskVars, memVars
<1>16. ASSUME NEW t \in Txns, LateWrite(t) PROVE Bookkeeping'
    BY <1>16 DEF LateWrite, parentVars, memVars
<1>17. ASSUME NEW t \in Txns, StagingReappears(t) PROVE Bookkeeping'
    BY <1>17 DEF StagingReappears, parentVars, memVars, obsVars
<1>18. ASSUME NEW k \in Keys, ParentRots(k) PROVE Bookkeeping'
    BY <1>18 DEF ParentRots, ParentGood, memVars
<1>19. ASSUME NEW k \in Keys, AcquireQuarantines(k) PROVE Bookkeeping'
    BY <1>19 DEF AcquireQuarantines, FoundBad, ParentGood, Quarantined, parentVars, obsVars
<1>20. CASE UNCHANGED vars
    BY <1>20 DEF vars, diskVars, memVars, obsVars
<1>21. QED
    BY <1>1, <1>2, <1>3, <1>4, <1>5, <1>6, <1>7, <1>8, <1>9, <1>10, <1>11, <1>12,
       <1>13, <1>14, <1>15, <1>16, <1>17, <1>18, <1>19, <1>20
       DEF Next, Handler, Commit

-----------------------------------------------------------------------------
(* The theorems                                                            *)

\* An empty store and an idle daemon satisfy the inductive invariant.
LEMMA InitIInv == Init => IInv
<1> SUFFICES ASSUME Init PROVE IInv
    OBVIOUS
<1>1. TypeOK
    BY ConstantsAssumption DEF Init, TypeOK, ConstantsAssumption
<1>2. Bookkeeping
    BY DEF Init, Bookkeeping, HandlerHasTxn, FilesHaveKey, DataHasKey, HandlerKnows,
        CommitHasReceipt, PublishedIsVerifiable, CommitDurable,
        UnfinishedDataKept, Verifiable, Unpublished
<1>3. QED
    BY <1>1, <1>2 DEF IInv

\* IInv holds in every reachable state of the daemon.
LEMMA Invariance == Spec => []IInv
<1>1. IInv /\ [Next]_vars => IInv'
    BY TypeStep, BookkeepingStep DEF IInv, Bookkeeping
<1>2. QED
    BY InitIInv, <1>1, PTL DEF Spec

\* The transactions' directories, the receipts and the Manager's fields keep
\* their types.
THEOREM TypeCorrect == Spec => []TypeOK
<1>1. IInv => TypeOK
    BY DEF IInv
<1>2. QED
    BY Invariance, <1>1, PTL

\* What parentCommit makes visible at parents/<id> is complete, whatever
\* fails and whenever the daemon dies: only others can spoil it.
THEOREM PublishedWhole == Spec => []PublishedIsVerifiable
<1>1. IInv => PublishedIsVerifiable
    BY DEF IInv, Bookkeeping
<1>2. QED
    BY Invariance, <1>1, PTL

\* A commit that answered OK has its receipt, and a receipt its parent, after
\* any number of deaths and repetitions; what was committed is published or,
\* after read errors or someone else's writes, in quarantine.
THEOREM CommitsDurable == Spec => []CommitDurable
<1>1. IInv => CommitDurable
    BY DEF IInv, Bookkeeping
<1>2. QED
    BY Invariance, <1>1, PTL

\* Wherever a commit failed or died, the producer's data is still there: for
\* the next attempt, published, or in quarantine.
THEOREM NothingLost == Spec => []UnfinishedDataKept
<1>1. IInv => UnfinishedDataKept
    BY DEF IInv, Bookkeeping
<1>2. QED
    BY Invariance, <1>1, PTL

\* A publishing rename meets no parent, because the handler looked before and
\* nobody else publishes; only a read that fails lets a begin, a commit or an
\* acquire move a parent that verifies, and it moves it to quarantine.
THEOREM GoodParentUntouched == Spec => GoodParentStays
<1> DEFINE Kept(k) ==
      Verifiable(k) /\ parentBy'[k] # parentBy[k] =>
         troubled /\ parentBy'[k] = "none" /\ parentBy[k] \in quarantine'
<1>1. IInv /\ [Next]_vars => [\A k \in Keys : Kept(k)]_vars
  <2> SUFFICES ASSUME IInv, [Next]_vars, NEW k \in Keys
               PROVE  Kept(k)
    OBVIOUS
  <2> USE DEF IInv, TypeOK, Verifiable
  <2>1. ASSUME NEW t \in Txns, NEW q \in Keys, Begin(t, q) PROVE Kept(k)
    BY <2>1 DEF Begin, FoundBad, ParentGood, Quarantined, parentVars
  <2>2. ASSUME NEW t \in Txns, CommitFirst(t) PROVE Kept(k)
    BY <2>2 DEF CommitFirst, FoundBad, ParentGood, Quarantined, parentVars
  <2>3. ASSUME NEW q \in Keys, AcquireQuarantines(q) PROVE Kept(k)
    BY <2>3 DEF AcquireQuarantines, FoundBad, ParentGood, Quarantined, parentVars
  <2>4. CASE CommitPublish
    BY <2>4 DEF CommitPublish, Bookkeeping, HandlerKnows, Unpublished
  <2>5. CASE UNCHANGED parentBy
    BY <2>5
  <2>6. QED
    BY <2>1, <2>2, <2>3, <2>4, <2>5
       DEF Next, Handler, Commit, CommitAgain, Abort, BeginDir, BeginJson,
           CommitMove, CommitSeal, CommitVerify, CommitReceipt, RemoveSome,
           RemoveRest, Crash, TroubleEnds, LateWrite, StagingReappears,
           ParentRots, diskVars, parentVars, vars
<1>2. QED
    BY Invariance, <1>1, PTL DEF Spec, GoodParentStays
=============================================================================
