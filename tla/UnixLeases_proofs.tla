-------------------------- MODULE UnixLeases_proofs --------------------------
(***************************************************************************)
(* Theorems about the lease lifecycle of the Unix daemon, for every set of *)
(* leases and workspaces, with or without I/O faults and tampering, and    *)
(* for any number of crashes:                                              *)
(*                                                                         *)
(*   TypeCorrect           Spec => []TypeOK                                *)
(*   TreesAreReachable     Spec => []TreeHasJournal                        *)
(*   MarkerStays           Spec => []MarkerOutlivesTree                    *)
(*   LinksAreGood          Spec => []NoDanglingMount                       *)
(*   GrantedStays          Spec => []GrantedLeaseIntact                    *)
(*   ReleasedGone          Spec => []ReleasedMeansGone                     *)
(*   UncertaintyIsFlagged  Spec => []UncertainTreeFlagged                  *)
(*   ForeignStays          Spec => ForeignKept                             *)
(*   MarkerGoesLast        Spec => MarkerRemovedLast                       *)
(*                                                                         *)
(* None of them is inductive.  IInv adds what the handlers know      *)
(* between their steps: which files of the running lease exist at which    *)
(* program counter, that a link to l lies in l's own workspace, and that a *)
(* handle marked released has neither tree nor link.  LifeInv adds, for the*)
(* other properties, what is known of the markers and the quarantined trees*)
(* (FilesInv) and of what clients were told (ClientsInv).                  *)
(***************************************************************************)
EXTENDS UnixLeases, TLAPS

\* The program counters of a handler that works for the lease cur.
Handling == PCs \ {"down", "recover", "idle"}

\* From the first journal write until the tree is deleted.
Journalled == {"a_clone", "a_mark", "a_link", "a_ready",
               "d_unmount", "d_validate", "d_rename", "d_check", "d_delete"}

\* No Library link to cur exists: not yet, or not any more.
Unlinked == {"a_owner", "a_owner_fill", "a_journal", "a_clone", "a_mark",
             "a_link", "d_validate", "d_rename", "d_check", "d_delete",
             "c_owner", "c_journal"}

\* The tree of cur has left its path.
Treeless == {"d_check", "d_delete", "c_owner", "c_journal"}

\* The handle of cur, if it has one, has not been released.
Holding == {"a_owner", "a_owner_fill", "a_journal", "a_clone", "a_mark",
            "a_link", "a_ready", "a_failed",
            "d_unmount", "d_validate", "d_rename", "d_check", "d_delete"}

HandlerHasLease == pc \in Handling => cur \in Leases /\ ws[cur] \in Workspaces

KnownHasWorkspace ==
    \A l \in Leases :
        child[l] # "none" \/ journal[l] # "none" \/ trash[l] # "none" \/ l \in todo
            => ws[l] \in Workspaces

LinkInOwnWorkspace ==
    \A w \in Workspaces : \A l \in Leases : mount[w] = l => ws[l] = w

HandlerFiles ==
    /\ pc \in Journalled => journal[cur] # "none"
    /\ pc \in Unlinked => \A w \in Workspaces : mount[w] # cur
    /\ pc \in Treeless => child[cur] = "none"
    /\ pc \in Holding => cur \notin released

ReleasedIsEmpty ==
    \A l \in released :
        /\ ws[l] # "none" /\ child[l] = "none"
        /\ \A w \in Workspaces : mount[w] # l

NothingReleasedYet ==
    pc \in {"down", "recover"} \/ mode \in {"recovery", "absent"} => released = {}

\* The part of TreeHasJournal about the child path and the link.
PathHasJournal ==
    \A l \in Leases :
        child[l] # "none" \/ (\E w \in Workspaces : mount[w] = l)
            => journal[l] # "none"

Bookkeeping ==
    /\ HandlerHasLease
    /\ KnownHasWorkspace
    /\ LinkInOwnWorkspace
    /\ HandlerFiles
    /\ ReleasedIsEmpty
    /\ NothingReleasedYet
    /\ PathHasJournal

IInv == TypeOK /\ Bookkeeping
-----------------------------------------------------------------------------
(* Type correctness                                                        *)

\* The handler is at a program counter and works for a lease, or for none.
TypedControl == pc' \in PCs /\ cur' \in Leases \cup {"none"} /\ mode' \in Modes

\* However a handler goes on or stops, its control state keeps its type.
LEMMA ControlTyped ==
    ASSUME TypeOK
    PROVE  /\ \A next \in PCs : Step(next) => TypedControl
           /\ Finish => TypedControl
           /\ Abandon => TypedControl /\ manual' \in BOOLEAN
           /\ GiveUp => TypedControl /\ manual' \in BOOLEAN
<1>1. /\ \A next \in PCs : Step(next) => TypedControl
      /\ Finish => TypedControl
    BY DEF TypeOK, TypedControl, Step, Finish, Caller, PCs, Modes
<1>2. Abandon => TypedControl /\ manual' \in BOOLEAN
    BY <1>1 DEF TypeOK, Abandon
<1>3. QED
    BY <1>1, <1>2 DEF TypeOK, GiveUp, PCs

\* Every action keeps the types, given that a handler works for a lease and
\* a tree belongs to a workspace.
LEMMA TypeStep ==
    ASSUME TypeOK, HandlerHasLease, KnownHasWorkspace, [Next]_vars
    PROVE  TypeOK'
<1> USE DEF TypeOK, PCs, Modes, Tree
<1>1. ASSUME NEW l \in Leases, NEW w \in Workspaces, AcquireBegin(l, w) PROVE TypeOK'
    BY <1>1 DEF AcquireBegin, diskVars, memVars
<1>2. CASE AcquireCorruptParent
    BY <1>2 DEF AcquireCorruptParent, ctlVars, obsVars
<1>3. CASE AcquireCreateOwner
    BY <1>3 DEF AcquireCreateOwner, Step, Finish, Caller, W, memVars, obsVars
<1>4. CASE AcquireFillOwner
    BY <1>4 DEF AcquireFillOwner, Step, Finish, Caller, W, memVars, obsVars
<1>5. CASE AcquireWriteJournal
  <2>1. /\ journal' \in [Leases -> {"none", "requested", "ready"}]
        /\ owner' \in [Workspaces -> Leases \cup {"none", "torn"}]
    BY <1>5 DEF AcquireWriteJournal
  <2>2. TypedControl /\ manual' \in BOOLEAN
    BY <1>5, ControlTyped DEF AcquireWriteJournal
  <2>3. QED
    BY <1>5, <2>1, <2>2 DEF AcquireWriteJournal, TypedControl, obsVars
<1>6. CASE AcquireClone
  <2>1. child' \in [Leases -> Tree]
    BY <1>6 DEF AcquireClone
  <2>2. mountExisted' \in [Leases -> BOOLEAN]
    <3>1. ASSUME mountExisted' = [mountExisted EXCEPT ![cur] = mount[W] = "emptydir"]
          PROVE  mountExisted' \in [Leases -> BOOLEAN]
      BY <3>1, (mount[W] = "emptydir") \in BOOLEAN, Zenon
    <3>2. QED
      BY <1>6, <3>1 DEF AcquireClone
  <2>3. pc' \in PCs /\ cur' = cur /\ mode' = mode
    BY <1>6 DEF AcquireClone, Step
  <2>4. QED
    BY <1>6, <2>1, <2>2, <2>3 DEF AcquireClone, memVars, obsVars
<1>7. CASE AcquireMark
    BY <1>7 DEF AcquireMark, Step, memVars, obsVars
<1>8. CASE AcquireLink
    BY <1>8 DEF AcquireLink, Step, W, memVars, obsVars
<1>9. CASE AcquireReady
    BY <1>9 DEF AcquireReady, Finish, Caller, HandlerHasLease, Handling
<1>10. CASE AcquireFailed
    BY <1>10 DEF AcquireFailed, Step, Finish, Caller, diskVars, obsVars
<1>11. ASSUME NEW l \in Leases, Release(l) PROVE TypeOK'
  <2>1. TypedControl
    BY <1>11 DEF Release, FirstStep, TypedControl, ctlVars
  <2>2. QED
    BY <1>11, <2>1 DEF Release, TypedControl, diskVars
<1>12. CASE Unmount
  <2>1. mount' \in [Workspaces -> Leases \cup {"none", "foreign", "emptydir"}]
    BY <1>12 DEF Unmount, W
  <2>2. TypedControl /\ manual' \in BOOLEAN
    BY <1>12, ControlTyped DEF Unmount
  <2>3. QED
    BY <1>12, <2>1, <2>2 DEF Unmount, TypedControl, obsVars
<1>13. CASE ValidateChild
  <2>1. TypedControl /\ manual' \in BOOLEAN
    BY <1>13, ControlTyped DEF ValidateChild
  <2>2. QED
    BY <1>13, <2>1 DEF ValidateChild, TypedControl, diskVars, obsVars
<1>14. CASE QuarantineChild
  <2>1. cur \in Leases /\ child[cur] \in Tree
    BY <1>14 DEF QuarantineChild, HandlerHasLease, Handling
  <2>2. trash' \in [Leases -> Tree] /\ child' \in [Leases -> Tree]
    BY <1>14, <2>1 DEF QuarantineChild
  <2>3. TypedControl /\ manual' \in BOOLEAN
    BY <1>14, ControlTyped DEF QuarantineChild
  <2>4. QED
    BY <1>14, <2>1, <2>2, <2>3 DEF QuarantineChild, TypedControl, obsVars
<1>15. CASE DeleteQuarantined
  <2>1. trash' \in [Leases -> Tree]
    BY <1>15 DEF DeleteQuarantined
  <2>2. released' \in SUBSET Leases /\ lost' \in SUBSET Leases
    BY <1>15 DEF DeleteQuarantined, LeftInQuarantine, HandlerHasLease, Handling
  <2>3. TypedControl /\ manual' \in BOOLEAN
    BY <1>15, ControlTyped DEF DeleteQuarantined
  <2>4. QED
    BY <1>15, <2>1, <2>2, <2>3 DEF DeleteQuarantined, TypedControl
<1>16. CASE RemoveOwner
  <2>1. owner' \in [Workspaces -> Leases \cup {"none", "torn"}]
    BY <1>16 DEF RemoveOwner, W
  <2>2. TypedControl /\ manual' \in BOOLEAN
    BY <1>16, ControlTyped DEF RemoveOwner
  <2>3. QED
    BY <1>16, <2>1, <2>2 DEF RemoveOwner, TypedControl, obsVars
<1>17. CASE RemoveJournal
  <2>1. cur \in Leases
    BY <1>17 DEF RemoveJournal, HandlerHasLease, Handling
  <2>2. journal' \in [Leases -> {"none", "requested", "ready"}]
    BY <1>17 DEF RemoveJournal, JournalRemoved
  <2>3. leases' \subseteq Leases /\ released' \subseteq Leases /\ done' \subseteq Leases
    BY <1>17, <2>1 DEF RemoveJournal
  <2>4. TypedControl /\ manual' \in BOOLEAN
    BY <1>17, ControlTyped DEF RemoveJournal
  <2>5. QED
    BY <1>17, <2>2, <2>3, <2>4 DEF RemoveJournal, TypedControl
<1>18. CASE Start
    BY <1>18 DEF Start, diskVars, obsVars
<1>19. ASSUME NEW l \in Leases, RecoverLease(l) PROVE TypeOK'
  <2>1. TypedControl
    BY <1>19 DEF RecoverLease, RecoverKeep, RecoverCleanup, TypedControl, ctlVars
  <2>2. leases' \subseteq Leases /\ todo' \subseteq Leases /\ manual' \in BOOLEAN
    BY <1>19 DEF RecoverLease, RecoverKeep, RecoverCleanup
  <2>3. QED
    BY <1>19, <2>1, <2>2 DEF RecoverLease, TypedControl, diskVars, obsVars
<1>20. CASE RecoverDone
    BY <1>20 DEF RecoverDone, diskVars, memVars, obsVars
<1>21. CASE Crash
  <2>1. crashes' \in 0..MaxCrashes
    BY <1>21, ConstantsAssumption DEF Crash, Forget, ConstantsAssumption
  <2>2. QED
    BY <1>21, <2>1 DEF Crash, Forget, diskVars
<1>22. CASE Reboot
  <2>1. crashes' \in 0..MaxCrashes
    BY <1>22, ConstantsAssumption DEF Reboot, Forget, ConstantsAssumption
  <2>2. QED
    BY <1>22, <2>1 DEF Reboot, Forget, diskVars
<1>23. ASSUME NEW l \in Leases, ClientDies(l) PROVE TypeOK'
    BY <1>23 DEF ClientDies, diskVars, ctlVars, memVars
<1>24. CASE ParentRots
    BY <1>24 DEF ParentRots, ctlVars, memVars, obsVars
<1>25. CASE ParentRepublished
    BY <1>25 DEF ParentRepublished, ctlVars, memVars, obsVars
<1>26. ASSUME NEW l \in Leases, TamperChild(l) PROVE TypeOK'
    BY <1>26 DEF TamperChild, ctlVars, memVars, KnownHasWorkspace
<1>27. ASSUME NEW w \in Workspaces, TamperWorkspace(w) PROVE TypeOK'
    BY <1>27 DEF TamperWorkspace, ctlVars, memVars
<1>28. ASSUME NEW w \in Workspaces, UserEditsLibrary(w) PROVE TypeOK'
    BY <1>28 DEF UserEditsLibrary, ctlVars, memVars, obsVars
<1>29. CASE UNCHANGED vars
    BY <1>29 DEF vars, diskVars, ctlVars, memVars, obsVars
<1>30. CASE RevalidateQuarantined
  <2>1. cur \in Leases /\ trash[cur] \in Tree
    BY <1>30 DEF RevalidateQuarantined, HandlerHasLease, Handling
  <2>2. trash' \in [Leases -> Tree] /\ child' \in [Leases -> Tree]
    BY <1>30, <2>1 DEF RevalidateQuarantined
  <2>3. lost' \in SUBSET Leases
    BY <1>30, <2>1 DEF RevalidateQuarantined, LeftInQuarantine
  <2>4. TypedControl /\ manual' \in BOOLEAN
    BY <1>30, ControlTyped DEF RevalidateQuarantined
  <2>5. QED
    BY <1>30, <2>2, <2>3, <2>4 DEF RevalidateQuarantined, TypedControl
<1>31. ASSUME NEW l \in Leases, TamperQuarantine(l) PROVE TypeOK'
    BY <1>31 DEF TamperQuarantine, ctlVars, memVars, KnownHasWorkspace
<1>32. QED
    BY <1>1, <1>2, <1>3, <1>4, <1>5, <1>6, <1>7, <1>8, <1>9, <1>10, <1>11, <1>12,
       <1>13, <1>14, <1>15, <1>16, <1>17, <1>18, <1>19, <1>20, <1>21, <1>22, <1>23,
       <1>24, <1>25, <1>26, <1>27, <1>28, <1>29, <1>30, <1>31
       DEF Next, Acquire, Cleanup, Recovery, Environment
-----------------------------------------------------------------------------
(* The files of a lease                                                    *)

\* No lease has the name of something else that a Library can be, and no
\* workspace the name of the absent one.
LEMMA Sentinels ==
    /\ \A l \in Leases : l \notin {"none", "torn", "foreign", "emptydir"}
    /\ "none" \notin Workspaces
BY ConstantsAssumption DEF ConstantsAssumption

\* How a handler stops: the daemon is idle, or back in a recovery during which
\* nothing has been released.
Stopped ==
    /\ pc' \in {"idle", "recover"} /\ mode' = "none"
    /\ pc' = "recover" => released = {}

\* A handler that gives up stops, or returns to acquire, which still holds cur.
LEMMA HandlerStops ==
    ASSUME NothingReleasedYet
    PROVE  /\ Finish => Stopped
           /\ Abandon => Stopped
           /\ GiveUp => Stopped \/ Step("a_failed")
BY DEF NothingReleasedYet, Stopped, GiveUp, Abandon, Finish, Caller

\* Every action keeps the daemon's bookkeeping: the files of the running lease
\* agree with its program counter, and journals outlive trees and links.
LEMMA BookkeepingStep ==
    ASSUME IInv, [Next]_vars
    PROVE  Bookkeeping'
<1> USE DEF IInv, Bookkeeping, TypeOK, HandlerHasLease, KnownHasWorkspace,
        LinkInOwnWorkspace, HandlerFiles, ReleasedIsEmpty, NothingReleasedYet,
        PathHasJournal, PCs, Handling, Journalled, Unlinked, Treeless, Holding
<1>1. ASSUME NEW l \in Leases, NEW w \in Workspaces, AcquireBegin(l, w) PROVE Bookkeeping'
    BY <1>1, Sentinels DEF AcquireBegin, diskVars, memVars
<1>2. CASE AcquireCorruptParent
    BY <1>2 DEF AcquireCorruptParent, ctlVars, obsVars
<1>3. CASE AcquireCreateOwner
    BY <1>3 DEF AcquireCreateOwner, Step, Finish, Caller, W, memVars, obsVars
<1>4. CASE AcquireFillOwner
    BY <1>4 DEF AcquireFillOwner, Step, Finish, Caller, W, memVars, obsVars
<1>5. CASE AcquireWriteJournal
    BY <1>5 DEF AcquireWriteJournal, Step, Finish, Caller, W, obsVars
<1>6. CASE AcquireClone
    BY <1>6 DEF AcquireClone, Step, W, memVars, obsVars
<1>7. CASE AcquireMark
    BY <1>7 DEF AcquireMark, Step, memVars, obsVars
<1>8. CASE AcquireLink
    BY <1>8, Sentinels DEF AcquireLink, Step, W, memVars, obsVars
<1>9. CASE AcquireReady
    BY <1>9 DEF AcquireReady, Finish, Caller
<1>10. CASE AcquireFailed
    BY <1>10, Sentinels DEF AcquireFailed, NothingLeft, W, Step, Finish, Caller,
       diskVars, obsVars
<1>11. ASSUME NEW l \in Leases, Release(l) PROVE Bookkeeping'
    BY <1>11 DEF Release, FirstStep, diskVars, ctlVars
<1>12. CASE Unmount
    BY <1>12, Sentinels, HandlerStops DEF Unmount, W, Step, Stopped, obsVars
<1>13. CASE ValidateChild
    BY <1>13, Sentinels, HandlerStops DEF ValidateChild, Step, Stopped, diskVars,
       obsVars
<1>14. CASE QuarantineChild
    BY <1>14, Sentinels, HandlerStops DEF QuarantineChild, Step, Stopped, obsVars
<1>15. CASE DeleteQuarantined
    BY <1>15, Sentinels, HandlerStops DEF DeleteQuarantined, Step, Stopped
<1>16. CASE RemoveOwner
    BY <1>16, Sentinels, HandlerStops DEF RemoveOwner, W, Step, Stopped, obsVars
<1>17. CASE RemoveJournal
    BY <1>17, Sentinels, HandlerStops DEF RemoveJournal, JournalRemoved, Stopped
<1>18. CASE Start
    BY <1>18 DEF Start, diskVars, obsVars
<1>19. ASSUME NEW l \in Leases, RecoverLease(l) PROVE Bookkeeping'
    BY <1>19, Sentinels DEF RecoverLease, RecoverKeep, RecoverCleanup, ctlVars,
       diskVars, obsVars
<1>20. CASE RecoverDone
    BY <1>20 DEF RecoverDone, diskVars, memVars, obsVars
<1>21. CASE Crash
    BY <1>21 DEF Crash, Forget, diskVars
<1>22. CASE Reboot
    BY <1>22 DEF Reboot, Forget, diskVars
<1>23. ASSUME NEW l \in Leases, ClientDies(l) PROVE Bookkeeping'
    BY <1>23 DEF ClientDies, diskVars, ctlVars, memVars
<1>24. CASE ParentRots
    BY <1>24 DEF ParentRots, ctlVars, memVars, obsVars
<1>25. CASE ParentRepublished
    BY <1>25 DEF ParentRepublished, ctlVars, memVars, obsVars
<1>26. ASSUME NEW l \in Leases, TamperChild(l) PROVE Bookkeeping'
    BY <1>26 DEF TamperChild, ctlVars, memVars
<1>27. ASSUME NEW w \in Workspaces, TamperWorkspace(w) PROVE Bookkeeping'
    BY <1>27, Sentinels DEF TamperWorkspace, ctlVars, memVars
<1>28. ASSUME NEW w \in Workspaces, UserEditsLibrary(w) PROVE Bookkeeping'
    BY <1>28, Sentinels DEF UserEditsLibrary, ctlVars, memVars, obsVars
<1>29. CASE UNCHANGED vars
    BY <1>29 DEF vars, diskVars, ctlVars, memVars, obsVars
<1>30. CASE RevalidateQuarantined
    BY <1>30, Sentinels, HandlerStops DEF RevalidateQuarantined, QuarantineValid, Step,
       Stopped
<1>31. ASSUME NEW l \in Leases, TamperQuarantine(l) PROVE Bookkeeping'
    BY <1>31 DEF TamperQuarantine, ctlVars, memVars
<1>32. QED
    BY <1>1, <1>2, <1>3, <1>4, <1>5, <1>6, <1>7, <1>8, <1>9, <1>10, <1>11, <1>12,
       <1>13, <1>14, <1>15, <1>16, <1>17, <1>18, <1>19, <1>20, <1>21, <1>22, <1>23,
       <1>24, <1>25, <1>26, <1>27, <1>28, <1>29, <1>30, <1>31
       DEF Next, Acquire, Cleanup, Recovery, Environment
-----------------------------------------------------------------------------
(* The theorems                                                            *)

\* An empty disk and a stopped daemon satisfy the inductive invariant.
LEMMA InitIInv == Init => IInv
<1> SUFFICES ASSUME Init PROVE IInv
    OBVIOUS
<1>1. TypeOK
  <2>1. crashes \in 0..MaxCrashes
    BY ConstantsAssumption DEF Init, ConstantsAssumption
  <2>2. QED
    BY <2>1 DEF Init, TypeOK, PCs, Modes, Tree
<1>2. Bookkeeping
    BY Sentinels DEF Init, Bookkeeping, HandlerHasLease, KnownHasWorkspace,
        LinkInOwnWorkspace, HandlerFiles, ReleasedIsEmpty, NothingReleasedYet,
        PathHasJournal, PCs, Handling, Journalled, Unlinked, Treeless, Holding
<1>3. QED
    BY <1>1, <1>2 DEF IInv

\* IInv holds in every reachable state of the daemon.
LEMMA Invariance == Spec => []IInv
<1>1. IInv /\ [Next]_vars => IInv'
    BY TypeStep, BookkeepingStep DEF IInv, Bookkeeping
<1>2. QED
    BY InitIInv, <1>1, PTL DEF Spec

\* The handlers, the recovery and the environment of the daemon never leave
\* the types of the disk and of Manager's fields.
THEOREM TypeCorrect == Spec => []TypeOK
<1>1. IInv => TypeOK
    BY DEF IInv
<1>2. QED
    BY Invariance, <1>1, PTL

-----------------------------------------------------------------------------
(* The whole life of a lease                                               *)

\* A marker of l lies in l's own workspace.
OwnerInOwnWorkspace ==
    \A w \in Workspaces : \A l \in Leases : owner[w] = l => ws[l] = w

\* What was granted or released had a workspace.
UsedHasWorkspace ==
    \A l \in Leases : l \in granted \/ l \in done => ws[l] \in Workspaces

\* The program counters of acquire itself.
Acquiring == {"a_owner", "a_owner_fill", "a_journal", "a_clone", "a_mark",
              "a_link", "a_ready", "a_failed"}

\* A handler has a purpose, and only recovery has journals left to look at,
\* which exist and do not include the one it works on.
TodoKnown ==
    /\ pc \in Handling <=> mode # "none"
    /\ mode = "absent" => pc \in {"c_owner", "c_journal"}
    /\ pc \in Acquiring => mode = "acquire"
    /\ pc \in {"idle", "down"} \/ mode \in {"acquire", "rollback", "release"} => todo = {}
    /\ pc \in Handling => cur \notin todo
    /\ \A l \in todo : journal[l] # "none"

\* A tree is at its path or in quarantine.
TrashKnown == \A l \in Leases : trash[l] # "none" => child[l] = "none"

\* A quarantined tree that is not lost has its journal, and recovery does not
\* take its lease for finished.  It is the running handler's concern or
\* reported; a handler that is past deleting the tree has none.
QuarantineKnown ==
    \A l \in Leases : trash[l] # "none" /\ l \notin lost =>
        /\ pc # "down" /\ journal[l] # "none" /\ l \notin todo
        /\ manual \/ (pc \in Handling /\ cur = l)
        /\ pc \in Handling /\ cur = l =>
              \/ pc \in {"d_check", "d_delete"}
              \/ pc \in {"d_unmount", "d_validate", "d_rename"} /\ mode # "acquire"

\* What the handler knows of the tree of its lease.
HandlerTree ==
    /\ pc \in {"a_owner", "a_owner_fill", "a_journal", "a_clone"} =>
          child[cur] = "none" /\ trash[cur] = "none"
    /\ pc = "a_mark" => child[cur] = "unowned"
    /\ pc \in {"a_link", "a_ready", "d_rename"} =>
          child[cur] = "owned" \/ W \in tampered
    /\ pc \in {"c_owner", "c_journal"} /\ mode = "release" => trash[cur] = "none"
    /\ \A l \in released : trash[l] = "none"
    /\ pc = "d_delete" /\ trash[cur] = "foreign" => cur \in raced

\* What it knows of the marker and the link in the workspace.
HandlerMarker ==
    /\ pc = "a_owner_fill" => owner[W] \in {"none", "torn"}
    /\ pc \in {"a_journal", "a_clone", "d_check"} =>
          owner[W] = cur \/ W \in tampered
    /\ pc = "a_ready" => mount[W] = cur \/ W \in tampered
    /\ pc = "c_journal" => owner[W] # cur

\* A handler works only for leases that nobody may rely on any more, or not
\* yet, or of which nothing is left.
MayDispose ==
    pc \in Handling =>
        /\ cur \notin done
        /\ \/ cur \notin granted \/ cur \in asked \/ client[cur] = "dead"
           \/ mode = "absent"

\* While the daemon runs without having raised manualRecovery, every tree is
\* a whole lease, or someone's concern: the handler's or the recovery's.
TreesFlagged ==
    pc # "down" /\ ~manual =>
        \A l \in Leases :
            child[l] # "none" /\ ws[l] \notin tampered =>
                \/ l \in leases /\ Intact(l)
                \/ pc \in Handling /\ l = cur
                \/ l \in todo

\* The part about the files, and the part about what clients were told.
FilesInv ==
    /\ OwnerInOwnWorkspace /\ UsedHasWorkspace /\ TodoKnown /\ TrashKnown
    /\ QuarantineKnown /\ HandlerTree /\ HandlerMarker
    /\ MarkerOutlivesTree /\ NoDanglingMount

ClientsInv == MayDispose /\ TreesFlagged /\ GrantedLeaseIntact /\ ReleasedMeansGone

LifeInv == IInv /\ FilesInv /\ ClientsInv

\* What a step of a cleanup may do.  The files of other leases stay.
OthersKept ==
    \A l \in Leases : l # cur =>
        /\ child'[l] = child[l] /\ trash'[l] = trash[l] /\ journal'[l] = journal[l]
        /\ l \in leases => l \in leases'
        /\ l \in done' => l \in done

\* Only the marker and the link of the handler's own lease go, the marker
\* after the tree.
OwnMarker ==
    \A w \in Workspaces :
        \/ owner'[w] = owner[w]
        \/ owner[w] = cur /\ owner'[w] = "none" /\ child[cur] = "none" /\ child' = child

OwnLink ==
    \A w \in Workspaces :
        \/ mount'[w] = mount[w]
        \/ mount[w] = cur /\ mount'[w] \in {"none", "emptydir"}

\* Its tree stays, is put away, comes back, or is deleted as far as possible.
OwnTree ==
    \/ child' = child /\ trash' = trash
    \/ pc = "d_rename" /\ child'[cur] = "none" /\ trash'[cur] = child[cur]
    \/ pc = "d_check" /\ child'[cur] = trash[cur] /\ trash'[cur] = "none"
    \/ pc = "d_delete" /\ child' = child /\ trash'[cur] = "none"
    \/ /\ pc = "d_delete" /\ child' = child
       /\ trash[cur] = "owned" /\ trash'[cur] = "unowned"

\* It goes on, knowing more, or it stops and says so unless its lease is gone.
OwnControl ==
    \/ /\ Finish
       /\ \/ manual' = TRUE
          \/ manual' = manual /\ pc \in {"c_owner", "c_journal"} /\ child'[cur] = "none"
       /\ pc # "c_journal" => journal' = journal
       /\ \/ done' = done
          \/ /\ pc = "c_journal" /\ mode = "release"
             /\ done' = done \cup {cur} /\ journal'[cur] = "none"
             /\ child' = child /\ trash' = trash /\ owner' = owner /\ mount' = mount
    \/ /\ cur' = cur /\ mode' = mode /\ manual' = manual /\ done' = done
       /\ journal' = journal
       /\ \/ /\ pc' = "a_failed" /\ mode = "acquire"
             /\ pc \in {"d_check", "d_delete"} => trash'[cur] = "none" \/ cur \in lost'
             /\ pc # "d_rename" \/ trash' = trash
          \/ pc' = "d_validate" /\ pc = "d_unmount"
          \/ pc' = "d_rename" /\ pc = "d_validate" /\ child'[cur] = "owned"
          \/ /\ pc' = "d_check" /\ pc = "d_rename"
             /\ child[cur] # "none" /\ owner' = owner
          \/ pc' = "d_delete" /\ pc = "d_check" /\ trash'[cur] = "owned"
          \/ pc' = "c_owner" /\ pc = "d_delete" /\ trash'[cur] = "none"
          \/ /\ pc' = "c_journal" /\ pc = "c_owner" /\ trash' = trash
             /\ owner'[W] # cur

Cleaning ==
    /\ pc \in Handling
    /\ OthersKept /\ OwnMarker /\ OwnLink /\ OwnTree /\ OwnControl
    /\ released' \subseteq released \cup {cur}
    /\ cur \in released' /\ cur \notin released => trash'[cur] = "none"
    /\ lost \subseteq lost'
    /\ UNCHANGED <<todo, ws, client, granted, asked, tampered, raced>>

\* A handler that gives up returns to acquire or raises manualRecovery.
LEMMA Giving ==
    ASSUME TypeOK
    PROVE  /\ GiveUp => \/ mode = "acquire" /\ Step("a_failed") /\ manual' = manual
                        \/ mode # "acquire" /\ Finish /\ manual' = TRUE
           /\ Abandon => Finish /\ (manual' = TRUE \/ manual' = manual)
BY DEF TypeOK, GiveUp, Abandon

\* Every step of a cleanup is of that kind.
LEMMA CleanupCleans ==
    ASSUME IInv, Cleanup
    PROVE  Cleaning
<1>0. pc \in Handling => cur \in Leases /\ W \in Workspaces
    BY DEF IInv, Bookkeeping, HandlerHasLease, W
<1>1. CASE Unmount
  <2>1. pc = "d_unmount" /\ pc \in Handling /\ cur \in Leases /\ W \in Workspaces
    BY <1>0, <1>1 DEF Unmount, Handling, PCs
  <2>2. OthersKept /\ OwnMarker /\ OwnTree
    BY <1>1 DEF Unmount, OthersKept, OwnMarker, OwnTree, obsVars
  <2>3. OwnLink
    BY <1>1, <2>1 DEF Unmount, OwnLink, IInv, TypeOK
  <2>4. OwnControl
    BY <1>1, Giving DEF Unmount, OwnControl, Step, obsVars, IInv
  <2>5. QED
    BY <1>1, <2>1, <2>2, <2>3, <2>4 DEF Unmount, Cleaning, obsVars
<1>2. CASE ValidateChild
  <2>1. pc = "d_validate" /\ pc \in Handling /\ cur \in Leases /\ W \in Workspaces
    BY <1>0, <1>2 DEF ValidateChild, Handling, PCs
  <2>2. OthersKept /\ OwnMarker /\ OwnTree /\ OwnLink
    BY <1>2 DEF ValidateChild, OthersKept, OwnMarker, OwnTree, OwnLink, diskVars, obsVars
  <2>3. OwnControl
    BY <1>2, Giving DEF ValidateChild, OwnControl, Step, diskVars, obsVars, IInv
  <2>4. QED
    BY <1>2, <2>1, <2>2, <2>3 DEF ValidateChild, Cleaning, diskVars, obsVars
<1>3. CASE QuarantineChild
  <2>1. pc = "d_rename" /\ pc \in Handling /\ cur \in Leases /\ W \in Workspaces
    BY <1>0, <1>3 DEF QuarantineChild, Handling, PCs
  <2>2. OwnMarker /\ OwnLink
    BY <1>3 DEF QuarantineChild, OwnMarker, OwnLink
  <2>3. OthersKept /\ OwnTree
    BY <1>3, <2>1 DEF QuarantineChild, OthersKept, OwnTree, IInv, TypeOK, obsVars
  <2>4. OwnControl
    BY <1>3, Giving DEF QuarantineChild, OwnControl, Step, obsVars, IInv
  <2>5. QED
    BY <1>3, <2>1, <2>2, <2>3, <2>4 DEF QuarantineChild, Cleaning, obsVars
<1>4. CASE DeleteQuarantined
  <2>1. pc = "d_delete" /\ pc \in Handling /\ cur \in Leases /\ W \in Workspaces
    BY <1>0, <1>4 DEF DeleteQuarantined, Handling, PCs
  <2>2. OwnMarker /\ OwnLink
    BY <1>4 DEF DeleteQuarantined, OwnMarker, OwnLink
  <2>3. OthersKept /\ OwnTree
    BY <1>4, <2>1 DEF DeleteQuarantined, OthersKept, OwnTree, IInv, TypeOK
  <2>4. OwnControl
    BY <1>4, <2>1, Giving
       DEF DeleteQuarantined, LeftInQuarantine, OwnControl, Step, IInv, TypeOK
  <2>5. cur \in released' /\ cur \notin released => trash'[cur] = "none"
    BY <1>4, <2>1 DEF DeleteQuarantined, IInv, TypeOK
  <2>6. QED
    BY <1>4, <2>1, <2>2, <2>3, <2>4, <2>5
       DEF DeleteQuarantined, LeftInQuarantine, Cleaning
<1>7. CASE RevalidateQuarantined
  <2>1. pc = "d_check" /\ pc \in Handling /\ cur \in Leases /\ W \in Workspaces
    BY <1>0, <1>7 DEF RevalidateQuarantined, Handling, PCs
  <2>2. OwnMarker /\ OwnLink
    BY <1>7 DEF RevalidateQuarantined, OwnMarker, OwnLink
  <2>3. OthersKept /\ OwnTree
    BY <1>7, <2>1 DEF RevalidateQuarantined, OthersKept, OwnTree, IInv, TypeOK
  <2>4. OwnControl
    BY <1>7, <2>1, Giving
       DEF RevalidateQuarantined, QuarantineValid, LeftInQuarantine, OwnControl, Step,
           IInv, TypeOK
  <2>5. QED
    BY <1>7, <2>1, <2>2, <2>3, <2>4
       DEF RevalidateQuarantined, LeftInQuarantine, Cleaning
<1>5. CASE RemoveOwner
  <2>1. pc = "c_owner" /\ pc \in Handling /\ cur \in Leases /\ W \in Workspaces
    BY <1>0, <1>5 DEF RemoveOwner, Handling, PCs
  <2>2. child[cur] = "none"
    BY <2>1 DEF IInv, Bookkeeping, HandlerFiles, Treeless
  <2>3. OthersKept /\ OwnLink /\ OwnTree
    BY <1>5 DEF RemoveOwner, OthersKept, OwnLink, OwnTree, obsVars
  <2>4. OwnMarker
    BY <1>5, <2>1, <2>2 DEF RemoveOwner, OwnerValid, W, OwnMarker, IInv, TypeOK
  <2>5. OwnControl
    BY <1>5, <2>1, <2>2, Giving, Sentinels
       DEF RemoveOwner, OwnerValid, W, OwnControl, Step, obsVars, IInv, TypeOK
  <2>6. QED
    BY <1>5, <2>1, <2>3, <2>4, <2>5 DEF RemoveOwner, Cleaning, obsVars
<1>6. CASE RemoveJournal
  <2>1. pc = "c_journal" /\ pc \in Handling /\ cur \in Leases /\ W \in Workspaces
    BY <1>0, <1>6 DEF RemoveJournal, Handling, PCs
  <2>2. child[cur] = "none"
    BY <2>1 DEF IInv, Bookkeeping, HandlerFiles, Treeless
  <2>3. OwnMarker /\ OwnLink /\ OwnTree
    BY <1>6 DEF RemoveJournal, OwnMarker, OwnLink, OwnTree
  <2>4. OthersKept
    BY <1>6, <2>1 DEF RemoveJournal, JournalRemoved, OthersKept, IInv, TypeOK
  <2>5. OwnControl
    BY <1>6, <2>1, <2>2, Giving
       DEF RemoveJournal, JournalRemoved, OwnControl, IInv, TypeOK
  <2>6. QED
    BY <1>6, <2>1, <2>3, <2>4, <2>5 DEF RemoveJournal, Cleaning
<1>8. QED
    BY <1>1, <1>2, <1>3, <1>4, <1>5, <1>6, <1>7 DEF Cleanup

\* A step of a cleanup keeps what is known of the files.
LEMMA FilesCleaned ==
    ASSUME IInv, FilesInv, Cleaning
    PROVE  FilesInv'
<1>1. /\ pc \in Handling /\ cur \in Leases /\ W \in Workspaces
      /\ UNCHANGED <<todo, ws, client, granted, asked, tampered, raced>>
    BY DEF IInv, Bookkeeping, HandlerHasLease, W, Cleaning
<1>2. OwnerInOwnWorkspace'
    BY <1>1, Sentinels DEF FilesInv, OwnerInOwnWorkspace, Cleaning, OwnMarker
<1>3. UsedHasWorkspace'
    BY <1>1 DEF FilesInv, UsedHasWorkspace, Cleaning, OthersKept, W
<1>4. TodoKnown'
  <2>1. \A l \in todo : journal'[l] # "none"
    BY <1>1 DEF IInv, TypeOK, FilesInv, TodoKnown, Cleaning, OthersKept
  <2>2. CASE Finish
    BY <1>1, <2>1, <2>2
       DEF FilesInv, TodoKnown, Acquiring, Finish, Caller, Handling, IInv, TypeOK, Modes
  <2>3. CASE ~Finish
    BY <1>1, <2>1, <2>3
       DEF FilesInv, TodoKnown, Acquiring, Cleaning, OwnControl, Handling, PCs
  <2>4. QED
    BY <2>2, <2>3
<1>5. TrashKnown'
  <2>1. \A l \in Leases : l # cur => (trash'[l] # "none" => child'[l] = "none")
    BY DEF FilesInv, TrashKnown, Cleaning, OthersKept
  <2>2. trash'[cur] # "none" => child'[cur] = "none"
    BY <1>1 DEF FilesInv, TrashKnown, Cleaning, OwnTree
  <2>3. QED
    BY <1>1, <2>1, <2>2 DEF TrashKnown
<1>11. QuarantineKnown'
  <2> SUFFICES ASSUME NEW l \in Leases, trash'[l] # "none", l \notin lost'
               PROVE  /\ pc' # "down" /\ journal'[l] # "none" /\ l \notin todo
                      /\ manual' \/ (pc' \in Handling /\ cur' = l)
                      /\ pc' \in Handling /\ cur' = l =>
                           \/ pc' \in {"d_check", "d_delete"}
                           \/ /\ pc' \in {"d_unmount", "d_validate", "d_rename"}
                              /\ mode' # "acquire"
    BY <1>1 DEF QuarantineKnown
  <2>1. l \notin lost
    BY DEF Cleaning
  <2>2. pc' # "down"
    BY DEF Cleaning, OwnControl, Finish, Caller
  <2>3. CASE l # cur
    <3>1. trash[l] # "none" /\ journal'[l] = journal[l]
      BY <2>3 DEF Cleaning, OthersKept
    <3>2. manual /\ journal[l] # "none" /\ l \notin todo
      BY <2>1, <2>3, <3>1 DEF FilesInv, QuarantineKnown
    <3>3. manual' /\ cur' # l
      BY <2>3, <3>2, Sentinels DEF Cleaning, OwnControl, Finish
    <3>4. QED
      BY <2>2, <3>1, <3>2, <3>3
  <2>4. CASE l = cur
    <3>1. pc \notin {"c_owner", "c_journal", "a_failed"} /\ cur \notin todo
      <4>1. pc \in {"c_owner", "c_journal", "a_failed"} => trash'[cur] = trash[cur]
        BY DEF Cleaning, OwnTree
      <4>2. QED
        BY <1>1, <2>1, <2>4, <4>1 DEF FilesInv, QuarantineKnown, TodoKnown
    <3>2. journal'[cur] # "none"
      <4>1. journal' = journal
        BY <3>1 DEF Cleaning, OwnControl
      <4>2. journal[cur] # "none"
        BY <1>1, <2>1, <2>4
           DEF Cleaning, OwnTree, FilesInv, QuarantineKnown, IInv, Bookkeeping,
               HandlerFiles, Journalled
      <4>3. QED
        BY <4>1, <4>2
    <3>3. CASE Finish
      BY <2>2, <2>4, <3>1, <3>2, <3>3, Sentinels
         DEF Cleaning, OwnControl, Finish, Caller, Handling
    <3>4. CASE ~Finish
      <4>1. pc' # "a_failed"
        <5>1. CASE pc' = "a_failed"
          <6>1. mode = "acquire" /\ trash' = trash /\ pc \notin {"d_check", "d_delete"}
            BY <2>4, <3>1, <3>4, <5>1 DEF Cleaning, OwnControl, OwnTree
          <6>2. QED
            BY <1>1, <2>1, <2>4, <6>1 DEF FilesInv, QuarantineKnown
        <5>2. QED
          BY <5>1
      <4>2. pc' \in {"d_validate", "d_rename", "d_check", "d_delete"}
        BY <2>4, <3>1, <3>4, <4>1 DEF Cleaning, OwnControl
      <4>3. pc' \in {"d_validate", "d_rename"} => mode # "acquire"
        <5>1. pc' \in {"d_validate", "d_rename"} =>
                 pc \in {"d_unmount", "d_validate"} /\ trash' = trash
          BY <3>4 DEF Cleaning, OwnControl, OwnTree
        <5>2. QED
          BY <1>1, <2>1, <2>4, <5>1 DEF FilesInv, QuarantineKnown
      <4>4. cur' = cur /\ mode' = mode
        BY <3>4 DEF Cleaning, OwnControl
      <4>5. QED
        BY <2>2, <2>4, <3>1, <3>2, <4>2, <4>3, <4>4 DEF Handling, PCs
    <3>5. QED
      BY <3>3, <3>4
  <2>5. QED
    BY <2>3, <2>4
<1>6. HandlerTree'
  <2>1. \A l \in released' : trash'[l] = "none"
    <3>1. cur \in released => trash[cur] = "none" /\ pc \notin Holding
      BY DEF FilesInv, HandlerTree, IInv, Bookkeeping, HandlerFiles
    <3>2. cur \in released' => trash'[cur] = "none"
      BY <3>1 DEF Cleaning, OwnTree, Holding
    <3>3. ASSUME NEW l \in released', l # cur PROVE trash'[l] = "none"
      BY <3>3 DEF FilesInv, HandlerTree, Cleaning, OthersKept, IInv, TypeOK
    <3>4. QED
      BY <3>2, <3>3
  <2>2. CASE Finish
    BY <2>1, <2>2 DEF Finish, Caller, HandlerTree
  <2>3. CASE ~Finish
    BY <1>1, <2>1, <2>3
       DEF FilesInv, HandlerTree, Cleaning, OwnControl, OwnTree, W
  <2>4. QED
    BY <2>2, <2>3
<1>7. HandlerMarker'
  <2>1. CASE Finish
    BY <2>1 DEF Finish, Caller, HandlerMarker
  <2>2. CASE ~Finish
    <3>1. pc' = "d_check" => owner'[W] = cur \/ W \in tampered
      <4>1. pc' = "d_check" => child[cur] # "none" /\ owner' = owner
        BY <2>2 DEF Cleaning, OwnControl
      <4>2. QED
        BY <1>1, <4>1 DEF FilesInv, MarkerOutlivesTree, W
    <3>2. QED
      BY <1>1, <2>2, <3>1 DEF HandlerMarker, Cleaning, OwnControl, W
  <2>3. QED
    BY <2>1, <2>2
<1>8. MarkerOutlivesTree'
  <2>1. ASSUME NEW l \in Leases, child'[l] # "none", ws[l] \notin tampered
        PROVE  owner'[ws[l]] = l
    <3>1. CASE child[l] # "none"
      <4>1. ws[l] \in Workspaces /\ owner[ws[l]] = l
        BY <2>1, <3>1
           DEF IInv, Bookkeeping, KnownHasWorkspace, FilesInv, MarkerOutlivesTree
      <4>2. QED
        BY <2>1, <3>1, <4>1 DEF Cleaning, OwnMarker
    <3>2. CASE child[l] = "none"
      <4>1. l = cur /\ pc = "d_check" /\ child' # child
        BY <1>1, <2>1, <3>2 DEF Cleaning, OthersKept, OwnTree
      <4>2. owner[W] = cur
        BY <2>1, <4>1 DEF FilesInv, HandlerMarker, W
      <4>3. QED
        BY <1>1, <4>1, <4>2 DEF Cleaning, OwnMarker, W
    <3>3. QED
      BY <3>1, <3>2
  <2>2. QED
    BY <1>1, <2>1 DEF MarkerOutlivesTree
<1>9. NoDanglingMount'
  <2>1. ASSUME NEW w \in Workspaces, NEW l \in Leases, mount'[w] = l
        PROVE  mount[w] = l /\ child'[l] = child[l]
    <3>1. mount[w] = l
      BY <2>1, Sentinels DEF Cleaning, OwnLink
    <3>2. l = cur => pc \notin {"d_rename", "d_check", "d_delete"}
      BY <3>1 DEF IInv, Bookkeeping, HandlerFiles, Unlinked
    <3>3. QED
      BY <3>1, <3>2 DEF Cleaning, OthersKept, OwnTree
  <2>2. QED
    BY <1>1, <2>1 DEF FilesInv, NoDanglingMount
<1>10. QED
    BY <1>2, <1>3, <1>4, <1>5, <1>6, <1>7, <1>8, <1>9, <1>11 DEF FilesInv

\* A step of a cleanup keeps what clients were told.
LEMMA ClientsCleaned ==
    ASSUME LifeInv, Cleaning
    PROVE  ClientsInv'
<1>1. /\ pc \in Handling /\ cur \in Leases /\ W \in Workspaces
      /\ UNCHANGED <<todo, ws, client, granted, asked, tampered, raced>>
    BY DEF LifeInv, IInv, Bookkeeping, HandlerHasLease, W, Cleaning
<1>2. ASSUME NEW l \in Leases, l # cur, Intact(l)
      PROVE  Intact(l)'
  <2>1. ws[l] \in Workspaces
    BY <1>2 DEF Intact, LifeInv, IInv, Bookkeeping, KnownHasWorkspace
  <2>2. owner'[ws[l]] = l /\ mount'[ws[l]] = l
    BY <1>2, <2>1 DEF Intact, Cleaning, OwnMarker, OwnLink
  <2>3. QED
    BY <1>1, <1>2, <2>2 DEF Intact, Cleaning, OthersKept
<1>3. MayDispose'
  <2>1. CASE Finish
    BY <2>1 DEF Finish, Caller, MayDispose, Handling
  <2>2. CASE ~Finish
    BY <1>1, <2>2 DEF LifeInv, ClientsInv, MayDispose, Cleaning, OwnControl
  <2>3. QED
    BY <2>1, <2>2
<1>4. TreesFlagged'
  <2> SUFFICES ASSUME pc' # "down", manual' # TRUE, NEW l \in Leases,
                      child'[l] # "none", ws[l] \notin tampered
               PROVE  \/ l \in leases' /\ Intact(l)'
                      \/ pc' \in Handling /\ l = cur'
                      \/ l \in todo
    BY <1>1 DEF TreesFlagged
  <2>1. CASE l = cur
    <3>1. ~Finish
      BY <1>1, <2>1, Sentinels DEF Cleaning, OwnControl, Finish
    <3>2. QED
      BY <2>1, <3>1 DEF Cleaning, OwnControl, Handling, PCs
  <2>2. CASE l # cur
    <3>1. child[l] # "none" /\ manual # TRUE
      BY <2>2 DEF Cleaning, OthersKept, OwnControl
    <3>2. pc # "down"
      BY <1>1 DEF Handling
    <3>3. (l \in leases /\ Intact(l)) \/ l \in todo
      BY <2>2, <3>1, <3>2 DEF LifeInv, ClientsInv, TreesFlagged
    <3>4. QED
      BY <1>2, <2>2, <3>3 DEF Cleaning, OthersKept
  <2>3. QED
    BY <2>1, <2>2
<1>5. GrantedLeaseIntact'
  <2>1. ASSUME NEW l \in granted \ asked, client[l] = "alive", ws[l] \notin tampered
        PROVE  Intact(l)'
    <3>1. Intact(l) /\ l \in Leases
      BY <2>1 DEF LifeInv, IInv, TypeOK, ClientsInv, GrantedLeaseIntact
    <3>2. l # cur
      <4>1. CASE l = cur
        <5>1. mode = "absent"
          BY <1>1, <2>1, <4>1 DEF LifeInv, ClientsInv, MayDispose
        <5>2. child[cur] = "none"
          BY <5>1 DEF LifeInv, FilesInv, TodoKnown, IInv, Bookkeeping, HandlerFiles, Treeless
        <5>3. QED
          BY <3>1, <4>1, <5>2 DEF Intact
      <4>2. QED
        BY <4>1
    <3>3. QED
      BY <1>2, <3>1, <3>2
  <2>2. QED
    BY <1>1, <2>1 DEF GrantedLeaseIntact
<1>6. ReleasedMeansGone'
  <2> SUFFICES ASSUME NEW l \in done'
               PROVE  /\ journal'[l] = "none" /\ child'[l] = "none" /\ trash'[l] = "none"
                      /\ \A w \in Workspaces : mount'[w] # l /\ owner'[w] # l
    BY DEF ReleasedMeansGone
  <2>1. CASE l \in done
    <3>1. l # cur /\ l \in Leases
      BY <1>1, <2>1 DEF LifeInv, IInv, TypeOK, ClientsInv, MayDispose
    <3>2. /\ journal[l] = "none" /\ child[l] = "none" /\ trash[l] = "none"
          /\ \A w \in Workspaces : mount[w] # l /\ owner[w] # l
      BY <2>1 DEF LifeInv, ClientsInv, ReleasedMeansGone
    <3>3. QED
      BY <3>1, <3>2, Sentinels DEF Cleaning, OthersKept, OwnMarker, OwnLink
  <2>2. CASE l \notin done
    <3>1. /\ l = cur /\ pc = "c_journal" /\ mode = "release" /\ journal'[cur] = "none"
          /\ child' = child /\ trash' = trash /\ owner' = owner /\ mount' = mount
      BY <2>2 DEF Cleaning, OwnControl
    <3>2. /\ child[cur] = "none" /\ trash[cur] = "none"
          /\ \A w \in Workspaces : mount[w] # cur
      BY <3>1 DEF LifeInv, IInv, Bookkeeping, HandlerFiles, Treeless, Unlinked,
                  FilesInv, HandlerTree
    <3>3. \A w \in Workspaces : owner[w] # cur
      BY <1>1, <3>1 DEF LifeInv, FilesInv, OwnerInOwnWorkspace, HandlerMarker, W
    <3>4. QED
      BY <3>1, <3>2, <3>3
  <2>3. QED
    BY <2>1, <2>2
<1>7. QED
    BY <1>3, <1>4, <1>5, <1>6 DEF ClientsInv

\* Every action keeps what is known of the files: a marker outlives its tree,
\* and a link points to a whole tree of its own workspace.
LEMMA FilesStep ==
    ASSUME IInv, FilesInv, [Next]_vars
    PROVE  FilesInv'
<1> USE Sentinels
    DEF IInv, Bookkeeping, TypeOK, HandlerHasLease, KnownHasWorkspace,
        LinkInOwnWorkspace, HandlerFiles, ReleasedIsEmpty, PathHasJournal,
        FilesInv, OwnerInOwnWorkspace, UsedHasWorkspace, TodoKnown, TrashKnown,
        QuarantineKnown, HandlerTree, HandlerMarker, MarkerOutlivesTree, NoDanglingMount,
        Tree, PCs, Modes, Handling, Journalled, Unlinked, Treeless, Holding, Acquiring, W
<1>1. ASSUME NEW l \in Leases, NEW w \in Workspaces, AcquireBegin(l, w) PROVE FilesInv'
    BY <1>1 DEF AcquireBegin, diskVars, memVars
<1>2. CASE AcquireCorruptParent
    BY <1>2 DEF AcquireCorruptParent, ctlVars, obsVars
<1>3. CASE AcquireCreateOwner
    BY <1>3 DEF AcquireCreateOwner, Step, Finish, Caller, memVars, obsVars
<1>4. CASE AcquireFillOwner
    BY <1>4 DEF AcquireFillOwner, Step, Finish, Caller, memVars, obsVars
<1>5. CASE AcquireWriteJournal
    BY <1>5 DEF AcquireWriteJournal, OwnerValid, Step, Finish, Caller, obsVars
<1>6. CASE AcquireClone
    BY <1>6 DEF AcquireClone, Step, memVars, obsVars
<1>7. CASE AcquireMark
    BY <1>7 DEF AcquireMark, Step, memVars, obsVars
<1>8. CASE AcquireLink
    BY <1>8 DEF AcquireLink, Step, memVars, obsVars
<1>9. CASE AcquireReady
  <2>1. TodoKnown'
    <3>1. mode' = "none" \/ mode' = "rollback"
      BY <1>9 DEF AcquireReady, Finish
    <3>2. todo = {} /\ todo' = {} /\ pc' \in {"idle", "recover", "d_unmount"}
      BY <1>9 DEF AcquireReady, Finish, Caller
    <3>3. QED
      BY <1>9, <3>1, <3>2 DEF AcquireReady, Finish, Caller
  <2>2. QED
    BY <1>9, <2>1 DEF AcquireReady, Finish, Caller
<1>10. CASE AcquireFailed
  <2>1. HandlerTree'
    BY <1>10 DEF AcquireFailed, Step, Finish, Caller, diskVars, obsVars
  <2>2. QED
    BY <1>10, <2>1 DEF AcquireFailed, NothingLeft, Step, Finish, Caller, diskVars, obsVars
<1>11. ASSUME NEW l \in Leases, Release(l) PROVE FilesInv'
    BY <1>11 DEF Release, FirstStep, OwnerValid, diskVars, ctlVars
<1>12. CASE Cleanup
    BY <1>12, CleanupCleans, FilesCleaned
<1>13. CASE Start
    BY <1>13 DEF Start, diskVars, obsVars
<1>14. ASSUME NEW l \in Leases, RecoverLease(l) PROVE FilesInv'
    BY <1>14 DEF RecoverLease, RecoverKeep, RecoverCleanup, Recoverable, OwnerValid,
       ClientAlive, ctlVars, diskVars, obsVars
<1>15. CASE RecoverDone
    BY <1>15 DEF RecoverDone, diskVars, memVars, obsVars
<1>16. CASE Crash
    BY <1>16 DEF Crash, Forget, diskVars
<1>17. CASE Reboot
    BY <1>17 DEF Reboot, Forget, diskVars
<1>18. ASSUME NEW l \in Leases, ClientDies(l) PROVE FilesInv'
    BY <1>18 DEF ClientDies, diskVars, ctlVars, memVars
<1>19. CASE ParentRots
    BY <1>19 DEF ParentRots, ctlVars, memVars, obsVars
<1>20. CASE ParentRepublished
    BY <1>20 DEF ParentRepublished, ctlVars, memVars, obsVars
<1>21. ASSUME NEW l \in Leases, TamperChild(l) PROVE FilesInv'
    BY <1>21 DEF TamperChild, ctlVars, memVars
<1>22. ASSUME NEW w \in Workspaces, TamperWorkspace(w) PROVE FilesInv'
    BY <1>22 DEF TamperWorkspace, ctlVars, memVars
<1>23. ASSUME NEW w \in Workspaces, UserEditsLibrary(w) PROVE FilesInv'
    BY <1>23 DEF UserEditsLibrary, ctlVars, memVars, obsVars
<1>24. ASSUME NEW l \in Leases, TamperQuarantine(l) PROVE FilesInv'
    BY <1>24 DEF TamperQuarantine, ctlVars, memVars
<1>25. CASE UNCHANGED vars
    BY <1>25 DEF vars, diskVars, ctlVars, memVars, obsVars
<1>26. QED
    BY <1>1, <1>2, <1>3, <1>4, <1>5, <1>6, <1>7, <1>8, <1>9, <1>10, <1>11,
       <1>12, <1>13, <1>14, <1>15, <1>16, <1>17, <1>18, <1>19, <1>20, <1>21, <1>22,
       <1>23, <1>24, <1>25 DEF Next, Acquire, Recovery, Environment

\* Every action keeps what clients were told.
LEMMA ClientsStep ==
    ASSUME LifeInv, [Next]_vars
    PROVE  ClientsInv'
<1> USE Sentinels
    DEF LifeInv, IInv, Bookkeeping, TypeOK, HandlerHasLease, KnownHasWorkspace,
        LinkInOwnWorkspace, HandlerFiles, ReleasedIsEmpty, PathHasJournal,
        FilesInv, OwnerInOwnWorkspace, UsedHasWorkspace, TodoKnown, TrashKnown,
        QuarantineKnown, HandlerTree, HandlerMarker, MarkerOutlivesTree, NoDanglingMount,
        ClientsInv, MayDispose, TreesFlagged, GrantedLeaseIntact, Intact,
        ReleasedMeansGone,
        Tree, PCs, Modes, Handling, Journalled, Unlinked, Treeless, Holding, Acquiring, W
<1>1. ASSUME NEW l \in Leases, NEW w \in Workspaces, AcquireBegin(l, w) PROVE ClientsInv'
    BY <1>1 DEF AcquireBegin, diskVars, memVars
<1>2. CASE AcquireCorruptParent
    BY <1>2 DEF AcquireCorruptParent, ctlVars, obsVars
<1>3. CASE AcquireCreateOwner
    BY <1>3 DEF AcquireCreateOwner, Step, Finish, Caller, memVars, obsVars
<1>4. CASE AcquireFillOwner
    BY <1>4 DEF AcquireFillOwner, Step, Finish, Caller, memVars, obsVars
<1>5. CASE AcquireWriteJournal
    BY <1>5 DEF AcquireWriteJournal, OwnerValid, Step, Finish, Caller, obsVars
<1>6. CASE AcquireClone
    BY <1>6 DEF AcquireClone, Step, memVars, obsVars
<1>7. CASE AcquireMark
    BY <1>7 DEF AcquireMark, Step, memVars, obsVars
<1>8. CASE AcquireLink
    BY <1>8 DEF AcquireLink, Step, memVars, obsVars
<1>9. CASE AcquireReady
    BY <1>9 DEF AcquireReady, Finish, Caller
<1>10. CASE AcquireFailed
    BY <1>10 DEF AcquireFailed, NothingLeft, Step, Finish, Caller, diskVars, obsVars
<1>11. ASSUME NEW l \in Leases, Release(l) PROVE ClientsInv'
    BY <1>11 DEF Release, FirstStep, OwnerValid, diskVars, ctlVars
<1>12. CASE Cleanup
    BY <1>12, CleanupCleans, ClientsCleaned
<1>13. CASE Start
    BY <1>13 DEF Start, diskVars, obsVars
<1>14. ASSUME NEW l \in Leases, RecoverLease(l) PROVE ClientsInv'
    BY <1>14 DEF RecoverLease, RecoverKeep, RecoverCleanup, Recoverable, OwnerValid,
       ClientAlive, ctlVars, diskVars, obsVars
<1>15. CASE RecoverDone
    BY <1>15 DEF RecoverDone, diskVars, memVars, obsVars
<1>16. CASE Crash
    BY <1>16 DEF Crash, Forget, diskVars
<1>17. CASE Reboot
    BY <1>17 DEF Reboot, Forget, diskVars
<1>18. ASSUME NEW l \in Leases, ClientDies(l) PROVE ClientsInv'
    BY <1>18 DEF ClientDies, diskVars, ctlVars, memVars
<1>19. CASE ParentRots
    BY <1>19 DEF ParentRots, ctlVars, memVars, obsVars
<1>20. CASE ParentRepublished
    BY <1>20 DEF ParentRepublished, ctlVars, memVars, obsVars
<1>21. ASSUME NEW l \in Leases, TamperChild(l) PROVE ClientsInv'
    BY <1>21 DEF TamperChild, ctlVars, memVars
<1>22. ASSUME NEW w \in Workspaces, TamperWorkspace(w) PROVE ClientsInv'
    BY <1>22 DEF TamperWorkspace, ctlVars, memVars
<1>23. ASSUME NEW w \in Workspaces, UserEditsLibrary(w) PROVE ClientsInv'
    BY <1>23 DEF UserEditsLibrary, ctlVars, memVars, obsVars
<1>24. ASSUME NEW l \in Leases, TamperQuarantine(l) PROVE ClientsInv'
    BY <1>24 DEF TamperQuarantine, ctlVars, memVars
<1>25. CASE UNCHANGED vars
    BY <1>25 DEF vars, diskVars, ctlVars, memVars, obsVars
<1>26. QED
    BY <1>1, <1>2, <1>3, <1>4, <1>5, <1>6, <1>7, <1>8, <1>9, <1>10, <1>11,
       <1>12, <1>13, <1>14, <1>15, <1>16, <1>17, <1>18, <1>19, <1>20, <1>21, <1>22,
       <1>23, <1>24, <1>25 DEF Next, Acquire, Recovery, Environment

\* The empty disk and the stopped daemon satisfy it.
LEMMA InitLife == Init => LifeInv
<1> SUFFICES ASSUME Init PROVE LifeInv
    OBVIOUS
<1>1. FilesInv
    BY Sentinels DEF Init, FilesInv, OwnerInOwnWorkspace, UsedHasWorkspace, TodoKnown,
        TrashKnown, QuarantineKnown, HandlerTree, HandlerMarker, MarkerOutlivesTree, NoDanglingMount,
        PCs, Handling, Acquiring
<1>2. ClientsInv
    BY DEF Init, ClientsInv, MayDispose, TreesFlagged, GrantedLeaseIntact,
        ReleasedMeansGone, PCs, Handling
<1>3. QED
    BY <1>1, <1>2, InitIInv DEF LifeInv

\* LifeInv holds in every reachable state of the daemon.
LEMMA LifeInvariance == Spec => []LifeInv
<1>1. LifeInv /\ [Next]_vars => LifeInv'
  <2> SUFFICES ASSUME LifeInv, [Next]_vars PROVE LifeInv'
    OBVIOUS
  <2>1. IInv'
    BY TypeStep, BookkeepingStep DEF LifeInv, IInv, Bookkeeping
  <2>2. FilesInv'
    BY FilesStep DEF LifeInv
  <2>3. QED
    BY <2>1, <2>2, ClientsStep DEF LifeInv
<1>2. QED
    BY InitLife, <1>1, PTL DEF Spec

\* acquire writes the journal before the tree and the link, and every cleanup
\* removes it after them, so a crash at any point, an I/O error or a tampered
\* object never leaves a tree at a child path, or a link, that NewManager's
\* recovery cannot find.  A quarantined tree keeps its journal too, until the
\* daemon dies with the tree still there or a failed acquire leaves it.
THEOREM TreesAreReachable == Spec => []TreeHasJournal
<1>1. LifeInv => TreeHasJournal
    BY DEF LifeInv, IInv, Bookkeeping, PathHasJournal, FilesInv, QuarantineKnown,
           TreeHasJournal
<1>2. QED
    BY LifeInvariance, <1>1, PTL

\* removeWorkspaceOwner comes after the tree on every path, so while a tree of
\* l is at its path nobody but l can own its workspace, whatever failed or
\* crashed, unless someone tampered with the workspace.
THEOREM MarkerStays == Spec => []MarkerOutlivesTree
<1>1. LifeInv => MarkerOutlivesTree
    BY DEF LifeInv, FilesInv
<1>2. QED
    BY LifeInvariance, <1>1, PTL

\* The Library link is made after the tree is whole and removed before the
\* tree is renamed away, so it never leads to anything else.
THEOREM LinksAreGood == Spec => []NoDanglingMount
<1>1. LifeInv => NoDanglingMount
    BY DEF LifeInv, FilesInv
<1>2. QED
    BY LifeInvariance, <1>1, PTL

\* Neither recovery nor another lease's handler nor an I/O error takes
\* anything from a granted lease whose client lives and has not asked for
\* its release, over any number of crashes.
THEOREM GrantedStays == Spec => []GrantedLeaseIntact
<1>1. LifeInv => GrantedLeaseIntact
    BY DEF LifeInv, ClientsInv
<1>2. QED
    BY LifeInvariance, <1>1, PTL

\* A release that answered OK left no journal, tree, quarantined tree, link
\* or marker of its lease, and nothing later brings one back.
THEOREM ReleasedGone == Spec => []ReleasedMeansGone
<1>1. LifeInv => ReleasedMeansGone
    BY DEF LifeInv, ClientsInv
<1>2. QED
    BY LifeInvariance, <1>1, PTL

\* Between requests the daemon has raised manualRecovery or holds a handle
\* for every tree at a child path, and that lease is whole; the only trees in
\* quarantine are the ones a dead daemon or a failed acquire left there.
THEOREM UncertaintyIsFlagged == Spec => []UncertainTreeFlagged
<1>1. LifeInv => UncertainTreeFlagged
  <2> SUFFICES ASSUME LifeInv, pc = "idle", ~manual, NEW l \in Leases
               PROVE  /\ child[l] # "none" /\ ws[l] \notin tampered
                            => l \in leases /\ Intact(l)
                      /\ trash[l] # "none" => l \in lost
    BY DEF UncertainTreeFlagged
  <2>1. todo = {} /\ pc \notin Handling
    BY DEF LifeInv, FilesInv, TodoKnown, Handling
  <2>2. trash[l] # "none" => l \in lost
    BY <2>1 DEF LifeInv, FilesInv, QuarantineKnown
  <2>3. QED
    BY <2>1, <2>2 DEF LifeInv, ClientsInv, TreesFlagged
<1>2. QED
    BY LifeInvariance, <1>1, PTL

\* removeOwnedChild validates again what it renamed, and removeOwnedMount
\* takes only the link to its own child: a foreign tree is at most renamed and
\* a foreign Library is left alone, unless the quarantined tree was replaced
\* after that last validation.
THEOREM ForeignStays == Spec => ForeignKept
<1> DEFINE Kept ==
      /\ \A l \in Leases :
            /\ child[l] = "foreign" => "foreign" \in {child'[l], trash'[l]}
            /\ trash[l] = "foreign" => trash'[l] = "foreign" \/ l \in raced
      /\ \A w \in Workspaces : mount[w] = "foreign" => mount'[w] = "foreign"
<1>1. LifeInv /\ [Next]_vars => [Kept]_vars
  <2> SUFFICES ASSUME LifeInv, [Next]_vars PROVE Kept
    OBVIOUS
  <2>1. TypeOK
    BY DEF LifeInv, IInv
  <2>2. pc \in Handling => cur \in Leases /\ ws[cur] \in Workspaces
    BY DEF LifeInv, IInv, Bookkeeping, HandlerHasLease
  <2>3. CASE UNCHANGED <<child, trash>> /\ UNCHANGED mount
    BY <2>3
  <2>4. CASE AcquireClone
    BY <2>1, <2>2, <2>4 DEF AcquireClone, TypeOK, Handling, PCs
  <2>5. CASE AcquireMark
    BY <2>1, <2>2, <2>5 DEF AcquireMark, TypeOK, Handling, PCs, LifeInv, FilesInv, HandlerTree
  <2>6. CASE AcquireLink
    BY <2>1, <2>2, <2>6 DEF AcquireLink, TypeOK, Handling, PCs, W
  <2>7. CASE Unmount
    BY <2>1, <2>2, <2>7, Sentinels DEF Unmount, TypeOK, Handling, PCs, W
  <2>8. CASE QuarantineChild
    <3>1. trash[cur] = "foreign" => child[cur] = "none"
      BY <2>2, <2>8 DEF QuarantineChild, Handling, PCs, LifeInv, FilesInv, TrashKnown
    <3>2. QED
      BY <2>1, <2>2, <2>8, <3>1 DEF QuarantineChild, TypeOK, Handling, PCs
  <2>9. CASE DeleteQuarantined
    BY <2>1, <2>2, <2>9
       DEF DeleteQuarantined, TypeOK, Handling, PCs, LifeInv, FilesInv, HandlerTree
  <2>10. ASSUME NEW l \in Leases, TamperChild(l) PROVE Kept
    BY <2>1, <2>10 DEF TamperChild, TypeOK
  <2>11. ASSUME NEW w \in Workspaces, TamperWorkspace(w) \/ UserEditsLibrary(w) PROVE Kept
    BY <2>1, <2>11, Sentinels DEF TamperWorkspace, UserEditsLibrary, TypeOK
  <2>12. CASE RevalidateQuarantined
    <3>1. child[cur] = "none"
      BY <2>12 DEF RevalidateQuarantined, LifeInv, IInv, Bookkeeping, HandlerFiles, Treeless
    <3>2. QED
      BY <2>1, <2>2, <2>12, <3>1 DEF RevalidateQuarantined, TypeOK, Handling, PCs
  <2>13. ASSUME NEW l \in Leases, TamperQuarantine(l) PROVE Kept
    BY <2>1, <2>13 DEF TamperQuarantine, TypeOK
  <2>14. QED
    BY <2>3, <2>4, <2>5, <2>6, <2>7, <2>8, <2>9, <2>10, <2>11, <2>12, <2>13
       DEF Next, Acquire, Cleanup, Recovery, Environment, AcquireBegin,
           AcquireCorruptParent, AcquireCreateOwner, AcquireFillOwner,
           AcquireWriteJournal, AcquireReady, AcquireFailed, Release,
           ValidateChild, RemoveOwner, RemoveJournal, Start, RecoverLease,
           RecoverDone, Crash, Reboot, ClientDies, ParentRots, ParentRepublished,
           vars, diskVars
<1>2. QED
    BY LifeInvariance, <1>1, PTL DEF Spec, ForeignKept

\* Only the handler of a lease takes its owner marker away, and by then the
\* tree and the link of that lease are gone.
THEOREM MarkerGoesLast == Spec => MarkerRemovedLast
<1> DEFINE Last ==
      \A w \in Workspaces :
         owner[w] \in Leases /\ owner'[w] # owner[w] /\ ~TamperWorkspace(w)
            => /\ owner[w] = cur
               /\ child[cur] = "none" /\ mount[w] # cur
<1>1. LifeInv /\ [Next]_vars => [Last]_vars
  <2> SUFFICES ASSUME LifeInv, [Next]_vars PROVE Last
    OBVIOUS
  <2>1. TypeOK
    BY DEF LifeInv, IInv
  <2>2. pc \in Handling => cur \in Leases /\ ws[cur] \in Workspaces
    BY DEF LifeInv, IInv, Bookkeeping, HandlerHasLease
  <2>3. CASE UNCHANGED owner
    BY <2>3
  <2>4. CASE AcquireCreateOwner
    BY <2>1, <2>2, <2>4, Sentinels DEF AcquireCreateOwner, TypeOK, Handling, PCs, W
  <2>5. CASE AcquireFillOwner
    <3>1. owner[W] \in {"none", "torn"}
      BY <2>5 DEF AcquireFillOwner, LifeInv, FilesInv, HandlerMarker
    <3>2. QED
      BY <2>1, <2>2, <2>5, <3>1, Sentinels DEF AcquireFillOwner, TypeOK, Handling, PCs, W
  <2>6. CASE AcquireWriteJournal
    <3>1. child[cur] = "none" /\ \A w \in Workspaces : mount[w] # cur
      BY <2>6 DEF AcquireWriteJournal, LifeInv, FilesInv, HandlerTree,
                  IInv, Bookkeeping, HandlerFiles, Unlinked
    <3>2. QED
      BY <2>1, <2>2, <2>6, <3>1
         DEF AcquireWriteJournal, OwnerValid, TypeOK, Handling, PCs, W
  <2>7. CASE RemoveOwner
    <3>1. child[cur] = "none" /\ \A w \in Workspaces : mount[w] # cur
      BY <2>7 DEF RemoveOwner, LifeInv, IInv, Bookkeeping, HandlerFiles, Treeless, Unlinked
    <3>2. QED
      BY <2>1, <2>2, <2>7, <3>1 DEF RemoveOwner, OwnerValid, TypeOK, Handling, PCs, W
  <2>8. ASSUME NEW v \in Workspaces, TamperWorkspace(v) PROVE Last
    <3>1. \A w \in Workspaces : w # v => owner'[w] = owner[w]
      BY <2>1, <2>8 DEF TamperWorkspace, TypeOK
    <3>2. QED
      BY <2>8, <3>1
  <2>9. QED
    BY <2>3, <2>4, <2>5, <2>6, <2>7, <2>8
       DEF Next, Acquire, Cleanup, Recovery, Environment, AcquireBegin,
           AcquireCorruptParent, AcquireClone, AcquireMark, AcquireLink,
           AcquireReady, AcquireFailed, Release, Unmount, ValidateChild,
           QuarantineChild, RevalidateQuarantined, DeleteQuarantined,
           RemoveJournal, Start, RecoverLease,
           RecoverDone, Crash, Reboot, ClientDies, ParentRots, ParentRepublished,
           TamperChild, TamperQuarantine, UserEditsLibrary, vars, diskVars
<1>2. QED
    BY LifeInvariance, <1>1, PTL DEF Spec, MarkerRemovedLast
=============================================================================
