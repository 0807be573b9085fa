---------------------------- MODULE UnixLeases ----------------------------
(***************************************************************************)
(* Lease lifecycle of the Unix user daemon.                                 *)
(*                                                                          *)
(* internal/workspaced/manager_unix.go  acquire, release, rollback, recover *)
(* storage/lifecycle_unix.go            clone, ownership marker, link,      *)
(*                                      quarantine-and-delete               *)
(* storage/unix_recovery.go             rebuilding a lease from a snapshot  *)
(*                                                                          *)
(* One mutex (Manager.mu) serialises the handlers, so the daemon is one     *)
(* sequential process whose program counter is pc.  What interleaves with   *)
(* it is its own death: the disk survives a crash and the memory does not.  *)
(* Clients die, users put a Library into a workspace, and (Tamper) another  *)
(* actor replaces objects the daemon made.                                  *)
(*                                                                          *)
(* Every step is one durable change of the disk.  A lease ID is random, so  *)
(* it names the lease, its child path, its journal file and, through the    *)
(* owner token, its owner marker: a marker "of l" is one that               *)
(* validateWorkspaceOwner accepts for l's journal.                          *)
(***************************************************************************)
EXTENDS Naturals, FiniteSets

CONSTANTS Leases,      \* lease IDs; bound on the number of acquire attempts
          Workspaces,  \* workspaceRoot/<id> directories made by the producer
          IOFaults,    \* whether a system call may fail
          Tamper,      \* whether another actor replaces the daemon's objects
          MaxCrashes   \* bound on the number of daemon deaths

ASSUME ConstantsAssumption ==
    /\ Leases \cap {"none", "torn", "foreign", "emptydir"} = {}
    /\ "none" \notin Workspaces
    /\ IOFaults \in BOOLEAN
    /\ Tamper \in BOOLEAN
    /\ MaxCrashes \in Nat

VARIABLES
    \* the disk
    owner,         \* owner marker in each workspace: a lease, "none" or "torn"
    journal,       \* leases/<l>.json: absent, without or with a snapshot
    child,         \* the tree at children/<l>
    trash,         \* the tree of l renamed to children/.testplay-delete-<token>
    mount,         \* <workspace>/Library: link to a child, or something else
    mountExisted,  \* snapshot.MountExisted of l
    parent,        \* the parent image the acquires name
    \* the daemon's memory
    pc, cur, mode, \* step, lease and purpose of the handler that runs
    todo,          \* journals the startup recovery has not looked at
    leases,        \* Manager.leases
    released,      \* leases whose in-memory handle has released = true
    manual,        \* Manager.manualRecovery
    cow,           \* capability.CoWAvailable
    \* the environment, and what clients have observed
    ws,            \* workspace a lease ID was used for, "none" if unused
    client,        \* the process ClientPID of the lease, in its boot session
    granted,       \* acquires that answered OK
    asked,         \* leases some client asked to release
    done,          \* releases that answered OK
    tampered,      \* workspaces another actor interfered with
    raced,         \* leases whose quarantined tree was replaced after its check
    lost,          \* leases whose quarantined tree no handler will look at again
    crashes

diskVars == <<owner, journal, child, trash, mount, mountExisted, parent>>
ctlVars  == <<pc, cur, mode>>
memVars  == <<todo, leases, released, manual, cow>>
obsVars  == <<ws, client, granted, asked, done, tampered, raced, lost, crashes>>
vars     == <<diskVars, ctlVars, memVars, obsVars>>

Tree     == {"none", "unowned", "owned", "foreign"}
PCs      == {"down", "recover", "idle",
             "a_owner", "a_owner_fill", "a_journal", "a_clone", "a_mark",
             "a_link", "a_ready", "a_failed",
             "d_unmount", "d_validate", "d_rename", "d_check", "d_delete",
             "c_owner", "c_journal"}
Modes    == {"none", "acquire", "rollback", "release", "recovery", "absent"}

Init ==
    /\ owner = [w \in Workspaces |-> "none"]
    /\ journal = [l \in Leases |-> "none"]
    /\ child = [l \in Leases |-> "none"]
    /\ trash = [l \in Leases |-> "none"]
    /\ mount = [w \in Workspaces |-> "none"]
    /\ mountExisted = [l \in Leases |-> FALSE]
    /\ parent = "good"
    /\ pc = "down" /\ cur = "none" /\ mode = "none"
    /\ todo = {} /\ leases = {} /\ released = {}
    /\ manual = FALSE /\ cow = FALSE
    /\ ws = [l \in Leases |-> "none"]
    /\ client = [l \in Leases |-> "dead"]
    /\ granted = {} /\ asked = {} /\ done = {} /\ tampered = {}
    /\ raced = {} /\ lost = {}
    /\ crashes = 0

-----------------------------------------------------------------------------
(* Definitions named Mutant_X are faulty variants of the X below them: what *)
(* a plausible mistake in the code would have made of it.  No action uses   *)
(* them; they show which property notices the mistake.                      *)

(* How a handler ends. *)

W == ws[cur]     \* the workspace of the running handler

Step(next) == pc' = next /\ UNCHANGED <<cur, mode>>

Caller == IF mode \in {"recovery", "absent"} THEN "recover" ELSE "idle"

Finish == pc' = Caller /\ cur' = "none" /\ mode' = "none"

(* A failed cleanup leaves the lease as it is and raises manualRecovery,    *)
(* except after a failed backend acquire, where acquire only reports it.    *)
Mutant_Abandon == Finish /\ UNCHANGED manual

Abandon ==
    /\ Finish
    /\ manual' = IF mode = "acquire" THEN manual ELSE TRUE

(* A failed backend.Acquire returns to acquire, which looks at what is left *)
(* on the disk; a failed lease.Release is final for its callers.            *)
Mutant_GiveUp_errorIgnored ==
    (IF mode = "acquire" THEN Step("a_failed") ELSE Step("c_owner"))
        /\ UNCHANGED manual

GiveUp ==
    IF mode = "acquire" THEN Step("a_failed") /\ UNCHANGED manual ELSE Abandon

(* validateWorkspaceOwner: the marker in l's workspace is the one written   *)
(* for l.                                                                   *)
Mutant_OwnerValid(l) == owner[ws[l]] \in Leases

OwnerValid(l) == owner[ws[l]] = l

-----------------------------------------------------------------------------
(* workspace-acquire *)

(* Checks before anything is written: parent readable and verified, Library *)
(* absent.  The capacity check refuses without a state change.              *)
AcquireBegin(l, w) ==
    /\ pc = "idle" /\ cow
    /\ ws[l] = "none"
    /\ parent = "good"
    /\ mount[w] = "none"
    /\ pc' = "a_owner" /\ cur' = l /\ mode' = "acquire"
    /\ ws' = [ws EXCEPT ![l] = w]
    /\ client' \in {[client EXCEPT ![l] = s] : s \in {"alive", "dead"}}
    /\ UNCHANGED <<diskVars, memVars, granted, asked, done, tampered,
                   raced, lost, crashes>>

(* verifyParent fails, on a corrupt parent or because reading a good one    *)
(* fails: the parent is quarantined, a failed rename ignored.               *)
AcquireCorruptParent ==
    /\ pc = "idle" /\ cow
    /\ parent = "corrupt" \/ (parent = "good" /\ IOFaults)
    /\ manual' = TRUE
    /\ parent' \in {"absent"} \cup (IF IOFaults THEN {parent} ELSE {})
    /\ UNCHANGED <<owner, journal, child, trash, mount, mountExisted,
                   ctlVars, todo, leases, released, cow, obsVars>>

(* WriteExclusiveDurable: O_EXCL creation, then the contents. *)
AcquireCreateOwner ==
    /\ pc = "a_owner"
    /\ \/ /\ owner[W] = "none"
          /\ owner' = [owner EXCEPT ![W] = "torn"]
          /\ Step("a_owner_fill")
       \/ /\ owner[W] # "none" \/ IOFaults
          /\ Finish
          /\ UNCHANGED owner
    /\ UNCHANGED <<journal, child, trash, mount, mountExisted, parent,
                   memVars, obsVars>>

AcquireFillOwner ==
    /\ pc = "a_owner_fill"
    /\ \/ /\ owner' = [owner EXCEPT ![W] = cur]
          /\ Step("a_journal")
       \/ /\ IOFaults
          /\ owner' \in {[owner EXCEPT ![W] = x] : x \in {"none", "torn"}}
          /\ Finish
    /\ UNCHANGED <<journal, child, trash, mount, mountExisted, parent,
                   memVars, obsVars>>

(* The journal is renamed into place; an error may come before the rename   *)
(* or from the read-back after it.  On error the marker is removed again.   *)
AcquireWriteJournal ==
    /\ pc = "a_journal"
    /\ \/ /\ journal' = [journal EXCEPT ![cur] = "requested"]
          /\ Step("a_clone")
          /\ UNCHANGED <<owner, manual>>
       \/ /\ IOFaults
          /\ journal' \in {journal, [journal EXCEPT ![cur] = "requested"]}
          /\ \/ /\ OwnerValid(cur)
                /\ owner' = [owner EXCEPT ![W] = "none"]
                /\ UNCHANGED manual
             \/ /\ manual' = (manual \/ owner[W] # "none")
                /\ UNCHANGED owner
          /\ Finish
    /\ UNCHANGED <<child, trash, mount, mountExisted, parent,
                   todo, leases, released, cow, obsVars>>

(* unixBackend.Acquire up to the clone.  An empty Library directory made    *)
(* since validateWorkspace is accepted and remembered.                      *)
AcquireClone ==
    /\ pc = "a_clone"
    /\ \/ /\ child[cur] = "none"
          /\ mount[W] \in {"none", "emptydir"}
          /\ mountExisted' = [mountExisted EXCEPT ![cur] = mount[W] = "emptydir"]
          /\ child' = [child EXCEPT ![cur] = "unowned"]
          /\ \/ Step("a_mark")
             \/ IOFaults /\ Step("a_failed")
       \/ /\ \/ IOFaults
             \/ child[cur] # "none"
             \/ mount[W] \notin {"none", "emptydir"}
          /\ Step("a_failed")
          /\ UNCHANGED <<child, mountExisted>>
    /\ UNCHANGED <<owner, journal, trash, mount, parent, memVars, obsVars>>

(* establishChildOwnership: the marker makes the tree the lease's own.  If  *)
(* the marker cannot be created or read back, the tree is left alone.       *)
AcquireMark ==
    /\ pc = "a_mark"
    /\ \/ /\ child' = [child EXCEPT ![cur] = "owned"]
          /\ \/ Step("a_link")
             \/ IOFaults /\ Step("a_failed")
       \/ /\ IOFaults
          /\ Step("a_failed")
          /\ UNCHANGED child
    /\ UNCHANGED <<owner, journal, trash, mount, mountExisted, parent,
                   memVars, obsVars>>

(* The Library link.  On failure the empty directory is put back if         *)
(* possible and the owned child is removed.                                 *)
AcquireLink ==
    LET free == mount[W] = IF mountExisted[cur] THEN "emptydir" ELSE "none"
    IN
    /\ pc = "a_link"
    /\ \/ /\ free
          /\ mount' = [mount EXCEPT ![W] = cur]
          /\ Step("a_ready")
       \/ /\ ~free \/ IOFaults
          /\ IF mountExisted[cur] /\ mount[W] \in {"none", "emptydir"}
             THEN mount' \in {[mount EXCEPT ![W] = x] :
                      x \in {"emptydir"} \cup (IF IOFaults THEN {"none"} ELSE {})}
             ELSE UNCHANGED mount
          /\ Step("d_validate")
    /\ UNCHANGED <<owner, journal, child, trash, mountExisted, parent,
                   memVars, obsVars>>

(* The journal becomes ready and carries the snapshot; then the lease is    *)
(* entered in memory and the client gets its answer.  On a write error,     *)
(* reported before or after the rename, the lease is rolled back.           *)
AcquireReady ==
    /\ pc = "a_ready"
    /\ \/ /\ journal' = [journal EXCEPT ![cur] = "ready"]
          /\ leases' = leases \cup {cur}
          /\ granted' = granted \cup {cur}
          /\ Finish
       \/ /\ IOFaults
          /\ journal' \in {journal, [journal EXCEPT ![cur] = "ready"]}
          /\ pc' = "d_unmount" /\ mode' = "rollback"
          /\ UNCHANGED <<cur, leases, granted>>
    /\ UNCHANGED <<owner, child, trash, mount, mountExisted, parent,
                   todo, released, manual, cow,
                   ws, client, asked, done, tampered, raced, lost, crashes>>

(* backend.Acquire failed: owner marker and journal go only when neither    *)
(* child nor mount exists.                                                  *)
Mutant_NothingLeft == TRUE

NothingLeft == child[cur] = "none" /\ mount[W] = "none"

AcquireFailed ==
    /\ pc = "a_failed"
    /\ IF NothingLeft
       THEN Step("c_owner") /\ UNCHANGED manual
       ELSE Finish /\ manual' = TRUE
    /\ UNCHANGED <<diskVars, todo, leases, released, cow, obsVars>>

-----------------------------------------------------------------------------
(* workspace-release *)

Recoverable(l) == child[l] = "owned" /\ mount[ws[l]] = l   \* RecoverUnixLease

(* Link, then tree, then owner marker, then journal.  A handle that already *)
(* released link and tree goes straight on to the owner marker.             *)
Mutant_FirstStep_linkForgotten(l) ==
    IF l \in released THEN "c_owner" ELSE "d_validate"

Mutant_FirstStep_markerFirst(l) == "c_owner"

FirstStep(l) == IF l \in released THEN "c_owner" ELSE "d_unmount"

Release(l) ==
    /\ pc = "idle"
    /\ journal[l] # "none"
    /\ asked' = asked \cup {l}
    /\ IF l \in leases \/ (journal[l] = "ready" /\ Recoverable(l))
       THEN IF OwnerValid(l)
            THEN /\ pc' = FirstStep(l)
                 /\ cur' = l /\ mode' = "release"
                 /\ UNCHANGED manual
            ELSE manual' = TRUE /\ UNCHANGED ctlVars
       ELSE /\ manual' = (manual \/ journal[l] = "ready")
            /\ UNCHANGED ctlVars
    /\ UNCHANGED <<diskVars, todo, leases, released, cow,
                   ws, client, granted, done, tampered, raced, lost, crashes>>

(* unixLease.Release, removeOwnedMount: only the link to this child goes,   *)
(* and the directory it replaced comes back.                                *)
Unmount ==
    /\ pc = "d_unmount"
    /\ \/ /\ mount[W] = cur
          /\ mount' = [mount EXCEPT
                         ![W] = IF mountExisted[cur] THEN "emptydir" ELSE "none"]
          /\ Step("d_validate")
          /\ UNCHANGED manual
       \/ /\ mount[W] = cur /\ mountExisted[cur] /\ IOFaults
          /\ mount' = [mount EXCEPT ![W] = "none"]
          /\ GiveUp
       \/ /\ mount[W] # cur \/ IOFaults
          /\ GiveUp
          /\ UNCHANGED mount
    /\ UNCHANGED <<owner, journal, child, trash, mountExisted, parent,
                   todo, leases, released, cow, obsVars>>

(* validateOwnedChildAt: identity and marker of the tree at the child path. *)
ValidateChild ==
    /\ pc = "d_validate"
    /\ \/ /\ child[cur] = "owned"
          /\ Step("d_rename")
          /\ UNCHANGED manual
       \/ /\ child[cur] # "owned" \/ IOFaults
          /\ GiveUp
    /\ UNCHANGED <<diskVars, todo, leases, released, cow, obsVars>>

(* renameNoReplace moves whatever is at the child path to a fresh name.     *)
QuarantineChild ==
    /\ pc = "d_rename"
    /\ \/ /\ child[cur] # "none"
          /\ trash' = [trash EXCEPT ![cur] = child[cur]]
          /\ child' = [child EXCEPT ![cur] = "none"]
          /\ Step("d_check")
          /\ UNCHANGED manual
       \/ /\ child[cur] = "none" \/ IOFaults
          /\ GiveUp
          /\ UNCHANGED <<child, trash>>
    /\ UNCHANGED <<owner, journal, mount, mountExisted, parent,
                   todo, leases, released, cow, obsVars>>

(* A tree left in quarantine by a failed backend.Acquire is out of sight:   *)
(* acquire looks at the child path and at the mount only.                   *)
LeftInQuarantine ==
    lost' = IF mode = "acquire" /\ trash'[cur] # "none"
            THEN lost \cup {cur} ELSE lost

(* The quarantined tree is validated again before it is deleted. *)
Mutant_QuarantineValid == trash[cur] # "none"

QuarantineValid == trash[cur] = "owned"

(* A tree that lost the lease's marker but kept its identity, or could not  *)
(* be read through, is put back; anything else is left where it is.         *)
RevalidateQuarantined ==
    /\ pc = "d_check"
    /\ \/ /\ QuarantineValid
          /\ Step("d_delete")
          /\ UNCHANGED <<child, trash, manual, lost>>
       \/ /\ trash[cur] = "unowned" \/ (trash[cur] = "owned" /\ IOFaults)
          /\ child[cur] = "none"
          /\ trash' = [trash EXCEPT ![cur] = "none"]
          /\ child' = [child EXCEPT ![cur] = trash[cur]]
          /\ GiveUp
          /\ UNCHANGED lost
       \/ /\ \/ trash[cur] \notin {"owned", "unowned"}
             \/ trash[cur] = "unowned" /\ child[cur] # "none"
             \/ IOFaults
          /\ UNCHANGED <<child, trash>>
          /\ GiveUp
          /\ LeftInQuarantine
    /\ UNCHANGED <<owner, journal, mount, mountExisted, parent,
                   todo, leases, released, cow,
                   ws, client, granted, asked, done, tampered, raced, crashes>>

(* prepareChildRemoval and RemoveAll take whatever is at the quarantine     *)
(* path by now.  A removal that fails half way may have taken the marker.   *)
DeleteQuarantined ==
    /\ pc = "d_delete"
    /\ \/ /\ trash' = [trash EXCEPT ![cur] = "none"]
          /\ released' = IF mode = "release" /\ cur \in leases
                         THEN released \cup {cur} ELSE released
          /\ IF mode = "acquire" THEN Step("a_failed") ELSE Step("c_owner")
          /\ UNCHANGED <<manual, lost>>
       \/ /\ IOFaults
          /\ trash' \in {trash} \cup (IF trash[cur] = "owned"
                THEN {[trash EXCEPT ![cur] = "unowned"]} ELSE {})
          /\ GiveUp
          /\ LeftInQuarantine
          /\ UNCHANGED released
    /\ UNCHANGED <<owner, journal, child, mount, mountExisted, parent,
                   todo, leases, cow,
                   ws, client, granted, asked, done, tampered, raced, crashes>>

(* removeWorkspaceOwner.  Cleanup of a lease that has no child tolerates a  *)
(* missing marker; everything else insists on the exact marker.             *)
RemoveOwner ==
    /\ pc = "c_owner"
    /\ \/ /\ OwnerValid(cur)
          /\ owner' = [owner EXCEPT ![W] = "none"]
          /\ Step("c_journal")
          /\ UNCHANGED manual
       \/ /\ owner[W] = "none" /\ mode \in {"acquire", "absent"}
          /\ Step("c_journal")
          /\ UNCHANGED <<owner, manual>>
       \/ /\ \/ owner[W] # "none" /\ ~OwnerValid(cur)
             \/ owner[W] = "none" /\ mode \notin {"acquire", "absent"}
             \/ IOFaults
          /\ Abandon
          /\ UNCHANGED owner
    /\ UNCHANGED <<journal, child, trash, mount, mountExisted, parent,
                   todo, leases, released, cow, obsVars>>

Mutant_JournalRemoved == [journal EXCEPT ![cur] = "released"]

JournalRemoved == [journal EXCEPT ![cur] = "none"]

(* The journal goes last; release then forgets the handle and answers OK.   *)
RemoveJournal ==
    /\ pc = "c_journal"
    /\ \/ /\ journal' = JournalRemoved
          /\ leases' = IF mode = "release" THEN leases \ {cur} ELSE leases
          /\ released' = IF mode = "release" THEN released \ {cur} ELSE released
          /\ done' = IF mode = "release" THEN done \cup {cur} ELSE done
          /\ Finish
          /\ UNCHANGED manual
       \/ /\ IOFaults
          /\ Abandon
          /\ UNCHANGED <<journal, leases, released, done>>
    /\ UNCHANGED <<owner, child, trash, mount, mountExisted, parent,
                   todo, cow, ws, client, granted, asked, tampered,
                   raced, lost, crashes>>

-----------------------------------------------------------------------------
(* NewManager: the probe decides CoWAvailable, then recover looks at every  *)
(* journal before the first request is served.                              *)

Start ==
    /\ pc = "down"
    /\ pc' = "recover"
    /\ todo' = {l \in Leases : journal[l] # "none"}
    /\ cow' \in BOOLEAN
    /\ UNCHANGED <<diskVars, cur, mode, leases, released, manual, obsVars>>

(* processAlive of the journal's pid, within the journal's boot session. *)
Mutant_ClientAlive_never(l) == FALSE

Mutant_ClientAlive_always(l) == TRUE

ClientAlive(l) == client[l] = "alive"

(* A journal recovery cannot act on is kept and manualRecovery raised. *)
RecoverKeep(l) ==
    /\ manual' = TRUE
    /\ UNCHANGED <<ctlVars, leases>>

RecoverCleanup(l, m, step) ==
    /\ pc' = step /\ cur' = l /\ mode' = m
    /\ UNCHANGED <<leases, manual>>

RecoverLease(l) ==
    /\ pc = "recover" /\ l \in todo
    /\ todo' = todo \ {l}
    /\ \/ /\ child[l] = "none" /\ mount[ws[l]] = "none"
          /\ RecoverCleanup(l, "absent", "c_owner")
       \/ /\ journal[l] = "ready" /\ Recoverable(l) /\ OwnerValid(l)
          /\ ClientAlive(l)
          /\ leases' = leases \cup {l}
          /\ UNCHANGED <<ctlVars, manual>>
       \/ /\ journal[l] = "ready" /\ Recoverable(l) /\ OwnerValid(l)
          /\ ~ClientAlive(l)
          /\ RecoverCleanup(l, "recovery", "d_unmount")
       \/ /\ \/ IOFaults
             \/ child[l] = "none" /\ mount[ws[l]] # "none"
             \/ child[l] # "none" /\ journal[l] = "requested"
             \/ child[l] # "none" /\ ~Recoverable(l)
             \/ child[l] # "none" /\ ~OwnerValid(l)
          /\ RecoverKeep(l)
    /\ UNCHANGED <<diskVars, released, cow, obsVars>>

RecoverDone ==
    /\ pc = "recover" /\ todo = {}
    /\ pc' = "idle"
    /\ UNCHANGED <<diskVars, cur, mode, memVars, obsVars>>

-----------------------------------------------------------------------------
(* Environment *)

Forget ==
    /\ pc' = "down" /\ cur' = "none" /\ mode' = "none"
    /\ todo' = {} /\ leases' = {} /\ released' = {}
    /\ manual' = FALSE /\ cow' = FALSE
    /\ lost' = lost \cup {l \in Leases : trash[l] # "none"}
    /\ crashes' = crashes + 1

Crash ==
    /\ pc # "down" /\ crashes < MaxCrashes
    /\ Forget
    /\ UNCHANGED <<diskVars, ws, client, granted, asked, done, tampered, raced>>

(* After a reboot BootSessionID differs, so no client counts as alive. *)
Reboot ==
    /\ pc # "down" /\ crashes < MaxCrashes
    /\ Forget
    /\ client' = [l \in Leases |-> "dead"]
    /\ UNCHANGED <<diskVars, ws, granted, asked, done, tampered, raced>>

ClientDies(l) ==
    /\ client[l] = "alive"
    /\ client' = [client EXCEPT ![l] = "dead"]
    /\ UNCHANGED <<diskVars, ctlVars, memVars,
                   ws, granted, asked, done, tampered, raced, lost, crashes>>

(* A user makes, fills or removes a Library of their own. *)
UserEditsLibrary(w) ==
    /\ mount[w] \in {"none", "emptydir"}
    /\ mount' \in {[mount EXCEPT ![w] = x] : x \in {"none", "emptydir", "foreign"}}
    /\ UNCHANGED <<owner, journal, child, trash, mountExisted, parent,
                   ctlVars, memVars, obsVars>>

ParentRots ==
    /\ parent = "good"
    /\ parent' = "corrupt"
    /\ UNCHANGED <<owner, journal, child, trash, mount, mountExisted,
                   ctlVars, memVars, obsVars>>

(* parent-begin/commit publishes the parent again (module UnixParents). *)
ParentRepublished ==
    /\ pc = "idle" /\ parent # "good"
    /\ parent' = "good"
    /\ UNCHANGED <<owner, journal, child, trash, mount, mountExisted,
                   ctlVars, memVars, obsVars>>

TamperChild(l) ==
    /\ Tamper /\ child[l] = "owned"
    /\ child' \in {[child EXCEPT ![l] = x] : x \in {"unowned", "foreign"}}
    /\ tampered' = tampered \cup {ws[l]}
    /\ UNCHANGED <<owner, journal, trash, mount, mountExisted, parent,
                   ctlVars, memVars,
                   ws, client, granted, asked, done, raced, lost, crashes>>

(* The quarantine path has a random name but no protection either: its tree *)
(* may lose its marker or be replaced, also after the daemon's last check.  *)
TamperQuarantine(l) ==
    /\ Tamper /\ trash[l] = "owned"
    /\ trash' \in {[trash EXCEPT ![l] = x] : x \in {"unowned", "foreign"}}
    /\ tampered' = tampered \cup {ws[l]}
    /\ raced' = IF pc = "d_delete" /\ cur = l THEN raced \cup {l} ELSE raced
    /\ UNCHANGED <<owner, journal, child, mount, mountExisted, parent,
                   ctlVars, memVars,
                   ws, client, granted, asked, done, lost, crashes>>

TamperWorkspace(w) ==
    /\ Tamper
    /\ \/ /\ mount[w] \in Leases
          /\ mount' \in {[mount EXCEPT ![w] = x] : x \in {"none", "foreign"}}
          /\ UNCHANGED owner
       \/ /\ owner[w] # "none"
          /\ owner' = [owner EXCEPT ![w] = "none"]
          /\ UNCHANGED mount
    /\ tampered' = tampered \cup {w}
    /\ UNCHANGED <<journal, child, trash, mountExisted, parent,
                   ctlVars, memVars,
                   ws, client, granted, asked, done, raced, lost, crashes>>

-----------------------------------------------------------------------------
Acquire ==
    \/ \E l \in Leases, w \in Workspaces : AcquireBegin(l, w)
    \/ AcquireCorruptParent
    \/ AcquireCreateOwner \/ AcquireFillOwner \/ AcquireWriteJournal
    \/ AcquireClone \/ AcquireMark \/ AcquireLink \/ AcquireReady
    \/ AcquireFailed

Cleanup ==
    \/ Unmount \/ ValidateChild \/ QuarantineChild
    \/ RevalidateQuarantined \/ DeleteQuarantined
    \/ RemoveOwner \/ RemoveJournal

Recovery ==
    \/ Start
    \/ \E l \in Leases : RecoverLease(l)
    \/ RecoverDone

Environment ==
    \/ Crash \/ Reboot \/ ParentRots \/ ParentRepublished
    \/ \E l \in Leases : ClientDies(l) \/ TamperChild(l) \/ TamperQuarantine(l)
    \/ \E w \in Workspaces : UserEditsLibrary(w) \/ TamperWorkspace(w)

Next ==
    \/ Acquire
    \/ \E l \in Leases : Release(l)
    \/ Cleanup
    \/ Recovery
    \/ Environment

Spec == Init /\ [][Next]_vars

(* A running handler is driven by its goroutine, and the service manager    *)
(* restarts the daemon.  Nothing forces clients or the environment to act.  *)
DaemonRuns ==
    \/ AcquireCreateOwner \/ AcquireFillOwner \/ AcquireWriteJournal
    \/ AcquireClone \/ AcquireMark \/ AcquireLink \/ AcquireReady
    \/ AcquireFailed
    \/ Cleanup
    \/ Recovery

FairSpec == Spec /\ WF_vars(DaemonRuns)

-----------------------------------------------------------------------------
(* Properties *)

(* Every variable has its type. *)
TypeOK ==
    /\ owner \in [Workspaces -> Leases \cup {"none", "torn"}]
    /\ journal \in [Leases -> {"none", "requested", "ready"}]
    /\ child \in [Leases -> Tree]
    /\ trash \in [Leases -> Tree]
    /\ mount \in [Workspaces -> Leases \cup {"none", "foreign", "emptydir"}]
    /\ mountExisted \in [Leases -> BOOLEAN]
    /\ parent \in {"absent", "good", "corrupt"}
    /\ pc \in PCs /\ mode \in Modes
    /\ cur \in Leases \cup {"none"}
    /\ todo \in SUBSET Leases
    /\ leases \in SUBSET Leases
    /\ released \in SUBSET Leases
    /\ manual \in BOOLEAN /\ cow \in BOOLEAN
    /\ ws \in [Leases -> Workspaces \cup {"none"}]
    /\ client \in [Leases -> {"alive", "dead"}]
    /\ granted \in SUBSET Leases
    /\ asked \in SUBSET Leases
    /\ done \in SUBSET Leases
    /\ tampered \in SUBSET Workspaces
    /\ raced \in SUBSET Leases
    /\ lost \in SUBSET Leases
    /\ crashes \in 0..MaxCrashes

(* l's journal, owner marker, tree and Library link all agree. *)
Intact(l) ==
    /\ journal[l] = "ready"
    /\ owner[ws[l]] = l
    /\ child[l] = "owned"
    /\ mount[ws[l]] = l

(* A lease whose acquire answered OK stays whole, through any number of     *)
(* daemon deaths, recoveries, I/O errors and other clients' requests, until *)
(* someone asks for its release or its client process is gone.              *)
GrantedLeaseIntact ==
    \A l \in granted \ asked :
        client[l] = "alive" /\ ws[l] \notin tampered => Intact(l)

(* The journal is written before the tree and removed after it: a tree or   *)
(* link the daemon made is reachable from a journal, so a restart finds it. *)
(* So is a tree in quarantine, unless its daemon died before deleting it or *)
(* a failed acquire left it (`lost'): recovery takes the absence of the     *)
(* child path for the end of the child.                                     *)
TreeHasJournal ==
    \A l \in Leases :
        (\/ child[l] # "none"
         \/ \E w \in Workspaces : mount[w] = l
         \/ trash[l] # "none" /\ l \notin lost)
            => journal[l] # "none"

(* While a tree of l exists at its child path the workspace still carries   *)
(* l's marker, so O_EXCL keeps any other lease out of the workspace.        *)
MarkerOutlivesTree ==
    \A l \in Leases :
        child[l] # "none" /\ ws[l] \notin tampered => owner[ws[l]] = l

(* Library never points at a tree that is partial, already quarantined or   *)
(* of another workspace.                                                    *)
NoDanglingMount ==
    \A w \in Workspaces \ tampered : \A l \in Leases :
        mount[w] = l => ws[l] = w /\ child[l] = "owned"

(* A release that answered OK left nothing behind, the quarantined tree     *)
(* included, whatever failed and was retried before.                        *)
ReleasedMeansGone ==
    \A l \in done :
        /\ journal[l] = "none" /\ child[l] = "none" /\ trash[l] = "none"
        /\ \A w \in Workspaces : mount[w] # l /\ owner[w] # l

(* Between requests, a tree that is not a whole lease with a handle in      *)
(* memory is reported through manualRecoveryRequired; so is a quarantined   *)
(* one, unless a daemon death or a failed acquire left it, in which case    *)
(* only the quarantine count of workspace-status shows it.                  *)
UncertainTreeFlagged ==
    pc = "idle" /\ ~manual =>
        \A l \in Leases :
            /\ child[l] # "none" /\ ws[l] \notin tampered
                  => l \in leases /\ Intact(l)
            /\ trash[l] # "none" => l \in lost

(* No step destroys a tree or a Library that the daemon did not make: a     *)
(* substituted child is at most renamed, a user's Library is left alone,    *)
(* and a quarantined tree replaced before its last check is left in place.  *)
(* (One that comes between that check and the RemoveAll by path is `raced'.)*)
ForeignKept ==
    [][/\ \A l \in Leases :
             /\ child[l] = "foreign" => "foreign" \in {child'[l], trash'[l]}
             /\ trash[l] = "foreign" => trash'[l] = "foreign" \/ l \in raced
       /\ \A w \in Workspaces : mount[w] = "foreign" => mount'[w] = "foreign"
      ]_vars

(* The daemon never removes an owner marker of one lease on behalf of       *)
(* another, and not before that lease's own tree and link are gone.         *)
MarkerRemovedLast ==
    [][\A w \in Workspaces :
         owner[w] \in Leases /\ owner'[w] # owner[w] /\ ~TamperWorkspace(w)
            => /\ owner[w] = cur
               /\ child[cur] = "none" /\ mount[w] # cur]_vars

(* A dead client's lease is reclaimed by the next restart, or the restarted *)
(* daemon says that it needs manual recovery.                               *)
DeadLeaseReclaimed ==
    \A l \in Leases :
        (pc = "down" /\ l \in granted /\ client[l] = "dead")
            ~> (journal[l] = "none" \/ manual)
=============================================================================
