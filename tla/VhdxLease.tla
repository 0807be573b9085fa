------------------------------ MODULE VhdxLease ------------------------------
(***************************************************************************)
(* One child disk of the Windows broker: how it is created, attached,       *)
(* mounted and taken down again.                                            *)
(*                                                                          *)
(* storage/lifecycle_windows.go  Attachment, windowsBackend.Acquire,        *)
(*                               AttachExisting, windowsLease.Release,      *)
(*                               PrepareDetachedStaleMount                  *)
(* workspace/native_windows.go   AcquireChild, AttachChild, Release         *)
(*                                                                          *)
(* BrokerLeases takes each of these operations for one or two steps.  Here  *)
(* they are taken apart into system calls and PowerShell scripts, each of   *)
(* which can fail, and a script can fail after it took effect: it waits for *)
(* the change to become visible, can be killed, and its output is parsed.   *)
(* Windows knows an attached disk by a number, which it keeps for a while   *)
(* after the disk is detached and may then give to any other disk.          *)
(***************************************************************************)
EXTENDS Naturals

CONSTANTS Numbers,     \* disk numbers
          MaxFaults,   \* bound on the failing calls
          MaxCrashes   \* bound on the deaths of the broker

ASSUME ConstantsAssumption ==
    /\ 0 \notin Numbers
    /\ MaxFaults \in Nat /\ MaxCrashes \in Nat

VARIABLES
    \* the host
    file,       \* the child image exists
    mnt,        \* mount path: absent, empty directory, this volume, another's
    attached,   \* the disk is attached
    number,     \* the number the disk is known by, 0 if none
    others,     \* numbers of other disks
    \* the broker's memory
    pc, op,     \* step and purpose of the operation that runs
    session,    \* the Attachment and its windowsLease
    identity,   \* the journal has the identity of the image
    delete,     \* deleteChild of the running release
    cleanup,    \* whether a cleanup call of the fail closure failed
    \* history
    answer,     \* what the last operation answered, "none" while one runs
    found,      \* the mount path when it began
    dirty,      \* a cleanup call failed, or the broker died, since then
    doomed,     \* the image is still being made, or somebody asked to delete it
    raced,      \* somebody replaced what the broker took for its own at the
                \* mount path
    faults, crashes

host == <<file, mnt, attached, number, others>>
vars == <<host, pc, op, session, identity, delete, cleanup, answer, found, dirty, doomed,
          raced, faults, crashes>>

NoSession == [handle |-> FALSE, attached |-> FALSE, mounted |-> FALSE, disk |-> 0,
              childCreated |-> FALSE, mountCreated |-> FALSE]

Steps == {"idle", "stale", "clear", "mkdir", "create", "open", "attach", "resolve", "mount",
          "ready", "f_unmount", "f_detach", "f_close", "f_child", "f_mount",
          "r_unmount", "r_detach", "r_close", "r_wait", "r_child", "r_mount"}

Init ==
    /\ file = FALSE /\ mnt = "none" /\ attached = FALSE /\ number = 0
    /\ others = {}
    /\ pc = "idle" /\ op = "none"
    /\ session = NoSession /\ identity = FALSE /\ delete = FALSE /\ cleanup = FALSE
    /\ answer = "failed" /\ found = "none" /\ dirty = FALSE /\ doomed = FALSE
    /\ raced = FALSE /\ faults = 0 /\ crashes = 0

-----------------------------------------------------------------------------
(* Helpers *)

Goto(step) == pc' = step /\ UNCHANGED <<op, answer>>

Answer(a) == pc' = "idle" /\ op' = "none" /\ answer' = a

Fault == faults < MaxFaults /\ faults' = faults + 1

Works == UNCHANGED faults

(* A call fails: out of order if it could have worked. *)
Fails(able) == IF able THEN Fault ELSE Works

(* The fail closures of Acquire and AttachExisting. *)
Fail == Goto("f_unmount") /\ cleanup' = FALSE /\ UNCHANGED <<session, delete, dirty>>

(* A failed acquire should have undone what it did. *)
Failed == Answer(IF op \in {"acquire", "discard"} THEN "undone" ELSE "failed")

(* An error before there is anything to clean up. *)
Refuse ==
    /\ Failed /\ session' = NoSession
    /\ UNCHANGED <<delete, cleanup, dirty>>

At(step) == pc = step /\ UNCHANGED <<found, doomed, raced, crashes>>

On(step) == Goto(step) /\ UNCHANGED <<delete, cleanup, dirty>>

-----------------------------------------------------------------------------
(* windowsBackend.Acquire and AttachExisting *)

Begin ==
    /\ pc = "idle" /\ answer' = "none" /\ found' = mnt /\ dirty' = FALSE
    /\ raced' = (raced /\ session # NoSession)
    /\ UNCHANGED <<host, session, cleanup, faults, crashes>>

(* The broker has found the mount path free; the lease is new. *)
AcquireBegin ==
    /\ Begin /\ session = NoSession /\ ~file /\ mnt = "none"
    /\ pc' = "mkdir" /\ op' = "acquire"
    /\ identity' = FALSE /\ doomed' = TRUE /\ UNCHANGED delete

(* AttachChild, for attach-retained, remove-retained and Recover.  Only the *)
(* first has looked at the mount path before.                               *)
AttachBegin ==
    /\ Begin /\ session = NoSession /\ file
    /\ pc' = "stale" /\ op' = "attach" /\ UNCHANGED <<identity, delete, doomed>>

Mutant_OwnStalePoint == mnt \in {"point", "foreign"} /\ ~attached

(* A mount point of exactly this volume, whose disk is detached. *)
OwnStalePoint == mnt = "point" /\ ~attached

(* AttachChild insists on the image of the journal.  Then                   *)
(* PrepareDetachedStaleMount: the image's own mount point is to go, a plain *)
(* directory stays, anything else refuses.                                  *)
PrepareStaleMount ==
    /\ At("stale")
    /\ \/ ~identity /\ Works /\ Refuse
       \/ identity /\ OwnStalePoint /\ Works /\ On("clear") /\ UNCHANGED session
       \/ identity /\ mnt # "point" /\ Works /\ On("mkdir") /\ UNCHANGED session
       \/ identity /\ Fails(mnt # "foreign" /\ (mnt = "point" => ~attached)) /\ Refuse
    /\ UNCHANGED <<host, identity>>

(* DeleteVolumeMountPoint deletes the mount point that is there by now, and *)
(* the empty directory under it goes as well.  What is not a mount point,   *)
(* or stands in a directory with files, makes it fail.                      *)
ClearStaleMount ==
    /\ At("clear")
    /\ \/ /\ mnt \in {"point", "foreign"} /\ Works
          /\ mnt' = "none" /\ On("mkdir") /\ UNCHANGED session
       \/ mnt # "point" /\ Works /\ UNCHANGED mnt /\ Refuse
       \/ mnt = "point" /\ Fault /\ mnt' \in {"point", "dir", "none"} /\ Refuse
    /\ UNCHANGED <<file, attached, number, others, identity>>

MountDirectory ==
    /\ At("mkdir")
    /\ \/ /\ Works /\ mnt' = (IF mnt = "none" THEN "dir" ELSE mnt)
          /\ session' = [session EXCEPT !.mountCreated = mnt = "none"]
          /\ On(IF op = "acquire" THEN "create" ELSE "open")
       \/ Fault /\ UNCHANGED mnt /\ Refuse
    /\ UNCHANGED <<file, attached, number, others, identity>>

Mutant_Created == [session EXCEPT !.childCreated = FALSE]

Created == [session EXCEPT !.childCreated = TRUE]

(* CreateDifferencing.  When closing the handle of the new image fails, the *)
(* image is there and Acquire does not know it.                             *)
Create ==
    /\ At("create")
    /\ \/ Works /\ file' = TRUE /\ session' = Created /\ On("open")
       \/ Fault /\ UNCHANGED file /\ Fail
       \/ /\ Fault /\ file' = TRUE
          /\ Goto("f_unmount") /\ cleanup' = FALSE /\ dirty' = TRUE
          /\ UNCHANGED <<session, delete>>
    /\ UNCHANGED <<mnt, attached, number, others, identity>>

(* Open, then VerifyParent.  AttachExisting returns at once when Open fails. *)
Open ==
    /\ At("open")
    /\ \/ Works /\ session' = [session EXCEPT !.handle = TRUE] /\ On("attach")
       \/ Fault /\ op = "attach" /\ Refuse
       \/ Fault /\ op = "acquire" /\ Fail
       \/ /\ Fault /\ Goto("f_unmount") /\ session' = [session EXCEPT !.handle = TRUE]
          /\ cleanup' = FALSE /\ UNCHANGED <<delete, dirty>>
    /\ UNCHANGED <<host, identity>>

(* A disk is attached once; a session that was dropped may still hold it.   *)
Attach ==
    /\ At("attach")
    /\ \/ /\ ~attached /\ Works /\ attached' = TRUE
          /\ number' \in Numbers \ others
          /\ session' = [session EXCEPT !.attached = TRUE] /\ On("resolve")
       \/ Fails(~attached) /\ UNCHANGED <<attached, number>> /\ Fail
    /\ UNCHANGED <<file, mnt, others, identity>>

(* ResolvePhysicalPath and ResolveVolume. *)
Resolve ==
    /\ At("resolve")
    /\ \/ Works /\ session' = [session EXCEPT !.disk = number] /\ On("mount")
       \/ Fault /\ Fail
    /\ UNCHANGED <<host, identity>>

(* The script insists on an empty directory.  It may report an error after  *)
(* the access path was added; then nobody remembers that it was.            *)
Mount ==
    /\ At("mount")
    /\ \/ /\ mnt = "dir" /\ Works /\ mnt' = "point"
          /\ session' = [session EXCEPT !.mounted = TRUE] /\ On("ready")
       \/ /\ Fails(mnt = "dir") /\ Fail
          /\ mnt' \in {mnt} \cup (IF mnt = "dir" THEN {"point"} ELSE {})
    /\ UNCHANGED <<file, attached, number, others, identity>>

(* The broker journals the lease and keeps the session.  Some sessions are  *)
(* released at once and kept by nobody: of an acquire, when the identity of *)
(* the image cannot be read or journalled; of an attach, by Recover and     *)
(* remove-retained, and when attach-retained cannot write its journal.      *)
Hold ==
    /\ pc = "ready" /\ UNCHANGED <<found, raced, crashes>>
    /\ \/ /\ Works /\ Answer("held") /\ identity' = TRUE /\ doomed' = FALSE
          /\ UNCHANGED <<session, delete, cleanup, dirty>>
       \/ Fault /\ Fail /\ UNCHANGED <<identity, doomed>>
       \/ /\ op = "acquire" /\ Fault
          /\ pc' = "r_unmount" /\ op' = "discard" /\ delete' = TRUE
          /\ UNCHANGED <<answer, session, identity, cleanup, dirty, doomed>>
       \/ /\ op = "attach" /\ Works
          /\ pc' = "r_unmount" /\ op' = "recover" /\ delete' \in BOOLEAN
          /\ doomed' = (doomed \/ delete')
          /\ UNCHANGED <<answer, session, identity, cleanup, dirty>>
    /\ UNCHANGED host

-----------------------------------------------------------------------------
(* The fail closure: Attachment.Close tries everything, the image is only   *)
(* removed when all of it worked.                                           *)

CleanupFails == Fault /\ cleanup' = TRUE /\ dirty' = TRUE

CleanupWorks == Works /\ UNCHANGED <<cleanup, dirty>>

FailUnmount ==
    /\ At("f_unmount")
    /\ \/ /\ session.mounted /\ CleanupWorks
          /\ mnt' = "dir" /\ session' = [session EXCEPT !.mounted = FALSE]
       \/ /\ session.mounted /\ CleanupFails
          /\ mnt' \in {mnt, "dir"} /\ UNCHANGED session
       \/ ~session.mounted /\ CleanupWorks /\ UNCHANGED <<mnt, session>>
    /\ Goto("f_detach")
    /\ UNCHANGED <<file, attached, number, others, identity, delete>>

FailDetach ==
    /\ At("f_detach")
    /\ \/ /\ session.attached /\ CleanupWorks
          /\ attached' = FALSE /\ session' = [session EXCEPT !.attached = FALSE]
       \/ session.attached /\ CleanupFails /\ UNCHANGED <<attached, session>>
       \/ ~session.attached /\ CleanupWorks /\ UNCHANGED <<attached, session>>
    /\ Goto("f_close")
    /\ UNCHANGED <<file, mnt, number, others, identity, delete>>

(* Closing the handle detaches a disk that it attached. *)
FailClose ==
    /\ At("f_close")
    /\ \/ session.handle /\ CleanupWorks /\ attached' = (attached /\ ~session.attached)
       \/ session.handle /\ CleanupFails /\ UNCHANGED attached
       \/ ~session.handle /\ CleanupWorks /\ UNCHANGED attached
    /\ session' = [session EXCEPT !.handle = FALSE] /\ Goto("f_child")
    /\ UNCHANGED <<file, mnt, number, others, identity, delete>>

ChildRemovable == session.childCreated /\ ~cleanup

FailChild ==
    /\ At("f_child")
    /\ \/ ChildRemovable /\ CleanupWorks /\ file' = FALSE
       \/ ChildRemovable /\ CleanupFails /\ UNCHANGED file
       \/ ~ChildRemovable /\ CleanupWorks /\ UNCHANGED file
    /\ Goto("f_mount")
    /\ UNCHANGED <<mnt, attached, number, others, session, identity, delete>>

(* os.Remove of a mount point deletes the mount point; its error is         *)
(* ignored.  The attachment is forgotten.                                   *)
FailMount ==
    /\ At("f_mount")
    /\ \/ session.mountCreated /\ CleanupWorks /\ mnt' = "none"
       \/ session.mountCreated /\ CleanupFails /\ UNCHANGED mnt
       \/ session.mountCreated /\ mnt = "foreign" /\ CleanupWorks /\ UNCHANGED mnt
       \/ ~session.mountCreated /\ CleanupWorks /\ UNCHANGED mnt
    /\ Failed /\ session' = NoSession
    /\ UNCHANGED <<file, attached, number, others, identity, delete>>

-----------------------------------------------------------------------------
(* windowsLease.Release: every error returns at once, and the next call     *)
(* goes on with what is not done yet.                                       *)

(* Every call says anew whether the image is deleted, also a call that      *)
(* repeats a release that failed after it deleted the image.                *)
ReleaseBegin(d) ==
    /\ Begin /\ session # NoSession
    /\ pc' = "r_unmount" /\ op' = "release"
    /\ delete' = d /\ doomed' = (doomed \/ d) /\ UNCHANGED identity

(* The session stays in the broker's map, if it is there. *)
Kept(s) == IF op = "release" THEN s ELSE NoSession

StopWith(s) ==
    /\ Failed /\ session' = Kept(s)
    /\ dirty' = TRUE /\ UNCHANGED <<delete, cleanup>>

Stop == StopWith(session)

Mutant_Unmounts == TRUE

Unmounts == session.mounted

(* The script removes the access path only if the partition has it, so it   *)
(* fails for ever once it has reported an error after removing it.          *)
ReleaseUnmount ==
    /\ At("r_unmount")
    /\ \/ /\ Unmounts /\ mnt = "point" /\ Works
          /\ mnt' = "dir" /\ session' = [session EXCEPT !.mounted = FALSE] /\ On("r_detach")
       \/ /\ Unmounts /\ Fails(mnt = "point") /\ Stop
          /\ mnt' \in {mnt} \cup (IF mnt = "point" THEN {"dir"} ELSE {})
       \/ ~Unmounts /\ Works /\ UNCHANGED <<mnt, session>> /\ On("r_detach")
    /\ UNCHANGED <<file, attached, number, others, identity>>

Mutant_Detached == session

(* What a successful DetachVirtualDisk leaves to be remembered. *)
Detached == [session EXCEPT !.attached = FALSE]

ReleaseDetach ==
    /\ At("r_detach")
    /\ \/ /\ session.attached /\ attached /\ Works
          /\ attached' = FALSE /\ session' = Detached /\ On("r_close")
       \/ session.attached /\ Fails(attached) /\ UNCHANGED attached /\ Stop
       \/ ~session.attached /\ Works /\ UNCHANGED <<attached, session>> /\ On("r_close")
    /\ UNCHANGED <<file, mnt, number, others, identity>>

ReleaseClose ==
    /\ At("r_close")
    /\ \/ Works /\ session' = [session EXCEPT !.handle = FALSE] /\ On("r_wait")
       \/ session.handle /\ Fault /\ StopWith([session EXCEPT !.handle = FALSE])
    /\ UNCHANGED <<host, identity>>

(* The disk number is still seen after 15 seconds, whichever disk has it.   *)
NumberSeen == session.disk \in {number} \cup others

ReleaseWait ==
    /\ At("r_wait")
    /\ \/ ~NumberSeen /\ Works /\ On("r_child") /\ UNCHANGED session
       \/ Fails(~NumberSeen) /\ Stop
    /\ UNCHANGED <<host, identity>>

Mutant_ChildDeleted == session.childCreated

(* The image, if the caller does not retain it. *)
ChildDeleted == delete

ReleaseChild ==
    /\ At("r_child")
    /\ \/ /\ Works /\ file' = (file /\ ~ChildDeleted)
          /\ On("r_mount") /\ UNCHANGED session
       \/ ChildDeleted /\ Fault /\ UNCHANGED file /\ Stop
    /\ UNCHANGED <<mnt, attached, number, others, identity>>

(* The broker forgets a session that has released.  (What happens when it   *)
(* keeps one and releases it again is a matter of BrokerLeases.)            *)
ReleaseMount ==
    /\ pc = "r_mount" /\ UNCHANGED <<found, raced, crashes>>
    /\ \/ /\ Works
          /\ mnt' = (IF session.mountCreated THEN "none" ELSE mnt)
          /\ Answer(IF op = "discard" THEN "undone"
                    ELSE IF delete THEN "released" ELSE "retained")
          /\ session' = NoSession /\ doomed' = (doomed /\ op = "discard")
          /\ UNCHANGED <<delete, cleanup, dirty>>
       \/ /\ session.mountCreated /\ Fails(mnt # "foreign")
          /\ UNCHANGED <<mnt, doomed>> /\ Stop
    /\ UNCHANGED <<file, attached, number, others, identity>>

-----------------------------------------------------------------------------
(* Windows *)

rest == <<pc, op, session, identity, delete, cleanup, answer, dirty, doomed, faults, crashes>>

(* A detached disk is seen for a while. *)
Vanish ==
    /\ ~attached /\ number # 0 /\ number' = 0
    /\ UNCHANGED <<file, mnt, attached, others, found, raced, rest>>

(* Other disks come and go: other leases, and the host's own.  There is     *)
(* always a number left for the next disk.                                  *)
OtherDisk(n) ==
    /\ n # number /\ others \cup {n} # Numbers
    /\ others' = IF n \in others THEN others \ {n} ELSE others \cup {n}
    /\ UNCHANGED <<file, mnt, attached, number, found, raced, rest>>

(* The workspace is the user's: a directory with files or a mount point of  *)
(* another volume comes and goes, also in place of the directory that the   *)
(* broker made or of the mount point that a dead broker left.  The mount    *)
(* point of an attached disk is in use and stays.                           *)
Occupy ==
    /\ mnt = "point" => ~attached
    /\ mnt' \in {"none", "foreign"} \ {mnt} /\ found' = mnt'
    /\ raced' = (raced \/ session.mountCreated \/ pc = "clear")
    /\ UNCHANGED <<file, attached, number, others, rest>>

(* The handles of the process are closed; mount points stay. *)
Crash ==
    /\ crashes < MaxCrashes /\ crashes' = crashes + 1
    /\ attached' = FALSE
    /\ pc' = "idle" /\ op' = "none" /\ session' = NoSession
    /\ answer' = "failed" /\ dirty' = TRUE
    /\ UNCHANGED <<file, mnt, number, others, identity, delete, cleanup, found, doomed,
                   raced, faults>>

-----------------------------------------------------------------------------
Acquire == PrepareStaleMount \/ ClearStaleMount \/ MountDirectory \/ Create
           \/ Open \/ Attach \/ Resolve \/ Mount \/ Hold

Closure == FailUnmount \/ FailDetach \/ FailClose \/ FailChild \/ FailMount

Release == ReleaseUnmount \/ ReleaseDetach \/ ReleaseClose \/ ReleaseWait
           \/ ReleaseChild \/ ReleaseMount

Run == Acquire \/ Closure \/ Release

Next ==
    \/ AcquireBegin \/ AttachBegin \/ \E d \in BOOLEAN : ReleaseBegin(d)
    \/ Run
    \/ Vanish \/ Occupy \/ Crash
    \/ \E n \in Numbers : OtherDisk(n)

Spec == Init /\ [][Next]_vars

(* Operations run to their end, a detached disk disappears, and a release   *)
(* that failed is tried again: by the client, and by every pass of Recover  *)
(* once the client is dead.                                                 *)
FairSpec ==
    /\ Spec
    /\ WF_vars(Run) /\ WF_vars(Vanish)
    /\ WF_vars(dirty /\ ReleaseBegin(TRUE))

-----------------------------------------------------------------------------
(* Properties *)

Sessions == [handle : BOOLEAN, attached : BOOLEAN, mounted : BOOLEAN,
             disk : Numbers \cup {0},
             childCreated : BOOLEAN, mountCreated : BOOLEAN]

HostOK ==
    /\ file \in BOOLEAN /\ mnt \in {"none", "dir", "point", "foreign"}
    /\ attached \in BOOLEAN /\ number \in Numbers \cup {0}
    /\ others \in SUBSET Numbers

RunOK ==
    /\ pc \in Steps
    /\ op \in {"none", "acquire", "attach", "release", "discard", "recover"}
    /\ identity \in BOOLEAN /\ delete \in BOOLEAN
    /\ cleanup \in BOOLEAN /\ dirty \in BOOLEAN /\ doomed \in BOOLEAN
    /\ raced \in BOOLEAN
    /\ answer \in {"none", "held", "failed", "undone", "released", "retained"}
    /\ found \in {"none", "dir", "point", "foreign"}

CountersOK == faults \in 0..MaxFaults /\ crashes \in 0..MaxCrashes

(* The types of the variables. *)
TypeOK == HostOK /\ RunOK /\ session \in Sessions /\ CountersOK

(* The mount and unmount scripts find the disk by its number.  Whenever one *)
(* of them runs, in whatever attempt, the number is still that of the       *)
(* lease's own disk: no other disk is ever mounted or unmounted.            *)
OwnDiskOnly ==
    \/ pc = "mount"
    \/ pc = "f_unmount" /\ session.mounted
    \/ pc = "r_unmount" /\ Unmounts
    => attached /\ session.disk = number /\ number \notin others

(* A failed acquire, wherever it failed, leaves no image and no attached    *)
(* disk, and the mount path as it found it, unless the closing of the new   *)
(* image or a call of its cleanup failed in turn.  (A path that somebody    *)
(* replaced meanwhile is not what it found.)                                *)
UndoneLeavesNothing ==
    answer = "undone" /\ ~dirty => ~file /\ ~attached /\ (mnt = found \/ raced)

(* What somebody else has at the mount path stays: no step of an acquire,   *)
(* an attach, a release or their cleanup takes it away, unless it came      *)
(* there in place of what the broker had made, or had checked a moment ago. *)
ForeignMountKept == [][Run /\ mnt = "foreign" /\ ~raced => mnt' = "foreign"]_vars

(* The native contract that the broker's handlers rely on. *)
Contract == INSTANCE NativeLease WITH
    child <- file,
    disk <- attached,
    mounted <- mnt = "point",
    answer <- IF answer = "undone" THEN "failed" ELSE answer,
    doomed <- doomed

NativeContract == Contract!Spec

(* The unmount took effect and was reported as failed, another disk got the *)
(* number of this one, or somebody put something in the mount directory.    *)
Stuck ==
    \/ session.mounted /\ mnt # "point"
    \/ session.disk \in others
    \/ session.mountCreated /\ mnt = "foreign"

(* A release that failed at any step succeeds when it is repeated, or is    *)
(* stuck in one of the three known ways.                                    *)
RetriedReleaseSucceeds ==
    (dirty /\ session # NoSession) ~> (session = NoSession \/ Stuck)
=============================================================================
