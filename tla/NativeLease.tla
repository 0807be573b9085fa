----------------------------- MODULE NativeLease -----------------------------
(***************************************************************************)
(* What the broker may rely on when it asks the platform for a child disk:  *)
(* the picture of native acquire, attach and release that the handlers of   *)
(* BrokerLeases act on.  The disk of a lease that is held is attached and   *)
(* mounted; a child reported as released or retained is neither, and is     *)
(* gone or still there accordingly; a disk is mounted only while attached,  *)
(* and its image deleted only while detached, and only if it is doomed: not *)
(* handed out yet, or a release that deletes has been asked for since.  An  *)
(* answer stays true until the next request: nothing happens to the disk in *)
(* between, except that a crash of the broker detaches it, and that then    *)
(* somebody may take away its mount point.                                  *)
(*                                                                          *)
(* A doomed image may be gone although the last release retains it: a       *)
(* release that deletes got as far as the image and failed, and the caller  *)
(* repeated it without deleting.                                            *)
(***************************************************************************)
VARIABLES child,    \* the image exists
          disk,     \* it is attached
          mounted,  \* the mount path is its mount point
          doomed,   \* the image may be deleted
          answer    \* what the last request was answered, "none" meanwhile

vars == <<child, disk, mounted, doomed, answer>>

Init == ~child /\ ~disk /\ ~mounted /\ ~doomed /\ answer = "failed"

\* What an answer says of the disk; a failure says nothing.
True(a) ==
    /\ a = "held" => child /\ disk /\ mounted
    /\ a = "released" => ~child /\ ~disk /\ ~mounted
    /\ a = "retained" => (child \/ doomed) /\ ~disk /\ ~mounted

Condemn == doomed' /\ UNCHANGED <<child, disk, mounted>>

Request ==
    /\ answer # "none" /\ answer' = "none"
    /\ Condemn \/ UNCHANGED <<child, disk, mounted, doomed>>

Create == ~child /\ doomed /\ child' /\ UNCHANGED <<disk, mounted, doomed>>

Attach == child /\ ~disk /\ disk' /\ UNCHANGED <<child, mounted, doomed>>

Mount == disk /\ ~mounted /\ mounted' /\ UNCHANGED <<child, disk, doomed>>

Unmount == mounted /\ ~mounted' /\ UNCHANGED <<child, disk, doomed>>

Detach == disk /\ ~disk' /\ UNCHANGED <<child, mounted, doomed>>

Delete == child /\ ~disk /\ doomed /\ ~child' /\ UNCHANGED <<disk, mounted, doomed>>

\* A failure may come with the last thing that was done.
Work ==
    /\ answer = "none" /\ answer' \in {"none", "failed"}
    /\ Create \/ Attach \/ Mount \/ Unmount \/ Detach \/ Delete

\* A disk that was attached is released at once.
GoOn == answer = "none" /\ disk /\ Condemn /\ UNCHANGED answer

\* What is handed out or left behind on request is not doomed any more.
Reply ==
    /\ answer = "none"
    /\ answer' \in {"held", "released", "retained", "failed"}
    /\ True(answer')
    /\ doomed' = (doomed /\ answer' = "failed")
    /\ UNCHANGED <<child, disk, mounted>>

Crash ==
    /\ answer' = "failed"
    /\ Detach \/ UNCHANGED <<child, disk, mounted, doomed>>

\* Somebody takes away the mount point that a crash left behind.
Clear == mounted /\ ~disk /\ ~mounted' /\ UNCHANGED <<child, disk, doomed, answer>>

Next == Request \/ Work \/ GoOn \/ Reply \/ Crash \/ Clear

Spec == Init /\ [][Next]_vars
=============================================================================
