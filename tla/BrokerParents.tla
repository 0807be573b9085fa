---------------------------- MODULE BrokerParents ----------------------------
(***************************************************************************)
(* Immutable parent images in the Windows broker: the begin-parent,        *)
(* commit-parent and abort-parent handlers (workspace/broker.go), the      *)
(* store underneath them (workspace/store.go), the native build session    *)
(* (workspace/native_windows.go), the part of Recover that reaps           *)
(* abandoned builds, and the garbage collector, together with the part of  *)
(* acquire that hangs a child on a parent.                                 *)
(*                                                                         *)
(* The pipe server runs every request in a goroutine of its own and the    *)
(* broker's mutex guards its maps only, so every file system operation of  *)
(* a handler is a step and the steps of all handlers, of Recover and of    *)
(* the clients interleave.                                                 *)
(*                                                                         *)
(* Abstractions.  A build is a transaction ID; it also stands for the      *)
(* image it makes and for the client that asked for it.  Time is a choice: *)
(* the grace period of a pending build may be over as soon as its client   *)
(* is dead, and a parent may stop being fresh (used within ParentTTL,      *)
(* thirty days) whenever no request is in progress.  Space is a choice: an *)
(* acquire may or may not have to collect.  Releasing a lease is one step  *)
(* here; module BrokerLeases has the whole life of a lease.                *)
(*                                                                         *)
(* Definitions named Mutant_X are faulty variants of the X below them; no  *)
(* action uses them.                                                       *)
(***************************************************************************)
EXTENDS Naturals

CONSTANTS
    Keys,         \* compatibility keys of parents
    Builds,       \* transaction IDs that begin-parent may draw
    Leases,       \* lease IDs that acquire may draw
    Handlers,     \* handler goroutines, one per connection
    ClientsDie,   \* clients may die during a build
    MaxFaults,    \* bound on the file system and virtual disk calls that fail
    MaxCrashes    \* bound on the crashes of the broker

ASSUME ConstantsAssumption ==
    /\ Keys # {} /\ Builds # {} /\ Handlers # {}
    /\ ClientsDie \in BOOLEAN /\ MaxFaults \in Nat /\ MaxCrashes \in Nat

Nothing == "nothing"   \* no such file, directory or entry
Bare == "bare"         \* a pending directory without pending.json

ASSUME SentinelsAssumption ==
    /\ Nothing \notin Builds \cup Keys \cup Leases
    /\ Bare \notin Builds

VARIABLES
    pending,     \* disk: whose pending.json the pending directory holds
    staging,     \* disk: the image in the pending directory
    quarantine,  \* disk: entries of the quarantine directory
    parent,      \* disk: the parent directories
    fresh,       \* disk: parents whose LastUsedAt is within ParentTTL
    journal,     \* disk: the parent key of every lease journal
    child,       \* disk: the image every child is differenced from
    key,         \* the parent key of every build that was begun
    session,     \* memory: the build session; its disk is attached if "open"
    proc,        \* memory: local variables of the handlers
    reaper,      \* memory: local variables of Recover
    alive,       \* builds whose client process is running
    answered,    \* observer: builds whose client was told they are committed
    collected,   \* observer: images the garbage collector deleted
    overtaken,   \* observer: leases whose acquire overlaps a collection, or
                 \* could not touch its parent
    contested,   \* observer: builds that two handlers worked on at a time
    stranded,    \* observer: keys whose pending directory lost its
                 \* pending.json and was left behind
    faults, crashes

disk == <<pending, staging, quarantine, parent, fresh, journal, child>>
observers == <<answered, collected, overtaken, contested, stranded>>
bounds == <<faults, crashes>>
vars == <<disk, key, session, proc, reaper, alive, observers, bounds>>

NoDir == [dir |-> FALSE, vhdx |-> Nothing, metadata |-> Nothing,
          complete |-> FALSE]
EmptyDir == [NoDir EXCEPT !.dir = TRUE]

Image == Builds \cup {Nothing}

ParentDirs == [dir : BOOLEAN, vhdx : Image, metadata : Image,
               complete : BOOLEAN]

Idle == [pc |-> "idle", k |-> Nothing, b |-> Nothing, l |-> Nothing,
         active |-> {}, listed |-> {}, then |-> "answer"]

Steps == {"idle", "recheck", "mkdir", "write", "native", "detach", "verify",
          "read", "publish", "move", "metadata", "complete", "close", "check",
          "unlist", "rmdir", "touch", "admit", "journal", "child", "protect",
          "list", "collect"}

Locals == [pc : Steps, k : Keys \cup {Nothing}, b : Image,
           l : Leases \cup {Nothing}, active : SUBSET Keys,
           listed : SUBSET Keys, then : {"answer", "commit", "journal"}]

NoReap == [pc |-> "idle", k |-> Nothing, b |-> Nothing, staged |-> FALSE]

\* Types; a staged image lies in a pending directory, and the files of a
\* parent in a parent directory.
TypeOK ==
    /\ pending \in [Keys -> Image \cup {Bare}] /\ staging \in [Keys -> Image]
    /\ \A k \in Keys : staging[k] # Nothing => pending[k] # Nothing
    /\ quarantine \subseteq Builds /\ parent \in [Keys -> ParentDirs]
    /\ \A k \in Keys : parent[k].dir \/ parent[k] = NoDir
    /\ fresh \subseteq Keys
    /\ journal \in [Leases -> Keys \cup {Nothing}]
    /\ child \in [Leases -> Image]
    /\ key \in [Builds -> Keys \cup {Nothing}]
    /\ session \in [Builds -> {"none", "open", "closed"}]
    /\ proc \in [Handlers -> Locals]
    /\ reaper \in [pc : {"idle", "reap", "rmdir"}, k : Keys \cup {Nothing},
                   b : Image, staged : BOOLEAN]
    /\ alive \subseteq Builds
    /\ answered \subseteq Builds /\ collected \subseteq Builds
    /\ overtaken \subseteq Leases /\ contested \subseteq Builds
    /\ stranded \subseteq Keys
    /\ faults \in 0..MaxFaults /\ crashes \in 0..MaxCrashes

Init ==
    /\ pending = [k \in Keys |-> Nothing] /\ staging = [k \in Keys |-> Nothing]
    /\ quarantine = {} /\ parent = [k \in Keys |-> NoDir] /\ fresh = {}
    /\ journal = [l \in Leases |-> Nothing]
    /\ child = [l \in Leases |-> Nothing]
    /\ key = [b \in Builds |-> Nothing] /\ session = [b \in Builds |-> "none"]
    /\ proc = [h \in Handlers |-> Idle] /\ reaper = NoReap
    /\ alive = Builds /\ answered = {} /\ collected = {} /\ overtaken = {}
    /\ contested = {} /\ stranded = {}
    /\ faults = 0 /\ crashes = 0

-----------------------------------------------------------------------------
(* What the store and the native layer look at.                            *)

\* Store.ResolveParent: missing, valid, or else corrupt.
Missing(k) == ~parent[k].dir
Valid(k) == /\ parent[k].complete
            /\ parent[k].metadata # Nothing
            /\ parent[k].vhdx # Nothing

\* VerifyParent: the image is the one the metadata was written for.
Verified(k) == Valid(k) /\ parent[k].vhdx = parent[k].metadata

\* A disk that is attached can be neither renamed nor removed, nor can the
\* directory it lies in.
Attached(k) == staging[k] # Nothing /\ session[staging[k]] = "open"

\* Store.ReadPending and the comparison of transaction ID and token.
OwnPending(k, b) == pending[k] = b

\* Finalize attaches the staged disk again and compares the disk identity.
OwnImage(k, b) == staging[k] = b

\* The directory pending/<key> is created by Mkdir, which fails if it exists.
Mutant_CanBegin(k) == staging[k] = Nothing
CanBegin(k) == pending[k] = Nothing

\* os.Remove of the pending directory, which fails unless it is empty.
Mutant_WithoutDir(k) == IF pending[k] = Bare THEN Nothing ELSE pending[k]
WithoutDir(k) == IF pending[k] = Bare /\ staging[k] = Nothing THEN Nothing
                 ELSE pending[k]

\* Store.ProtectedParentKeys: parents that a lease or a build refers to.
Mutant_Protected == {k \in Keys : pending[k] \in Builds}
Protected == {k \in Keys : \/ pending[k] \in Builds
                             \/ \E l \in Leases : journal[l] = k}

\* ... which is an error while the namespace is ambiguous.
Ambiguous == quarantine # {} \/ \E k \in Keys : pending[k] = Bare

\* Parents whose LastUsedAt, as ListParents reads it, is past the TTL.
Expired == {k \in Keys : parent[k].metadata # Nothing} \ fresh

-----------------------------------------------------------------------------
(* Helpers                                                                 *)

At(h, step) == proc[h].pc = step

Key(h) == proc[h].k

Build(h) == proc[h].b

Goto(h, step) == proc' = [proc EXCEPT ![h].pc = step]

Return(h) == proc' = [proc EXCEPT ![h] = Idle]

\* A parent directory that lost its metadata and its COMPLETE marker.
OnlyImage(k) == [EmptyDir EXCEPT !.vhdx = parent[k].vhdx]

Fault == faults < MaxFaults /\ faults' = faults + 1 /\ UNCHANGED crashes

\* No handler works on the build.
Free(b) == \A h \in Handlers : proc[h].b # b

\* A request about a build finds its session in the map, whoever else does:
\* no lock belongs to a transaction.
StartOn(h, b, step, then) ==
    /\ proc' = [proc EXCEPT ![h].pc = step, ![h].k = key[b], ![h].b = b, ![h].then = then]
    /\ contested' = contested \cup {x \in {b} : ~Free(x)}
    /\ UNCHANGED <<disk, key, session, reaper, alive, answered, collected, overtaken,
                   stranded, bounds>>

-----------------------------------------------------------------------------
(* begin-parent                                                            *)

Begin(h, k) ==
    /\ At(h, "idle")
    /\ \/ /\ Verified(k)
          /\ fresh' = fresh \cup {k} /\ UNCHANGED proc
       \/ /\ Missing(k)
          /\ proc' = [proc EXCEPT ![h].pc = "recheck", ![h].k = k]
          /\ UNCHANGED fresh
    /\ UNCHANGED <<pending, staging, quarantine, parent, journal, child, key,
                   session, reaper, alive, observers, bounds>>

\* Store.BeginParent resolves the parent once more; only a valid one is in
\* the way.
BeginRecheck(h) ==
    /\ At(h, "recheck")
    /\ IF Valid(Key(h)) THEN Return(h) ELSE Goto(h, "mkdir")
    /\ UNCHANGED <<disk, key, session, reaper, alive, observers, bounds>>

\* A pending directory that exists is someone else's build: the answer is
\* "waiting".
BeginMkdir(h) ==
    /\ At(h, "mkdir")
    /\ \/ /\ ~CanBegin(Key(h))
          /\ Return(h)
          /\ UNCHANGED <<pending, key>>
       \/ /\ CanBegin(Key(h))
          /\ \E b \in Builds :
                /\ key[b] = Nothing
                /\ key' = [key EXCEPT ![b] = Key(h)]
                /\ proc' = [proc EXCEPT ![h].pc = "write", ![h].b = b]
          /\ pending' = [pending EXCEPT ![Key(h)] = Bare]
    /\ UNCHANGED <<staging, quarantine, parent, fresh, journal, child, session,
                   reaper, alive, observers, bounds>>

BeginWrite(h) ==
    /\ At(h, "write")
    /\ \/ /\ pending[Key(h)] = Bare
          /\ pending' = [pending EXCEPT ![Key(h)] = Build(h)]
          /\ Goto(h, "native") /\ UNCHANGED bounds
       \/ /\ \/ pending[Key(h)] # Bare /\ UNCHANGED bounds
             \/ Fault
          /\ pending' = [pending EXCEPT ![Key(h)] = WithoutDir(Key(h))]
          /\ Return(h)
    /\ UNCHANGED <<staging, quarantine, parent, fresh, journal, child, key,
                   session, reaper, alive, observers>>

\* Creates the disk, attaches and formats it.  When that fails, and when the
\* cleanup fails as well, the new disk stays in the pending directory.
BeginNative(h) ==
    LET k == Key(h) b == Build(h) IN
    /\ At(h, "native")
    /\ pending' = [pending EXCEPT ![k] = IF @ = Nothing THEN Bare ELSE @]
    /\ \/ /\ staging[k] = Nothing
          /\ staging' = [staging EXCEPT ![k] = b]
          /\ session' = [session EXCEPT ![b] = "open"]
          /\ Return(h) /\ UNCHANGED bounds
       \/ /\ \/ staging[k] # Nothing /\ UNCHANGED <<staging, bounds>>
             \/ /\ staging[k] = Nothing /\ Fault
                /\ \E left \in {Nothing, b} :
                      staging' = [staging EXCEPT ![k] = left]
          /\ Goto(h, "check") /\ UNCHANGED session
    /\ UNCHANGED <<quarantine, parent, fresh, journal, child, key, reaper,
                   alive, observers>>

-----------------------------------------------------------------------------
(* commit-parent                                                           *)

\* Finalize refuses a session that is closed.
Commit(h, b) ==
    /\ At(h, "idle") /\ session[b] = "open"
    /\ StartOn(h, b, "detach", "commit")

\* Finalize unmounts and detaches the disk.  If another handler has closed the
\* session since, the calls fail, or have nothing to do.
CommitDetach(h) ==
    LET b == Build(h) IN
    /\ At(h, "detach")
    /\ \/ /\ session' = [session EXCEPT ![b] = IF @ = "open" THEN "closed" ELSE @]
          /\ Goto(h, "verify") /\ UNCHANGED bounds
       \/ /\ \/ session[b] # "open" /\ UNCHANGED bounds
             \/ Fault
          /\ Return(h) /\ UNCHANGED session
    /\ UNCHANGED <<disk, key, reaper, alive, observers>>

CommitVerify(h) ==
    /\ At(h, "verify")
    /\ \/ OwnImage(Key(h), Build(h)) /\ Goto(h, "read") /\ UNCHANGED bounds
       \/ ~OwnImage(Key(h), Build(h)) /\ Return(h) /\ UNCHANGED bounds
       \/ Fault /\ Return(h)
    /\ UNCHANGED <<disk, key, session, reaper, alive, observers>>

\* Store.CommitParent
CommitRead(h) ==
    /\ At(h, "read")
    /\ IF OwnPending(Key(h), Build(h)) THEN Goto(h, "publish") ELSE Return(h)
    /\ UNCHANGED <<disk, key, session, reaper, alive, observers, bounds>>

CommitMkdir(h) ==
    /\ At(h, "publish")
    /\ \/ /\ Missing(Key(h))
          /\ parent' = [parent EXCEPT ![Key(h)].dir = TRUE]
          /\ Goto(h, "move")
       \/ /\ ~Missing(Key(h))
          /\ Return(h) /\ UNCHANGED parent
    /\ UNCHANGED <<pending, staging, quarantine, fresh, journal, child, key,
                   session, reaper, alive, observers, bounds>>

\* When the rename fails the new directory stays.
CommitMove(h) ==
    LET k == Key(h)
        movable == /\ parent[k].vhdx = Nothing
                   /\ staging[k] # Nothing /\ ~Attached(k) IN
    /\ At(h, "move")
    /\ \/ /\ movable
          /\ parent' = [parent EXCEPT ![k].vhdx = staging[k]]
          /\ staging' = [staging EXCEPT ![k] = Nothing]
          /\ Goto(h, "metadata") /\ UNCHANGED bounds
       \/ /\ (~movable /\ UNCHANGED bounds) \/ Fault
          /\ Return(h) /\ UNCHANGED <<parent, staging>>
    /\ UNCHANGED <<pending, quarantine, fresh, journal, child, key, session,
                   reaper, alive, observers>>

\* rollback: the image goes back to the pending directory if that is there.
Rollback(h) ==
    LET k == Key(h) back == pending[k] # Nothing /\ ~Attached(k) IN
    /\ parent' = [parent EXCEPT ![k] = IF back THEN NoDir ELSE OnlyImage(k)]
    /\ staging' = [staging EXCEPT ![k] = IF back THEN parent[k].vhdx ELSE @]
    /\ fresh' = fresh \ {k}
    /\ Return(h)

\* COMPLETE is written last, and only then is the build unlisted.
Mutant_AfterMetadata == "unlist"
AfterMetadata == "complete"

CommitMetadata(h) ==
    /\ At(h, "metadata")
    /\ \/ /\ parent' = [parent EXCEPT ![Key(h)].metadata = Build(h)]
          /\ fresh' = fresh \cup {Key(h)}
          /\ Goto(h, AfterMetadata) /\ UNCHANGED <<staging, bounds>>
       \/ Fault /\ Rollback(h)
    /\ UNCHANGED <<pending, quarantine, journal, child, key, session, reaper,
                   alive, observers>>

CommitComplete(h) ==
    /\ At(h, "complete")
    /\ \/ /\ parent' = [parent EXCEPT ![Key(h)].complete = TRUE]
          /\ Goto(h, "unlist") /\ UNCHANGED <<staging, fresh, bounds>>
       \/ Fault /\ Rollback(h)
    /\ UNCHANGED <<pending, quarantine, journal, child, key, session, reaper,
                   alive, observers>>

-----------------------------------------------------------------------------
(* abort-parent                                                            *)

Abort(h, b) ==
    /\ At(h, "idle") /\ session[b] # "none"
    /\ StartOn(h, b, "close", "answer")

\* The session's Abort closes the disk and removes whatever image now lies at
\* the staging path.
AbortClose(h) ==
    LET k == Key(h) b == Build(h) IN
    /\ At(h, "close")
    /\ \/ /\ session' = [session EXCEPT ![b] = IF @ = "open" THEN "closed" ELSE @]
          /\ IF staging[k] # Nothing /\ session'[staging[k]] = "open"
             THEN Return(h) /\ UNCHANGED staging
             ELSE /\ staging' = [staging EXCEPT ![k] = Nothing]
                  /\ Goto(h, "check")
          /\ UNCHANGED bounds
       \/ /\ session[b] = "open" /\ Fault
          /\ Return(h) /\ UNCHANGED <<staging, session>>
    /\ UNCHANGED <<pending, quarantine, parent, fresh, journal, child, key,
                   reaper, alive, observers>>

\* Store.AbortParent, also the error path of begin-parent.
AbortCheck(h) ==
    LET k == Key(h) IN
    /\ At(h, "check")
    /\ IF OwnPending(k, Build(h)) /\ staging[k] = Nothing
       THEN Goto(h, "unlist") ELSE Return(h)
    /\ UNCHANGED <<disk, key, session, reaper, alive, observers, bounds>>

-----------------------------------------------------------------------------
(* The end of commit-parent and of abort-parent: pending.json, then the    *)
(* pending directory.  A commit ignores errors here.                       *)

Unlist(h) ==
    LET k == Key(h) IN
    /\ At(h, "unlist")
    /\ \/ /\ pending[k] \in Builds /\ pending' = [pending EXCEPT ![k] = Bare]
          /\ Goto(h, "rmdir") /\ UNCHANGED bounds
       \/ /\ (pending[k] \notin Builds /\ UNCHANGED bounds) \/ Fault
          /\ IF proc[h].then = "commit" THEN Goto(h, "rmdir") ELSE Return(h)
          /\ UNCHANGED pending
    /\ UNCHANGED <<staging, quarantine, parent, fresh, journal, child, key,
                   session, reaper, alive, observers>>

\* os.Remove of the pending directory fails, or works as far as it can.
RemovesDir(k) ==
    /\ \/ pending' = [pending EXCEPT ![k] = WithoutDir(k)] /\ UNCHANGED bounds
       \/ UNCHANGED pending /\ Fault
    /\ stranded' = stranded \cup {x \in {k} : pending'[x] = Bare}

Rmdir(h) ==
    LET k == Key(h) b == Build(h) commit == proc[h].then = "commit"
        removed == pending[k] = Bare /\ pending'[k] = Nothing IN
    /\ At(h, "rmdir")
    /\ RemovesDir(k)
    /\ session' = [session EXCEPT ![b] =
                     IF commit \/ removed THEN "none" ELSE @]
    /\ answered' = IF commit THEN answered \cup {b} ELSE answered
    /\ Return(h)
    /\ UNCHANGED <<staging, quarantine, parent, fresh, journal, child, key,
                   reaper, alive, collected, overtaken, contested>>

-----------------------------------------------------------------------------
(* Recover: RecoverPending reaps the builds of dead clients.               *)

\* pending.json can be read and its client is dead.
Reapable(k) == pending[k] \in Builds \ alive

RecoverLook(k) ==
    /\ reaper.pc = "idle" /\ Reapable(k)
    /\ reaper' = [pc |-> "reap", k |-> k, b |-> pending[k],
                  staged |-> staging[k] # Nothing]
    /\ UNCHANGED <<disk, key, session, proc, alive, observers, bounds>>

\* Without an image the build is removed, with one it is quarantined under
\* its transaction ID; an attached disk keeps the directory where it is.
RecoverReap ==
    LET k == reaper.k movable == pending[k] # Nothing /\ ~Attached(k)
                                 /\ reaper.b \notin quarantine IN
    /\ reaper.pc = "reap"
    /\ \/ /\ reaper.staged /\ UNCHANGED bounds
          /\ quarantine' = quarantine \cup IF movable THEN {reaper.b} ELSE {}
          /\ pending' = [pending EXCEPT ![k] = IF movable THEN Nothing ELSE @]
          /\ staging' = [staging EXCEPT ![k] = IF movable THEN Nothing ELSE @]
          /\ reaper' = NoReap
       \/ /\ ~reaper.staged /\ UNCHANGED bounds
          /\ pending' = [pending EXCEPT ![k] = IF @ \in Builds THEN Bare ELSE @]
          /\ reaper' = IF pending[k] \in Builds
                       THEN [reaper EXCEPT !.pc = "rmdir"] ELSE NoReap
          /\ UNCHANGED <<staging, quarantine>>
       \/ Fault /\ reaper' = NoReap /\ UNCHANGED <<pending, staging, quarantine>>
    /\ UNCHANGED <<parent, fresh, journal, child, key, session, proc, alive,
                   observers>>

RecoverRmdir ==
    /\ reaper.pc = "rmdir"
    /\ RemovesDir(reaper.k)
    /\ reaper' = NoReap
    /\ UNCHANGED <<staging, quarantine, parent, fresh, journal, child, key,
                   session, proc, alive, answered, collected, overtaken, contested>>

-----------------------------------------------------------------------------
(* acquire, as far as it concerns the parent, and release                  *)

Acquire(h, l, k) ==
    /\ At(h, "idle") /\ journal[l] = Nothing /\ Verified(k)
    /\ \A g \in Handlers : proc[g].l # l
    /\ proc' = [proc EXCEPT ![h].pc = "touch", ![h].k = k, ![h].l = l]
    /\ overtaken' = IF \E g \in Handlers : proc[g].pc \in {"list", "collect"}
                    THEN overtaken \cup {l} ELSE overtaken \ {l}
    /\ UNCHANGED <<disk, key, session, reaper, alive, answered, collected, contested,
                   stranded, bounds>>

\* TouchParent's error is ignored.
AcquireTouch(h) ==
    /\ At(h, "touch")
    /\ \/ /\ fresh' = IF Valid(Key(h)) THEN fresh \cup {Key(h)} ELSE fresh
          /\ UNCHANGED <<overtaken, bounds>>
       \/ /\ Fault /\ UNCHANGED fresh
          /\ overtaken' = overtaken \cup {proc[h].l}
    /\ Goto(h, "admit")
    /\ UNCHANGED <<pending, staging, quarantine, parent, journal, child, key,
                   session, reaper, alive, answered, collected, contested, stranded>>

\* ensureCapacity: there is room, or the collector has to make some.
AcquireAdmit(h) ==
    /\ At(h, "admit")
    /\ \/ Goto(h, "journal")
       \/ proc' = [proc EXCEPT ![h].pc = "protect", ![h].then = "journal"]
    /\ UNCHANGED <<disk, key, session, reaper, alive, observers, bounds>>

AcquireJournal(h) ==
    /\ At(h, "journal")
    /\ journal' = [journal EXCEPT ![proc[h].l] = Key(h)]
    /\ Goto(h, "child")
    /\ UNCHANGED <<pending, staging, quarantine, parent, fresh, child, key,
                   session, reaper, alive, observers, bounds>>

\* The child is made from the file at the parent's path; without one the
\* journal goes again.  The last act of acquire is another ensureCapacity.
AcquireChild(h) ==
    LET l == proc[h].l image == parent[Key(h)].vhdx IN
    /\ At(h, "child")
    /\ \/ /\ image # Nothing
          /\ child' = [child EXCEPT ![l] = image]
          /\ \/ Return(h)
             \/ proc' = [proc EXCEPT ![h] = [Idle EXCEPT !.pc = "protect"]]
          /\ UNCHANGED <<journal, bounds>>
       \/ /\ \/ image = Nothing /\ UNCHANGED bounds
             \/ Fault
          /\ journal' = [journal EXCEPT ![l] = Nothing]
          /\ Return(h) /\ UNCHANGED child
    /\ UNCHANGED <<pending, staging, quarantine, parent, fresh, key, session,
                   reaper, alive, observers>>

Release(l) ==
    /\ child[l] # Nothing
    /\ child' = [child EXCEPT ![l] = Nothing]
    /\ journal' = [journal EXCEPT ![l] = Nothing]
    /\ UNCHANGED <<pending, staging, quarantine, parent, fresh, key, session,
                   proc, reaper, alive, observers, bounds>>

-----------------------------------------------------------------------------
(* Garbage collection, on request or on behalf of an acquire               *)

Collect(h) ==
    /\ At(h, "idle") /\ Goto(h, "protect")
    /\ UNCHANGED <<disk, key, session, reaper, alive, observers, bounds>>

CollectProtect(h) ==
    /\ At(h, "protect")
    /\ IF Ambiguous THEN Return(h)
       ELSE proc' = [proc EXCEPT ![h].pc = "list", ![h].active = Protected]
    /\ overtaken' = overtaken \cup {l \in Leases : /\ journal[l] = Nothing
                                                  /\ \E g \in Handlers \ {h} : proc[g].l = l}
    /\ UNCHANGED <<disk, key, session, reaper, alive, answered, collected, contested,
                   stranded, bounds>>

CollectList(h) ==
    /\ At(h, "list")
    /\ proc' = [proc EXCEPT ![h].pc = "collect",
                            ![h].listed = Expired \ proc[h].active]
    /\ UNCHANGED <<disk, key, session, reaper, alive, observers, bounds>>

\* RemoveAll cannot delete an image that an attached child has open.
CollectOne(h, k) ==
    LET inUse == \E l \in Leases : child[l] = parent[k].vhdx IN
    /\ At(h, "collect") /\ k \in proc[h].listed
    /\ \/ ~Valid(k) /\ Return(h) /\ UNCHANGED <<parent, fresh, collected>>
       \/ /\ Valid(k)
          /\ collected' = collected \cup {parent[k].vhdx}
          /\ fresh' = fresh \ {k}
          /\ \/ /\ parent' = [parent EXCEPT ![k] = NoDir]
                /\ \/ proc' = [proc EXCEPT ![h].listed = @ \ {k}]
                   \/ proc[h].then = "journal" /\ Goto(h, "journal")
                   \/ proc[h].then = "answer" /\ Return(h)
             \/ /\ inUse
                /\ parent' = [parent EXCEPT ![k] = OnlyImage(k)]
                /\ Return(h)
    /\ UNCHANGED <<pending, staging, quarantine, journal, child, key, session,
                   reaper, alive, answered, overtaken, contested, stranded, bounds>>

\* Nothing is left to collect and the room is still not there.
CollectFailed(h) ==
    /\ At(h, "collect") /\ proc[h].listed = {}
    /\ Return(h)
    /\ UNCHANGED <<disk, key, session, reaper, alive, observers, bounds>>

-----------------------------------------------------------------------------
(* The environment                                                         *)

ClientDies(b) ==
    /\ ClientsDie /\ b \in alive /\ key[b] # Nothing
    /\ alive' = alive \ {b}
    /\ UNCHANGED <<disk, key, session, proc, reaper, observers, bounds>>

\* Requests take far less than ParentTTL.
Age(k) ==
    /\ k \in fresh
    /\ \A h \in Handlers : At(h, "idle")
    /\ fresh' = fresh \ {k}
    /\ UNCHANGED <<pending, staging, quarantine, parent, journal, child, key,
                   session, proc, reaper, alive, observers, bounds>>

\* Closing the handles of the broker detaches the disks of its builds.
Crash ==
    /\ crashes < MaxCrashes /\ crashes' = crashes + 1
    /\ session' = [b \in Builds |-> "none"]
    /\ proc' = [h \in Handlers |-> Idle]
    /\ reaper' = NoReap
    /\ stranded' = stranded \cup {k \in Keys : pending[k] = Bare}
    /\ UNCHANGED <<disk, key, alive, answered, collected, overtaken, contested, faults>>

Advance(h) ==
    \/ BeginRecheck(h) \/ BeginMkdir(h) \/ BeginWrite(h) \/ BeginNative(h)
    \/ CommitDetach(h) \/ CommitVerify(h) \/ CommitRead(h) \/ CommitMkdir(h)
    \/ CommitMove(h) \/ CommitMetadata(h) \/ CommitComplete(h)
    \/ AbortClose(h) \/ AbortCheck(h) \/ Unlist(h) \/ Rmdir(h)
    \/ AcquireTouch(h) \/ AcquireAdmit(h)
    \/ AcquireJournal(h) \/ AcquireChild(h)
    \/ CollectProtect(h) \/ CollectList(h) \/ CollectFailed(h)
    \/ \E k \in Keys : CollectOne(h, k)

Recover == (\E k \in Keys : RecoverLook(k)) \/ RecoverReap \/ RecoverRmdir

Request(h) ==
    \/ \E k \in Keys : Begin(h, k)
    \/ \E b \in Builds : Commit(h, b) \/ Abort(h, b)
    \/ \E l \in Leases, k \in Keys : Acquire(h, l, k)
    \/ Collect(h)

Next ==
    \/ \E h \in Handlers : Request(h) \/ Advance(h)
    \/ Recover
    \/ \E l \in Leases : Release(l)
    \/ \E b \in Builds : ClientDies(b)
    \/ \E k \in Keys : Age(k)
    \/ Crash

Spec == Init /\ [][Next]_vars

-----------------------------------------------------------------------------
(* Properties                                                              *)

\* The collector deletes no parent that a child is differenced from: what
\* ProtectedParentKeys reads and what ListParents reads is still true when
\* RemoveParentIfUnused runs, and acquire's touch and journal come in time,
\* whatever else is going on.  (Except for an acquire that overlaps the
\* collection of another handler, whose journal may come too late, or that
\* could not touch its parent, which it may then collect itself.)
ReferencedParentKept ==
    \A l \in Leases \ overtaken : child[l] # Nothing =>
        /\ Verified(journal[l])
        /\ parent[journal[l]].vhdx = child[l]

\* Every client is running, and no build had two handlers at a time.
Undisputed == alive = Builds /\ contested = {}

\* A client that was told its parent is committed finds that image, with its
\* own metadata, until the collector deletes it: neither a later build, nor
\* one of the same key at the same time, nor the rollback of another commit
\* takes it away, whatever fails and however often the broker dies.  (Except
\* once a client has died, and Recover takes the directory away under a
\* handler, or once requests about one build have overlapped, see
\* PublishedIsVerified.)
CommittedStays ==
    Undisputed =>
        \A b \in answered \ collected : Verified(key[b]) /\ parent[key[b]].vhdx = b

Calm == faults = 0 /\ crashes = 0 /\ Undisputed

\* Until a call fails, the broker crashes, a client dies or requests about one
\* build overlap, a parent directory that does not resolve belongs to a commit
\* at work: no interleaving of the handlers leaves a wreck, which would refuse
\* its key for ever.  (The one exception is the collector's: RemoveAll stops
\* half way at an image that an acquire took into use after the collector had
\* looked, see ReferencedParentKept.)
NoWreck ==
    Calm =>
        \A k \in Keys :
            \/ Missing(k) \/ Verified(k) \/ parent[k].vhdx \in collected
            \/ \E h \in Handlers :
                  Key(h) = k /\ proc[h].pc \in {"move", "metadata", "complete"}

\* COMPLETE is published for the image that Finalize verified, not for
\* another build's image at the same staging path.
PublishedIsVerified ==
    \A k \in Keys : Valid(k) => parent[k].vhdx = parent[k].metadata
=============================================================================
