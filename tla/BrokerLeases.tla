---------------------------- MODULE BrokerLeases ----------------------------
(***************************************************************************)
(* The lease life cycle of the Windows broker (workspace/broker.go): the   *)
(* acquire, heartbeat, release, attach-retained and remove-retained        *)
(* handlers and the Recover pass, which the service repeats every five     *)
(* seconds while the handlers run.                                         *)
(*                                                                         *)
(* The broker's mutex protects its maps only.  Every handler works on its  *)
(* own copy of the lease journal, so each access to the journal, to the    *)
(* session map, to the virtual disk and to the workspace is a step, and    *)
(* the steps of all handlers and of Recover interleave.                    *)
(*                                                                         *)
(* Abstractions.  A lease ID is random and used once; lease l has its own  *)
(* workspace.  A session object is the number of the attach that made it:  *)
(* a virtual disk can be attached once at a time, so session s of lease l  *)
(* has been released exactly when s # live[l].  The grace period is a      *)
(* choice: time may pass between any two steps, so a journal can always    *)
(* be too old, and it is young enough only if Recover is lucky.  "Client"  *)
(* stands for the process whose PID the journal records.                   *)
(***************************************************************************)
EXTENDS Naturals

CONSTANTS
    Leases,       \* lease IDs that acquire may draw
    Clients,      \* client processes
    Handlers,     \* handler goroutines, one per connection
    Periodic,     \* the service repeats Recover; a broker run from the console
                  \* calls it at the start only
    IOFaults,     \* file system and virtual disk calls may fail
    MaxAttach,    \* bound on the attaches of one lease that clients ask for
    MaxCrashes    \* bound on the crashes of the broker

ASSUME ConstantsAssumption ==
    /\ Leases # {} /\ Clients # {} /\ Handlers # {}
    /\ Periodic \in BOOLEAN /\ IOFaults \in BOOLEAN
    /\ MaxAttach \in Nat \ {0} /\ MaxCrashes \in Nat

NoClient == "no client"
NoLease == "no lease"
Recoverer == "recover"   \* the goroutine that runs Recover

ASSUME SentinelsAssumption ==
    NoClient \notin Clients /\ NoLease \notin Leases /\ Recoverer \notin Handlers

VARIABLES
    journal,   \* disk: the lease journals
    child,     \* disk: the differencing VHDX exists
    ws,        \* disk: the workspace directory ("bare" before the acquire,
               \* "unmarked" after a failed one) and its owner marker
    stale,     \* disk: a dead mount point left behind by a crash
    record,    \* disk: the retained record of the lease's run
    live,      \* the session attached to the child, 0 when it is detached
    attaches,  \* how often the child was attached
    children,  \* memory: the session map, 0 when the lease has no entry
    proc,      \* memory: the local variables of every goroutine
    todo,      \* memory: journals Recover has listed and not yet visited
    up,        \* "down", "starting" (the first Recover) or "serving"
    alive,     \* client processes that are running
    holder,    \* observer: the client that was told it has the lease
    kept,      \* observer: "asked" once a client asked to retain the child,
               \* "yes" once it was told so, "dropped" once one also asked
               \* for deletion, "discarded" if only that was asked for
    gone,      \* observer: a client was told that the child is released
    users,     \* observer: the clients that sent requests about the lease
    disturbed, \* observer: leases on which two goroutines worked at a time, or
               \* which Recover took up while requests are served
    crashes

disk == <<journal, child, ws, stale, record>>
obs == <<holder, kept, gone, users, disturbed>>
vars == <<disk, live, attaches, children, proc, todo, up, alive, obs, crashes>>

Absent == [state |-> "none", retained |-> FALSE, client |-> NoClient, ident |-> FALSE]

States == {"requested", "acquiring", "ready", "releasing", "released",
           "recovering", "quarantined"}

Journals == [state : States, retained : BOOLEAN, client : Clients, ident : BOOLEAN]

Idle == [pc |-> "idle", op |-> "none", l |-> NoLease, j |-> Absent, s |-> 0,
         c |-> NoClient, keep |-> FALSE]

Ops == {"acquire", "heartbeat", "release", "attach", "remove", "recover"}
Steps == {"owner", "create", "mount", "ready", "register", "beat",
          "mark", "native", "retain", "record", "cleanup", "unlist",
          "unrecord", "forget", "reattach", "rewrite", "next"}

Locals == [pc : Steps, op : Ops, l : Leases \cup {NoLease},
           j : Journals \cup {Absent}, s : Nat,
           c : Clients \cup {NoClient}, keep : BOOLEAN]

\* The types of the variables.
TypeOK ==
    /\ journal \in [Leases -> Journals \cup {Absent}]
    /\ child \in [Leases -> BOOLEAN]
    /\ ws \in [Leases -> {"bare", "marked", "unmarked", "gone"}]
    /\ stale \in [Leases -> BOOLEAN]
    /\ record \in [Leases -> BOOLEAN]
    /\ live \in [Leases -> Nat]
    /\ attaches \in [Leases -> Nat]
    /\ children \in [Leases -> Nat]
    /\ proc \in [Handlers \cup {Recoverer} -> Locals \cup {Idle}]
    /\ todo \in SUBSET [l : Leases, j : Journals]
    /\ up \in {"down", "starting", "serving"}
    /\ alive \subseteq Clients
    /\ holder \in [Leases -> Clients \cup {NoClient}]
    /\ kept \in [Leases -> {"no", "asked", "yes", "dropped", "discarded"}]
    /\ gone \in [Leases -> BOOLEAN]
    /\ users \in [Leases -> SUBSET Clients] /\ disturbed \subseteq Leases
    /\ crashes \in 0..MaxCrashes

Init ==
    /\ journal = [l \in Leases |-> Absent]
    /\ child = [l \in Leases |-> FALSE]
    /\ ws = [l \in Leases |-> "bare"]
    /\ stale = [l \in Leases |-> FALSE] /\ record = [l \in Leases |-> FALSE]
    /\ live = [l \in Leases |-> 0] /\ attaches = [l \in Leases |-> 0]
    /\ children = [l \in Leases |-> 0]
    /\ proc = [p \in Handlers \cup {Recoverer} |-> Idle]
    /\ todo = {} /\ up = "serving" /\ alive = Clients
    /\ holder = [l \in Leases |-> NoClient]
    /\ kept = [l \in Leases |-> "no"] /\ gone = [l \in Leases |-> FALSE]
    /\ users = [l \in Leases |-> {}] /\ disturbed = {}
    /\ crashes = 0

-----------------------------------------------------------------------------
(* Helpers                                                                 *)

At(p, step) == proc[p].pc = step

Lease(p) == proc[p].l

Goto(p, step) == proc' = [proc EXCEPT ![p].pc = step]

\* The handler answers; Recover goes on with its list.
Ended(p) == IF p = Recoverer THEN [Idle EXCEPT !.pc = "next", !.op = "recover"]
                             ELSE Idle

Return(p) == proc' = [proc EXCEPT ![p] = Ended(p)]

\* Store.WriteLease replaces the journal whatever is there.
WriteLease(l, j) == journal' = [journal EXCEPT ![l] = j]

\* The error path of release, remove-retained and Recover.
Quarantine(p) ==
    /\ WriteLease(Lease(p), [proc[p].j EXCEPT !.state = "quarantined"])
    /\ Return(p)

Exists(l) == journal[l].state # "none"

Busy(l) == \E p \in Handlers \cup {Recoverer} : Lease(p) = l

\* A request starts a handler; the client waits for the answer.
Begin(p, c, fields) ==
    /\ up = "serving" /\ p # Recoverer /\ At(p, "idle") /\ c \in alive
    /\ proc' = [proc EXCEPT ![p] = fields]
    /\ users' = [users EXCEPT ![fields.l] = @ \cup {c}]
    /\ disturbed' = disturbed \cup {l \in {fields.l} : Busy(l)}

Call(step, op, l, j, s, c, keep) ==
    [pc |-> step, op |-> op, l |-> l, j |-> j, s |-> s, c |-> c, keep |-> keep]

\* native: attaching creates a session, and only a detached disk can be.
Attachable(l) == child[l] /\ live[l] = 0 /\ ws[l] # "gone"

Attached(l) ==
    /\ attaches' = [attaches EXCEPT ![l] = @ + 1]
    /\ live' = [live EXCEPT ![l] = attaches[l] + 1]

Mutant_Deletes(p) == proc[p].op # "release"

\* session.Release(ctx, deleteChild)
Deletes(p) == ~proc[p].keep

Mutant_Released(p) ==
    LET l == Lease(p)
        deleted == live[l] = proc[p].s /\ Deletes(p)
    IN  /\ live' = IF deleted THEN [live EXCEPT ![l] = 0] ELSE live
        /\ child' = IF deleted THEN [child EXCEPT ![l] = FALSE] ELSE child

\* session.Release: a session that was released before answers nil at once.
Released(p) ==
    LET l == Lease(p)
        attached == live[l] = proc[p].s
    IN  /\ live' = IF attached THEN [live EXCEPT ![l] = 0] ELSE live
        /\ child' = IF attached /\ Deletes(p) THEN [child EXCEPT ![l] = FALSE] ELSE child

-----------------------------------------------------------------------------
(* acquire                                                                 *)

\* Parent and capacity checks passed: the "requested" journal is written.
AcquireBegin(p, c, l) ==
    LET j == [state |-> "requested", retained |-> FALSE, client |-> c, ident |-> FALSE]
    IN  /\ ws[l] = "bare" /\ ~Exists(l) /\ attaches[l] = 0 /\ ~child[l]
        /\ \A q \in Handlers : Lease(q) # l
        /\ Begin(p, c, Call("owner", "acquire", l, j, 0, c, FALSE))
        /\ WriteLease(l, j)
        /\ UNCHANGED <<child, ws, stale, record, live, attaches, children, todo,
                       up, alive, holder, kept, gone, crashes>>

RemoveLease(l) == journal' = [journal EXCEPT ![l] = Absent]

\* writeWorkspaceOwner; on failure the journal goes again.
AcquireOwner(p) ==
    /\ At(p, "owner")
    /\ \/ /\ ws[Lease(p)] = "bare"
          /\ ws' = [ws EXCEPT ![Lease(p)] = "marked"]
          /\ Goto(p, "create") /\ UNCHANGED journal
       \/ /\ IOFaults \/ ws[Lease(p)] # "bare"
          /\ RemoveLease(Lease(p)) /\ Return(p)
          /\ ws' = [ws EXCEPT ![Lease(p)] = IF @ = "bare" THEN "unmarked" ELSE @]
    /\ UNCHANGED <<child, stale, record, live, attaches, children, todo, up,
                   alive, obs, crashes>>

\* AcquireChild up to CreateDifferencing, preceded by its journal transition.
AcquireCreate(p) ==
    LET l == Lease(p)
        j == [proc[p].j EXCEPT !.state = "acquiring"]
    IN  /\ At(p, "create") /\ ws[l] # "gone"
        /\ WriteLease(l, j)
        /\ child' = [child EXCEPT ![l] = TRUE]
        /\ proc' = [proc EXCEPT ![p].pc = "mount", ![p].j = j]
        /\ UNCHANGED <<ws, stale, record, live, attaches, children, todo, up,
                       alive, obs, crashes>>

\* The rest of AcquireChild: attach, wait for the volume, mount.
AcquireMount(p) ==
    LET l == Lease(p)
    IN  /\ At(p, "mount") /\ Attachable(l)
        /\ Attached(l)
        /\ WriteLease(l, proc[p].j)
        /\ proc' = [proc EXCEPT ![p].pc = "ready", ![p].s = attaches[l] + 1]
        /\ UNCHANGED <<child, ws, stale, record, children, todo, up, alive, obs,
                       crashes>>

\* AcquireChild fails and undoes what it did, or cannot.  Without a child
\* the marker and the journal are removed, otherwise both stay quarantined.
AcquireFails(p) ==
    LET l == Lease(p)
    IN  /\ At(p, "create") \/ At(p, "mount")
        /\ IOFaults \/ ws[l] = "gone" \/ (At(p, "mount") /\ ~child[l])
        /\ \/ /\ child' = [child EXCEPT ![l] = FALSE]
              /\ ws' = [ws EXCEPT ![l] = IF @ = "marked" THEN "unmarked" ELSE @]
              /\ RemoveLease(l) /\ Return(p)
           \/ /\ child[l] /\ Quarantine(p) /\ UNCHANGED <<child, ws>>
        /\ UNCHANGED <<stale, record, live, attaches, children, todo, up, alive,
                       obs, crashes>>

\* The "ready" journal records the child's file identity.
AcquireReady(p) ==
    LET j == [proc[p].j EXCEPT !.state = "ready", !.ident = TRUE]
    IN  /\ At(p, "ready")
        /\ WriteLease(Lease(p), j)
        /\ proc' = [proc EXCEPT ![p].pc = "register", ![p].j = j]
        /\ UNCHANGED <<child, ws, stale, record, live, attaches, children, todo,
                       up, alive, obs, crashes>>

\* The "ready" journal cannot be written: the child and the workspace are
\* removed as far as that works, and the journal stays as it is.
AcquireReadyFails(p) ==
    LET l == Lease(p)
    IN  /\ At(p, "ready") /\ IOFaults /\ Return(p)
        /\ \/ /\ Released(p) /\ ws' = [ws EXCEPT ![l] = "gone"]
           \/ UNCHANGED <<live, child, ws>>
        /\ UNCHANGED <<journal, stale, record, attaches, children, todo, up, alive,
                       obs, crashes>>

\* children[leaseID] = session, and the client is told.
Register(p) ==
    LET l == Lease(p)
    IN  /\ At(p, "register")
        /\ children' = [children EXCEPT ![l] = proc[p].s]
        /\ holder' = [holder EXCEPT ![l] = proc[p].c]
        /\ Return(p)
        /\ UNCHANGED <<disk, live, attaches, todo, up, alive, kept, gone, users, disturbed,
                       crashes>>

-----------------------------------------------------------------------------
(* heartbeat                                                               *)

Mutant_Beatable(l) == TRUE

\* The journal can be read and is "ready".
Beatable(l) == journal[l].state = "ready"

HeartbeatBegin(p, c, l) ==
    LET j == [journal[l] EXCEPT !.client = c]
    IN  /\ Beatable(l)
        /\ Begin(p, c, Call("beat", "heartbeat", l, j, 0, c, FALSE))
        /\ UNCHANGED <<disk, live, attaches, children, todo, up, alive, holder, kept, gone,
                       crashes>>

\* The journal is rewritten from the copy read before: the client that
\* sends the heartbeat is from now on the one Recover looks for.
HeartbeatWrite(p) ==
    LET l == Lease(p)
    IN  /\ At(p, "beat")
        /\ WriteLease(l, proc[p].j)
        /\ holder' = [holder EXCEPT ![l] = IF @ = NoClient THEN @ ELSE proc[p].c]
        /\ Return(p)
        /\ UNCHANGED <<child, ws, stale, record, live, attaches, children, todo, up,
                       alive, kept, gone, users, disturbed, crashes>>

-----------------------------------------------------------------------------
(* release                                                                 *)

\* What clients have asked for so far.
AskedFor(so_far, keep) ==
    CASE keep /\ so_far = "no" -> "asked"
      [] keep /\ so_far = "discarded" -> "dropped"
      [] ~keep /\ so_far = "no" -> "discarded"
      [] ~keep /\ so_far \in {"asked", "yes"} -> "dropped"
      [] OTHER -> so_far

\* Whoever asks for the release gives up the lease, or the retained child.
Asked(l, keep) ==
    /\ holder' = [holder EXCEPT ![l] = NoClient]
    /\ kept' = [kept EXCEPT ![l] = AskedFor(@, keep)]

ReleaseBegin(p, c, l, keep) ==
    LET j == [journal[l] EXCEPT !.state = "releasing", !.retained = keep]
    IN  /\ children[l] # 0 /\ Exists(l)
        /\ Begin(p, c, Call("mark", "release", l, j, children[l], c, keep))
        /\ Asked(l, keep)
        /\ UNCHANGED <<disk, live, attaches, children, todo, up, alive, gone, crashes>>

ReleaseMark(p) ==
    /\ At(p, "mark")
    /\ WriteLease(Lease(p), proc[p].j)
    /\ Goto(p, "native")
    /\ UNCHANGED <<child, ws, stale, record, live, attaches, children, todo, up,
                   alive, obs, crashes>>

NativeRelease(p) ==
    /\ At(p, "native")
    /\ Released(p)
    /\ proc' = [proc EXCEPT ![p].pc = IF proc[p].keep THEN "retain" ELSE "cleanup",
                            ![p].j.state = IF proc[p].op = "release"
                                           THEN "released" ELSE @]
    /\ UNCHANGED <<journal, ws, stale, record, attaches, children, todo, up, alive,
                   obs, crashes>>

\* The session is marked as released last, so a failed one can be repeated.
Mutant_Unfinished(p) == [live EXCEPT ![Lease(p)] = 0]
Unfinished(p) == live

\* session.Release fails: remove-retained only reports it.
NativeReleaseFails(p) ==
    /\ At(p, "native") /\ IOFaults /\ live[Lease(p)] = proc[p].s
    /\ live' = Unfinished(p)
    /\ IF proc[p].op = "remove" THEN Return(p) /\ UNCHANGED journal ELSE Quarantine(p)
    /\ UNCHANGED <<child, ws, stale, record, attaches, children, todo, up,
                   alive, obs, crashes>>

\* WriteLease fails: the handler reports it and stops where it is.
WriteFails(p) ==
    /\ IOFaults /\ proc[p].pc \in {"beat", "mark", "retain"}
    /\ Return(p)
    /\ UNCHANGED <<disk, live, attaches, children, todo, up, alive, obs, crashes>>

\* The "released" journal of a retained child.
ReleaseRetain(p) ==
    /\ At(p, "retain")
    /\ WriteLease(Lease(p), proc[p].j)
    /\ Goto(p, "record")
    /\ UNCHANGED <<child, ws, stale, record, live, attaches, children, todo, up,
                   alive, obs, crashes>>

\* WriteRetained is exclusive: it fails when the run has a record already.
ReleaseRecord(p) ==
    LET l == Lease(p)
    IN  /\ At(p, "record")
        /\ \/ /\ ~record[l] /\ record' = [record EXCEPT ![l] = TRUE]
              /\ Goto(p, "forget")
           \/ /\ IOFaults \/ record[l]
              /\ Return(p) /\ UNCHANGED record
        /\ UNCHANGED <<journal, child, ws, stale, live, attaches, children, todo, up,
                       alive, obs, crashes>>

\* cleanupOwnedWorkspace accepts a workspace with the lease's marker and no
\* mount point below it.
Removable(l) == ws[l] = "marked" /\ live[l] = 0 /\ ~stale[l]

CleanupWorkspace(p) ==
    LET l == Lease(p)
    IN  /\ At(p, "cleanup")
        /\ \/ /\ Removable(l) \/ ws[l] = "gone"
              /\ ws' = [ws EXCEPT ![l] = "gone"]
              /\ Goto(p, "unlist") /\ UNCHANGED journal
           \/ /\ ws[l] # "gone" /\ (IOFaults \/ ~Removable(l))
              /\ Quarantine(p) /\ UNCHANGED ws
        /\ UNCHANGED <<child, stale, record, live, attaches, children, todo, up,
                       alive, obs, crashes>>

\* Recover returns an error: the service ignores it, a start fails with it.
AbortPass ==
    /\ proc' = [proc EXCEPT ![Recoverer] = Idle]
    /\ todo' = {}
    /\ up' = IF up = "starting" THEN "down" ELSE up

\* Store.RemoveLease, by release, remove-retained and Recover.  A missing
\* journal is an error, and an error ends the whole Recover pass.
Unlist(p) ==
    LET l == Lease(p)
    IN  /\ At(p, "unlist")
        /\ \/ /\ Exists(l) /\ RemoveLease(l)
              /\ Goto(p, IF proc[p].op = "remove" THEN "unrecord" ELSE "forget")
              /\ UNCHANGED <<todo, up>>
           \/ /\ IOFaults \/ ~Exists(l)
              /\ UNCHANGED journal
              /\ IF p = Recoverer THEN AbortPass ELSE Return(p) /\ UNCHANGED <<todo, up>>
        /\ UNCHANGED <<child, ws, stale, record, live, attaches, children, alive, obs,
                       crashes>>

\* delete(b.children, leaseID), and the answer to the client.  Recover does
\* not delete the entry of a lease whose child it found missing.
Forget(p) ==
    LET l == Lease(p)
        answers == proc[p].op \in {"release", "remove"}
    IN  /\ At(p, "forget")
        /\ children' = IF proc[p].s = 0 THEN children ELSE [children EXCEPT ![l] = 0]
        /\ kept' = [kept EXCEPT ![l] = IF answers /\ proc[p].keep /\ @ = "asked"
                                          THEN "yes" ELSE @]
        /\ gone' = [gone EXCEPT ![l] = @ \/ (answers /\ ~proc[p].keep)]
        /\ Return(p)
        /\ UNCHANGED <<disk, live, attaches, todo, up, alive, holder, users, disturbed, crashes>>

-----------------------------------------------------------------------------
(* attach-retained and remove-retained                                     *)

\* The record names a lease whose journal is retained.
RetainedOK(l) == record[l] /\ Exists(l) /\ journal[l].retained

\* Attach to the lease's own workspace; its Library path must not exist.
AttachBegin(p, c, l) ==
    /\ RetainedOK(l) /\ children[l] = 0 /\ attaches[l] < MaxAttach
    /\ ws[l] # "gone" /\ ~stale[l] /\ live[l] = 0
    /\ Begin(p, c, Call("reattach", "attach", l, journal[l], 0, c, TRUE))
    /\ UNCHANGED <<disk, live, attaches, children, todo, up, alive, holder, kept, gone,
                   crashes>>

RemoveBegin(p, c, l) ==
    /\ RetainedOK(l)
    /\ Begin(p, c, Call(IF children[l] = 0 THEN "reattach" ELSE "native", "remove", l,
                        journal[l], children[l], c, FALSE))
    /\ Asked(l, FALSE)
    /\ UNCHANGED <<disk, live, attaches, children, todo, up, alive, gone, crashes>>

\* native.AttachChild: the recorded file identity is checked, a dead mount
\* point of this volume is cleared, the child is attached and mounted.
Reattach(p) ==
    LET l == Lease(p)
    IN  /\ At(p, "reattach") /\ proc[p].j.ident /\ Attachable(l)
        /\ Attached(l)
        /\ stale' = [stale EXCEPT ![l] = FALSE]
        /\ proc' = [proc EXCEPT ![p].pc = IF proc[p].op = "attach"
                                          THEN "rewrite" ELSE "native",
                                ![p].s = attaches[l] + 1]
        /\ UNCHANGED <<journal, child, ws, record, children, todo, up, alive, obs,
                       crashes>>

ReattachFails(p) ==
    LET l == Lease(p)
    IN  /\ At(p, "reattach")
        /\ IOFaults \/ ~proc[p].j.ident \/ ~Attachable(l)
        /\ IF p = Recoverer THEN Quarantine(p) ELSE Return(p) /\ UNCHANGED journal
        /\ UNCHANGED <<child, ws, stale, record, live, attaches, children, todo, up,
                       alive, obs, crashes>>

\* The journal of an attached retained child is "ready" again; when it
\* cannot be written, the child is detached and still retained.
AttachRewrite(p) ==
    LET l == Lease(p)
        j == [proc[p].j EXCEPT !.state = "ready"]
    IN  /\ At(p, "rewrite")
        /\ \/ /\ WriteLease(l, j)
              /\ proc' = [proc EXCEPT ![p].pc = "register", ![p].j = j]
              /\ UNCHANGED <<child, live>>
           \/ IOFaults /\ Released(p) /\ Return(p) /\ UNCHANGED journal
        /\ UNCHANGED <<ws, stale, record, attaches, children, todo, up, alive, obs,
                       crashes>>

\* RemoveRetained, after the journal is gone.
Unrecord(p) ==
    LET l == Lease(p)
    IN  /\ At(p, "unrecord")
        /\ \/ record[l] /\ record' = [record EXCEPT ![l] = FALSE] /\ Goto(p, "forget")
           \/ (IOFaults \/ ~record[l]) /\ Return(p) /\ UNCHANGED record
        /\ UNCHANGED <<journal, child, ws, stale, live, attaches, children, todo, up,
                       alive, obs, crashes>>

-----------------------------------------------------------------------------
(* Recover                                                                 *)

\* ListLeases reads every journal before the first one is looked at.
RecoverList ==
    /\ At(Recoverer, "idle")
    /\ \/ up = "starting"
       \/ Periodic /\ up = "serving" /\ \E l \in Leases : Exists(l)
    /\ todo' = {x \in [l : Leases, j : Journals] : x.j = journal[x.l]}
    /\ proc' = [proc EXCEPT ![Recoverer] = Ended(Recoverer)]
    /\ UNCHANGED <<disk, live, attaches, children, up, alive, obs, crashes>>

RecoverDone ==
    /\ At(Recoverer, "next") /\ todo = {}
    /\ proc' = [proc EXCEPT ![Recoverer] = Idle]
    /\ up' = "serving"
    /\ UNCHANGED <<disk, live, attaches, children, todo, alive, obs, crashes>>

Mutant_Preserves_clientsOnly(j) == j.client \in alive

Mutant_Preserves_retainedOnly(j) == j.retained

Mutant_Preserves_everyone(j) == j.retained \/ j.client \in Clients

\* The journal as listed is retained, or its client's process is running.
Preserves(j) == j.retained \/ j.client \in alive

\* Preserved, or updated less than the grace period ago.
RecoverKeep ==
    /\ At(Recoverer, "next")
    /\ \E x \in todo : todo' = todo \ {x}
    /\ UNCHANGED <<disk, live, attaches, children, proc, up, alive, obs, crashes>>

\* Recover goes on with the lease of journal j and the session s.
Resume(step, l, j, s) ==
    proc' = [proc EXCEPT ![Recoverer] = Call(step, "recover", l, j, s, NoClient, FALSE)]

\* The next journal is not preserved: look for the child, the parent and a
\* session in memory.
RecoverReap(l) ==
    /\ At(Recoverer, "next")
    /\ \E x \in todo :
         /\ x.l = l /\ ~Preserves(x.j) /\ todo' = todo \ {x}
         /\ \/ ~child[l] /\ Resume("cleanup", l, x.j, 0) /\ UNCHANGED journal
            \/ /\ child[l] /\ IOFaults /\ UNCHANGED proc
               /\ WriteLease(l, [x.j EXCEPT !.state = "quarantined"])
            \/ /\ child[l] /\ children[l] # 0
               /\ Resume("native", l, x.j, children[l]) /\ UNCHANGED journal
            \/ /\ child[l] /\ children[l] = 0
               /\ WriteLease(l, [x.j EXCEPT !.state = "recovering"])
               /\ Resume("reattach", l, [x.j EXCEPT !.state = "recovering"], 0)
    /\ disturbed' = disturbed \cup {m \in {l} : up = "serving"}
    /\ UNCHANGED <<child, ws, stale, record, live, attaches, children, up, alive,
                   holder, kept, gone, users, crashes>>

\* The "recovering" journal cannot be written.
RecoverAborts ==
    /\ IOFaults /\ At(Recoverer, "next")
    /\ \E x \in todo : ~Preserves(x.j) /\ child[x.l] /\ children[x.l] = 0
    /\ AbortPass
    /\ UNCHANGED <<disk, live, attaches, children, alive, obs, crashes>>

-----------------------------------------------------------------------------
(* Crashes                                                                 *)

\* Closing the process's handles detaches every disk; mount points stay.
Crash ==
    /\ up # "down" /\ crashes < MaxCrashes
    /\ crashes' = crashes + 1 /\ up' = "down"
    /\ stale' = [l \in Leases |-> stale[l] \/ live[l] # 0]
    /\ live' = [l \in Leases |-> 0] /\ children' = [l \in Leases |-> 0]
    /\ proc' = [p \in Handlers \cup {Recoverer} |-> Idle] /\ todo' = {}
    /\ holder' = [l \in Leases |-> NoClient]
    /\ UNCHANGED <<journal, child, ws, record, attaches, alive, kept, gone, users, disturbed>>

Start ==
    /\ up = "down" /\ up' = "starting"
    /\ UNCHANGED <<disk, live, attaches, children, proc, todo, alive, obs, crashes>>

ClientDies(c) ==
    /\ c \in alive /\ alive' = alive \ {c}
    /\ UNCHANGED <<disk, live, attaches, children, proc, todo, up, obs, crashes>>

-----------------------------------------------------------------------------
Requests(p, c) ==
    \E l \in Leases :
      \/ AcquireBegin(p, c, l) \/ HeartbeatBegin(p, c, l)
      \/ \E keep \in BOOLEAN : ReleaseBegin(p, c, l, keep)
      \/ AttachBegin(p, c, l) \/ RemoveBegin(p, c, l)

Acquire(p) == AcquireOwner(p) \/ AcquireCreate(p) \/ AcquireMount(p)
              \/ AcquireFails(p) \/ AcquireReady(p)
              \/ AcquireReadyFails(p) \/ Register(p)

Release(p) == WriteFails(p) \/ ReleaseMark(p) \/ NativeRelease(p) \/ NativeReleaseFails(p)
              \/ ReleaseRetain(p) \/ ReleaseRecord(p) \/ CleanupWorkspace(p)
              \/ Unlist(p) \/ Forget(p)

Retained(p) == Reattach(p) \/ ReattachFails(p) \/ AttachRewrite(p) \/ Unrecord(p)

Handle(p) == Acquire(p) \/ HeartbeatWrite(p) \/ Release(p) \/ Retained(p)

Recover == RecoverList \/ RecoverDone \/ RecoverKeep \/ RecoverAborts
           \/ \E l \in Leases : RecoverReap(l)

Next ==
    \/ \E p \in Handlers, c \in Clients : Requests(p, c)
    \/ \E p \in Handlers \cup {Recoverer} : Handle(p)
    \/ Recover \/ Crash \/ Start
    \/ \E c \in Clients : ClientDies(c)

Spec == Init /\ [][Next]_vars

\* Goroutines are scheduled, the service ticks and restarts, and the grace
\* period ends: a lease nobody updates cannot be young for ever.
FairSpec ==
    /\ Spec
    /\ WF_vars(Start) /\ WF_vars(Recover)
    /\ \A p \in Handlers \cup {Recoverer} : WF_vars(Handle(p))
    /\ \A l \in Leases : SF_vars(RecoverReap(l))

-----------------------------------------------------------------------------
(* Properties                                                              *)

\* "Live clients are preserved": the disk of a client that was told it has
\* the lease, is running and did not give the lease up stays attached.
LiveClientPreserved ==
    \A l \in Leases : holder[l] \in alive => child[l] /\ live[l] # 0

\* The same for a lease that one client alone sends requests about: whatever
\* its requests overlap with, the repeated Recover included, it keeps the
\* disk.  (Recover acts on journals it has listed before; one that names
\* another client can be older than the heartbeat of the client that has
\* the lease now.)
SoleClientServed ==
    \A l \in Leases :
        (\A b, c \in users[l] : b = c) /\ holder[l] \in alive => child[l] /\ live[l] # 0

\* "Retained leases are preserved": once a client was told that its child is
\* retained, the child, its journal and its record stay until a client asks
\* for their removal, across crashes and Recover.
RetainedPreserved ==
    \A l \in Leases : kept[l] = "yes" => child[l] /\ record[l] /\ journal[l].retained

\* The same for a lease on which no two goroutines worked at a time and which
\* no repeated Recover took up: whatever failed, in whatever order its
\* requests came, and however often the broker died and recovered.
UndisturbedRetained ==
    \A l \in Leases \ disturbed :
        kept[l] = "yes" => child[l] /\ record[l] /\ journal[l].retained

\* A handler that answers "released" has left no virtual disk behind, however
\* many failures, restarts and Recover passes came before.  (Except where a
\* client had also asked to retain the child: the session in the map may then
\* be one that has released without deleting, and answers nil at once.)
ReleasedMeansGone ==
    \A l \in Leases : gone[l] /\ kept[l] = "discarded" => ~child[l]

\* An attached disk can be released: its session is in the map or in the
\* hands of a goroutine.  A lost session keeps the disk attached until the
\* broker exits, and no Recover pass can attach it again.
NoLostSession ==
    \A l \in Leases : live[l] # 0 =>
        \/ children[l] = live[l]
        \/ \E p \in Handlers \cup {Recoverer} :
              proc[p].l = l /\ proc[p].s = live[l]

\* Every lease whose client is dead is reclaimed, or put aside as retained
\* or quarantined, by some Recover pass.
DeadLeaseSettles ==
    \A l \in Leases :
        (journal[l].client \in Clients \ alive)
            ~> (journal[l].state \in {"none", "quarantined"} \/ journal[l].retained)
=============================================================================
